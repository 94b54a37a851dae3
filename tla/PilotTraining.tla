----------------------------- MODULE PilotTraining -----------------------------
(***************************************************************************)
(* Pilot training runs: the frozen order of the training crops, updates of *)
(* several batches, checkpoints, and the three ways to begin: anew, from a *)
(* checkpoint of the same experiment, or as a fork of another one          *)
(* (pilot_training*.py, pilot_sampler.py).  A network is known by what it  *)
(* has learned from, in order.  How a checkpoint is written and which ones *)
(* are kept is TrainingBudget's subject: here a save is one step.          *)
(***************************************************************************)
EXTENDS Integers, Sequences, FiniteSets, Functions

CONSTANTS
    Photos,           \* training_examples, 1 .. n
    PhysicalBatch,    \* physical_batch_size
    Accumulation,     \* effective_batch_size // physical_batch_size
    PlannedSteps,     \* planned_optimizer_steps
    PilotNames,       \* experiment_identifier
    Trainers,         \* command-line processes
    MaxStarts         \* bound: runs

VARIABLES
    saves,     \* the checkpoints of each experiment
    touched,   \* whose checkpoint directory holds anything
    trainer,   \* the run of each process
    starts     \* counts runs

pilotRunVars == <<saves, touched, trainer, starts>>

EffectiveBatch == PhysicalBatch * Accumulation

ASSUME PilotTrainingAssumption ==
    /\ Photos = 1..Cardinality(Photos) /\ Photos # {}
    /\ {PhysicalBatch, Accumulation, PlannedSteps} \subseteq Nat \ {0}
    /\ MaxStarts \in Nat

-----------------------------------------------------------------------------
(* PilotSampler *)

\* What the generator answers depends on its seed, which is frozen, and on how often it was
\* asked; any such function will do
Shuffled(order, draws) ==
    [i \in DOMAIN order |-> order[((i + draws) % Len(order)) + 1]]

FirstOrder == Shuffled([i \in Photos |-> i], 0)
FreshSampler == [order |-> FirstOrder, epoch |-> 0, position |-> 0, consumed |-> 0, draws |-> 1]

\* the next epoch begins when a crop is wanted and none is left
Turned(s) ==
    IF s.position = Len(s.order)
    THEN [s EXCEPT !.order = Shuffled(@, s.draws), !.epoch = @ + 1, !.position = 0,
                   !.draws = @ + 1]
    ELSE s

Consume(s) == [Turned(s) EXCEPT !.position = @ + 1, !.consumed = @ + 1, !.draws = @ + 1]

\* after[n] is the sampler n crops after s, and crop[n] the n-th of these crops
After(s, count) == LET after[n \in 0..count] == IF n = 0 THEN s ELSE Consume(after[n - 1])
                   IN after
Crop(s) == LET t == Turned(s) IN <<t.order[t.position + 1], t.draws>>

\* a batch, and the message bits drawn for it from the other generator
BatchOf(s, payload) ==
    LET after == After(s, PhysicalBatch)
    IN [n \in 1..PhysicalBatch |-> <<Crop(after[n - 1]), payload>>]

-----------------------------------------------------------------------------
(* Sessions and checkpoints *)

\* the critic, off or known by the updates it has learned from
NoCritic == <<>>
Critic(on) == IF on THEN <<0>> ELSE NoCritic
CriticLearns(critic) == IF critic = NoCritic THEN NoCritic ELSE <<critic[1] + 1>>

Fresh == [step |-> 0, sampler |-> FreshSampler, payload |-> 0, learned |-> <<>>]

Idle == [pc |-> "none", name |-> "", mode |-> "new", target |-> 0, state |-> Fresh,
         critic |-> NoCritic, gradients |-> <<>>, batches |-> 0]

Trains(t, pc) == trainer[t].pc = pc
Occupied(e) == \E t \in Trainers : ~Trains(t, "none") /\ trainer[t].name = e

\* train_pilot: one run per experiment, and only a resume reuses a directory
StartPilot(t, e, mode, critic, target) ==
    /\ Trains(t, "none") /\ ~Occupied(e)
    /\ mode # "resume" => ~touched[e]
    /\ starts < MaxStarts /\ starts' = starts + 1
    /\ trainer' = [trainer EXCEPT ![t] =
           [Idle EXCEPT !.pc = IF mode = "new" THEN "train" ELSE "load", !.name = e,
                        !.mode = mode, !.target = target, !.critic = Critic(critic)]]
    /\ UNCHANGED <<saves, touched>>

\* which checkpoint suits: the same experiment with the same critic settings, or another
\* experiment's with any
Suits(session, e, c) ==
    IF session.mode = "resume" THEN session.name = e /\ (session.critic = NoCritic) = (c.critic = NoCritic)
                               ELSE session.name # e

\* load_state_dict of the sampler: every crop counted is behind the position
SamplerAccepts(s) ==
    /\ s.consumed = s.epoch * Len(s.order) + s.position
    /\ s.position <= Len(s.order) /\ Range(s.order) = Photos

\* the critic, if both the run and the checkpoint have one
RestoredCritic(session, c) ==
    IF session.critic = NoCritic \/ c.critic = NoCritic THEN session.critic ELSE c.critic

\* a fault: the position of the sample stream comes back, the generators do not
FaultyRestored(session, c) ==
    [session EXCEPT !.state = [c.state EXCEPT !.payload = 0], !.critic = RestoredCritic(session, c)]

\* networks, optimizer, generators, sampler and step
Restored(session, c) ==
    [session EXCEPT !.state = c.state, !.critic = RestoredCritic(session, c)]

LoadPilot(t) ==
    /\ Trains(t, "load")
    /\ \E e \in PilotNames : \E c \in saves[e] :
           /\ Suits(trainer[t], e, c)
           /\ c.state.step <= trainer[t].target
           /\ SamplerAccepts(c.state.sampler)
           /\ c.state.sampler.consumed = c.state.step * EffectiveBatch
           /\ trainer' = [trainer EXCEPT ![t] = [Restored(@, c) EXCEPT !.pc = "train"]]
    /\ UNCHANGED <<saves, touched, starts>>

\* an unknown or unsuitable checkpoint, an unreadable image, a deadline within a batch,
\* values that are not finite, a failed save, a kill: what was not saved is lost
EndPilot(t) ==
    /\ ~Trains(t, "none")
    /\ trainer' = [trainer EXCEPT ![t] = Idle]
    /\ UNCHANGED <<saves, touched, starts>>

Unfinished(session) == session.gradients # <<>>

\* one pass of the loop in pilot_training_step; the first one begins an update
TakeBatch(t) ==
    LET session == trainer[t]
        s == session.state IN
    /\ Trains(t, "train") /\ session.batches < Accumulation
    /\ Unfinished(session) \/ s.step < session.target
    /\ trainer' = [trainer EXCEPT
           ![t].gradients = @ \o BatchOf(s.sampler, s.payload),
           ![t].state.sampler = After(s.sampler, PhysicalBatch)[PhysicalBatch],
           ![t].state.payload = @ + 1,
           ![t].batches = @ + 1]
    /\ UNCHANGED <<saves, touched, starts>>

CommitUpdate(t) ==
    /\ Trains(t, "train") /\ trainer[t].batches = Accumulation
    /\ trainer' = [trainer EXCEPT
           ![t].state.learned = @ \o trainer[t].gradients,
           ![t].state.step = @ + 1,
           ![t].critic = CriticLearns(@),
           ![t].gradients = <<>>, ![t].batches = 0]
    /\ UNCHANGED <<saves, touched, starts>>

\* a stop or the deadline is seen between two updates; so is the planned end
LeavePilotLoop(t) ==
    /\ Trains(t, "train") /\ ~Unfinished(trainer[t])
    /\ trainer' = [trainer EXCEPT ![t].pc = "save"]
    /\ UNCHANGED <<saves, touched, starts>>

\* the lock file of the first save stays in the directory, whatever comes of it
TouchDirectory(t) ==
    /\ \/ Trains(t, "train") /\ ~Unfinished(trainer[t]) /\ trainer[t].state.step > 0
       \/ Trains(t, "save")
    /\ ~touched[trainer[t].name]
    /\ touched' = [touched EXCEPT ![trainer[t].name] = TRUE]
    /\ UNCHANGED <<saves, trainer, starts>>

\* all that a checkpoint holds, the generators as they stand
Snapshot(session) == [state |-> session.state, critic |-> session.critic]

\* save_pilot_session, after a validation or five minutes, and at the end; older
\* checkpoints may go
SavePilot(t) ==
    LET session == trainer[t]
        e == session.name IN
    /\ \/ Trains(t, "train") /\ ~Unfinished(session) /\ session.state.step > 0
          /\ UNCHANGED trainer
       \/ Trains(t, "save") /\ trainer' = [trainer EXCEPT ![t] = Idle]
    /\ touched[e]
    /\ \E kept \in SUBSET saves[e] : saves' = [saves EXCEPT ![e] = kept \cup {Snapshot(session)}]
    /\ UNCHANGED <<touched, starts>>

-----------------------------------------------------------------------------
PilotRunInit ==
    /\ saves = [e \in PilotNames |-> {}]
    /\ touched = [e \in PilotNames |-> FALSE]
    /\ trainer = [t \in Trainers |-> Idle]
    /\ starts = 0

PilotRunNext ==
    \E t \in Trainers :
        \/ \E e \in PilotNames, mode \in {"new", "resume", "fork"}, critic \in BOOLEAN,
              target \in 1..PlannedSteps : StartPilot(t, e, mode, critic, target)
        \/ LoadPilot(t) \/ TakeBatch(t) \/ CommitUpdate(t) \/ LeavePilotLoop(t)
        \/ TouchDirectory(t) \/ SavePilot(t) \/ EndPilot(t)

PilotRunSpec == PilotRunInit /\ [][PilotRunNext]_pilotRunVars

-----------------------------------------------------------------------------
(* Property *)

\* the crops and message bits of a run that nothing interrupts
LastCrop == PlannedSteps * EffectiveBatch
SamplerAfter == After(FreshSampler, LastCrop)
Uninterrupted == [n \in 1..LastCrop |-> <<Crop(SamplerAfter[n - 1]), (n - 1) \div PhysicalBatch>>]

\* plan/execution_order.md: "exact resume".  However often a run was stopped, lost, resumed
\* or forked, every checkpoint and every live run has learned from the crops and the message
\* bits that one uninterrupted run of the frozen profile would have seen, in that order, and
\* goes on from there; a checkpoint never holds a part of an update, and a critic has
\* learned from no update that its network has not.
ResumeIsExact ==
    LET Exact(state, gradients) ==
            LET seen == state.learned \o gradients IN
            /\ seen = SubSeq(Uninterrupted, 1, Len(seen))
            /\ state.sampler = SamplerAfter[Len(seen)]
            /\ state.payload * PhysicalBatch = Len(seen)
            /\ Len(state.learned) = state.step * EffectiveBatch
        Sound(critic, step) == critic # NoCritic => critic[1] <= step
    IN /\ \A e \in PilotNames : \A c \in saves[e] : Exact(c.state, <<>>) /\ Sound(c.critic, c.state.step)
       /\ \A t \in Trainers : Exact(trainer[t].state, trainer[t].gradients)
                              /\ Sound(trainer[t].critic, trainer[t].state.step)
=============================================================================
