------------------------------- MODULE Learner -------------------------------
(***************************************************************************)
(* src/share/scripts/learner_server.py: the training loop of the learner.  *)
(* Each iteration empties the two inbound queues, takes at most one        *)
(* optimizer step per primitive, and pushes the actors' parameters when    *)
(* the push period has passed.  Checkpoints: module LearnerCheckpoint.     *)
(***************************************************************************)
EXTENDS Transport, FiniteSetsExt, SequencesExt

CONSTANTS
    Bc,                 \* SUBSET Adaptive: SACDaggerBCPolicy with training_mode "bc"
    Limited,            \* SUBSET Adaptive: limit_updates_to_online_transitions
    Warmup,             \* online_step_before_learning
    BufferCapacity,     \* online_buffer_capacity
    Budget,             \* online_steps
    Broken              \* the numbers of the transitions that hold NaN

ASSUME LearnerAssumption ==
    /\ IsFiniteSet(Adaptive) /\ Bc \subseteq Adaptive /\ Limited \subseteq Adaptive
    /\ Warmup \in Nat /\ Budget \in Nat /\ Broken \subseteq Nat
    /\ BufferCapacity \in Nat \ {0}

VARIABLES
    learner_pc,
    replay,             \* adaptive primitive -> its online buffer, oldest first
    offline,            \* adaptive primitive -> its offline buffer
    optimization_steps,
    last_messages       \* adaptive primitive -> interaction step last reported, 0 before

learner == <<learner_pc, replay, offline, optimization_steps, last_messages>>

LearnerInit ==
    /\ learner_pc = "building"
    /\ replay = [p \in Adaptive |-> <<>>]
    /\ offline = [p \in Adaptive |-> {}]
    /\ optimization_steps = [p \in Adaptive |-> 0]
    /\ last_messages = [p \in Adaptive |-> 0]

-----------------------------------------------------------------------------
(* push_all_actor_policies_to_queue: the parameters of p are those after   *)
(* its last optimizer step                                                 *)

Parameters(steps) == [i \in 1..Cardinality(Adaptive) |->
                 LET p == SetToSeq(Adaptive)[i]
                 IN  [id |-> p, version |-> steps[p]]]

PushAll(steps) == pushed' = pushed \o Parameters(steps)

RoomToPush == Len(pushed) + Cardinality(Adaptive) <= MaxPushed

AllFinished(steps) == \A p \in Adaptive : steps[p] >= Budget

\* the loop's condition
NextIteration(steps) ==
    IF learner_shutdown \/ AllFinished(steps)
       THEN learner_pc' = "done" /\ learner_shutdown' = TRUE
       ELSE learner_pc' = "transitions" /\ UNCHANGED learner_shutdown

\* the environment is built and closed, the buffers are set up, the first parameters go out
StartTraining ==
    /\ learner_pc = "building"
    /\ PushAll(optimization_steps)
    /\ NextIteration(optimization_steps)
    /\ UNCHANGED <<actor_end, transition_queue, interaction_message_queue, wire, workers,
                   replay, offline, optimization_steps, last_messages>>

-----------------------------------------------------------------------------
(* process_transitions and process_interaction_messages                    *)

Newest(buffer) == SubSeq(buffer, Max({1, Len(buffer) - BufferCapacity + 1}), Len(buffer))

\* the items of seq that are in S, in their order
Select(seq, S) ==
    LET kept[i \in 0..Len(seq)] ==
            IF i = 0 THEN <<>>
            ELSE IF seq[i] \in S THEN Append(kept[i - 1], seq[i])
                                 ELSE kept[i - 1]
    IN  kept[Len(seq)]

\* the transitions that go into p's buffer: those that hold NaN are skipped
Usable(p) == [n : Nat \ Broken, id : {p}, is_intervention : BOOLEAN]

Of(p, batch) == Select(batch, Usable(p))

\* how many of the waiting items an iteration takes: all, or those before a shutdown
Takes(queue, k) == k \in 0..Len(queue) /\ (k < Len(queue) => learner_shutdown)

ProcessTransitions(k) ==
    /\ learner_pc = "transitions"
    /\ Takes(transition_queue, k)
    /\ LET taken == FlattenSeq(SubSeq(transition_queue, 1, k))
       IN  /\ replay' = [p \in Adaptive |-> Newest(replay[p] \o Of(p, taken))]
           /\ offline' = [p \in Adaptive |->
                             offline[p] \cup {t \in ToSet(Of(p, taken)) : t.is_intervention}]
    /\ transition_queue' = SubSeq(transition_queue, k + 1, Len(transition_queue))
    /\ learner_pc' = "messages"
    /\ UNCHANGED <<actor_end, interaction_message_queue, pushed, learner_shutdown, wire,
                   workers, optimization_steps, last_messages>>

\* where the messages of p are
Reports(p, messages) == {i \in DOMAIN messages : messages[i].id = p}

ProcessMessages(k) ==
    /\ learner_pc = "messages"
    /\ Takes(interaction_message_queue, k)
    /\ LET taken == SubSeq(interaction_message_queue, 1, k)
       IN  last_messages' = [p \in Adaptive |->
                                IF Reports(p, taken) = {} THEN last_messages[p]
                                ELSE taken[Max(Reports(p, taken))].step]
    /\ interaction_message_queue' = SubSeq(interaction_message_queue, k + 1,
                                           Len(interaction_message_queue))
    /\ learner_pc' = "optimize"
    /\ UNCHANGED <<actor_end, transition_queue, pushed, learner_shutdown, wire, workers,
                   replay, offline, optimization_steps>>

-----------------------------------------------------------------------------
(* One optimizer step for every primitive whose gate is open               *)

\* _unlocked_sac_update_count
UnlockedUpdates(p) == Max({0, Len(replay[p]) - Max({1, Warmup}) + 1})

MutOpen(p) ==
    /\ optimization_steps[p] < Budget
    /\ IF p \in Bc THEN offline[p] # {} ELSE Len(replay[p]) >= Warmup

\* the gate of add_actor_information_and_train
Open(p) ==
    /\ optimization_steps[p] < Budget
    /\ IF p \in Bc THEN offline[p] # {}
                   ELSE /\ Len(replay[p]) >= Warmup
                        /\ p \in Limited => optimization_steps[p] < UnlockedUpdates(p)

Optimize ==
    /\ learner_pc = "optimize"
    /\ optimization_steps' = [p \in Adaptive |-> IF Open(p) THEN optimization_steps[p] + 1
                                                            ELSE optimization_steps[p]]
    /\ NextIteration(optimization_steps')
    /\ UNCHANGED <<actor_end, transition_queue, interaction_message_queue, wire, workers,
                   replay, offline, last_messages>>

\* the push period has passed
OptimizeAndPush == Optimize /\ RoomToPush /\ PushAll(optimization_steps')

\* it has not
OptimizeOnly == Optimize /\ UNCHANGED pushed

LearnerSignal ==
    /\ ~learner_shutdown
    /\ learner_shutdown' = TRUE
    /\ UNCHANGED <<actor_end, transition_queue, interaction_message_queue, pushed, wire,
                   workers, learner>>

LearnerLoop ==
    \/ StartTraining
    \/ \E k \in 0..Len(transition_queue) : ProcessTransitions(k)
    \/ \E k \in 0..Len(interaction_message_queue) : ProcessMessages(k)
    \/ OptimizeOnly

LearnerStep == LearnerLoop \/ OptimizeAndPush \/ LearnerSignal
=============================================================================
