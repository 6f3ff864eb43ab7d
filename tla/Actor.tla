-------------------------------- MODULE Actor --------------------------------
(***************************************************************************)
(* src/share/scripts/actor_server.py: the control loop of the actor.  The  *)
(* MP-Net (module MPNet) is its environment here: a step finishes a        *)
(* segment or not, and a reset leaves any primitive active.                *)
(*                                                                         *)
(* A segment is the time between two resets.  Its transitions are sent     *)
(* when it finishes, or one by one for a policy with                       *)
(* stream_transitions_immediately; a segment the operator rerecords is     *)
(* taken out of the count and its unsent transitions are dropped.          *)
(***************************************************************************)
EXTENDS Transport

CONSTANTS
    Scripted,           \* the primitives without a policy
    StartPrimitive,
    StreamImmediately,  \* SUBSET Adaptive
    Interventions,      \* the numbers of the steps in which the operator intervenes
    MaxEnvSteps         \* bound: the environment steps of a behaviour

ASSUME ActorAssumption ==
    /\ Adaptive \cap Scripted = {}
    /\ StartPrimitive \in Adaptive \cup Scripted
    /\ StreamImmediately \subseteq Adaptive
    /\ Interventions \subseteq Nat
    /\ MaxEnvSteps \in Nat

VARIABLES
    actor_pc,
    active_primitive,
    collection_counts,  \* adaptive primitive -> interaction steps
    pending, total_steps,   \* segment_state
    applied,            \* adaptive primitive -> version of the parameters it acts with
    env_steps,          \* environment steps taken; numbers the transitions
    rerecorded          \* history: the transitions the operator asked to record again

actor == <<actor_pc, active_primitive, collection_counts, pending, total_steps, applied,
           env_steps, rerecorded>>

Primitives == Adaptive \cup Scripted

ActorInit ==
    /\ actor_pc = "connecting"
    /\ active_primitive = StartPrimitive
    /\ collection_counts = [p \in Adaptive |-> 0]
    /\ pending = <<>> /\ total_steps = 0
    /\ applied = [p \in Adaptive |-> 0]
    /\ env_steps = 0
    /\ rerecorded = {}

-----------------------------------------------------------------------------
(* apply_parameter_updates_from_queue                                      *)

Updates(p) == {i \in DOMAIN parameters_queue : parameters_queue[i].id = p}

MutLatest(p) == parameters_queue[CHOOSE i \in Updates(p) : \A j \in Updates(p) : i <= j]

Latest(p) == parameters_queue[CHOOSE i \in Updates(p) : \A j \in Updates(p) : j <= i]

ApplyUpdates ==
    /\ applied' = [p \in Adaptive |-> IF Updates(p) = {} THEN applied[p] ELSE Latest(p).version]
    /\ parameters_queue' = <<>>

-----------------------------------------------------------------------------
(* run_actor                                                               *)

\* establish_learner_connection succeeded: the workers start
Connect ==
    /\ actor_pc = "connecting" /\ server = "up" /\ ~actor_shutdown
    /\ workers' = Workers
    /\ actor_pc' = IF StartPrimitive \in Adaptive THEN "warmup" ELSE "deciding"
    /\ UNCHANGED <<actor_end, learner_end, wire,
                   active_primitive, collection_counts, pending, total_steps, applied,
                   env_steps, rerecorded>>

\* its attempts ran out or the shutdown event was set: RuntimeError
GiveUp ==
    /\ actor_pc = "connecting" /\ (server # "up" \/ actor_shutdown)
    /\ actor_pc' = "failed"
    /\ UNCHANGED <<transport, active_primitive, collection_counts, pending, total_steps,
                   applied, env_steps, rerecorded>>

\* the wait for the first parameters, over when any arrive, at the deadline or at shutdown
WarmupApply ==
    /\ actor_pc = "warmup" /\ ~actor_shutdown /\ parameters_queue # <<>>
    /\ ApplyUpdates
    /\ actor_pc' = "deciding"
    /\ UNCHANGED <<transitions_queue, interactions_queue, actor_shutdown, learner_end, wire,
                   workers, active_primitive, collection_counts, pending, total_steps,
                   env_steps, rerecorded>>

WarmupTimeout ==
    /\ actor_pc = "warmup"
    /\ actor_pc' = "deciding"
    /\ UNCHANGED <<transport, active_primitive, collection_counts, pending, total_steps,
                   applied, env_steps, rerecorded>>

\* ProcessSignalHandler
ActorSignal ==
    /\ actor_pc \notin {"failed", "done"} /\ ~actor_shutdown
    /\ actor_shutdown' = TRUE
    /\ UNCHANGED <<transitions_queue, interactions_queue, parameters_queue, learner_end, wire,
                   workers, actor>>

\* the finally clause joined the three workers
Join ==
    /\ actor_pc = "joining" /\ workers = {}
    /\ actor_pc' = "done"
    /\ UNCHANGED <<transport, active_primitive, collection_counts, pending, total_steps,
                   applied, env_steps, rerecorded>>

-----------------------------------------------------------------------------
(* act_with_policy: one iteration is Decide, up to the action, and a step  *)

Decide ==
    /\ actor_pc = "deciding" /\ ~actor_shutdown /\ env_steps < MaxEnvSteps
    /\ ApplyUpdates
    /\ actor_pc' = "stepping"
    /\ UNCHANGED <<transitions_queue, interactions_queue, actor_shutdown, learner_end, wire,
                   workers, active_primitive, collection_counts, pending, total_steps,
                   env_steps, rerecorded>>

\* the loop ends; leaving act_with_policy sets the shutdown event in any case
LeaveLoop ==
    /\ actor_pc = "deciding" /\ actor_shutdown
    /\ actor_pc' = "joining"
    /\ UNCHANGED <<transport, active_primitive, collection_counts, pending, total_steps,
                   applied, env_steps, rerecorded>>

\* STOP_RECORDING breaks out before the step is counted: the open segment is never sent
StopRecording ==
    /\ actor_pc = "stepping"
    /\ actor_pc' = "joining"
    /\ env_steps' = env_steps + 1
    /\ actor_shutdown' = TRUE
    /\ UNCHANGED <<transitions_queue, interactions_queue, parameters_queue, learner_end, wire,
                   workers,
                   active_primitive, collection_counts, pending, total_steps, applied,
                   rerecorded>>

PolicyActs == active_primitive \in Adaptive
Streams == active_primitive \in StreamImmediately

\* the transition of this step
Recorded ==
    [n |-> env_steps + 1, id |-> active_primitive,
     is_intervention |-> (env_steps + 1) \in Interventions]

Batch(transitions) == IF transitions = <<>> THEN <<>> ELSE <<transitions>>

\* what a step of a policy sends at once, and what it leaves pending
Sent(t) == IF Streams THEN <<t>> ELSE <<>>
Kept(t) == IF Streams THEN pending ELSE Append(pending, t)

OpenSegment == pending' = <<>> /\ total_steps' = 0

\* a step that leaves the segment open
Advance ==
    /\ actor_pc = "stepping"
    /\ actor_pc' = "deciding"
    /\ env_steps' = env_steps + 1
    /\ IF PolicyActs
          THEN LET t == Recorded
               IN  /\ collection_counts' = [collection_counts EXCEPT ![active_primitive] = @ + 1]
                   /\ total_steps' = total_steps + 1
                   /\ transitions_queue' = transitions_queue \o Batch(Sent(t))
                   /\ pending' = Kept(t)
          ELSE UNCHANGED <<collection_counts, total_steps, transitions_queue, pending>>
    /\ UNCHANGED <<interactions_queue, parameters_queue, actor_shutdown, learner_end, wire, workers,
                   active_primitive, applied, rerecorded>>

\* done or truncated: publish_segment, apply the updates that came in, env.reset
FinishSegment(target) ==
    /\ actor_pc = "stepping"
    /\ actor_pc' = "deciding"
    /\ env_steps' = env_steps + 1
    /\ active_primitive' = target
    /\ OpenSegment
    /\ IF PolicyActs
          THEN LET t == Recorded
                   count == collection_counts[active_primitive] + 1
               IN  /\ collection_counts' = [collection_counts EXCEPT ![active_primitive] = count]
                   /\ transitions_queue' =
                         transitions_queue \o Batch(Sent(t)) \o Batch(Kept(t))
                   /\ interactions_queue' =
                         Append(interactions_queue, [id |-> active_primitive, step |-> count])
                   /\ ApplyUpdates
          ELSE UNCHANGED <<collection_counts, transitions_queue, interactions_queue,
                           applied, parameters_queue>>
    /\ UNCHANGED <<actor_shutdown, learner_end, wire, workers, rerecorded>>

MutUncounted(p) == 0

\* the count without the segment that is being rerecorded
Uncounted(p) == collection_counts[p] - total_steps

MutRerecord(target) ==
    /\ actor_pc = "stepping" /\ PolicyActs
    /\ actor_pc' = "deciding"
    /\ env_steps' = env_steps + 1
    /\ active_primitive' = target
    /\ OpenSegment
    /\ collection_counts' = [collection_counts EXCEPT
                                ![active_primitive] = Uncounted(active_primitive)]
    /\ rerecorded' = rerecorded \cup {pending[i].n : i \in DOMAIN pending} \cup {Recorded.n}
    /\ transitions_queue' = transitions_queue \o Batch(Sent(Recorded)) \o Batch(Kept(Recorded))
    /\ UNCHANGED <<interactions_queue, parameters_queue, actor_shutdown, learner_end, wire,
                   workers, applied>>

\* RERECORD_EPISODE, with or without done: the segment is not counted, what was streamed
\* has gone
Rerecord(target) ==
    /\ actor_pc = "stepping"
    /\ actor_pc' = "deciding"
    /\ env_steps' = env_steps + 1
    /\ active_primitive' = target
    /\ OpenSegment
    /\ IF PolicyActs
          THEN LET t == Recorded
               IN  /\ collection_counts' =
                         [collection_counts EXCEPT ![active_primitive] = Uncounted(active_primitive)]
                   /\ rerecorded' = rerecorded \cup {pending[i].n : i \in DOMAIN pending} \cup {t.n}
                   /\ transitions_queue' = transitions_queue \o Batch(Sent(t))
          ELSE UNCHANGED <<collection_counts, transitions_queue, rerecorded>>
    /\ UNCHANGED <<interactions_queue, parameters_queue, actor_shutdown, learner_end, wire, workers,
                   applied>>

ActorStep ==
    \/ Connect \/ GiveUp \/ WarmupApply \/ WarmupTimeout \/ ActorSignal \/ Join
    \/ Decide \/ LeaveLoop \/ StopRecording \/ Advance
    \/ \E target \in Primitives : FinishSegment(target) \/ Rerecord(target)
=============================================================================
