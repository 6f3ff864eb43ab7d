-------------------------------- MODULE MPNet --------------------------------
(***************************************************************************)
(* src/share/envs/manipulation_primitive_net/                              *)
(* env_manipulation_primitive_net.py: the state machine that runs one      *)
(* manipulation primitive at a time, evaluates the outgoing edges of the   *)
(* active one after every step, enters the target of the first edge that   *)
(* fires, and walks from the reset primitive to the start primitive on a   *)
(* full reset.                                                             *)
(*                                                                         *)
(* Poses are abstracted to the task frame they are expressed in.  What a   *)
(* primitive computes on entry (move_delta, open_loop_trajectory, zero_ft) *)
(* is right exactly when the origin in its entry context is the origin of  *)
(* the frame the context's observation was expressed in: the fields        *)
(* origin and obs_origin of an entry.                                      *)
(***************************************************************************)
EXTENDS Integers, Sequences, FiniteSets

CONSTANTS
    Primitives, Start, ResetPrimitive,
    Terminals,          \* is_terminal = True
    Edges,              \* source -> sequence of [target, kind, limit], in config order
    Origins,            \* primitive -> origin of its task frame
    PublishesOrigin,    \* the robot reports the live origin in its observation (UR and
                        \* mujoco do, HRCrobot does not)
    NoPrimitive, NoContext,
    MaxSteps            \* the two step counters saturate here, above every limit

EdgeKinds == {"always", "event", "primitive_limit", "episode_limit"}

ASSUME NetAssumption ==
    /\ Start \in Primitives /\ ResetPrimitive \in Primitives
    /\ Terminals \subseteq Primitives
    /\ Edges \in [Primitives -> Seq([target : Primitives, kind : EdgeKinds, limit : Nat])]
    /\ PublishesOrigin \in BOOLEAN
    /\ MaxSteps \in Nat
    /\ NoPrimitive \notin Primitives

VARIABLES
    active,                 \* _active
    needs_full_reset,       \* _needs_full_reset
    episode_step_count, primitive_step_count,
    pending_entry_context,  \* _pending_entry_context
    last_stepped,           \* _last_stepped_primitive
    walking,                \* inside _step_reset_path_until_start
    entry,                  \* the context the active primitive was entered with last
    robot_frame,            \* the primitive whose task frame the robots hold
    holding                 \* the robots hold the zero-motion frame that stop() sent

vars == <<active, needs_full_reset, episode_step_count, primitive_step_count,
          pending_entry_context, last_stepped, walking, entry, robot_frame, holding>>

Succ(p) == {Edges[p][i].target : i \in DOMAIN Edges[p]}

Context == [kind : {"transition", "rebuilt"}, source : Primitives \cup {NoPrimitive},
            origin : {Origins[p] : p \in Primitives},
            obs_origin : {Origins[p] : p \in Primitives}]

\* __init__: every primitive's env applied its frame when it was built, in any order
Init ==
    /\ active = ResetPrimitive
    /\ needs_full_reset = TRUE
    /\ episode_step_count = 0 /\ primitive_step_count = 0
    /\ pending_entry_context = NoContext
    /\ last_stepped = NoPrimitive
    /\ walking = FALSE
    /\ entry = NoContext
    /\ robot_frame \in Primitives
    /\ holding = FALSE

-----------------------------------------------------------------------------
(* Entering a primitive                                                    *)

\* observed_task_frame_origins(obs, fallback): what the observation reports, else the
\* static origin of the primitive the caller believes it belongs to
ObservedOrigin(obs_frame, believed) ==
    IF PublishesOrigin THEN Origins[obs_frame] ELSE Origins[believed]

\* _step_env_and_check_transitions, step 6: the context packed by an edge that fired
TransitionContext(source) ==
    [kind |-> "transition", source |-> source, origin |-> ObservedOrigin(source, source),
     obs_origin |-> Origins[source]]

\* _enter_active_primitive with entry_context=None: the observation is the one env.reset
\* just took in the target's own frame, the origin that of the primitive stepped last
RebuiltContext(target, stepped) ==
    [kind |-> "rebuilt", source |-> stepped,
     origin |-> ObservedOrigin(target, IF stepped = NoPrimitive THEN target ELSE stepped),
     obs_origin |-> Origins[target]]

MutEnterSkipsFrames(target, context, stepped) ==
    /\ active' = target
    /\ entry' = IF context = NoContext THEN RebuiltContext(target, stepped) ELSE context
    /\ UNCHANGED <<robot_frame, holding>>
    /\ pending_entry_context' = NoContext

\* env.reset, on_entry and apply_task_frames of the target
Enter(target, context, stepped) ==
    /\ active' = target
    /\ entry' = IF context = NoContext THEN RebuiltContext(target, stepped) ELSE context
    /\ robot_frame' = target
    /\ holding' = FALSE
    /\ pending_entry_context' = NoContext

-----------------------------------------------------------------------------
(* One step of the active primitive                                        *)

Count(n) == IF n < MaxSteps THEN n + 1 ELSE n

\* info["step"] and info["episode_step"] are the counts after this step
MutHolds(edge, occurs) ==
    CASE edge.kind = "always"          -> TRUE
      [] edge.kind = "event"           -> occurs
      [] edge.kind = "primitive_limit" -> primitive_step_count >= edge.limit
      [] edge.kind = "episode_limit"   -> episode_step_count >= edge.limit

Holds(edge, occurs) ==
    CASE edge.kind = "always"          -> TRUE
      [] edge.kind = "event"           -> occurs    \* events, thresholds, classifiers, poses
      [] edge.kind = "primitive_limit" -> Count(primitive_step_count) >= edge.limit
      [] edge.kind = "episode_limit"   -> Count(episode_step_count) >= edge.limit

\* the edges of the active primitive that fire when the events of `occurring` occur
Fired(occurring) == {i \in DOMAIN Edges[active] : Holds(Edges[active][i], i \in occurring)}

First(indices) == {i \in indices : \A j \in indices : i <= j}

MutStepActiveUncounted(occurring) ==
    /\ episode_step_count' = Count(episode_step_count)
    /\ last_stepped' = active
    /\ primitive_step_count' = 0
    /\ \/ /\ Fired(occurring) = {}
          /\ robot_frame' = active
          /\ holding' = FALSE
          /\ UNCHANGED <<active, entry, pending_entry_context>>
       \/ \E i \in First(Fired(occurring)) :
             Enter(Edges[active][i].target, TransitionContext(active), active)

\* _step_env_and_check_transitions: the first edge that fires is taken, and its target is
\* entered at once with the context just packed
StepActive(occurring) ==
    /\ episode_step_count' = Count(episode_step_count)
    /\ last_stepped' = active
    /\ \/ /\ Fired(occurring) = {}
          /\ primitive_step_count' = Count(primitive_step_count)
          /\ robot_frame' = active
          /\ holding' = FALSE
          /\ UNCHANGED <<active, entry, pending_entry_context>>
       \/ \E i \in First(Fired(occurring)) :
             /\ primitive_step_count' = 0
             /\ Enter(Edges[active][i].target, TransitionContext(active), active)

MutStepForgetsTerminal(occurring) ==
    /\ ~walking /\ ~needs_full_reset
    /\ StepActive(occurring)
    /\ needs_full_reset' = (needs_full_reset \/ active \in Terminals)
    /\ UNCHANGED walking

\* step(): refused (RuntimeError) while a full reset is due
Step(occurring) ==
    /\ ~walking /\ ~needs_full_reset
    /\ StepActive(occurring)
    /\ needs_full_reset' = (needs_full_reset \/ active' \in Terminals)
    /\ UNCHANGED walking

-----------------------------------------------------------------------------
(* reset()                                                                 *)

MutReenterUncounts ==
    /\ ~walking /\ ~needs_full_reset
    /\ primitive_step_count' = primitive_step_count - 1
    /\ Enter(active, pending_entry_context, last_stepped)
    /\ UNCHANGED <<needs_full_reset, episode_step_count, last_stepped, walking>>

\* reset() without a full reset pending: the active primitive is entered (again)
ReenterActive ==
    /\ ~walking /\ ~needs_full_reset
    /\ primitive_step_count' = 0
    /\ Enter(active, pending_entry_context, last_stepped)
    /\ UNCHANGED <<needs_full_reset, episode_step_count, last_stepped, walking>>

MutFullResetClearsFlag ==
    /\ ~walking /\ needs_full_reset
    /\ primitive_step_count' = 0
    /\ Enter(ResetPrimitive, NoContext, last_stepped)
    /\ walking' = (ResetPrimitive # Start)
    /\ needs_full_reset' = FALSE
    /\ episode_step_count' = 0
    /\ UNCHANGED last_stepped

\* _full_reset up to step 4: every other primitive's env is reset (and applies its frame)
\* before the reset primitive is entered
FullReset ==
    /\ ~walking /\ needs_full_reset
    /\ primitive_step_count' = 0
    /\ Enter(ResetPrimitive, NoContext, last_stepped)
    /\ walking' = (ResetPrimitive # Start)
    /\ needs_full_reset' = (ResetPrimitive # Start)
    /\ episode_step_count' = IF ResetPrimitive = Start THEN 0 ELSE episode_step_count
    /\ UNCHANGED last_stepped

\* one iteration of _step_reset_path_until_start; terminals are stepped like the others.
\* (The re-entry in its body needs a pending context, which entering has just cleared.)
ResetPathStep(occurring) ==
    /\ walking /\ active # Start
    /\ StepActive(occurring)
    /\ UNCHANGED <<needs_full_reset, walking>>

MutFinishKeepsEpisodeCount ==
    /\ walking /\ active = Start
    /\ Enter(Start, pending_entry_context, last_stepped)
    /\ walking' = FALSE
    /\ needs_full_reset' = FALSE
    /\ UNCHANGED <<primitive_step_count, last_stepped, episode_step_count>>

\* the walk arrived: the start primitive is entered once more and the counters restart
FinishReset ==
    /\ walking /\ active = Start
    /\ Enter(Start, pending_entry_context, last_stepped)
    /\ walking' = FALSE
    /\ needs_full_reset' = FALSE
    /\ episode_step_count' = 0
    /\ UNCHANGED <<primitive_step_count, last_stepped>>

-----------------------------------------------------------------------------
RequestFullReset ==
    /\ ~walking
    /\ needs_full_reset' = TRUE
    /\ UNCHANGED <<active, episode_step_count, primitive_step_count, pending_entry_context,
                   last_stepped, walking, entry, robot_frame, holding>>

\* stop(): hold still in the frame of the primitive that sent the latest command
Stop ==
    /\ ~walking
    /\ robot_frame' = IF last_stepped = NoPrimitive THEN active ELSE last_stepped
    /\ holding' = TRUE
    /\ UNCHANGED <<active, needs_full_reset, episode_step_count, primitive_step_count,
                   pending_entry_context, last_stepped, walking, entry>>

Reset == ReenterActive \/ FullReset \/ FinishReset

Next ==
    \/ \E occurring \in SUBSET DOMAIN Edges[active] : Step(occurring) \/ ResetPathStep(occurring)
    \/ Reset \/ RequestFullReset \/ Stop

Spec == Init /\ [][Next]_vars

\* The walk inside reset() runs by itself, event or no event; nothing obliges the caller to
\* step, to reset or to request anything.
FairSpec == Spec /\ WF_vars(ResetPathStep({})) /\ WF_vars(FinishReset)

-----------------------------------------------------------------------------
(* Properties                                                              *)

\* The fields of the environment keep their types.
TypeOK ==
    /\ active \in Primitives
    /\ needs_full_reset \in BOOLEAN /\ walking \in BOOLEAN /\ holding \in BOOLEAN
    /\ episode_step_count \in Nat /\ primitive_step_count \in Nat
    /\ pending_entry_context \in Context \cup {NoContext}
    /\ entry \in Context \cup {NoContext}
    /\ last_stepped \in Primitives \cup {NoPrimitive}
    /\ robot_frame \in Primitives

\* A terminal primitive is never the one the caller may step next, however the walk, the
\* re-entries and the requested resets followed each other (step 171-173, reset 189-195).
TerminalNeverStepped == active \in Terminals \ {Start} => needs_full_reset

\* A step limit bounds the steps of one stay in a primitive: the net leaves a primitive by
\* the time its count reaches a primitive_limit edge, whatever the other edges do and
\* however often it was re-entered (OnTimeLimit 201-224, the counters 173-195, 260-261).
TimeLimitHonoured ==
    \A i \in DOMAIN Edges[active] :
        Edges[active][i].kind = "primitive_limit" /\ Edges[active][i].limit > 0
            => primitive_step_count < Edges[active][i].limit

\* reset() hands over an episode that has not begun: at the start primitive, both counters
\* at zero, although the reset path may have stepped through many primitives.
CleanStart ==
    [][walking /\ ~walking' => /\ active' = Start /\ ~needs_full_reset'
                               /\ episode_step_count' = 0 /\ primitive_step_count' = 0]_vars

\* Whenever the caller has control, the robots hold the frame of the active primitive, or
\* the motionless frame of stop(): also after a full reset, which applies every frame.
LiveFrame == ~holding /\ ~needs_full_reset => robot_frame = active

\* "so that the pose carries over between primitives with geometric rigour"
\* (resolve_entry_start_pose, utils.py 128-132): the origin in an entry context is the one
\* its observation was expressed in.  A robot that reports its live origin makes it so by
\* construction; the claim is about the others, whose origin is the one the net believes.
FrameContinuity == entry # NoContext => entry.origin = entry.obs_origin

\* reset() returns: the walk along the reset path reaches the start primitive.
ResetTerminates == walking ~> ~walking

\* Every episode the caller sees is a walk along the edges from the start primitive.
Graph == INSTANCE PrimitiveGraph
    WITH NoNode <- NoPrimitive,
         node <- IF needs_full_reset THEN NoPrimitive ELSE active

WalksGraph == Graph!Spec
=============================================================================
