-------------------------- MODULE LearnerCheckpoint --------------------------
(***************************************************************************)
(* src/share/scripts/learner_server.py: what the learner keeps on disk,    *)
(* the order save_training_checkpoint writes it in, and what a restarted   *)
(* learner makes of it.  A crash, or the shutdown event, which saves       *)
(* nothing, ends a session at any point.                                   *)
(*                                                                         *)
(* Buffers are abstracted to their number of rows, a checkpoint to whether *)
(* its optimizer state and step can be loaded and to the interaction step  *)
(* in its training_state.pt.                                               *)
(***************************************************************************)
EXTENDS Integers, FiniteSets, FiniteSetsExt

CONSTANTS
    Adaptive,
    Warmup,             \* online_step_before_learning
    BufferCapacity,     \* online_buffer_capacity
    Budget,             \* online_steps
    SaveFreq,           \* save_freq
    MaxTransitions,     \* bound: transitions a primitive collects over all sessions
    MaxCrashes,         \* bound: sessions that end early
    None                \* no file, no message

InteractionSteps == 0..MaxTransitions

Checkpoints == [loadable : BOOLEAN, interaction_step : InteractionSteps \cup {None}]
Datasets == [rows : 1..BufferCapacity, finalized : BOOLEAN]

ASSUME CheckpointAssumption ==
    /\ Warmup \in Nat /\ MaxTransitions \in Nat /\ MaxCrashes \in Nat
    /\ BufferCapacity \in Nat \ {0} /\ SaveFreq \in Nat \ {0} /\ Budget \in Nat
    /\ None \notin Nat /\ None \notin Checkpoints /\ None \notin Datasets

VARIABLES
    pc,                 \* loading, training, saving, failed, finished
    optimization_steps, replay,         \* replay: rows of each online buffer
    interaction_step_offset,
    session_steps,      \* the actor's count of this session, which starts at 0
    last_messages,      \* interaction step last reported, None before the first report
    saving,             \* the primitive and the next write of save_training_checkpoint
    checkpoints,        \* disk: primitive -> step -> None or a checkpoint
    last,               \* disk: primitive -> the step the "last" link points to
    dataset,            \* disk: primitive -> None or its saved rows
    received,           \* history: transitions received over all sessions
    crashes

vars == <<pc, optimization_steps, replay, interaction_step_offset, session_steps,
          last_messages, saving, checkpoints, last, dataset, received, crashes>>

disk == <<checkpoints, last, dataset>>
memory == <<optimization_steps, replay, interaction_step_offset, session_steps, last_messages>>

Writes == {"checkpoint", "training_state", "link", "remove", "rows", "finalize"}

\* the first session, without resume
Init ==
    /\ pc = "training"
    /\ optimization_steps = [p \in Adaptive |-> 0]
    /\ replay = [p \in Adaptive |-> 0]
    /\ interaction_step_offset = [p \in Adaptive |-> 0]
    /\ session_steps = [p \in Adaptive |-> 0]
    /\ last_messages = [p \in Adaptive |-> None]
    /\ saving = None
    /\ checkpoints = [p \in Adaptive |-> [s \in 1..Budget |-> None]]
    /\ last = [p \in Adaptive |-> None]
    /\ dataset = [p \in Adaptive |-> None]
    /\ received = [p \in Adaptive |-> 0]
    /\ crashes = 0

-----------------------------------------------------------------------------
(* Restart                                                                 *)

\* utils_load_training_state finds its files
Loadable(p) == last[p] # None /\ checkpoints[p][last[p]].loadable

\* load_training_state: any primitive that cannot be loaded starts them all again
RestoredSteps ==
    IF \A p \in Adaptive : Loadable(p) THEN last ELSE [p \in Adaptive |-> 0]

RestoredOffset ==
    IF \A p \in Adaptive : Loadable(p)
       THEN [p \in Adaptive |-> checkpoints[p][last[p]].interaction_step]
       ELSE [p \in Adaptive |-> 0]

\* initialize_replay_buffers: no directory, the rows of a finished dataset, or whatever
\* can be read of one that was never finalized
RestoredRows(p) ==
    IF dataset[p] = None THEN {0}
    ELSE IF dataset[p].finalized THEN {dataset[p].rows} ELSE 0..dataset[p].rows

Load ==
    /\ pc = "loading"
    /\ \E rows \in [Adaptive -> 0..BufferCapacity] :
          /\ \A p \in Adaptive : rows[p] \in RestoredRows(p)
          /\ replay' = rows
    /\ optimization_steps' = RestoredSteps
    /\ interaction_step_offset' = RestoredOffset
    /\ session_steps' = [p \in Adaptive |-> 0]
    /\ last_messages' = [p \in Adaptive |-> None]
    /\ pc' = "training"
    /\ UNCHANGED <<saving, disk, received, crashes>>

\* LeRobotDataset raises on a directory it cannot read, and nothing catches it
LoadRaises ==
    /\ pc = "loading"
    /\ \E p \in Adaptive : dataset[p] # None /\ ~dataset[p].finalized
    /\ pc' = "failed"
    /\ UNCHANGED <<memory, saving, disk, received, crashes>>

-----------------------------------------------------------------------------
(* Training                                                                *)

\* process_transitions: one transition of p
Receive(p) ==
    /\ pc = "training" /\ received[p] < MaxTransitions
    /\ received' = [received EXCEPT ![p] = @ + 1]
    /\ session_steps' = [session_steps EXCEPT ![p] = @ + 1]
    /\ replay' = [replay EXCEPT ![p] = Min({@ + 1, BufferCapacity})]
    /\ UNCHANGED <<pc, optimization_steps, interaction_step_offset, last_messages, saving, disk,
                   crashes>>

\* process_interaction_messages: a segment of p was published
Report(p) ==
    /\ pc = "training" /\ session_steps[p] > 0
    /\ last_messages' = [last_messages EXCEPT
                           ![p] = session_steps[p] + interaction_step_offset[p]]
    /\ UNCHANGED <<pc, optimization_steps, replay, interaction_step_offset, session_steps,
                   saving, disk, received, crashes>>

MutUnlockedUpdates(p) == Max({0, replay[p] - Max({1, Warmup}) + 2})

UnlockedUpdates(p) == Max({0, replay[p] - Max({1, Warmup}) + 1})

MutSaveDue(step) == step >= Budget

MutSaveDueShort(step) == step % SaveFreq = 0

SaveDue(step) == step % SaveFreq = 0 \/ step >= Budget

FirstWrite == "checkpoint"

\* one SAC update, and the checkpoint that may follow it
Optimize(p) ==
    /\ pc = "training" /\ optimization_steps[p] < Budget
    /\ replay[p] >= Warmup
    /\ optimization_steps[p] < UnlockedUpdates(p)
    /\ optimization_steps' = [optimization_steps EXCEPT ![p] = @ + 1]
    /\ IF SaveDue(optimization_steps[p] + 1)
          THEN pc' = "saving" /\ saving' = [primitive |-> p, write |-> FirstWrite]
          ELSE UNCHANGED <<pc, saving>>
    /\ UNCHANGED <<replay, interaction_step_offset, session_steps, last_messages, disk,
                   received, crashes>>

Finish ==
    /\ pc = "training"
    /\ \A p \in Adaptive : optimization_steps[p] >= Budget
    /\ pc' = "finished"
    /\ UNCHANGED <<memory, saving, disk, received, crashes>>

-----------------------------------------------------------------------------
(* save_training_checkpoint                                                *)

MutWriteAfter(write) ==
    CASE write = "checkpoint"     -> "link"
      [] write = "link"           -> "training_state"
      [] write = "training_state" -> "remove"
      [] write = "remove"         -> "rows"
      [] write = "rows"           -> "finalize"

WriteAfter(write) ==
    CASE write = "checkpoint"     -> "training_state"
      [] write = "training_state" -> "link"
      [] write = "link"           -> "remove"
      [] write = "remove"         -> "rows"
      [] write = "rows"           -> "finalize"

Writing(write) == pc = "saving" /\ saving.write = write

Then ==
    /\ saving' = [saving EXCEPT !.write = WriteAfter(@)]
    /\ UNCHANGED <<pc, memory, received, crashes>>

Saved == saving.primitive
Step == optimization_steps[Saved]

\* save_checkpoint, or after an exception the fallback files, which nothing loads; a
\* directory that an earlier session filled keeps its files
WriteCheckpoint ==
    /\ Writing("checkpoint")
    /\ \E complete \in BOOLEAN :
          LET old == checkpoints[Saved][Step]
          IN  checkpoints' = [checkpoints EXCEPT ![Saved][Step] =
                 [loadable |-> complete \/ (old # None /\ old.loadable),
                  interaction_step |-> IF old = None THEN None ELSE old.interaction_step]]
    /\ Then
    /\ UNCHANGED <<last, dataset>>

WriteTrainingState ==
    /\ Writing("training_state")
    /\ checkpoints' = [checkpoints EXCEPT ![Saved][Step].interaction_step =
                          IF last_messages[Saved] = None THEN 0 ELSE last_messages[Saved]]
    /\ Then
    /\ UNCHANGED <<last, dataset>>

UpdateLastCheckpoint ==
    /\ Writing("link")
    /\ last' = [last EXCEPT ![Saved] = Step]
    /\ Then
    /\ UNCHANGED <<checkpoints, dataset>>

RemoveDataset ==
    /\ Writing("remove")
    /\ dataset' = [dataset EXCEPT ![Saved] = None]
    /\ Then
    /\ UNCHANGED <<checkpoints, last>>

\* add_frame and save_episode; an empty buffer is not saved
WriteRows ==
    /\ Writing("rows") /\ replay[Saved] > 0
    /\ dataset' = [dataset EXCEPT ![Saved] = [rows |-> replay[Saved], finalized |-> FALSE]]
    /\ Then
    /\ UNCHANGED <<checkpoints, last>>

FinalizeDataset ==
    /\ Writing("finalize")
    /\ dataset' = [dataset EXCEPT ![Saved].finalized = TRUE]
    /\ saving' = None
    /\ pc' = "training"
    /\ UNCHANGED <<memory, checkpoints, last, received, crashes>>

Save == \/ WriteCheckpoint \/ WriteTrainingState \/ UpdateLastCheckpoint
        \/ RemoveDataset \/ WriteRows \/ FinalizeDataset

\* the process dies, or the shutdown event ends the loop; the next session resumes
Crash ==
    /\ pc \in {"training", "saving"} /\ crashes < MaxCrashes
    /\ crashes' = crashes + 1
    /\ pc' = "loading"
    /\ saving' = None
    /\ UNCHANGED <<memory, disk, received>>

Next ==
    \/ Load \/ LoadRaises \/ Finish \/ Save \/ Crash
    \/ \E p \in Adaptive : Receive(p) \/ Report(p) \/ Optimize(p)

Spec == Init /\ [][Next]_vars

-----------------------------------------------------------------------------
(* Properties                                                              *)

\* Type invariant: steps within the budget, buffers within their capacity, and "last" a
\* link to a directory that exists.
TypeOK ==
    /\ pc \in {"loading", "training", "saving", "failed", "finished"}
    /\ optimization_steps \in [Adaptive -> 0..Budget]
    /\ replay \in [Adaptive -> 0..BufferCapacity]
    /\ interaction_step_offset \in [Adaptive -> InteractionSteps]
    /\ session_steps \in [Adaptive -> 0..MaxTransitions]
    /\ last_messages \in [Adaptive -> InteractionSteps \cup {None}]
    /\ saving \in {None} \cup [primitive : Adaptive, write : Writes]
    /\ checkpoints \in [Adaptive -> [1..Budget -> Checkpoints \cup {None}]]
    /\ last \in [Adaptive -> (1..Budget) \cup {None}]
    /\ dataset \in [Adaptive -> Datasets \cup {None}]
    /\ received \in [Adaptive -> 0..MaxTransitions]
    /\ crashes \in 0..MaxCrashes
    /\ \A p \in Adaptive : last[p] # None => checkpoints[p][last[p]] # None

\* "Allow at most one SAC optimizer call per online transition after warmup"
\* (learner_server.py:611), across crashes: what a restarted learner believes to have done
\* is backed by transitions it or an earlier session received, although the steps and the
\* replay rows come back from files written at different times.
UpdatesBackedAcrossRestarts ==
    \A p \in Adaptive :
        optimization_steps[p] <= Max({0, received[p] - Max({1, Warmup}) + 1})

\* "last" never names a checkpoint whose training_state.pt is missing, whenever the learner
\* dies: it would be resumed with its interaction steps silently at 0
\* (learner_server.py:1263-1267, 1364-1372).
LastIsComplete ==
    \A p \in Adaptive : last[p] # None => checkpoints[p][last[p]].interaction_step # None

\* A learner that reports its budgets as reached leaves the checkpoint of the last step of
\* every primitive behind, also when they were reached in different sessions
\* (learner_server.py:355-372).
FinishedIsSaved == pc = "finished" => \A p \in Adaptive : last[p] = Budget

\* What the next session would start from
Kept(p) == IF last[p] = None THEN 0 ELSE last[p]

\* A crash costs a primitive at most the updates since its last due save, provided the
\* others can be loaded: the load takes all primitives or none (learner_server.py:1255-1279).
CrashLosesLittle ==
    \A p \in Adaptive :
        (\A q \in Adaptive : Loadable(q) \/ (q = p /\ last[q] = None))
            => optimization_steps[p] - Kept(p) <= SaveFreq
=============================================================================
