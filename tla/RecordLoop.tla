------------------------------ MODULE RecordLoop ------------------------------
(***************************************************************************)
(* src/share/scripts/record.py: offline recording.  record() calls         *)
(* record_loop() again and again; one record_loop resets the MP-Net        *)
(* (MPNet, whose operations are composed here in the order the script      *)
(* calls them), steps it until an episode or a segment ends, and leaves    *)
(* the frames in the buffers of the primitives' datasets, which record()   *)
(* then saves, clears or abandons.                                         *)
(*                                                                         *)
(* A frame is abstracted to the primitive that was stepped and the number  *)
(* of the step within its record_loop.                                     *)
(***************************************************************************)
EXTENDS MPNet

CONSTANTS
    Recorded,           \* the adaptive primitives with a dataset
    Modes,              \* how the script may be run, see ModeAssumption
    NumEpisodes,        \* dataset.num_episodes
    OperatorEvents,     \* which of STOP_RECORDING, RERECORD_EPISODE, FAILURE the operator uses
    MaxLoopSteps        \* bound: by then something ends a record_loop

\* policy: use_policy, and the primitives of Recorded have one; without it every step is
\* an intervention.  corrections: save_only_interventions.  stop_after_terminal
ASSUME ModeAssumption ==
    /\ Recorded \subseteq Primitives \ {ResetPrimitive}
    /\ Modes \subseteq [policy : BOOLEAN, corrections : BOOLEAN, stop_after_terminal : BOOLEAN]
    /\ OperatorEvents \subseteq {"STOP_RECORDING", "RERECORD_EPISODE", "FAILURE"}
    /\ {NumEpisodes, MaxLoopSteps} \subseteq Nat \ {0}

VARIABLES
    mode,
    recorder,           \* where record() is, the step of this loop, the events of its last info
    intervened,         \* _intervention_occurred of each primitive's action processor
    buffers,            \* the episode_buffer of each dataset
    saved               \* num_episodes of each dataset, saturating at NumEpisodes

recordVars == <<mode, recorder, intervened, buffers, saved>>

RecordInit ==
    /\ Init
    /\ mode \in Modes
    /\ recorder = [pc |-> "idle", step |-> 0, events |-> {}]
    /\ intervened = [p \in Primitives |-> FALSE]
    /\ buffers = [p \in Recorded |-> <<>>]
    /\ saved = [p \in Recorded |-> 0]

Recording(pc) == recorder.pc = pc
RecordGoto(pc) == recorder' = [recorder EXCEPT !.pc = pc]

\* the flags after a step of the active primitive, whose processor notes the intervention; the
\* primitive an edge enters has its processors reset, also when it is the same one
FlagsAfter(occurring, intervening) ==
    LET entered == {Edges[active][i].target : i \in First(Fired(occurring))}
    IN  [p \in Primitives |-> p \notin entered /\ IF p = active THEN intervening ELSE intervened[p]]

-----------------------------------------------------------------------------
(* record_loop: reset                                                      *)

\* a full reset resets the processors of every primitive, a re-entry those of its own
CallReset ==
    /\ Recording("idle")
    /\ \/ ReenterActive /\ intervened' = [intervened EXCEPT ![active] = FALSE]
       \/ FullReset /\ intervened' = [p \in Primitives |-> FALSE]
    /\ recorder' = [pc |-> "resetting", step |-> 0, events |-> {}]
    /\ UNCHANGED <<mode, buffers, saved>>

\* the walk to the start primitive runs the action processors too
WalkInReset(occurring, intervening) ==
    /\ Recording("resetting")
    /\ mode.policy \/ intervening
    /\ ResetPathStep(occurring)
    /\ intervened' = FlagsAfter(occurring, intervening)
    /\ UNCHANGED <<mode, recorder, buffers, saved>>

ArriveInReset ==
    /\ Recording("resetting")
    /\ FinishReset
    /\ intervened' = [intervened EXCEPT ![Start] = FALSE]
    /\ UNCHANGED <<mode, recorder, buffers, saved>>

\* only the last info of the reset is looked at
ResetDone ==
    /\ Recording("resetting") /\ ~walking
    /\ \/ RecordGoto("acting")
       \/ /\ "STOP_RECORDING" \in OperatorEvents
          /\ recorder' = [recorder EXCEPT !.pc = "stopping", !.events = {"STOP_RECORDING"}]
    /\ UNCHANGED <<vars, mode, intervened, buffers, saved>>

-----------------------------------------------------------------------------
(* record_loop: one step of the environment and what is made of it         *)

MutSegmentFinished(intervening) == FALSE

\* the action processor reports INTERVENTION_COMPLETED; a primitive without a policy has none
\* to go back to
SegmentFinished(intervening) ==
    /\ mode.policy /\ mode.corrections /\ active \in Recorded
    /\ intervened[active] /\ ~intervening

\* dataset = datasets.get(mp_net.active_primitive), before the step
FrameOwner == active

Stored(intervening) ==
    IF FrameOwner \in Recorded /\ (~mode.corrections \/ intervening)
    THEN [buffers EXCEPT ![FrameOwner] = Append(@, [by |-> active, step |-> recorder.step + 1])]
    ELSE buffers

\* done or truncated: an edge fired
Ended(occurring) == Fired(occurring) # {}

MutActPc(occurring, intervening, events) ==
    IF SegmentFinished(intervening) \/ "STOP_RECORDING" \in events THEN "committing"
    ELSE IF Ended(occurring) \/ "RERECORD_EPISODE" \in events THEN "requesting"
    ELSE "acting"

\* what follows the step: leave at once, leave with a full reset requested, or go on
ActPc(occurring, intervening, events) ==
    IF SegmentFinished(intervening) \/ "STOP_RECORDING" \in events THEN "stopping"
    ELSE IF Ended(occurring) \/ "RERECORD_EPISODE" \in events THEN "requesting"
    ELSE "acting"

\* a step that leaves at once is not stored
RecordStep(occurring, intervening, events) ==
    LET pc == ActPc(occurring, intervening, events)
        leaves == SegmentFinished(intervening) \/ "STOP_RECORDING" \in events
    IN  /\ Recording("acting")
        /\ mode.policy \/ intervening
        /\ pc = "acting" => recorder.step + 1 < MaxLoopSteps
        /\ Step(occurring)
        /\ intervened' = FlagsAfter(occurring, intervening)
        /\ buffers' = IF leaves THEN buffers ELSE Stored(intervening)
        /\ recorder' = [pc |-> pc, step |-> recorder.step + 1, events |-> events]
        /\ UNCHANGED <<mode, saved>>

RequestReset ==
    /\ Recording("requesting")
    /\ RequestFullReset
    /\ RecordGoto("stopping")
    /\ UNCHANGED <<mode, intervened, buffers, saved>>

\* mp_net.stop(), before anything that takes time
HoldStill ==
    /\ Recording("stopping")
    /\ Stop
    /\ RecordGoto("committing")
    /\ UNCHANGED <<mode, intervened, buffers, saved>>

-----------------------------------------------------------------------------
(* record: between two record_loops                                        *)

Buffered == {p \in Recorded : buffers[p] # <<>>}

\* STOP_RECORDING, or a terminal primitive with stop_after_terminal: what is still buffered
\* is abandoned
Abandon ==
    /\ Recording("committing")
    /\ "STOP_RECORDING" \in recorder.events \/ (mode.stop_after_terminal /\ active \in Terminals)
    /\ RecordGoto("finished")
    /\ UNCHANGED <<vars, mode, intervened, buffers, saved>>

Rejected == recorder.events \cap {"RERECORD_EPISODE", "FAILURE"} # {}

SavedAfter == [p \in Recorded |-> IF p \in Buffered /\ saved[p] < NumEpisodes
                                  THEN saved[p] + 1 ELSE saved[p]]

\* _commit_episode_buffers: clear, or save and ask whether every dataset is complete, but
\* only when something was buffered
Commit ==
    /\ Recording("committing")
    /\ "STOP_RECORDING" \notin recorder.events
    /\ ~(mode.stop_after_terminal /\ active \in Terminals)
    /\ saved' = IF Rejected THEN saved ELSE SavedAfter
    /\ buffers' = [p \in Recorded |-> <<>>]
    /\ RecordGoto(IF /\ ~Rejected /\ Buffered # {}
                     /\ \A p \in Recorded : saved'[p] = NumEpisodes
                  THEN "finished" ELSE "idle")
    /\ UNCHANGED <<vars, mode, intervened>>

RecordNext ==
    \/ CallReset \/ ArriveInReset \/ ResetDone \/ RequestReset \/ HoldStill \/ Abandon \/ Commit
    \/ \E occurring \in SUBSET DOMAIN Edges[active], intervening \in BOOLEAN :
          \/ WalkInReset(occurring, intervening)
          \/ \E events \in SUBSET OperatorEvents : RecordStep(occurring, intervening, events)

RecordSpec == RecordInit /\ [][RecordNext]_<<vars, recordVars>>

\* an episode that ends by an edge, with nobody rejecting it or stopping the program
AcceptedStep(p) ==
    /\ active = p
    /\ \E occurring \in SUBSET DOMAIN Edges[active] \ {{}} :
          Ended(occurring) /\ RecordStep(occurring, TRUE, {})

\* The script runs by itself, and its operator completes every primitive's episodes again and
\* again (OperatorEvents = {}: never rejects one and never stops the program).
PatientOperator ==
    /\ WF_<<vars, recordVars>>(RecordNext)
    /\ \A p \in Recorded : SF_<<vars, recordVars>>(AcceptedStep(p))

-----------------------------------------------------------------------------
(* Properties                                                              *)

Consecutive(frames) ==
    \A i \in DOMAIN frames : i > 1 => frames[i].step = frames[i - 1].step + 1

\* What a dataset buffers is one uninterrupted run of its own primitive: no frame of another
\* primitive although the step may switch the active one, no step missing although only
\* interventions are kept, nothing left over from a loop that was rejected or left early
\* (record_loop 96-171, _commit_episode_buffers 213-241).
EpisodesWhole ==
    \A p \in Recorded :
        /\ \A i \in DOMAIN buffers[p] : buffers[p][i].by = p
        /\ Consecutive(buffers[p])

\* The robots hold still whenever the script is busy with its datasets or has ended its loop
\* (record_loop 80, 142, 181: stop() before every return): saving takes seconds, and the last
\* command of a relative or velocity-controlled axis would go on.
HeldWhileSaving == recorder.pc \in {"committing", "finished"} => holding

\* "share-record ... writes one dataset per adaptive primitive" (README.md:230).
EveryPrimitiveRecorded == \A p \in Recorded : <>(saved[p] > 0)
=============================================================================
