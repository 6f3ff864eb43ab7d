----------------------------- MODULE ActorLearner -----------------------------
(***************************************************************************)
(* The actor (Actor), the learner (Learner) and what runs between them     *)
(* (Transport): one training session, from the connection to the shutdown  *)
(* of either side.                                                         *)
(***************************************************************************)
EXTENDS Actor, Learner

vars == <<transport, actor, learner>>

Init == TransportInit /\ ActorInit /\ LearnerInit

ActorAct == ActorStep /\ UNCHANGED learner
LearnerAct == LearnerStep /\ UNCHANGED actor
TransportAct == TransportStep /\ UNCHANGED <<actor, learner>>

Next == ActorAct \/ LearnerAct \/ TransportAct

\* the programs' own loops and workers run; the push period passes again and again.
\* Nothing is assumed of the operator, the signals and the environment's steps
Fairness ==
    /\ WF_vars(LearnerLoop /\ UNCHANGED actor)
    /\ SF_vars(OptimizeAndPush /\ UNCHANGED actor)
    /\ WF_vars(ReceiveParameters /\ UNCHANGED <<actor, learner>>)
    /\ WF_vars((SendersEnd \/ ReceiverEnds) /\ UNCHANGED <<actor, learner>>)
    /\ WF_vars(ServerStops /\ UNCHANGED <<actor, learner>>)
    /\ WF_vars(Join /\ UNCHANGED learner)

Spec == Init /\ [][Next]_vars /\ Fairness

-----------------------------------------------------------------------------
(* Properties                                                              *)

\* every transition on its way to the learner or in its buffers
Travelling ==
    (UNION {ToSet(batch) : batch \in ToSet(transitions_queue) \cup ToSet(transition_queue)})
    \cup (UNION {ToSet(replay[p]) \cup offline[p] : p \in Adaptive})

\* A segment the operator rerecords leaves no trace: unless its policy streams, none of its
\* transitions is ever sent, now or with a later segment (actor_server.py:459-486).
RerecordLeavesNoTrace ==
    \A t \in Travelling : t.id \notin StreamImmediately => t.n \notin rerecorded

\* "Allow at most one SAC optimizer call per online transition after warmup"
\* (learner_server.py:611), against what the actor itself counts: it holds across the
\* queues, the rerecorded segments and the buffer's turnover.
UpdatesBacked ==
    \A p \in Limited \ (Bc \cup StreamImmediately) :
        optimization_steps[p] <= Max({0, collection_counts[p] - Max({1, Warmup}) + 1})

UnderWay == interaction_message_queue \o interactions_queue

\* The interaction step the learner logs against and saves in its checkpoints advances with
\* every segment and never passes what the actor counts, although the actor's count goes
\* back when a segment is rerecorded (actor_server.py:462, learner_server.py:1297-1303).
ReportedStepsAdvance ==
    \A p \in Adaptive :
        /\ last_messages[p] <= collection_counts[p]
        /\ \A i \in Reports(p, UnderWay) :
              /\ last_messages[p] < UnderWay[i].step
              /\ UnderWay[i].step <= collection_counts[p]
              /\ \A j \in Reports(p, UnderWay) : i < j => UnderWay[i].step < UnderWay[j].step

\* The newest parameters of a primitive that have reached the actor are the ones it acts
\* with or still wait in its queue: no burst of pushes hides a newer one, whatever the order
\* of the primitives in it (runtime.py:372-404).
NewestApplied ==
    \A p \in Adaptive :
        \/ applied[p] = delivered[p]
        \/ \E i \in DOMAIN parameters_queue :
              parameters_queue[i] = [id |-> p, version |-> delivered[p]]

\* An actor that leaves its loop gets rid of its three workers, although the one that
\* receives parameters looks at the shutdown event only when the learner pushes
\* (actor_server.py:193-199, 568-575).
ActorExits == (actor_pc = "joining") ~> (actor_pc = "done")
=============================================================================
