---------------------------- MODULE MCActorLearner ----------------------------
(* TLC instances of ActorLearner: ActorLearnerSession.cfg (two policies, two   *)
(* parameter versions) and ActorLearnerSegments.cfg (a policy and a scripted   *)
(* primitive).                                                                 *)
EXTENDS ActorLearner
=============================================================================
