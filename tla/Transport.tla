------------------------------ MODULE Transport ------------------------------
(***************************************************************************)
(* The queues of the actor and the learner process and the workers that    *)
(* move items between them over gRPC: send_transitions, send_interactions  *)
(* and receive_policy (src/share/scripts/actor_server.py) against the      *)
(* server that start_learner_server runs (learner_server.py).  The         *)
(* servicer itself is LeRobot's and is modelled by what the two programs   *)
(* need of it: transitions and messages arrive in order; a parameter push  *)
(* may be skipped for a later one.                                         *)
(***************************************************************************)
EXTENDS Integers, Sequences

CONSTANTS
    Adaptive,       \* the primitives with a policy
    MaxPushed,      \* bound: parameter messages that wait in the learner
    MaxReceived     \* bound: parameter messages that wait in the actor

ASSUME TransportAssumption == MaxPushed \in Nat /\ MaxReceived \in Nat

VARIABLES
    transitions_queue, interactions_queue, parameters_queue,  \* the actor's
    transition_queue, interaction_message_queue, pushed,      \* the learner's; pushed is its
                                                              \* parameters_queue
    actor_shutdown, learner_shutdown,                         \* the two shutdown events
    server,             \* the learner's gRPC server: down, up, stopped
    workers,            \* the actor's workers that run
    delivered           \* history: adaptive primitive -> last version put in parameters_queue

transport == <<transitions_queue, interactions_queue, parameters_queue, transition_queue,
               interaction_message_queue, pushed, actor_shutdown, learner_shutdown, server,
               workers, delivered>>

\* what only one of the two programs changes, apart from the workers; what both leave to the workers
actor_end == <<transitions_queue, interactions_queue, parameters_queue, actor_shutdown>>
learner_end == <<transition_queue, interaction_message_queue, pushed, learner_shutdown>>
wire == <<server, delivered>>

Workers == {"transitions", "interactions", "parameters"}

TransportInit ==
    /\ transitions_queue = <<>> /\ interactions_queue = <<>> /\ parameters_queue = <<>>
    /\ transition_queue = <<>> /\ interaction_message_queue = <<>> /\ pushed = <<>>
    /\ actor_shutdown = FALSE /\ learner_shutdown = FALSE
    /\ server = "down"
    /\ workers = {}
    /\ delivered = [p \in Adaptive |-> 0]

Connected(w) == w \in workers /\ server = "up"

\* a stream looks at the event before it waits for an item: set during the wait, the item
\* is still sent, and then the stream ends
StreamGoesOn(w) == workers' = IF actor_shutdown THEN workers \ {w} ELSE workers

\* transitions_stream
SendTransitions ==
    /\ Connected("transitions") /\ transitions_queue # <<>>
    /\ transitions_queue' = Tail(transitions_queue)
    /\ transition_queue' = Append(transition_queue, Head(transitions_queue))
    /\ StreamGoesOn("transitions")
    /\ UNCHANGED <<interactions_queue, parameters_queue, interaction_message_queue, pushed,
                   actor_shutdown, learner_shutdown, server, delivered>>

\* interactions_stream
SendInteractions ==
    /\ Connected("interactions") /\ interactions_queue # <<>>
    /\ interactions_queue' = Tail(interactions_queue)
    /\ interaction_message_queue' = Append(interaction_message_queue, Head(interactions_queue))
    /\ StreamGoesOn("interactions")
    /\ UNCHANGED <<transitions_queue, parameters_queue, transition_queue, pushed,
                   actor_shutdown, learner_shutdown, server, delivered>>

\* StreamParameters sends one of the queued pushes and forgets the older ones.
\* receive_policy looks at the event only when an item arrives: it then ends without
\* keeping the item
ReceiveParameters ==
    /\ Connected("parameters")
    /\ \E i \in DOMAIN pushed :
          /\ pushed' = SubSeq(pushed, i + 1, Len(pushed))
          /\ IF actor_shutdown
                THEN /\ workers' = workers \ {"parameters"}
                     /\ UNCHANGED <<parameters_queue, delivered>>
                ELSE /\ Len(parameters_queue) < MaxReceived
                     /\ parameters_queue' = Append(parameters_queue, pushed[i])
                     /\ delivered' = [delivered EXCEPT ![pushed[i].id] = pushed[i].version]
                     /\ UNCHANGED workers
    /\ UNCHANGED <<transitions_queue, interactions_queue, transition_queue,
                   interaction_message_queue, actor_shutdown, learner_shutdown, server>>

\* a stream ends at the actor's shutdown, a call fails with the server
SenderEnds(w) ==
    /\ w \in workers
    /\ actor_shutdown \/ server = "stopped"
    /\ workers' = workers \ {w}
    /\ UNCHANGED <<actor_end, learner_end, server, delivered>>

MutReceiverEnds ==
    /\ "parameters" \in workers /\ server = "stopped" /\ actor_shutdown = FALSE
    /\ workers' = workers \ {"parameters"}
    /\ UNCHANGED <<actor_end, learner_end, server, delivered>>

SendersEnd == \E w \in {"transitions", "interactions"} : SenderEnds(w)

\* RpcError, logged
ReceiverEnds ==
    /\ "parameters" \in workers /\ server = "stopped"
    /\ workers' = workers \ {"parameters"}
    /\ UNCHANGED <<actor_end, learner_end, server, delivered>>

\* start_learner_server: serves until the learner's shutdown event
ServerStarts ==
    /\ server = "down"
    /\ server' = "up"
    /\ UNCHANGED <<actor_end, learner_end, workers, delivered>>

ServerStops ==
    /\ server = "up" /\ learner_shutdown
    /\ server' = "stopped"
    /\ UNCHANGED <<actor_end, learner_end, workers, delivered>>

TransportStep == \/ SendTransitions \/ SendInteractions \/ ReceiveParameters
                 \/ SendersEnd \/ ReceiverEnds \/ ServerStarts \/ ServerStops
=============================================================================
