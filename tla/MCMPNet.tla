-------------------------------- MODULE MCMPNet --------------------------------
EXTENDS MPNet
(***************************************************************************)
(* Two graphs that the config validation accepts.  The insertion graph has *)
(* every kind of edge, edges in competition, a loop, a terminal, and a     *)
(* reset path of two primitives.  In the parking graph (reset_primitive    *)
(* left at its default, the first primitive) no path leads to the start.   *)
(***************************************************************************)
Edge(target, kind, limit) == [target |-> target, kind |-> kind, limit |-> limit]

InsertionPrimitives == {"home", "lift", "approach", "insert", "done"}

InsertionEdges ==
    [home     |-> <<Edge("lift", "always", 0)>>,
     lift     |-> <<Edge("approach", "event", 0), Edge("approach", "primitive_limit", 2)>>,
     approach |-> <<Edge("insert", "event", 0), Edge("home", "primitive_limit", 3)>>,
     insert   |-> <<Edge("done", "event", 0), Edge("approach", "event", 0),
                    Edge("lift", "episode_limit", 5)>>,
     done     |-> <<>>]

InsertionOrigins ==
    [home |-> "base", lift |-> "base", approach |-> "base", insert |-> "hole", done |-> "hole"]

ParkingPrimitives == {"park", "hold", "approach", "done"}

ParkingEdges ==
    [park     |-> <<Edge("hold", "primitive_limit", 2)>>,
     hold     |-> <<Edge("park", "event", 0), Edge("park", "primitive_limit", 2)>>,
     approach |-> <<Edge("done", "event", 0)>>,
     done     |-> <<>>]

ParkingOrigins == [park |-> "base", hold |-> "base", approach |-> "hole", done |-> "hole"]
=============================================================================
