---------------------------- MODULE PrimitiveGraph ----------------------------
(***************************************************************************)
(* What an MP-Net promises to the script that drives it (record, actor):   *)
(* every episode is a walk along the declared edges that begins at the     *)
(* start primitive, and no primitive is stepped once the walk ended.       *)
(***************************************************************************)
CONSTANTS Primitives, Start, Terminals, NoNode, Succ(_)

VARIABLE node       \* the primitive the next step runs, NoNode: reset() is due

Init == node = NoNode

Walk ==
    /\ node # NoNode
    /\ \E next \in Succ(node) \cup {node} : node' = IF next \in Terminals THEN NoNode ELSE next

Begin ==
    /\ node = NoNode
    /\ node' = Start

Abandon ==
    /\ node # NoNode
    /\ node' = NoNode

Next == Walk \/ Begin \/ Abandon

Spec == Init /\ [][Next]_node
=============================================================================
