------------------------ MODULE GripperCommandLimiter ------------------------
(***************************************************************************)
(* src/share/robots/gripper_command_limiter.py, class                       *)
(* GripperCommandLimiter: what lets an action's gripper value through to   *)
(* the hardware.  The wrappers UR, HRCrobot and MuJoCo each own one.       *)
(* Whether the cooldown has passed is the environment's choice.            *)
(***************************************************************************)

MutFilter(target, requested, cooled) ==
    CASE target = <<>> -> [target |-> <<requested>>, send |-> TRUE]
      [] target = <<requested>> -> [target |-> target, send |-> FALSE]
      [] OTHER -> [target |-> <<requested>>, send |-> cooled]

\* filter: the first target, then every other one that differs and comes after the cooldown;
\* the target is <<>> until the first command and never forgotten
Filter(target, requested, cooled) ==
    CASE target = <<>> -> [target |-> <<requested>>, send |-> TRUE]
      [] target = <<requested>> -> [target |-> target, send |-> FALSE]
      [] ~cooled -> [target |-> target, send |-> FALSE]
      [] OTHER -> [target |-> <<requested>>, send |-> TRUE]
=============================================================================
