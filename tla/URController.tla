----------------------------- MODULE URController -----------------------------
(***************************************************************************)
(* src/share/robots/ur/lerobot_robot_ur: the robot wrapper UR (ur.py) in   *)
(* the program's process, and RTDETaskFrameController (controller.py), the *)
(* process that drives the arm over RTDE.  They share the command queue    *)
(* (SharedMemoryQueue, here the FIFO queue it implements) and three        *)
(* events; a watcher thread waits for the control process to end.          *)
(*                                                                         *)
(* The six axes are reduced to one translation axis with integer positions *)
(* and unit stiffness; damping, the adaptive wrench scale and the joint    *)
(* torques are left out.  Any RTDE call raises once the link is lost.      *)
(***************************************************************************)
EXTENDS Integers, Sequences

CONSTANTS
    Frames,             \* the task frames of the program's primitives, see FrameAssumption
    Positions,          \* where the arm can be, in the world
    MinPose, MaxPose,   \* URConfig.min_pose_rpy, max_pose_rpy
    MaxStep,            \* simple_pose_max_speed * dt
    WrenchLimit,        \* wrench_limits
    ReferenceLimit,     \* wrench_limits / kp
    CommandSlots        \* the queue's buffer_size

\* force, servo and limit: the frame's controller_overrides use_force_mode,
\* simple_pose_use_servo and compliance_reference_limit_enable; the target of a relative axis is a
\* velocity times dt
ASSUME FrameAssumption ==
    \A f \in Frames :
        /\ f.space \in {"TASK", "JOINT"} /\ f.control_mode \in {"POS", "VEL", "WRENCH"}
        /\ f.relative \in BOOLEAN /\ {f.force, f.servo, f.limit} \subseteq {"unset", "on", "off"}
        /\ {f.origin, f.target} \subseteq Int

ASSUME URAssumption ==
    /\ Positions \subseteq Int /\ {MinPose, MaxPose} \subseteq Int /\ MinPose <= MaxPose
    /\ {MaxStep, WrenchLimit, ReferenceLimit, CommandSlots} \subseteq Nat \ {0}

VARIABLES
    front,             \* the wrapper and the controller object on the program's side
    robot_cmd_queue,
    events,            \* ready, stop_requested, unexpected_exit
    control,           \* the control process: where it is, why it ended, drained messages
    loop,              \* its controller state and the virtual target x_cmd
    arm,               \* the robot: measured position, the motions live on it, the link
    anchor             \* history: where the live motion's next setpoint continues from, if anywhere

urVars == <<front, robot_cmd_queue, events, control, loop, arm, anchor>>

Clip(x, lo, hi) == IF x < lo THEN lo ELSE IF x > hi THEN hi ELSE x
NoAnchor == {}

\* TaskFrameCommand(): what the controller starts from
DefaultFrame == [space |-> "TASK", origin |-> 0, target |-> 0, control_mode |-> "POS",
                 relative |-> TRUE, force |-> "unset", servo |-> "unset", limit |-> "unset"]

\* __init__: nothing is sent before the first command, but its axis counts as relative already
FreshLoop == [space |-> "none", frame |-> DefaultFrame, x_cmd |-> 0, use_force_mode |-> TRUE,
              use_servo |-> FALSE, reference_limit |-> FALSE, motion_mode |-> "NONE", 
              force_on |-> FALSE, min_pose |-> MinPose, max_pose |-> MaxPose]

URInit ==
    /\ \E configured \in {"on", "off"} :
          front = [pc |-> "off", space |-> "none", force |-> "unset", servo |-> "unset",
                   limit |-> configured]
    /\ robot_cmd_queue = <<>>
    /\ events = [ready |-> FALSE, stop_requested |-> FALSE, unexpected_exit |-> FALSE]
    /\ control = [pc |-> "none", cause |-> "none", msgs |-> <<>>]
    /\ loop = FreshLoop
    /\ arm \in [pose : Positions, live : {{}}, link : {TRUE}]
    /\ anchor = NoAnchor

-----------------------------------------------------------------------------
(* The program's side: UR.connect, send_action, disconnect                 *)

Running == control.pc \notin {"none", "dead"}

URConnect ==
    /\ front.pc = "off"
    /\ front' = [front EXCEPT !.pc = "starting"]
    /\ control' = [control EXCEPT !.pc = "connecting"]
    /\ UNCHANGED <<robot_cmd_queue, events, loop, arm, anchor>>

\* start_wait returns when ready is set or after launch_timeout, and only then asks whether
\* the process lives; connect goes on with zero_ft
URStarted ==
    /\ front.pc = "starting" /\ Running
    /\ front' = [front EXCEPT !.pc = "connected"]
    /\ robot_cmd_queue' = Append(robot_cmd_queue, [cmd |-> "ZERO_FT"])
    /\ UNCHANGED <<events, control, loop, arm, anchor>>

URStartFails ==
    /\ front.pc = "starting" /\ control.pc = "dead"
    /\ front' = [front EXCEPT !.pc = "failed"]
    /\ UNCHANGED <<robot_cmd_queue, events, control, loop, arm, anchor>>

\* merged.update(overrides): what a frame does not override keeps the previous frame's value
Merged(own, previous) == IF own = "unset" THEN previous ELSE own

\* to_queue_dict: the merged overrides always carry min_pose and max_pose of the config, so
\* a frame's own bounds are never the ones sent and a frame has none here; an unset mode is off
SetMessage(f, force, servo, limit) ==
    [cmd |-> "SET", frame |-> f, min_pose |-> MinPose, max_pose |-> MaxPose,
     use_force_mode |-> force = "on", simple_pose_use_servo |-> servo = "on",
     compliance_reference_limit_enable |-> limit = "on"]

\* set_task_frame and send_action: refused when not ready or in another space than before;
\* Full leaves the new frame in place without sending it
URSend(f) ==
    /\ front.pc = "connected" /\ events.ready /\ front.space \in {"none", f.space}
    /\ front' = [front EXCEPT !.space = f.space, !.force = Merged(f.force, @),
                              !.servo = Merged(f.servo, @), !.limit = Merged(f.limit, @)]
    /\ robot_cmd_queue' = IF Len(robot_cmd_queue) < CommandSlots
                          THEN Append(robot_cmd_queue,
                                      SetMessage(f, front'.force, front'.servo, front'.limit))
                          ELSE robot_cmd_queue
    /\ UNCHANGED <<events, control, loop, arm, anchor>>

MutURDisconnect ==
    /\ front.pc = "connected" /\ events.ready /\ Len(robot_cmd_queue) < CommandSlots
    /\ front' = [front EXCEPT !.pc = "stopping"]
    /\ robot_cmd_queue' = Append(robot_cmd_queue, [cmd |-> "STOP"])
    /\ UNCHANGED <<events, control, loop, arm, anchor>>

\* disconnect, then stop: the event first, the command after it
URDisconnect ==
    /\ front.pc = "connected" /\ events.ready
    /\ front' = [front EXCEPT !.pc = "stopping"]
    /\ events' = [events EXCEPT !.stop_requested = TRUE]
    /\ UNCHANGED <<robot_cmd_queue, control, loop, arm, anchor>>

\* Full is raised before stop_wait: the caller may try again
URStop ==
    /\ front.pc = "stopping"
    /\ IF Len(robot_cmd_queue) < CommandSlots
       THEN /\ robot_cmd_queue' = Append(robot_cmd_queue, [cmd |-> "STOP"])
            /\ front' = [front EXCEPT !.pc = "joining"]
       ELSE /\ front' = [front EXCEPT !.pc = "connected"]
            /\ UNCHANGED robot_cmd_queue
    /\ UNCHANGED <<events, control, loop, arm, anchor>>

URJoined ==
    /\ front.pc = "joining" /\ control.pc = "dead"
    /\ front' = [front EXCEPT !.pc = "disconnected"]
    /\ UNCHANGED <<robot_cmd_queue, events, control, loop, arm, anchor>>

\* the watcher thread: join returned, whatever way the process went
WatchProcessExit ==
    /\ control.pc = "dead" /\ ~events.stop_requested /\ ~events.unexpected_exit
    /\ events' = [events EXCEPT !.unexpected_exit = TRUE]
    /\ UNCHANGED <<front, robot_cmd_queue, control, loop, arm, anchor>>

FrontStep ==
    \/ URConnect \/ URStarted \/ URStartFails \/ URDisconnect \/ URStop \/ URJoined
    \/ WatchProcessExit \/ \E f \in Frames : URSend(f)

-----------------------------------------------------------------------------
(* The control process: _run_control_loop and what it calls                *)

InLoop(pc) == control.pc = pc

\* leave for the cleanup of the finally clause
Leave(cause) == control' = [control EXCEPT !.pc = "cleanup", !.cause = cause]

\* an RTDE call raises; RTDE may fail in any step that reaches for it
Raised == control' = [control EXCEPT !.pc = "cleanup", !.cause = "error"]

\* outside the try: a failed connection skips the cleanup and leaves ready unset
ConnectRTDE ==
    /\ InLoop("connecting")
    /\ control' = [control EXCEPT !.pc = IF arm.link THEN "session" ELSE "exiting",
                                  !.cause = IF arm.link THEN @ ELSE "error"]
    /\ UNCHANGED <<front, robot_cmd_queue, events, loop, arm, anchor>>

StartSession ==
    /\ InLoop("session")
    /\ IF arm.link THEN /\ control' = [control EXCEPT !.pc = "draining"]
                        /\ loop' = [loop EXCEPT !.x_cmd = arm.pose]
                   ELSE Raised /\ UNCHANGED loop
    /\ UNCHANGED <<front, robot_cmd_queue, events, arm, anchor>>

GetPendingCommands ==
    /\ InLoop("draining")
    /\ control' = [control EXCEPT !.pc = "applying", !.msgs = robot_cmd_queue]
    /\ robot_cmd_queue' = <<>>
    /\ UNCHANGED <<front, events, loop, arm, anchor>>

NextMessage == Head(control.msgs)
Applied == control' = [control EXCEPT !.msgs = Tail(@)]

ApplyStop ==
    /\ InLoop("applying") /\ control.msgs # <<>> /\ NextMessage.cmd = "STOP"
    /\ Leave("stop")
    /\ UNCHANGED <<front, robot_cmd_queue, events, loop, arm, anchor>>

ApplyZeroFt ==
    /\ InLoop("applying") /\ control.msgs # <<>> /\ NextMessage.cmd = "ZERO_FT"
    /\ IF arm.link THEN Applied ELSE Raised
    /\ UNCHANGED <<front, robot_cmd_queue, events, loop, arm, anchor>>

MutTransformTaskPose(x, source, target) == x

\* _transform_task_pose_between_frames
TransformTaskPose(x, source, target) == x + source - target

ResolveMotionMode(msg) ==
    IF msg.frame.space # "TASK" THEN "JOINT"
    ELSE IF msg.use_force_mode THEN "FORCE"
    ELSE IF msg.simple_pose_use_servo THEN "SERVO" ELSE "MOVE"

\* only POS axes in joint space and without force mode
AxesSupported(msg) ==
    \/ msg.frame.control_mode = "POS"
    \/ msg.frame.space = "TASK" /\ msg.use_force_mode

RelativePos(f) == f.control_mode = "POS" /\ f.relative

\* the virtual target is carried over to the new frame, or, where an axis becomes relative,
\* re-anchored at the measured pose
Rebased(msg) ==
    IF msg.frame.space # "TASK" THEN loop.x_cmd
    ELSE IF RelativePos(msg.frame) /\ ~RelativePos(loop.frame) THEN arm.pose - msg.frame.origin
    ELSE TransformTaskPose(loop.x_cmd, loop.frame.origin, msg.frame.origin)

\* _stop_motion_mode of the mode the loop believes to be live
Stopped(mode) == IF mode = "FORCE" /\ ~loop.force_on THEN arm.live ELSE arm.live \ {mode}

MutApplyMotionMode(msg) ==
    LET mode == ResolveMotionMode(msg)
        changed == mode # loop.motion_mode
    IN  /\ arm' = [arm EXCEPT !.live = IF changed /\ mode = "FORCE" THEN @ \cup {"FORCE"} ELSE @]
        /\ loop' = [loop EXCEPT !.frame = msg.frame, !.space = msg.frame.space,
                                !.use_force_mode = msg.use_force_mode,
                                !.use_servo = msg.simple_pose_use_servo,
                                !.reference_limit = msg.compliance_reference_limit_enable,
                                !.min_pose = msg.min_pose, !.max_pose = msg.max_pose,
                                !.x_cmd = Rebased(msg), !.motion_mode = mode,
                                !.force_on = mode = "FORCE"]

\* _apply_motion_mode: stop the previous mode before the next one starts; force mode starts
\* at once, the other modes with their first setpoint
ApplyMotionMode(msg) ==
    LET mode == ResolveMotionMode(msg)
        changed == mode # loop.motion_mode
        kept == IF changed THEN Stopped(loop.motion_mode) ELSE arm.live
    IN  /\ arm' = [arm EXCEPT !.live = IF changed /\ mode = "FORCE" THEN kept \cup {"FORCE"}
                                                                    ELSE kept]
        /\ loop' = [loop EXCEPT !.frame = msg.frame, !.space = msg.frame.space,
                                !.use_force_mode = msg.use_force_mode,
                                !.use_servo = msg.simple_pose_use_servo,
                                !.reference_limit = msg.compliance_reference_limit_enable,
                                !.min_pose = msg.min_pose, !.max_pose = msg.max_pose,
                                !.x_cmd = Rebased(msg), !.motion_mode = mode,
                                !.force_on = mode = "FORCE"]

\* where the next setpoint has to continue from
NextAnchor(msg) ==
    IF ResolveMotionMode(msg) # loop.motion_mode THEN NoAnchor
    ELSE IF RelativePos(msg.frame) /\ ~RelativePos(loop.frame) THEN {arm.pose}
    ELSE anchor

\* another space, a lost link, an axis the mode cannot drive: raise, and the loop ends
ApplySetRaises(msg) ==
    loop.space \notin {"none", msg.frame.space} \/ ~arm.link \/ ~AxesSupported(msg)

ApplySet ==
    /\ InLoop("applying") /\ control.msgs # <<>> /\ NextMessage.cmd = "SET"
    /\ IF ApplySetRaises(NextMessage)
       THEN Raised /\ UNCHANGED <<loop, arm, anchor>>
       ELSE /\ Applied
            /\ ApplyMotionMode(NextMessage)
            /\ anchor' = NextAnchor(NextMessage)
    /\ UNCHANGED <<front, robot_cmd_queue, events>>

\* RTDE fails after the previous mode was stopped and before the next one is recorded
ApplySetHalfway ==
    /\ InLoop("applying") /\ control.msgs # <<>> /\ NextMessage.cmd = "SET"
    /\ ~ApplySetRaises(NextMessage) /\ ResolveMotionMode(NextMessage) # loop.motion_mode
    /\ arm' = [arm EXCEPT !.live = Stopped(loop.motion_mode), !.link = FALSE]
    /\ loop' = [loop EXCEPT !.force_on = FALSE]
    /\ Raised
    /\ UNCHANGED <<front, robot_cmd_queue, events, anchor>>

PoseInFrame == arm.pose - loop.frame.origin

\* one step of the axis: a relative target integrates, a servo ramps, the others jump
Advanced ==
    LET f == loop.frame
    IN  IF f.control_mode # "POS" THEN loop.x_cmd
        ELSE IF f.relative THEN loop.x_cmd + f.target
        ELSE IF ~loop.use_force_mode /\ loop.use_servo
             THEN loop.x_cmd + Clip(f.target - loop.x_cmd, -MaxStep, MaxStep)
        ELSE f.target

\* _update_virtual_targets: advance, clip_pose, then, where the reference limit is enabled, a
\* relative axis stays within the reference error of the measured pose
VirtualTarget ==
    LET clipped == Clip(Advanced, loop.min_pose, loop.max_pose)
    IN  IF RelativePos(loop.frame) /\ loop.reference_limit
        THEN PoseInFrame + Clip(clipped - PoseInFrame, -ReferenceLimit, ReferenceLimit)
        ELSE clipped

MutBoundedWrench(wrench) ==
    LET limited == Clip(wrench, -WrenchLimit, WrenchLimit)
    IN  CASE PoseInFrame > loop.max_pose -> limited - (PoseInFrame - loop.max_pose)
          [] PoseInFrame < loop.min_pose -> limited + (loop.min_pose - PoseInFrame)
          [] OTHER -> limited

\* apply_wrench_bounds: clip, and outside the box drop the outward push and spring back
BoundedWrench(wrench) ==
    LET limited == Clip(wrench, -WrenchLimit, WrenchLimit)
    IN  CASE PoseInFrame > loop.max_pose -> Clip(limited, -WrenchLimit, 0) - (PoseInFrame - loop.max_pose)
          [] PoseInFrame < loop.min_pose -> Clip(limited, 0, WrenchLimit) + (loop.min_pose - PoseInFrame)
          [] OTHER -> limited

\* _compute_task_wrench; a VEL axis only damps towards its velocity
TaskWrench ==
    BoundedWrench(CASE loop.frame.control_mode = "POS" -> VirtualTarget - PoseInFrame
                    [] OTHER -> loop.frame.target)

\* the rest of one iteration: read, publish the state, advance, send TaskWrench in force mode
\* and the advanced target otherwise; then ready is set
URCycle ==
    /\ InLoop("applying") /\ control.msgs = <<>> /\ arm.link
    /\ control' = [control EXCEPT !.pc = "draining"]
    /\ events' = [events EXCEPT !.ready = TRUE]
    /\ loop' = IF loop.space = "TASK" THEN [loop EXCEPT !.x_cmd = VirtualTarget] ELSE loop
    /\ arm' = IF loop.space = "none" THEN arm
              ELSE [arm EXCEPT !.live = @ \cup {loop.motion_mode}]
    /\ anchor' = IF loop.space = "TASK" /\ ~loop.use_force_mode
                 THEN {VirtualTarget + loop.frame.origin} ELSE anchor
    /\ UNCHANGED <<front, robot_cmd_queue>>

URCycleRaises ==
    /\ InLoop("applying") /\ control.msgs = <<>> /\ ~arm.link
    /\ Raised
    /\ UNCHANGED <<front, robot_cmd_queue, events, loop, arm, anchor>>

\* _cleanup_rtde, best effort, and ready, so that nobody waits for a loop that is gone
CleanupRTDE ==
    /\ InLoop("cleanup")
    /\ arm' = IF arm.link THEN [arm EXCEPT !.live = {}] ELSE arm
    /\ loop' = [loop EXCEPT !.motion_mode = "NONE", !.force_on = FALSE]
    /\ events' = [events EXCEPT !.ready = TRUE]
    /\ control' = [control EXCEPT !.pc = "exiting", !.msgs = <<>>]
    /\ anchor' = NoAnchor
    /\ UNCHANGED <<front, robot_cmd_queue>>

\* run's own finally; the process's memory is gone
ControlExits ==
    /\ InLoop("exiting")
    /\ control' = [control EXCEPT !.pc = "dead"]
    /\ loop' = FreshLoop
    /\ events' = [events EXCEPT !.unexpected_exit = @ \/ ~events.stop_requested]
    /\ UNCHANGED <<front, robot_cmd_queue, arm, anchor>>

\* SIGKILL: no handler runs
ControlKilled ==
    /\ Running
    /\ control' = [pc |-> "dead", cause |-> "killed", msgs |-> <<>>]
    /\ loop' = FreshLoop
    /\ anchor' = NoAnchor
    /\ UNCHANGED <<front, robot_cmd_queue, events, arm>>

ControlStep ==
    \/ ConnectRTDE \/ StartSession \/ GetPendingCommands \/ ApplyStop \/ ApplyZeroFt
    \/ ApplySet \/ ApplySetHalfway \/ URCycle \/ URCycleRaises \/ CleanupRTDE
    \/ ControlExits \/ ControlKilled

\* the arm moves, by its motion or by hand; the network fails (told apart only while a
\* control process can still see it)
ArmStep ==
    /\ Running /\ arm.link
    /\ \/ \E p \in Positions : p \in {arm.pose - 1, arm.pose + 1} /\ arm' = [arm EXCEPT !.pose = p]
       \/ arm' = [arm EXCEPT !.link = FALSE]
    /\ UNCHANGED <<front, robot_cmd_queue, events, control, loop, anchor>>

URNext == FrontStep \/ ControlStep \/ ArmStep

URSpec == URInit /\ [][URNext]_urVars

-----------------------------------------------------------------------------
(* Properties                                                              *)

\* "Each mode has to be terminated before the next one starts" (MotionMode, controller.py
\* 39-45): whatever order of frames, overrides and failures, at most the loop's own motion is
\* live, and none is after an end that still reached the robot.
OneMotionLive ==
    /\ arm.link /\ control.cause # "killed" => arm.live \subseteq {loop.motion_mode}
    /\ control.pc = "dead" /\ arm.link /\ control.cause # "killed" => arm.live = {}

\* A servo motion is continuous in the world, across new commands, frames and origins: from
\* one setpoint to the next (or from the measured pose, where an axis was re-anchored) an
\* absolute axis moves by at most simple_pose_max_speed and a relative one by just its own
\* velocity, which no speed bounds.  Only the pose bounds, and on a relative axis the reference
\* limit where it is enabled, may pull a setpoint elsewhere: onto that bound
\* (_apply_pending_commands 1061-1112, _update_virtual_targets 688-698).
ServoContinuous ==
    [][(URCycle /\ loop.motion_mode = "SERVO")
          => \A before \in anchor, after \in anchor' :
                \/ loop'.x_cmd \in {loop.min_pose, loop.max_pose}
                \/ ~RelativePos(loop.frame) /\ after - before \in -MaxStep..MaxStep
                \/ RelativePos(loop.frame) /\ after - before = loop.frame.target
                \/ /\ RelativePos(loop.frame) /\ loop.reference_limit
                   /\ after - arm.pose \in {-ReferenceLimit, ReferenceLimit}]_urVars

\* Outside its bounds the arm is never pushed further out: the wrench sent points back
\* inside, with the measured pose and the bounds taken in the same frame, whatever the
\* control mode asks for (apply_wrench_bounds 1480-1510).
WrenchPointsInward ==
    [][(URCycle /\ loop.motion_mode = "FORCE")
          => /\ PoseInFrame > loop.max_pose => TaskWrench < 0
             /\ PoseInFrame < loop.min_pose => TaskWrench > 0]_urVars

\* An end that the program asked for is never reported as an unexpected exit, although the
\* event, the command, the loop's last step and the watcher are four threads of control.
StopIsNotUnexpected == control.cause = "stop" => ~events.unexpected_exit
=============================================================================
