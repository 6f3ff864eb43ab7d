------------------------------- MODULE HRCrobot -------------------------------
(***************************************************************************)
(* src/share/robots/HRCrobot/lerobot_robot_HRCrobot: the robot HRCrobot    *)
(* (HRCrobot.py) over its controller (controller.py), which drives the arm *)
(* through the vendor SDK and the gripper through two outputs of a second  *)
(* link, HSC3 (both external).                                             *)
(*                                                                         *)
(* One thread calls it; what happens meanwhile is time, the arm, which     *)
(* follows the last setpoint, and failures of the links.  Poses are        *)
(* integers on one axis of the world.                                      *)
(***************************************************************************)
EXTENDS Integers, GripperCommandLimiter

CONSTANTS
    HRCPoses,             \* where the arm can be
    HRCFrames,            \* the task frames: [origin, target]
    ServoPeriod,          \* 1 / frequency, in ticks
    MaxCartesianStep      \* max_cartesian_step_m

ASSUME HRCAssumption ==
    /\ HRCPoses \subseteq Int /\ HRCFrames \subseteq [origin : Int, target : Int]
    /\ {ServoPeriod, MaxCartesianStep} \subseteq Nat \ {0}

VARIABLES
    hrc,          \* the call in progress, the links and what the controller remembers
    hrc_frame,    \* the wrapper's task_frame
    hrc_arm,      \* the arm: its pose and the setpoint it follows
    ports,        \* the two outputs of the gripper
    burst         \* history: the setpoints sent since one of them, less than a period old

hrcVars == <<hrc, hrc_frame, hrc_arm, ports, burst>>

NoBurst == [count |-> 0, age |-> ServoPeriod]

\* due is _next_servo_time - now; beyond three periods every delay is treated alike
MaxDelay == 3 * ServoPeriod + 1

HRCInit ==
    /\ hrc = [pc |-> "off", hsc3 |-> FALSE, due |-> 0, pending |-> 0, gripper_cmd |-> <<>>,
              limiter |-> <<>>]
    /\ hrc_frame = [origin |-> 0, target |-> 0]
    /\ hrc_arm \in {[pose |-> p, setpoint |-> p] : p \in HRCPoses}
    /\ ports \in [open : BOOLEAN, close : {FALSE}]
    /\ burst = NoBurst

-----------------------------------------------------------------------------
(* Connection and task frame                                               *)

\* every failure leaves the controller disconnected, except that of the gripper's link,
\* without which its commands are only recorded
HRCConnect ==
    /\ hrc.pc = "off"
    /\ \E link \in BOOLEAN : hrc' = [hrc EXCEPT !.pc = "idle", !.hsc3 = link, !.due = 0]
    /\ burst' = NoBurst
    /\ UNCHANGED <<hrc_frame, hrc_arm, ports>>

\* the limiter's target survives
HRCDisconnect ==
    /\ hrc.pc = "idle"
    /\ hrc' = [hrc EXCEPT !.pc = "off", !.hsc3 = FALSE]
    /\ UNCHANGED <<hrc_frame, hrc_arm, ports, burst>>

\* only stored: the arm moves by send_action alone
HRCSetTaskFrame ==
    /\ hrc.pc \in {"off", "idle"}
    /\ hrc_frame' \in HRCFrames
    /\ UNCHANGED <<hrc, hrc_arm, ports, burst>>

-----------------------------------------------------------------------------
(* send_action: the guard, servo_cartesian, the gripper                    *)

Near(a, b, step) == a - b \in -step..step

\* the call returns or raises
Returns == [hrc EXCEPT !.pc = "idle", !.pending = 0, !.gripper_cmd = <<>>]

MutSafeStep(world) == Near(world, hrc_arm.setpoint, MaxCartesianStep)

\* the guard at the hardware boundary: from the pose read now to the commanded one
SafeStep(world) == Near(world, hrc_arm.pose, MaxCartesianStep)

\* an axis the action leaves out takes the frame's target; an unsafe step raises and
\* nothing of the action is executed
HRCSendAction(task_pose, gripper_cmd) ==
    LET world == task_pose + hrc_frame.origin
    IN  /\ hrc.pc = "idle" /\ SafeStep(world)
        /\ hrc' = [hrc EXCEPT !.pc = "servo", !.pending = world, !.gripper_cmd = gripper_cmd]
        /\ UNCHANGED <<hrc_frame, hrc_arm, ports, burst>>

\* an action without a Cartesian part
HRCSendGripper(gripper_cmd) ==
    /\ hrc.pc = "idle"
    /\ hrc' = [hrc EXCEPT !.pc = "gripper", !.gripper_cmd = gripper_cmd]
    /\ UNCHANGED <<hrc_frame, hrc_arm, ports, burst>>

MutNextDue(due) == due + ServoPeriod

\* _next_servo_time after a setpoint: a loop far behind does not catch up
NextDue(due) ==
    LET next == due + ServoPeriod
    IN  IF -next > 2 * ServoPeriod THEN 0 ELSE next

\* servo_cartesian sleeps until the setpoint is due; any setpoint may be the one a count starts
\* with
HRCServo ==
    /\ hrc.pc = "servo" /\ hrc.due <= 0
    /\ hrc_arm' = [hrc_arm EXCEPT !.setpoint = hrc.pending]
    /\ hrc' = [hrc EXCEPT !.pc = "gripper", !.pending = 0, !.due = NextDue(@)]
    /\ \/ burst' = [count |-> 1, age |-> 0]
       \/ burst.age < ServoPeriod /\ burst' = [burst EXCEPT !.count = @ + 1]
    /\ UNCHANGED <<hrc_frame, ports>>

\* the move is refused: RuntimeError, the gripper part is not reached
HRCServoFails ==
    /\ hrc.pc = "servo" /\ hrc.due <= 0
    /\ hrc' = Returns
    /\ UNCHANGED <<hrc_frame, hrc_arm, ports, burst>>

\* no gripper command, or one that the limiter suppresses
HRCNoGripper(cooled) ==
    /\ hrc.pc = "gripper"
    /\ \A cmd \in {0, 1} : hrc.gripper_cmd = <<cmd>> => ~Filter(hrc.limiter, cmd, cooled).send
    /\ hrc' = Returns
    /\ UNCHANGED <<hrc_frame, hrc_arm, ports, burst>>

\* the limiter has recorded the target before set_gripper: without a link it is only
\* recorded, with one the opposite output goes off first
HRCSetGripper(cooled) ==
    /\ hrc.pc = "gripper"
    /\ \E cmd \in {0, 1} :
          /\ hrc.gripper_cmd = <<cmd>> /\ Filter(hrc.limiter, cmd, cooled).send
          /\ hrc' = IF hrc.hsc3 THEN [hrc EXCEPT !.pc = "opposite_off", !.limiter = <<cmd>>]
                    ELSE [Returns EXCEPT !.limiter = <<cmd>>]
    /\ UNCHANGED <<hrc_frame, hrc_arm, ports, burst>>

Wanted == IF hrc.gripper_cmd = <<1>> THEN "close" ELSE "open"
Opposite == IF hrc.gripper_cmd = <<1>> THEN "open" ELSE "close"

MutOppositeOff ==
    /\ hrc.pc = "opposite_off"
    /\ ports' = [ports EXCEPT ![Wanted] = TRUE]
    /\ hrc' = [hrc EXCEPT !.pc = "port_on"]
    /\ UNCHANGED <<hrc_frame, hrc_arm, burst>>

HRCOppositeOff ==
    /\ hrc.pc = "opposite_off"
    /\ ports' = [ports EXCEPT ![Opposite] = FALSE]
    /\ hrc' = [hrc EXCEPT !.pc = "port_on"]
    /\ UNCHANGED <<hrc_frame, hrc_arm, burst>>

HRCPortOn ==
    /\ hrc.pc = "port_on"
    /\ ports' = [ports EXCEPT ![Wanted] = TRUE]
    /\ hrc' = Returns
    /\ UNCHANGED <<hrc_frame, hrc_arm, burst>>

\* set_io reports an error, whether or not the output changed: the rest is skipped
HRCSetIOFails ==
    /\ \/ hrc.pc = "opposite_off" /\ ports' \in {ports, [ports EXCEPT ![Opposite] = FALSE]}
       \/ hrc.pc = "port_on" /\ ports' \in {ports, [ports EXCEPT ![Wanted] = TRUE]}
    /\ hrc' = Returns
    /\ UNCHANGED <<hrc_frame, hrc_arm, burst>>

-----------------------------------------------------------------------------

Between(x, a, b) == (a <= x /\ x <= b) \/ (b <= x /\ x <= a)

\* a tick of time, in which the arm may come one step closer to its setpoint; between the
\* guard and the send no more time passes than the rate limit sleeps
HRCTick ==
    /\ hrc.pc # "off" /\ (hrc.pc = "servo" => hrc.due > 0)
    /\ hrc' = [hrc EXCEPT !.due = IF @ = -MaxDelay THEN @ ELSE @ - 1]
    /\ \E pose \in HRCPoses :
          /\ Near(pose, hrc_arm.pose, 1) /\ Between(pose, hrc_arm.pose, hrc_arm.setpoint)
          /\ hrc_arm' = [hrc_arm EXCEPT !.pose = pose]
    /\ burst' = IF burst.age + 1 < ServoPeriod THEN [burst EXCEPT !.age = @ + 1] ELSE NoBurst
    /\ UNCHANGED <<hrc_frame, ports>>

GripperCommands == {<<>>, <<0>>, <<1>>}

HRCNext ==
    \/ HRCConnect \/ HRCDisconnect \/ HRCSetTaskFrame
    \/ \E pose \in HRCPoses \cup {hrc_frame.target}, cmd \in GripperCommands :
          HRCSendAction(pose, cmd)
    \/ \E cmd \in GripperCommands : HRCSendGripper(cmd)
    \/ HRCServo \/ HRCServoFails
    \/ \E cooled \in BOOLEAN : HRCNoGripper(cooled) \/ HRCSetGripper(cooled)
    \/ HRCOppositeOff \/ HRCPortOn \/ HRCSetIOFails
    \/ HRCTick

HRCSpec == HRCInit /\ [][HRCNext]_hrcVars

-----------------------------------------------------------------------------
(* Properties                                                              *)

\* The gripper's outputs exclude each other ("双口互斥", controller.py:573-575), whatever
\* call of the link fails and whenever it is lost: a driver with both on has no defined state.
PortsExclusive == ~(ports.open /\ ports.close)

\* "不追赶历史 setpoint" (do not catch up on historical setpoints, controller.py:539-546):
\* however long the loop stalled, less than a period holds at most four setpoints, whichever
\* of them it is counted from (of one connection: connect forgets the due time).
BurstBounded == burst.count <= 4

\* "Absolute Cartesian commands must remain locally continuous" (HRCrobot.py:435-439): a
\* setpoint is one allowed step away from the arm, and as far as the arm itself travelled
\* while the rate limit slept between the guard and the send.
SetpointNearArm ==
    [][HRCServo => Near(hrc_arm'.setpoint, hrc_arm.pose, MaxCartesianStep + ServoPeriod)]_hrcVars
=============================================================================
