-------------------------- MODULE Processes_proofs ---------------------------
(***************************************************************************)
(* The invariants of the processes MCProcesses checks that have no state   *)
(* in common with another's: the robots', for all frames, bounds, limits,  *)
(* periods and queue sizes (the UR arm and its control process, the        *)
(* Robotiq gripper, the HRC robot), and the operator's, for every number   *)
(* of requests, presses, pulses and waiting key events (the web console    *)
(* keeps track of its processes, a key and a remote pulse act once).  Each *)
(* has an inductive invariant of its own.                                  *)
(***************************************************************************)
EXTENDS URController, RobotiqGripper, HRCrobot, WebConsole, OperatorInput, TLAPS

-----------------------------------------------------------------------------
(* The UR arm                                                              *)

Overrides == {"unset", "on", "off"}

\* what the program's side puts into the queue
URMessages ==
    {[cmd |-> "ZERO_FT"], [cmd |-> "STOP"]}
        \cup {SetMessage(f, force, servo, limit) :
                   f \in Frames, force \in Overrides, servo \in Overrides, limit \in Overrides}

URTypeOK ==
    /\ DOMAIN front = {"pc", "space", "force", "servo", "limit"}
    /\ front.force \in Overrides /\ front.servo \in Overrides /\ front.limit \in Overrides
    /\ robot_cmd_queue \in Seq(URMessages)
    /\ DOMAIN events = {"ready", "stop_requested", "unexpected_exit"}
    /\ DOMAIN control = {"pc", "cause", "msgs"} /\ control.msgs \in Seq(URMessages)
    /\ DOMAIN loop = DOMAIN FreshLoop
    /\ loop.frame \in Frames \cup {DefaultFrame} /\ loop.x_cmd \in Int
    /\ loop.min_pose = MinPose /\ loop.max_pose = MaxPose
    /\ DOMAIN arm = {"pose", "live", "link"} /\ arm.pose \in Int
    /\ anchor \subseteq Int

IsStop(s) == \E i \in DOMAIN s : s[i].cmd = "STOP"

\* a STOP is sent after the event, and the process that obeyed it has ended in no other way
StopInv ==
    /\ front.pc = "off" => control.pc = "none"
    /\ front.pc = "stopping" => events.stop_requested
    /\ IsStop(robot_cmd_queue) => events.stop_requested
    /\ IsStop(control.msgs) => events.stop_requested
    /\ control.cause = "stop" => events.stop_requested
    /\ events.unexpected_exit => control.pc = "dead" /\ control.cause # "stop"

\* the loop knows what is live, until a call raised in the middle of a change
MotionInv ==
    /\ control.cause = "killed" => control.pc = "dead"
    /\ control.pc \in {"none", "connecting", "session"} => loop.motion_mode = "NONE" /\ anchor = {}
    /\ arm.link /\ control.cause # "killed"
          => /\ arm.live \subseteq {loop.motion_mode}
             /\ control.pc \in {"none", "connecting", "session", "exiting", "dead"} => arm.live = {}
             /\ loop.motion_mode = "FORCE" => loop.force_on

\* a servo motion is live only in task space, on an axis that can be driven, and its anchor is
\* the virtual target seen from the world
ServoInv ==
    loop.motion_mode = "SERVO" =>
        /\ loop.space = "TASK" /\ ~loop.use_force_mode /\ loop.use_servo
        /\ loop.frame.control_mode = "POS"
        /\ anchor \subseteq {loop.x_cmd + loop.frame.origin}

URInv == URTypeOK /\ StopInv /\ MotionInv /\ ServoInv


\* What a queued message says: the bounds of the config and a frame of the program.
LEMMA MessageFields ==
  ASSUME NEW m \in URMessages
  PROVE  /\ m.cmd \in {"ZERO_FT", "STOP", "SET"}
         /\ m.cmd = "SET" => m.frame \in Frames /\ m.min_pose = MinPose /\ m.max_pose = MaxPose
<1>1. CASE m \in {[cmd |-> "ZERO_FT"], [cmd |-> "STOP"]}
  BY <1>1
<1>2. CASE m \in {SetMessage(f, force, servo, limit) :
                  f \in Frames, force \in Overrides, servo \in Overrides, limit \in Overrides}
  BY <1>2 DEF SetMessage
<1> QED BY <1>1, <1>2 DEF URMessages

\* The positions of a frame are integers.
LEMMA FramesTyped ==
  ASSUME NEW f \in Frames \cup {DefaultFrame}
  PROVE  f.origin \in Int /\ f.target \in Int
  BY FrameAssumption, URAssumption DEF DefaultFrame

\* A clipped value lies between the limits, or is one of the three.
LEMMA ClipTyped ==
  ASSUME NEW x \in Int, NEW lo \in Int, NEW hi \in Int
  PROVE  /\ Clip(x, lo, hi) \in Int
         /\ lo <= hi => lo <= Clip(x, lo, hi) /\ Clip(x, lo, hi) <= hi
         /\ Clip(x, lo, hi) \in {x, lo, hi}
  BY DEF Clip

\* The virtual target and the measured pose in the frame are integers.
LEMMA VirtualTargetTyped ==
  ASSUME URTypeOK
  PROVE  Advanced \in Int /\ PoseInFrame \in Int /\ VirtualTarget \in Int
<1>1. loop.frame.origin \in Int /\ loop.frame.target \in Int
  BY FramesTyped DEF URTypeOK
<1>2. {MinPose, MaxPose, MaxStep, WrenchLimit, ReferenceLimit} \subseteq Int
  BY URAssumption
<1>3. PoseInFrame \in Int
  BY <1>1 DEF PoseInFrame, URTypeOK
<1>4. Clip(loop.frame.target - loop.x_cmd, -MaxStep, MaxStep) \in Int
  <2>1. loop.frame.target - loop.x_cmd \in Int /\ -MaxStep \in Int /\ MaxStep \in Int
    BY <1>1, <1>2 DEF URTypeOK
  <2> QED BY <2>1, ClipTyped
<1>5. Advanced \in Int
  BY <1>1, <1>4 DEF Advanced, URTypeOK
<1> DEFINE clipped == Clip(Advanced, loop.min_pose, loop.max_pose)
<1>6. clipped \in Int
  BY <1>2, <1>5, ClipTyped DEF URTypeOK
<1>7. Clip(clipped - PoseInFrame, -ReferenceLimit, ReferenceLimit) \in Int
  BY <1>2, <1>3, <1>6, ClipTyped
<1> QED BY <1>3, <1>5, <1>6, <1>7 DEF VirtualTarget

\* Head and tail of a sequence, by their indices.
LEMMA HeadTail ==
  ASSUME NEW S, NEW s \in Seq(S), s # <<>>
  PROVE  /\ Head(s) \in S /\ Tail(s) \in Seq(S) /\ Head(s) = s[1] /\ 1 \in DOMAIN s
         /\ \A i \in DOMAIN Tail(s) : i + 1 \in DOMAIN s /\ Tail(s)[i] = s[i + 1]
  OBVIOUS

\* Appending a command adds a STOP only if it is one.
LEMMA AppendStop ==
  ASSUME NEW S, NEW s \in Seq(S), NEW m \in S
  PROVE  /\ Append(s, m) \in Seq(S)
         /\ IsStop(Append(s, m)) <=> IsStop(s) \/ m.cmd = "STOP"
<1>1. Append(s, m) \in Seq(S)
  OBVIOUS
<1>2. /\ DOMAIN Append(s, m) = 1..(Len(s) + 1) /\ DOMAIN s = 1..Len(s) /\ Len(s) \in Nat
      /\ Append(s, m)[Len(s) + 1] = m
      /\ \A i \in DOMAIN s : Append(s, m)[i] = s[i]
  OBVIOUS
<1>3. \A i : i \in DOMAIN Append(s, m) <=> i \in DOMAIN s \/ i = Len(s) + 1
  BY <1>2
<1> QED BY <1>1, <1>2, <1>3 DEF IsStop

\* Before the process is started nothing is live and nothing queued.
LEMMA InitURInv == URInit => URInv
<1> SUFFICES ASSUME URInit PROVE URInv
  OBVIOUS
<1>1. URTypeOK
  <2>1. arm.pose \in Int /\ DOMAIN arm = {"pose", "live", "link"}
    BY URAssumption DEF URInit
  <2>2. /\ loop.frame = DefaultFrame /\ loop.x_cmd = 0
        /\ loop.min_pose = MinPose /\ loop.max_pose = MaxPose
    BY DEF URInit, FreshLoop
  <2> QED BY <2>1, <2>2 DEF URInit, URTypeOK, Overrides, NoAnchor
<1>2. StopInv
  BY DEF URInit, StopInv, IsStop
<1>3. MotionInv /\ ServoInv
  BY DEF URInit, MotionInv, ServoInv, FreshLoop, NoAnchor
<1> QED BY <1>1, <1>2, <1>3 DEF URInv

\* The program's side queues typed messages only.
LEMMA FrontURTypeOK == URTypeOK /\ FrontStep => URTypeOK'
<1> SUFFICES ASSUME URTypeOK, FrontStep PROVE URTypeOK'
  OBVIOUS
<1>1. CASE URConnect
  BY <1>1 DEF URConnect, URTypeOK
<1>2. CASE URStarted
  <2>1. [cmd |-> "ZERO_FT"] \in URMessages
    BY DEF URMessages
  <2> QED BY <1>2, <2>1 DEF URStarted, URTypeOK
<1>3. CASE URStartFails
  BY <1>3 DEF URStartFails, URTypeOK
<1>4. CASE URDisconnect
  BY <1>4 DEF URDisconnect, URTypeOK
<1>5. CASE URStop
  <2>1. [cmd |-> "STOP"] \in URMessages
    BY DEF URMessages
  <2>2. robot_cmd_queue' \in Seq(URMessages)
    <3>1. robot_cmd_queue' \in {robot_cmd_queue, Append(robot_cmd_queue, [cmd |-> "STOP"])}
      BY <1>5 DEF URStop
    <3>2. Append(robot_cmd_queue, [cmd |-> "STOP"]) \in Seq(URMessages)
      BY <2>1, AppendStop DEF URTypeOK
    <3> QED BY <3>1, <3>2 DEF URTypeOK
  <2>3. DOMAIN front' = {"pc", "space", "force", "servo", "limit"}
        /\ {front'.force, front'.servo, front'.limit} \subseteq Overrides
    BY <1>5 DEF URStop, URTypeOK
  <2> QED BY <1>5, <2>2, <2>3 DEF URStop, URTypeOK
<1>6. CASE URJoined
  BY <1>6 DEF URJoined, URTypeOK
<1>7. CASE WatchProcessExit
  BY <1>7 DEF WatchProcessExit, URTypeOK
<1>8. ASSUME NEW f \in Frames, URSend(f) PROVE URTypeOK'
  <2>1. {f.force, f.servo, f.limit} \subseteq Overrides
    BY FrameAssumption DEF Overrides
  <2>2. /\ DOMAIN front' = {"pc", "space", "force", "servo", "limit"}
        /\ {front'.force, front'.servo, front'.limit} \subseteq Overrides
    BY <1>8, <2>1 DEF URSend, Merged, URTypeOK
  <2>3. SetMessage(f, front'.force, front'.servo, front'.limit) \in URMessages
    BY <2>2 DEF URMessages
  <2>4. robot_cmd_queue' \in Seq(URMessages)
    BY <1>8, <2>3 DEF URSend, URTypeOK
  <2> QED BY <1>8, <2>2, <2>4 DEF URSend, URTypeOK
<1> QED BY <1>1, <1>2, <1>3, <1>4, <1>5, <1>6, <1>7, <1>8 DEF FrontStep

\* The message at the head of the drained ones.
LEMMA NextMessageTyped ==
  ASSUME URTypeOK, control.msgs # <<>>
  PROVE  /\ NextMessage \in URMessages /\ Tail(control.msgs) \in Seq(URMessages)
         /\ IsStop(Tail(control.msgs)) => IsStop(control.msgs)
         /\ NextMessage.cmd = "STOP" => IsStop(control.msgs)
<1>1. control.msgs \in Seq(URMessages)
  BY DEF URTypeOK
<1> QED BY <1>1, HeadTail DEF NextMessage, IsStop

\* A rebased virtual target is an integer.
LEMMA RebasedTyped ==
  ASSUME URTypeOK, NEW msg \in URMessages, msg.cmd = "SET"
  PROVE  Rebased(msg) \in Int
<1>1. msg.frame.origin \in Int /\ loop.frame.origin \in Int
  BY MessageFields, FramesTyped DEF URTypeOK
<1> QED BY <1>1 DEF Rebased, TransformTaskPose, URTypeOK

\* The control process and the arm keep the variables typed.
LEMMA ControlURTypeOK == URTypeOK /\ (ControlStep \/ ArmStep) => URTypeOK'
<1> SUFFICES ASSUME URTypeOK, ControlStep \/ ArmStep PROVE URTypeOK'
  OBVIOUS
<1>1. CASE ConnectRTDE
  BY <1>1 DEF ConnectRTDE, URTypeOK
<1>2. CASE StartSession
  BY <1>2 DEF StartSession, Raised, URTypeOK, FreshLoop
<1>3. CASE GetPendingCommands
  BY <1>3 DEF GetPendingCommands, URTypeOK
<1>4. CASE ApplyStop
  BY <1>4 DEF ApplyStop, Leave, URTypeOK
<1>5. CASE ApplyZeroFt
  BY <1>5, NextMessageTyped DEF ApplyZeroFt, Applied, Raised, URTypeOK
<1>6. CASE ApplySet
  <2>1. CASE ApplySetRaises(NextMessage)
    BY <1>6, <2>1 DEF ApplySet, Raised, URTypeOK
  <2>2. CASE ~ApplySetRaises(NextMessage)
    <3>1. Applied /\ ApplyMotionMode(NextMessage) /\ anchor' = NextAnchor(NextMessage)
          /\ UNCHANGED <<front, robot_cmd_queue, events>>
      BY <1>6, <2>2 DEF ApplySet
    <3>2. /\ NextMessage \in URMessages /\ NextMessage.cmd = "SET"
          /\ Tail(control.msgs) \in Seq(URMessages)
      BY <1>6, NextMessageTyped DEF ApplySet
    <3>3. DOMAIN control' = {"pc", "cause", "msgs"} /\ control'.msgs \in Seq(URMessages)
      BY <3>1, <3>2 DEF Applied, URTypeOK
    <3>4. DOMAIN arm' = {"pose", "live", "link"} /\ arm'.pose \in Int
      BY <3>1 DEF ApplyMotionMode, URTypeOK
    <3>5. /\ DOMAIN loop' = DOMAIN FreshLoop
          /\ loop'.frame = NextMessage.frame /\ loop'.x_cmd = Rebased(NextMessage)
          /\ loop'.min_pose = NextMessage.min_pose /\ loop'.max_pose = NextMessage.max_pose
      BY <3>1 DEF ApplyMotionMode, URTypeOK, FreshLoop
    <3>6. anchor' \subseteq Int
      BY <3>1 DEF NextAnchor, NoAnchor, URTypeOK
    <3> QED
      BY <3>1, <3>2, <3>3, <3>4, <3>5, <3>6, MessageFields, RebasedTyped DEF URTypeOK
  <2> QED BY <2>1, <2>2
<1>7. CASE ApplySetHalfway
  BY <1>7 DEF ApplySetHalfway, Raised, URTypeOK, FreshLoop
<1>8. CASE URCycle
  <2>1. /\ DOMAIN loop' = DOMAIN FreshLoop
        /\ loop'.frame = loop.frame /\ loop'.x_cmd \in Int
        /\ loop'.min_pose = loop.min_pose /\ loop'.max_pose = loop.max_pose
    BY <1>8, VirtualTargetTyped DEF URCycle, URTypeOK, FreshLoop
  <2>2. anchor' \subseteq Int
    BY <1>8, VirtualTargetTyped, FramesTyped DEF URCycle, URTypeOK
  <2>3. DOMAIN arm' = {"pose", "live", "link"} /\ arm'.pose \in Int
    BY <1>8 DEF URCycle, URTypeOK
  <2> QED BY <1>8, <2>1, <2>2, <2>3 DEF URCycle, URTypeOK
<1>9. CASE URCycleRaises
  BY <1>9 DEF URCycleRaises, Raised, URTypeOK
<1>10. CASE CleanupRTDE
  BY <1>10 DEF CleanupRTDE, URTypeOK, FreshLoop, NoAnchor
<1>11. CASE ControlExits
  BY <1>11 DEF ControlExits, URTypeOK, FreshLoop
<1>12. CASE ControlKilled
  BY <1>12 DEF ControlKilled, URTypeOK, FreshLoop, NoAnchor
<1>13. CASE ArmStep
  BY <1>13, URAssumption DEF ArmStep, URTypeOK
<1> QED
  BY <1>1, <1>2, <1>3, <1>4, <1>5, <1>6, <1>7, <1>8, <1>9, <1>10, <1>11, <1>12, <1>13
  DEF ControlStep

\* The program's side sends STOP after it has set the event.
LEMMA FrontStopInv == URTypeOK /\ StopInv /\ FrontStep => StopInv'
<1> SUFFICES ASSUME URTypeOK, StopInv, FrontStep PROVE StopInv'
  OBVIOUS
<1> DEFINE zero == [cmd |-> "ZERO_FT"]
           stop == [cmd |-> "STOP"]
<1>1. zero \in URMessages /\ stop \in URMessages
  BY DEF URMessages
<1>2. CASE URConnect
  BY <1>2 DEF URConnect, StopInv, URTypeOK
<1>3. CASE URStarted
  <2>1. robot_cmd_queue' = Append(robot_cmd_queue, zero) /\ front'.pc = "connected"
        /\ UNCHANGED <<events, control>>
    BY <1>3 DEF URStarted, URTypeOK
  <2>2. IsStop(robot_cmd_queue') => IsStop(robot_cmd_queue)
    BY <1>1, <2>1, AppendStop DEF URTypeOK
  <2> QED BY <2>1, <2>2 DEF StopInv
<1>4. CASE URStartFails
  BY <1>4 DEF URStartFails, StopInv, URTypeOK
<1>5. CASE URDisconnect
  BY <1>5 DEF URDisconnect, StopInv, URTypeOK
<1>6. CASE URStop
  BY <1>6 DEF URStop, StopInv, URTypeOK
<1>7. CASE URJoined
  BY <1>7 DEF URJoined, StopInv, URTypeOK
<1>8. CASE WatchProcessExit
  BY <1>8 DEF WatchProcessExit, StopInv, URTypeOK
<1>9. ASSUME NEW f \in Frames, URSend(f) PROVE StopInv'
  <2>1. {f.force, f.servo, f.limit} \subseteq Overrides
    BY FrameAssumption DEF Overrides
  <2>2. front'.force \in Overrides /\ front'.servo \in Overrides
        /\ front'.limit \in Overrides /\ front'.pc = "connected"
    BY <1>9, <2>1 DEF URSend, Merged, URTypeOK
  <2> DEFINE m == SetMessage(f, front'.force, front'.servo, front'.limit)
  <2>3. m \in URMessages /\ m.cmd = "SET"
    BY <2>2 DEF URMessages, SetMessage
  <2>4. robot_cmd_queue' \in {robot_cmd_queue, Append(robot_cmd_queue, m)}
    BY <1>9 DEF URSend
  <2> HIDE DEF m
  <2>5. IsStop(robot_cmd_queue') => IsStop(robot_cmd_queue)
    BY <2>3, <2>4, AppendStop DEF URTypeOK
  <2>6. UNCHANGED <<events, control>>
    BY <1>9 DEF URSend
  <2> QED BY <2>2, <2>5, <2>6 DEF StopInv
<1> QED BY <1>2, <1>3, <1>4, <1>5, <1>6, <1>7, <1>8, <1>9 DEF FrontStep

\* The control process obeys a STOP it drained, and dies once.
LEMMA ControlStopInv == URTypeOK /\ StopInv /\ (ControlStep \/ ArmStep) => StopInv'
<1> SUFFICES ASSUME URTypeOK, StopInv, ControlStep \/ ArmStep PROVE StopInv'
  OBVIOUS
<1>1. CASE UNCHANGED <<front, robot_cmd_queue, events>> /\ control'.pc # "none"
           /\ control.pc \notin {"none", "dead"}
           /\ (control'.cause = "stop" => control.cause = "stop" \/ IsStop(control.msgs))
           /\ (IsStop(control'.msgs) => IsStop(control.msgs))
  BY <1>1 DEF StopInv
<1>2. CASE ConnectRTDE
  BY <1>2, <1>1 DEF ConnectRTDE, InLoop, URTypeOK
<1>3. CASE StartSession
  BY <1>3, <1>1 DEF StartSession, InLoop, Raised, URTypeOK
<1>4. CASE GetPendingCommands
  <2>1. ~IsStop(<<>>)
    BY DEF IsStop
  <2> QED BY <1>4, <2>1 DEF GetPendingCommands, InLoop, StopInv, URTypeOK
<1>5. CASE ApplyStop
  BY <1>5, <1>1, NextMessageTyped DEF ApplyStop, InLoop, Leave, URTypeOK
<1>6. CASE ApplyZeroFt
  BY <1>6, <1>1, NextMessageTyped DEF ApplyZeroFt, InLoop, Applied, Raised, URTypeOK
<1>7. CASE ApplySet
  BY <1>7, <1>1, NextMessageTyped DEF ApplySet, InLoop, Applied, Raised, URTypeOK
<1>8. CASE ApplySetHalfway
  BY <1>8, <1>1 DEF ApplySetHalfway, InLoop, Raised, URTypeOK
<1>9. CASE URCycle
  BY <1>9 DEF URCycle, InLoop, StopInv, URTypeOK
<1>10. CASE URCycleRaises
  BY <1>10, <1>1 DEF URCycleRaises, InLoop, Raised, URTypeOK
<1>11. CASE CleanupRTDE
  <2>1. ~IsStop(<<>>)
    BY DEF IsStop
  <2> QED BY <1>11, <2>1 DEF CleanupRTDE, InLoop, StopInv, URTypeOK
<1>12. CASE ControlExits
  BY <1>12 DEF ControlExits, InLoop, StopInv, URTypeOK
<1>13. CASE ControlKilled
  <2>1. ~IsStop(<<>>)
    BY DEF IsStop
  <2> QED BY <1>13, <2>1 DEF ControlKilled, Running, StopInv, URTypeOK
<1>14. CASE ArmStep
  BY <1>14 DEF ArmStep, StopInv
<1> QED
  BY <1>2, <1>3, <1>4, <1>5, <1>6, <1>7, <1>8, <1>9, <1>10, <1>11, <1>12, <1>13, <1>14
  DEF ControlStep

\* Every change of the motion mode stops the motion the loop knows of before it starts another.
LEMMA NextMotionInv == URTypeOK /\ StopInv /\ MotionInv /\ [URNext]_urVars => MotionInv'
<1> SUFFICES ASSUME URTypeOK, StopInv, MotionInv, [URNext]_urVars PROVE MotionInv'
  OBVIOUS
<1>1. CASE UNCHANGED <<loop, arm, anchor, control>>
  BY <1>1 DEF MotionInv
<1>2. CASE (FrontStep /\ ~URConnect) \/ UNCHANGED urVars
  BY <1>1, <1>2
  DEF FrontStep, URStarted, URStartFails, URDisconnect, URStop, URJoined, WatchProcessExit,
      URSend, urVars
<1>3. CASE URConnect
  BY <1>3 DEF URConnect, MotionInv, StopInv, URTypeOK
<1>4. CASE ConnectRTDE
  BY <1>4 DEF ConnectRTDE, InLoop, MotionInv, URTypeOK
<1>5. CASE StartSession
  BY <1>5 DEF StartSession, InLoop, Raised, MotionInv, URTypeOK, FreshLoop
<1>6. CASE GetPendingCommands
  BY <1>6 DEF GetPendingCommands, InLoop, MotionInv, URTypeOK
<1>7. CASE ApplyStop \/ ApplyZeroFt
  BY <1>7 DEF ApplyStop, ApplyZeroFt, InLoop, Leave, Applied, Raised, MotionInv, URTypeOK
<1>8. CASE ApplySet
  <2>1. CASE ApplySetRaises(NextMessage)
    BY <1>8, <2>1 DEF ApplySet, InLoop, Raised, MotionInv, URTypeOK
  <2>2. CASE ~ApplySetRaises(NextMessage)
    <3> DEFINE mode == ResolveMotionMode(NextMessage)
    <3>1. /\ control'.pc = "applying" /\ control'.cause = control.cause /\ control.pc = "applying"
          /\ ApplyMotionMode(NextMessage)
      BY <1>8, <2>2 DEF ApplySet, InLoop, Applied, URTypeOK
    <3>2. loop'.motion_mode = mode /\ (mode = "FORCE" => loop'.force_on = TRUE)
      BY <3>1 DEF ApplyMotionMode, URTypeOK, FreshLoop
    <3>3. /\ arm'.link = arm.link
          /\ arm'.live = IF mode # loop.motion_mode
                         THEN IF mode = "FORCE" THEN Stopped(loop.motion_mode) \cup {"FORCE"}
                                                ELSE Stopped(loop.motion_mode)
                         ELSE arm.live
      BY <3>1 DEF ApplyMotionMode, URTypeOK
    <3>4. arm.link /\ control.cause # "killed" => Stopped(loop.motion_mode) = {}
      BY DEF Stopped, MotionInv
    <3> HIDE DEF mode
    <3>5. arm.link /\ control.cause # "killed" => arm'.live \subseteq {mode}
      BY <3>3, <3>4 DEF MotionInv
    <3> QED BY <3>1, <3>2, <3>3, <3>5 DEF MotionInv
  <2> QED BY <2>1, <2>2
<1>9. CASE ApplySetHalfway
  BY <1>9 DEF ApplySetHalfway, InLoop, Raised, MotionInv, URTypeOK
<1>10. CASE URCycle
  <2>1. loop'.motion_mode = loop.motion_mode /\ loop'.force_on = loop.force_on
    BY <1>10 DEF URCycle, URTypeOK, FreshLoop
  <2>2. /\ control'.pc = "draining" /\ control'.cause = control.cause /\ control.pc = "applying"
        /\ arm'.link = arm.link /\ arm'.live \subseteq arm.live \cup {loop.motion_mode}
    BY <1>10 DEF URCycle, InLoop, URTypeOK
  <2> QED BY <2>1, <2>2 DEF MotionInv
<1>11. CASE URCycleRaises
  BY <1>11 DEF URCycleRaises, InLoop, Raised, MotionInv, URTypeOK
<1>12. CASE CleanupRTDE
  BY <1>12 DEF CleanupRTDE, InLoop, MotionInv, URTypeOK, FreshLoop, NoAnchor
<1>13. CASE ControlExits
  BY <1>13 DEF ControlExits, InLoop, MotionInv, URTypeOK, FreshLoop
<1>14. CASE ControlKilled
  BY <1>14 DEF ControlKilled, MotionInv, URTypeOK, FreshLoop
<1>15. CASE ArmStep
  BY <1>15 DEF ArmStep, MotionInv, URTypeOK
<1> QED
  BY <1>2, <1>3, <1>4, <1>5, <1>6, <1>7, <1>8, <1>9, <1>10, <1>11, <1>12, <1>13, <1>14, <1>15
  DEF URNext, ControlStep

\* A new frame rebases the virtual target so that it stays where it was in the world.
LEMMA NextServoInv == URTypeOK /\ MotionInv /\ ServoInv /\ [URNext]_urVars => ServoInv'
<1> SUFFICES ASSUME URTypeOK, MotionInv, ServoInv, [URNext]_urVars, loop'.motion_mode = "SERVO"
             PROVE  ServoInv'
  BY DEF ServoInv
<1>1. CASE UNCHANGED <<loop, anchor>>
  BY <1>1 DEF ServoInv
<1>2. CASE FrontStep \/ UNCHANGED urVars
  BY <1>1, <1>2
  DEF FrontStep, URConnect, URStarted, URStartFails, URDisconnect, URStop, URJoined,
      WatchProcessExit, URSend, urVars
<1>3. CASE ConnectRTDE \/ GetPendingCommands \/ ApplyStop \/ ApplyZeroFt \/ URCycleRaises \/ ArmStep
  BY <1>1, <1>3 DEF ConnectRTDE, GetPendingCommands, ApplyStop, ApplyZeroFt, URCycleRaises, ArmStep
<1>4. CASE StartSession
  BY <1>4 DEF StartSession, InLoop, MotionInv, URTypeOK, FreshLoop
<1>5. CASE ApplySet
  <2>1. CASE ApplySetRaises(NextMessage)
    BY <1>1, <1>5, <2>1 DEF ApplySet
  <2>2. CASE ~ApplySetRaises(NextMessage)
    <3>1. /\ NextMessage \in URMessages /\ NextMessage.cmd = "SET"
          /\ ApplyMotionMode(NextMessage) /\ anchor' = NextAnchor(NextMessage)
          /\ AxesSupported(NextMessage)
      BY <1>5, <2>2, NextMessageTyped DEF ApplySet, ApplySetRaises
    <3>2. /\ loop'.motion_mode = ResolveMotionMode(NextMessage)
          /\ loop'.frame = NextMessage.frame /\ loop'.space = NextMessage.frame.space
          /\ loop'.use_force_mode = NextMessage.use_force_mode
          /\ loop'.use_servo = NextMessage.simple_pose_use_servo
          /\ loop'.x_cmd = Rebased(NextMessage)
      BY <3>1 DEF ApplyMotionMode, URTypeOK, FreshLoop
    <3>3. /\ loop'.space = "TASK" /\ ~loop'.use_force_mode /\ loop'.use_servo
          /\ loop'.frame.control_mode = "POS"
      BY <3>1, <3>2 DEF ResolveMotionMode, AxesSupported
    <3>4. NextMessage.frame.origin \in Int /\ loop.frame.origin \in Int
      BY <3>1, MessageFields, FramesTyped DEF URTypeOK
    <3>5. CASE ResolveMotionMode(NextMessage) # loop.motion_mode
      BY <3>1, <3>3, <3>5 DEF NextAnchor, NoAnchor, ServoInv
    <3>6. CASE ResolveMotionMode(NextMessage) = loop.motion_mode
      <4>1. anchor' \subseteq {Rebased(NextMessage) + NextMessage.frame.origin}
        <5>1. CASE RelativePos(NextMessage.frame) /\ ~RelativePos(loop.frame)
          BY <3>1, <3>2, <3>3, <3>4, <3>6, <5>1 DEF NextAnchor, Rebased, URTypeOK
        <5>2. CASE ~(RelativePos(NextMessage.frame) /\ ~RelativePos(loop.frame))
          <6>1. anchor' = anchor /\ anchor \subseteq {loop.x_cmd + loop.frame.origin}
            BY <3>1, <3>2, <3>6, <5>2 DEF NextAnchor, ServoInv
          <6>2. Rebased(NextMessage) = loop.x_cmd + loop.frame.origin - NextMessage.frame.origin
            BY <3>2, <3>3, <5>2 DEF Rebased, TransformTaskPose
          <6>3. Rebased(NextMessage) + NextMessage.frame.origin = loop.x_cmd + loop.frame.origin
            BY <6>2, <3>4 DEF URTypeOK
          <6> QED BY <6>1, <6>3
        <5> QED BY <5>1, <5>2
      <4> QED BY <3>2, <3>3, <4>1 DEF ServoInv
    <3> QED BY <3>5, <3>6
  <2> QED BY <2>1, <2>2
<1>6. CASE ApplySetHalfway
  BY <1>6 DEF ApplySetHalfway, ServoInv, URTypeOK, FreshLoop
<1>7. CASE URCycle
  <2>1. CASE loop.space = "TASK"
    <3>1. loop' = [loop EXCEPT !.x_cmd = VirtualTarget]
      BY <1>7, <2>1 DEF URCycle
    <3>2. /\ loop'.motion_mode = loop.motion_mode /\ loop'.space = loop.space
          /\ loop'.use_force_mode = loop.use_force_mode /\ loop'.use_servo = loop.use_servo
          /\ loop'.frame = loop.frame /\ loop'.x_cmd = VirtualTarget
      BY <3>1 DEF URTypeOK, FreshLoop
    <3>3. ~loop.use_force_mode
      BY <3>2 DEF ServoInv
    <3>4. anchor' = {VirtualTarget + loop.frame.origin}
      BY <1>7, <2>1, <3>3 DEF URCycle
    <3> QED BY <3>2, <3>4 DEF ServoInv
  <2>2. CASE loop.space # "TASK"
    BY <1>7, <2>2 DEF URCycle, ServoInv
  <2> QED BY <2>1, <2>2
<1>8. CASE CleanupRTDE
  BY <1>8 DEF CleanupRTDE, URTypeOK, FreshLoop
<1>9. CASE ControlExits \/ ControlKilled
  BY <1>9 DEF ControlExits, ControlKilled, FreshLoop
<1> QED
  BY <1>2, <1>3, <1>4, <1>5, <1>6, <1>7, <1>8, <1>9 DEF URNext, ControlStep

\* The invariant of the UR arm and its control process.
LEMMA URInvHolds == URSpec => []URInv
<1>1. URInv /\ [URNext]_urVars => URInv'
  <2> SUFFICES ASSUME URInv, [URNext]_urVars PROVE URInv'
    OBVIOUS
  <2>1. URTypeOK' /\ StopInv'
    <3>1. CASE URNext
      BY <3>1, FrontURTypeOK, ControlURTypeOK, FrontStopInv, ControlStopInv DEF URInv, URNext
    <3>2. CASE UNCHANGED urVars
      BY <3>2 DEF URInv, urVars, URTypeOK, StopInv
    <3> QED BY <3>1, <3>2
  <2> QED BY <2>1, NextMotionInv, NextServoInv DEF URInv
<1> QED BY <1>1, InitURInv, PTL DEF URSpec

\* At most the loop's own motion is live on the arm, and none after an end that reached it, for
\* all frames, bounds and queue sizes (controller.py:39-45).
THEOREM UROneMotionLive == URSpec => []OneMotionLive
<1>1. URInv => OneMotionLive
  BY DEF URInv, MotionInv, OneMotionLive
<1> QED BY <1>1, URInvHolds, PTL

\* An end the program asked for is never reported as unexpected, in any order of the event, the
\* command, the loop and the watcher.
THEOREM URStopIsNotUnexpected == URSpec => []StopIsNotUnexpected
<1>1. URInv => StopIsNotUnexpected
  BY DEF URInv, StopInv, StopIsNotUnexpected
<1> QED BY <1>1, URInvHolds, PTL

\* One cycle of a servo motion.
LEMMA ServoStep ==
  ASSUME URTypeOK, ServoInv, URCycle, loop.motion_mode = "SERVO",
         NEW before \in anchor, NEW after \in anchor'
  PROVE  \/ loop'.x_cmd \in {loop.min_pose, loop.max_pose}
         \/ ~RelativePos(loop.frame) /\ after - before \in -MaxStep..MaxStep
         \/ RelativePos(loop.frame) /\ after - before = loop.frame.target
         \/ /\ RelativePos(loop.frame) /\ loop.reference_limit
            /\ after - arm.pose \in {-ReferenceLimit, ReferenceLimit}
<1> DEFINE origin == loop.frame.origin
           target == loop.frame.target
           step == Clip(target - loop.x_cmd, -MaxStep, MaxStep)
           error == Clip(Clip(Advanced, loop.min_pose, loop.max_pose) - PoseInFrame,
                         -ReferenceLimit, ReferenceLimit)
<1>1. /\ loop.space = "TASK" /\ ~loop.use_force_mode /\ loop.use_servo
      /\ loop.frame.control_mode = "POS" /\ before = loop.x_cmd + origin
  BY DEF ServoInv
<1>2. after = VirtualTarget + origin
  BY <1>1 DEF URCycle
<1>3. loop'.x_cmd = VirtualTarget
  BY <1>1 DEF URCycle, URTypeOK, FreshLoop
<1>4. /\ origin \in Int /\ target \in Int /\ loop.x_cmd \in Int /\ arm.pose \in Int
      /\ {MinPose, MaxPose} \subseteq Int /\ {MaxStep, ReferenceLimit} \subseteq Nat
      /\ loop.min_pose = MinPose /\ loop.max_pose = MaxPose
  BY FramesTyped, URAssumption DEF URTypeOK
<1> DEFINE clipped == Clip(Advanced, loop.min_pose, loop.max_pose)
<1>a. clipped \in Int /\ clipped \in {Advanced, loop.min_pose, loop.max_pose}
  BY <1>4, VirtualTargetTyped, ClipTyped
<1>5. CASE RelativePos(loop.frame)
  <2>1. Advanced = loop.x_cmd + target
    BY <1>1, <1>5 DEF Advanced, RelativePos
  <2>2. PoseInFrame = arm.pose - origin /\ PoseInFrame \in Int
    BY VirtualTargetTyped DEF PoseInFrame
  <2>3. CASE VirtualTarget = clipped
    <3> HIDE DEF clipped, origin, target
    <3>1. CASE clipped = Advanced
      <4>1. after - before = target
        BY <1>1, <1>2, <1>4, <2>1, <2>3, <3>1
      <4> QED BY <1>5, <4>1 DEF target
    <3> QED BY <1>3, <1>a, <2>3, <3>1
  <2>4. CASE VirtualTarget # clipped
    <3>1. loop.reference_limit /\ VirtualTarget = PoseInFrame + error
      BY <1>5, <2>4 DEF VirtualTarget
    <3>2. error \in {clipped - PoseInFrame, -ReferenceLimit, ReferenceLimit}
      <4>1. /\ clipped - PoseInFrame \in Int
            /\ -ReferenceLimit \in Int /\ ReferenceLimit \in Int
        BY <1>4, <1>a, <2>2
      <4> QED BY <4>1, ClipTyped
    <3> HIDE DEF error, origin, clipped
    <3>3. error # clipped - PoseInFrame
      BY <1>a, <2>2, <2>4, <3>1
    <3>4. error \in {-ReferenceLimit, ReferenceLimit} /\ error \in Int
      BY <1>4, <3>2, <3>3
    <3>5. after - arm.pose = error
      BY <1>2, <1>4, <2>2, <3>1, <3>4
    <3> QED BY <1>5, <3>1, <3>4, <3>5
  <2> QED BY <2>3, <2>4
<1>6. CASE ~RelativePos(loop.frame)
  <2>1. VirtualTarget = Clip(Advanced, loop.min_pose, loop.max_pose)
    BY <1>6 DEF VirtualTarget
  <2>2. Advanced = loop.x_cmd + step
    BY <1>1, <1>6 DEF Advanced, RelativePos
  <2>3. step \in -MaxStep..MaxStep
    <3>1. -MaxStep \in Int /\ MaxStep \in Int /\ -MaxStep <= MaxStep /\ target - loop.x_cmd \in Int
      BY <1>4
    <3> QED BY <3>1, ClipTyped
  <2>4. VirtualTarget \in {Advanced, loop.min_pose, loop.max_pose}
    BY <1>4, <2>1, VirtualTargetTyped, ClipTyped
  <2> HIDE DEF step, origin
  <2>5. CASE VirtualTarget = Advanced
    <3>1. step \in Int /\ after - before = step
      BY <1>1, <1>2, <1>4, <2>2, <2>3, <2>5
    <3> QED BY <1>6, <2>3, <3>1
  <2> QED BY <1>3, <2>4, <2>5
<1> QED BY <1>5, <1>6

\* A servo setpoint continues from the one before it, across commands, frames and origins, by
\* at most a step of an absolute axis and by the velocity of a relative one, for all frames and
\* limits, with the reference limit enabled and without (controller.py:688-698, 1061-1112).
THEOREM URServoContinuous == URSpec => ServoContinuous
<1> DEFINE A == (URCycle /\ loop.motion_mode = "SERVO")
                  => \A before \in anchor, after \in anchor' :
                        \/ loop'.x_cmd \in {loop.min_pose, loop.max_pose}
                        \/ ~RelativePos(loop.frame) /\ after - before \in -MaxStep..MaxStep
                        \/ RelativePos(loop.frame) /\ after - before = loop.frame.target
                        \/ /\ RelativePos(loop.frame) /\ loop.reference_limit
                           /\ after - arm.pose \in {-ReferenceLimit, ReferenceLimit}
<1>1. URInv /\ [URNext]_urVars => [A]_urVars
  BY ServoStep DEF URInv
<1>2. [][A]_urVars <=> ServoContinuous
  BY DEF ServoContinuous
<1> HIDE DEF A
<1> QED BY <1>1, <1>2, URInvHolds, PTL DEF URSpec

\* The wrench of one cycle.
LEMMA WrenchStep ==
  ASSUME URTypeOK
  PROVE  /\ PoseInFrame > loop.max_pose => TaskWrench < 0
         /\ PoseInFrame < loop.min_pose => TaskWrench > 0
<1> DEFINE wrench == CASE loop.frame.control_mode = "POS" -> VirtualTarget - PoseInFrame
                       [] OTHER -> loop.frame.target
           limited == Clip(wrench, -WrenchLimit, WrenchLimit)
<1>1. /\ PoseInFrame \in Int /\ {MinPose, MaxPose} \subseteq Int /\ MinPose <= MaxPose
      /\ WrenchLimit \in Nat /\ loop.min_pose = MinPose /\ loop.max_pose = MaxPose
  BY VirtualTargetTyped, URAssumption DEF URTypeOK
<1>2. wrench \in Int
  BY VirtualTargetTyped, FramesTyped DEF URTypeOK
<1> HIDE DEF wrench
<1>3. limited \in Int
  <2>1. -WrenchLimit \in Int /\ WrenchLimit \in Int
    BY <1>1
  <2> QED BY <1>2, <2>1, ClipTyped
<1>4. TaskWrench = BoundedWrench(wrench)
  BY DEF TaskWrench, wrench
<1>5. CASE PoseInFrame > loop.max_pose
  <2>1. BoundedWrench(wrench) = Clip(limited, -WrenchLimit, 0) - (PoseInFrame - loop.max_pose)
    BY <1>1, <1>5 DEF BoundedWrench
  <2> HIDE DEF limited
  <2>2. Clip(limited, -WrenchLimit, 0) \in Int /\ Clip(limited, -WrenchLimit, 0) <= 0
    BY <1>1, <1>3 DEF Clip
  <2> QED BY <1>1, <1>4, <1>5, <2>1, <2>2
<1>6. CASE PoseInFrame < loop.min_pose
  <2>1. BoundedWrench(wrench) = Clip(limited, 0, WrenchLimit) + (loop.min_pose - PoseInFrame)
    BY <1>1, <1>6 DEF BoundedWrench
  <2> HIDE DEF limited
  <2>2. Clip(limited, 0, WrenchLimit) \in Int /\ Clip(limited, 0, WrenchLimit) >= 0
    BY <1>1, <1>3 DEF Clip
  <2> QED BY <1>1, <1>4, <1>6, <2>1, <2>2
<1> QED BY <1>5, <1>6

\* The wrench sent outside the bounds points back inside, for every wrench limit and all bounds
\* (controller.py:1480-1510).
THEOREM URWrenchPointsInward == URSpec => WrenchPointsInward
<1> DEFINE A == (URCycle /\ loop.motion_mode = "FORCE")
                  => /\ PoseInFrame > loop.max_pose => TaskWrench < 0
                     /\ PoseInFrame < loop.min_pose => TaskWrench > 0
<1>1. URInv /\ [URNext]_urVars => [A]_urVars
  BY WrenchStep DEF URInv
<1>2. [][A]_urVars <=> WrenchPointsInward
  BY DEF WrenchPointsInward
<1> HIDE DEF A
<1> QED BY <1>1, <1>2, URInvHolds, PTL DEF URSpec

-----------------------------------------------------------------------------
(* The Robotiq gripper                                                     *)

GripperCommandSet == [cmd : {"MOVE", "STOP"}, pos : Int]

Starting == {"none", "activating", "opening", "closing", "reopening"}

GripperTypeOK ==
    /\ DOMAIN gripper_front = {"pc", "target"}
    /\ gripper_cmd_queue \in Seq(GripperCommandSet)
    /\ DOMAIN gripper_process = {"pc", "current_pos", "commands", "min_position", "max_position"}
    /\ gripper_process.commands \in Seq(GripperCommandSet)
    /\ DOMAIN gripper = {"pos", "goal", "object"}
    /\ missed \in [full : BOOLEAN, unexecuted : BOOLEAN]

\* before the first iteration has ended nothing can have been commanded
ReadyInv ==
    /\ gripper_front.pc = "off" => gripper_process.pc = "none"
    /\ gripper_front.pc \in {"off", "starting"} => gripper_front.target = <<>>
    /\ gripper_process.pc \in Starting
          => gripper_front.pc \in {"off", "starting"} /\ ~gripper_ready
    /\ gripper_process.pc # "moving" => gripper_process.commands = <<>>

Stops(commands) == \E i \in DOMAIN commands : commands[i].cmd = "STOP"

\* the limiter's target is the newest move of the queue, or of the drained commands, or, where
\* the last one was executed, the goal
NewestInv ==
    \A target \in EncoderPositions :
        /\ ~missed.full /\ gripper_front.target = <<target>>
        /\ gripper_process.pc # "dead"
        /\ ~Stops(gripper_cmd_queue) /\ ~Stops(gripper_process.commands)
        => IF MovesIn(gripper_cmd_queue) # {} THEN LatestMove(gripper_cmd_queue) = target
           ELSE IF Moves # {} THEN LatestMove(gripper_process.commands) = target
           ELSE missed.unexecuted \/ gripper.goal = Clipped(target)

GripperInv == GripperTypeOK /\ ReadyInv /\ NewestInv


\* What the limiter lets through is its new target, what it suppresses leaves the target alone.
LEMMA FilterStep ==
  ASSUME NEW target, NEW requested, NEW cooled \in BOOLEAN
  PROVE  \/ /\ Filter(target, requested, cooled).send = TRUE
            /\ Filter(target, requested, cooled).target = <<requested>>
         \/ /\ Filter(target, requested, cooled).send = FALSE
            /\ Filter(target, requested, cooled).target = target
<1>1. CASE target = <<>>
  BY <1>1 DEF Filter
<1>2. CASE target # <<>> /\ target = <<requested>>
  BY <1>2 DEF Filter
<1>3. CASE target # <<>> /\ target # <<requested>> /\ ~cooled
  BY <1>3 DEF Filter
<1>4. CASE target # <<>> /\ target # <<requested>> /\ cooled
  BY <1>4 DEF Filter
<1> QED BY <1>1, <1>2, <1>3, <1>4

\* A move that is appended is the latest one of the queue.
LEMMA AppendMove ==
  ASSUME NEW s \in Seq(GripperCommandSet), NEW m \in GripperCommandSet
  PROVE  /\ Append(s, m) \in Seq(GripperCommandSet)
         /\ m.cmd = "STOP" => Stops(Append(s, m))
         /\ Stops(s) => Stops(Append(s, m))
         /\ m.cmd = "MOVE" => MovesIn(Append(s, m)) # {} /\ LatestMove(Append(s, m)) = m.pos
<1> DEFINE t == Append(s, m)
           n == Len(s) + 1
<1>1. /\ t \in Seq(GripperCommandSet) /\ n \in Nat /\ DOMAIN t = 1..n /\ t[n] = m /\ n \in DOMAIN t
      /\ DOMAIN s = 1..Len(s) /\ \A i \in DOMAIN s : i \in DOMAIN t /\ t[i] = s[i]
  OBVIOUS
<1> HIDE DEF t, n
<1>2. /\ m.cmd = "STOP" => Stops(t)
      /\ Stops(s) => Stops(t)
  BY <1>1 DEF Stops
<1>3. ASSUME m.cmd = "MOVE" PROVE MovesIn(t) # {} /\ LatestMove(t) = m.pos
  <2>1. n \in MovesIn(t) /\ \A j \in MovesIn(t) : j <= n /\ j \in Nat
    BY <1>1, <1>3 DEF MovesIn
  <2>3. ASSUME NEW i \in MovesIn(t), \A j \in MovesIn(t) : j <= i PROVE i = n
    <3>1. n <= i /\ i <= n /\ i \in Nat
      BY <2>1, <2>3
    <3> QED BY <1>1, <3>1
  <2>2. (CHOOSE i \in MovesIn(t) : \A j \in MovesIn(t) : j <= i) = n
    BY <2>1, <2>3
  <2> QED BY <1>1, <2>1, <2>2 DEF LatestMove
<1> QED BY <1>1, <1>2, <1>3 DEF t

\* Before the first command there is no target.
LEMMA InitGripperInv == GripperInit => GripperInv
<1> SUFFICES ASSUME GripperInit PROVE GripperInv
  OBVIOUS
<1>1. GripperTypeOK /\ ReadyInv
  BY DEF GripperInit, GripperTypeOK, ReadyInv, Starting
<1>2. NewestInv
  BY DEF GripperInit, NewestInv
<1> QED BY <1>1, <1>2 DEF GripperInv

\* Every step keeps the variables typed.
LEMMA NextGripperTypeOK == GripperTypeOK /\ [GripperNext]_gripperVars => GripperTypeOK'
<1> SUFFICES ASSUME GripperTypeOK, [GripperNext]_gripperVars PROVE GripperTypeOK'
  OBVIOUS
<1> USE DEF GripperTypeOK
<1>1. CASE GripperStart \/ GripperStarted \/ GripperJoined
  BY <1>1 DEF GripperStart, GripperStarted, GripperJoined
<1>2. CASE GripperStop
  <2>1. [cmd |-> "STOP", pos |-> 0] \in GripperCommandSet
    BY DEF GripperCommandSet
  <2> QED BY <1>2, <2>1 DEF GripperStop
<1>3. ASSUME NEW requested \in EncoderPositions, NEW cooled \in BOOLEAN,
             GripperAction(requested, cooled)
      PROVE  GripperTypeOK'
  <2>1. [cmd |-> "MOVE", pos |-> requested] \in GripperCommandSet
    BY GripperAssumption DEF GripperCommandSet, EncoderPositions
  <2>2. gripper_cmd_queue' \in {gripper_cmd_queue,
                               Append(gripper_cmd_queue, [cmd |-> "MOVE", pos |-> requested])}
    BY <1>3 DEF GripperAction
  <2>3. gripper_cmd_queue' \in Seq(GripperCommandSet)
    <3>1. gripper_cmd_queue \in Seq(GripperCommandSet)
      OBVIOUS
    <3>2. Append(gripper_cmd_queue, [cmd |-> "MOVE", pos |-> requested]) \in Seq(GripperCommandSet)
      BY ONLY <2>1, <3>1, AppendMove
    <3> QED BY ONLY <2>2, <3>1, <3>2
  <2>4. missed' \in [full : BOOLEAN, unexecuted : BOOLEAN]
    <3>1. \/ missed' = missed
          \/ missed' = [missed EXCEPT !.full = (Len(gripper_cmd_queue) >= GripperSlots)]
      BY <1>3 DEF GripperAction
    <3>2. (Len(gripper_cmd_queue) >= GripperSlots) \in BOOLEAN
      OBVIOUS
    <3> QED BY <3>1, <3>2
  <2>5. DOMAIN gripper_front' = {"pc", "target"}
    BY <1>3 DEF GripperAction
  <2> QED BY <1>3, <2>3, <2>4, <2>5 DEF GripperAction
<1>4. CASE Travel \/ ObjectMoves
  BY <1>4 DEF Travel, ObjectMoves
<1>5. CASE GripperDies
  BY <1>5 DEF GripperDies, Goto
<1>6. CASE Activate
  BY <1>6 DEF Activate, Goto, MoveTo
<1>7. CASE CalibrateClose \/ CalibrateOpen \/ CalibrateEnd
  BY <1>7 DEF CalibrateClose, CalibrateOpen, CalibrateEnd, Goto, MoveTo
<1>8. CASE ReadPosition
  BY <1>8 DEF ReadPosition, Goto
<1>11. CASE FetchCommands
  BY <1>11 DEF FetchCommands, Goto
<1>9. CASE MoveGripper
  <2>1. PICK flag \in BOOLEAN : missed' \in {missed, [missed EXCEPT !.unexecuted = flag]}
    BY <1>9 DEF MoveGripper
  <2>2. missed' \in [full : BOOLEAN, unexecuted : BOOLEAN]
    BY <2>1
  <2>3. DOMAIN gripper' = {"pos", "goal", "object"}
    BY <1>9 DEF MoveGripper, MoveTo
  <2>4. /\ DOMAIN gripper_process' = DOMAIN gripper_process /\ gripper_process'.commands = <<>>
        /\ UNCHANGED <<gripper_front, gripper_cmd_queue>>
    BY <1>9 DEF MoveGripper, Goto
  <2> QED BY <2>2, <2>3, <2>4
<1>10. CASE UNCHANGED gripperVars
  BY <1>10 DEF gripperVars
<1> QED
  BY <1>1, <1>2, <1>3, <1>4, <1>5, <1>6, <1>7, <1>8, <1>9, <1>10, <1>11 DEF GripperNext

\* Nothing is commanded before the first iteration has ended.
LEMMA NextReadyInv == GripperTypeOK /\ ReadyInv /\ [GripperNext]_gripperVars => ReadyInv'
<1> SUFFICES ASSUME GripperTypeOK, ReadyInv, [GripperNext]_gripperVars PROVE ReadyInv'
  OBVIOUS
<1> USE DEF GripperTypeOK, ReadyInv, Starting
<1>1. CASE GripperStart
  BY <1>1 DEF GripperStart
<1>2. CASE GripperStarted
  BY <1>2 DEF GripperStarted
<1>3. ASSUME NEW requested, NEW cooled, GripperAction(requested, cooled) PROVE ReadyInv'
  BY <1>3 DEF GripperAction
<1>4. CASE GripperStop \/ GripperJoined
  BY <1>4 DEF GripperStop, GripperJoined
<1>5. CASE GripperDies
  BY <1>5 DEF GripperDies, Goto
<1>6. CASE Activate
  BY <1>6 DEF Activate, At, Goto
<1>7. CASE CalibrateClose \/ CalibrateOpen \/ CalibrateEnd
  <2>1. /\ gripper_process.pc \in {"opening", "closing", "reopening"}
        /\ gripper_process'.pc \in {"closing", "reopening", "reading"}
        /\ gripper_process'.commands = gripper_process.commands
        /\ UNCHANGED <<gripper_front, gripper_ready>>
    BY <1>7 DEF CalibrateClose, CalibrateOpen, CalibrateEnd, At, Goto
  <2> QED BY <2>1
<1>8. CASE ReadPosition \/ FetchCommands
  BY <1>8 DEF ReadPosition, FetchCommands, At, Goto
<1>9. CASE MoveGripper
  BY <1>9 DEF MoveGripper, At, Goto
<1>10. CASE UNCHANGED <<gripper_front, gripper_process, gripper_ready>>
  BY <1>10
<1> QED
  BY <1>1, <1>2, <1>3, <1>4, <1>5, <1>6, <1>7, <1>8, <1>9, <1>10
  DEF GripperNext, Travel, ObjectMoves, gripperVars

\* The newest target is in the queue, in the drained batch or in the goal, unless the wrapper lost
\* it to a full queue or the process did not execute the last one it took.
LEMMA NextNewestInv ==
  GripperTypeOK /\ ReadyInv /\ ReadyInv' /\ NewestInv /\ [GripperNext]_gripperVars => NewestInv'
<1> SUFFICES ASSUME GripperTypeOK, ReadyInv, ReadyInv', NewestInv, [GripperNext]_gripperVars
             PROVE  NewestInv'
  OBVIOUS
<1>1. CASE gripper_process'.pc \in Starting \/ gripper_process'.pc = "dead"
           \/ gripper_front'.target = <<>>
  BY <1>1 DEF NewestInv, ReadyInv
<1>2. CASE /\ UNCHANGED <<gripper_cmd_queue, missed, gripper_front.target, gripper.goal>>
           /\ UNCHANGED <<gripper_process.commands, gripper_process.min_position,
                          gripper_process.max_position>>
           /\ gripper_process.pc # "dead"
  BY <1>2 DEF NewestInv, Moves, Clipped
<1>3. CASE GripperStart
  BY <1>1, <1>3 DEF GripperStart, Starting, GripperTypeOK
<1>4. CASE GripperStarted \/ GripperJoined
  <2>1. UNCHANGED <<gripper_process, gripper, gripper_cmd_queue, missed, gripper_front.target>>
    BY <1>4 DEF GripperStarted, GripperJoined, GripperTypeOK
  <2> QED BY <2>1, <1>1, <1>2
<1>5. CASE GripperStop
  <2>1. gripper_cmd_queue' = Append(gripper_cmd_queue, [cmd |-> "STOP", pos |-> 0])
    BY <1>5 DEF GripperStop
  <2>2. [cmd |-> "STOP", pos |-> 0] \in GripperCommandSet
    BY DEF GripperCommandSet
  <2>3. Stops(gripper_cmd_queue')
    BY <2>1, <2>2, AppendMove DEF GripperTypeOK
  <2> QED BY <2>3 DEF NewestInv
<1>6. ASSUME NEW requested \in EncoderPositions, NEW cooled \in BOOLEAN,
             GripperAction(requested, cooled)
      PROVE  NewestInv'
  <2> DEFINE filtered == Filter(gripper_front.target, requested, cooled)
             move == [cmd |-> "MOVE", pos |-> requested]
             full == Len(gripper_cmd_queue) >= GripperSlots
  <2>1. /\ gripper_front'.target = filtered.target
        /\ gripper_cmd_queue' = IF filtered.send /\ ~full THEN Append(gripper_cmd_queue, move)
                                ELSE gripper_cmd_queue
        /\ missed' = IF filtered.send THEN [missed EXCEPT !.full = full] ELSE missed
        /\ UNCHANGED <<gripper_process, gripper>>
    BY <1>6 DEF GripperAction, GripperTypeOK
  <2>2. \/ filtered.send = TRUE /\ filtered.target = <<requested>>
        \/ filtered.send = FALSE /\ filtered.target = gripper_front.target
    BY FilterStep
  <2>3. move \in GripperCommandSet /\ move.cmd = "MOVE" /\ move.pos = requested
    BY GripperAssumption DEF GripperCommandSet, EncoderPositions
  <2> HIDE DEF filtered, move, full
  <2>4. CASE filtered.send = TRUE /\ full
    <3>1. missed'.full = TRUE
      BY <2>1, <2>4 DEF GripperTypeOK
    <3> QED BY <3>1 DEF NewestInv
  <2>5. CASE filtered.send = TRUE /\ ~full
    <3>1. gripper_cmd_queue' = Append(gripper_cmd_queue, move) /\ gripper_front'.target = <<requested>>
      BY <2>1, <2>2, <2>5
    <3>2. MovesIn(gripper_cmd_queue') # {} /\ LatestMove(gripper_cmd_queue') = requested
      BY <2>3, <3>1, AppendMove DEF GripperTypeOK
    <3>3. \A target : gripper_front'.target = <<target>> => target = requested
      BY <3>1
    <3> QED BY <3>2, <3>3 DEF NewestInv
  <2>6. CASE filtered.send = FALSE
    <3>1. UNCHANGED <<gripper_cmd_queue, missed, gripper_front.target, gripper, gripper_process>>
      BY <2>1, <2>2, <2>6
    <3> QED BY <3>1, <1>1, <1>2
  <2> QED BY <2>2, <2>4, <2>5, <2>6
<1>7. CASE Travel \/ ObjectMoves
  <2>1. UNCHANGED <<gripper_process, gripper.goal, gripper_cmd_queue, missed, gripper_front>>
    BY <1>7 DEF Travel, ObjectMoves, GripperTypeOK
  <2> QED BY <2>1, <1>1, <1>2
<1>8. CASE GripperDies
  BY <1>1, <1>8 DEF GripperDies, Goto, GripperTypeOK
<1>9. CASE Activate \/ CalibrateClose \/ CalibrateOpen \/ CalibrateEnd
  <2>1. gripper_process.pc \in Starting /\ UNCHANGED gripper_front
    BY <1>9 DEF Activate, CalibrateClose, CalibrateOpen, CalibrateEnd, At, Starting
  <2> QED BY <2>1, <1>1 DEF ReadyInv
<1>10. CASE ReadPosition
  <2>1. /\ UNCHANGED <<gripper, gripper_cmd_queue, missed, gripper_front>>
        /\ gripper_process.pc # "dead"
        /\ UNCHANGED <<gripper_process.commands, gripper_process.min_position,
                       gripper_process.max_position>>
    BY <1>10 DEF ReadPosition, At, Goto, GripperTypeOK
  <2> QED BY <2>1, <1>2
<1>11. CASE FetchCommands
  <2>1. /\ UNCHANGED <<gripper, missed, gripper_front>>
        /\ gripper_process.pc = "fetching" /\ gripper_process'.pc = "moving"
        /\ gripper_cmd_queue' = <<>> /\ gripper_process'.commands = gripper_cmd_queue
        /\ UNCHANGED <<gripper_process.min_position, gripper_process.max_position>>
    BY <1>11 DEF FetchCommands, At, Goto, GripperTypeOK
  <2>2. gripper_process.commands = <<>> /\ Moves = {} /\ ~Stops(gripper_process.commands)
    BY <2>1 DEF ReadyInv, Moves, MovesIn, Stops
  <2>3. MovesIn(gripper_cmd_queue') = {} /\ ~Stops(gripper_cmd_queue')
        /\ Moves' = MovesIn(gripper_cmd_queue)
    BY <2>1 DEF Moves, MovesIn, Stops
  <2>4. \A target : Clipped(target)' = Clipped(target)
    BY <2>1 DEF Clipped
  <2> QED BY <2>1, <2>2, <2>3, <2>4 DEF NewestInv
<1>12. CASE MoveGripper
  <2>1. /\ gripper_process'.commands = <<>> /\ UNCHANGED <<gripper_front, gripper_cmd_queue>>
        /\ gripper_process'.pc = (IF Stops(gripper_process.commands) THEN "dead" ELSE "reading")
        /\ gripper_process.pc = "moving"
        /\ UNCHANGED <<gripper_process.min_position, gripper_process.max_position>>
    BY <1>12 DEF MoveGripper, At, Goto, GripperTypeOK, Stops
  <2>2. Moves' = {}
    BY <2>1 DEF Moves, MovesIn
  <2>3. \A target : Clipped(target)' = Clipped(target)
    BY <2>1 DEF Clipped
  <2>4. missed'.full = missed.full
    BY <1>12 DEF MoveGripper, GripperTypeOK
  <2>5. CASE Moves = {}
    <3>1. TargetPos = gripper_process.current_pos
      BY <2>5 DEF TargetPos
    <3>2. gripper' = gripper /\ missed'.unexecuted = missed.unexecuted
      BY <1>12, <2>5, <3>1 DEF MoveGripper, GripperTypeOK
    <3> QED BY <2>1, <2>2, <2>3, <2>4, <2>5, <3>2 DEF NewestInv
  <2>6. CASE Moves # {}
    <3>1. TargetPos = LatestMove(gripper_process.commands)
      BY <2>6 DEF TargetPos
    <3>2. missed'.unexecuted \/ gripper'.goal = Clipped(TargetPos)
      BY <1>12, <2>6 DEF MoveGripper, MoveTo, Clipped, GripperTypeOK
    <3> QED BY <2>1, <2>2, <2>3, <2>4, <2>6, <3>1, <3>2 DEF NewestInv
  <2> QED BY <2>5, <2>6
<1>13. CASE UNCHANGED gripperVars
  BY <1>13 DEF gripperVars, NewestInv, Moves, Clipped
<1> QED
  BY <1>3, <1>4, <1>5, <1>6, <1>7, <1>8, <1>9, <1>10, <1>11, <1>12, <1>13 DEF GripperNext

\* The gripper heads for the target the wrapper reports, for every range and queue size, as long
\* as no full queue and no move without effect came last: a move that was not acknowledged goes
\* on without it (gripper_command_limiter.py:33-54, robotiq_controller.py:231-264).
THEOREM GripperGoalFollowsTarget == GripperSpec => []GoalFollowsTarget
<1>1. GripperInv /\ [GripperNext]_gripperVars => GripperInv'
  BY NextGripperTypeOK, NextReadyInv, NextNewestInv DEF GripperInv
<1>2. GripperInv => GoalFollowsTarget
  <2> SUFFICES ASSUME GripperInv, NEW target \in EncoderPositions, Drained,
                      missed = [full |-> FALSE, unexecuted |-> FALSE],
                      gripper_front.target = <<target>>
               PROVE  gripper.goal = Clipped(target)
    BY DEF GoalFollowsTarget
  <2>1. gripper_cmd_queue = <<>> /\ gripper_process.commands = <<>> /\ gripper_process.pc # "dead"
    BY DEF Drained, GripperInv, ReadyInv
  <2>2. /\ MovesIn(gripper_cmd_queue) = {} /\ Moves = {}
        /\ ~Stops(gripper_cmd_queue) /\ ~Stops(gripper_process.commands)
    BY <2>1 DEF MovesIn, Moves, Stops
  <2> QED BY <2>1, <2>2 DEF GripperInv, NewestInv
<1> QED BY <1>1, <1>2, InitGripperInv, PTL DEF GripperSpec

-----------------------------------------------------------------------------
(* The HRC robot                                                           *)

HRCCalls == {"off", "idle", "servo", "gripper", "opposite_off", "port_on"}

HRCTypeOK ==
    /\ DOMAIN hrc = {"pc", "hsc3", "due", "pending", "gripper_cmd", "limiter"}
    /\ hrc.pc \in HRCCalls /\ hrc.hsc3 \in BOOLEAN /\ hrc.pending \in Int
    /\ hrc.gripper_cmd \in GripperCommands /\ hrc.limiter \in GripperCommands
    /\ hrc.due \in Int /\ -MaxDelay <= hrc.due /\ hrc.due <= ServoPeriod
    /\ hrc_frame \in [origin : Int, target : Int]
    /\ hrc_arm \in [pose : HRCPoses, setpoint : Int]
    /\ ports \in [open : BOOLEAN, close : BOOLEAN]
    /\ burst \in [count : Nat, age : 0..ServoPeriod]

\* between the two writes the other output is off already
PortsInv ==
    /\ hrc.pc \in {"opposite_off", "port_on"} => hrc.gripper_cmd # <<>>
    /\ hrc.pc = "port_on" => ~ports[Opposite]
    /\ PortsExclusive

\* however late the first setpoint of a window was, every further one takes a period off what the
\* loop is behind, to which the window has added its age
BurstInv ==
    /\ burst.count \in 0..4 /\ (burst.count > 0 => burst.age < ServoPeriod)
    /\ burst.count = 1 => hrc.due >= -(2 * ServoPeriod) - burst.age
    /\ burst.count = 2 => hrc.due >= -ServoPeriod - burst.age
    /\ burst.count = 3 => hrc.due >= -burst.age
    /\ burst.count = 4 => hrc.due >= ServoPeriod - burst.age

\* while the rate limit sleeps the arm travels one position a tick
PendingInv ==
    hrc.pc = "servo" =>
        Near(hrc.pending, hrc_arm.pose,
             IF hrc.due > 0 THEN MaxCartesianStep + ServoPeriod - hrc.due
             ELSE MaxCartesianStep + ServoPeriod)

HRCInv == HRCTypeOK /\ PortsInv /\ BurstInv /\ PendingInv

\* The gripper commands are the empty one and one value each.
LEMMA Commands == /\ <<>> \in GripperCommands
                  /\ \A cmd \in {0, 1} : <<cmd>> \in GripperCommands /\ <<cmd>> # <<>>
  BY DEF GripperCommands

\* Before the first connection nothing is pending and no output is on its way.
LEMMA InitHRCInv == HRCInit => HRCInv
<1> SUFFICES ASSUME HRCInit PROVE HRCInv
  OBVIOUS
<1>1. PICK p \in HRCPoses : hrc_arm = [pose |-> p, setpoint |-> p]
  BY DEF HRCInit
<1>2. p \in Int
  BY HRCAssumption
<1>3. HRCTypeOK
  <2>1. /\ hrc_frame \in [origin : Int, target : Int] /\ hrc_arm \in [pose : HRCPoses, setpoint : Int]
        /\ burst \in [count : Nat, age : 0..ServoPeriod]
    BY <1>1, <1>2, HRCAssumption DEF HRCInit, NoBurst
  <2>3. ports \in [open : BOOLEAN, close : BOOLEAN]
    BY DEF HRCInit
  <2>2. -MaxDelay <= 0 /\ 0 <= ServoPeriod
    BY HRCAssumption DEF MaxDelay
  <2> QED BY <2>1, <2>2, <2>3, Commands DEF HRCInit, HRCTypeOK, HRCCalls
<1>4. PortsInv
  BY DEF HRCInit, PortsInv, PortsExclusive
<1>5. BurstInv /\ PendingInv
  BY DEF HRCInit, BurstInv, PendingInv, NoBurst
<1> QED BY <1>3, <1>4, <1>5 DEF HRCInv

\* Every step keeps the fields typed and the delay within its cap.
LEMMA NextHRCTypeOK == HRCTypeOK /\ [HRCNext]_hrcVars => HRCTypeOK'
<1> SUFFICES ASSUME HRCTypeOK, [HRCNext]_hrcVars PROVE HRCTypeOK'
  OBVIOUS
<1> USE HRCAssumption DEF HRCTypeOK, HRCCalls, MaxDelay
<1>1. CASE HRCConnect
  <2>1. burst' \in [count : Nat, age : 0..ServoPeriod]
    BY <1>1 DEF HRCConnect, NoBurst
  <2> QED BY <1>1, <2>1 DEF HRCConnect
<1>2. CASE HRCDisconnect
  BY <1>2 DEF HRCDisconnect
<1>3. CASE HRCSetTaskFrame
  BY <1>3 DEF HRCSetTaskFrame
<1>4. ASSUME NEW pose \in HRCPoses \cup {hrc_frame.target}, NEW cmd \in GripperCommands,
             HRCSendAction(pose, cmd)
      PROVE  HRCTypeOK'
  BY <1>4 DEF HRCSendAction
<1>5. ASSUME NEW cmd \in GripperCommands, HRCSendGripper(cmd) PROVE HRCTypeOK'
  BY <1>5 DEF HRCSendGripper
<1>6. CASE HRCServo
  <2>1. burst' \in [count : Nat, age : 0..ServoPeriod]
    BY <1>6 DEF HRCServo
  <2>2. /\ hrc'.due = NextDue(hrc.due) /\ hrc.due <= 0 /\ DOMAIN hrc' = DOMAIN hrc
        /\ hrc'.pc = "gripper" /\ hrc'.pending = 0 /\ UNCHANGED <<hrc_frame, ports>>
        /\ hrc'.hsc3 = hrc.hsc3 /\ hrc'.gripper_cmd = hrc.gripper_cmd
        /\ hrc'.limiter = hrc.limiter /\ hrc_arm' = [hrc_arm EXCEPT !.setpoint = hrc.pending]
    BY <1>6 DEF HRCServo
  <2>3. hrc'.due \in Int /\ -MaxDelay <= hrc'.due /\ hrc'.due <= ServoPeriod
    BY <2>2 DEF NextDue
  <2> QED BY <2>1, <2>2, <2>3
<1>7. ASSUME hrc' = Returns, UNCHANGED <<hrc_frame, hrc_arm, burst>>,
             ports' \in [open : BOOLEAN, close : BOOLEAN]
      PROVE  HRCTypeOK'
  BY <1>7, Commands DEF Returns
<1>8. ASSUME NEW cooled, HRCNoGripper(cooled) PROVE HRCTypeOK'
  BY <1>7, <1>8 DEF HRCNoGripper
<1>9. ASSUME NEW cooled, HRCSetGripper(cooled) PROVE HRCTypeOK'
  <2>1. PICK cmd \in {0, 1} :
           hrc' = IF hrc.hsc3 THEN [hrc EXCEPT !.pc = "opposite_off", !.limiter = <<cmd>>]
                  ELSE [Returns EXCEPT !.limiter = <<cmd>>]
    BY <1>9 DEF HRCSetGripper
  <2>2. UNCHANGED <<hrc_frame, hrc_arm, ports, burst>> /\ <<cmd>> \in GripperCommands
    BY <1>9, Commands DEF HRCSetGripper
  <2>3. CASE hrc.hsc3
    BY <2>1, <2>2, <2>3
  <2>4. CASE ~hrc.hsc3
    BY <2>1, <2>2, <2>4, Commands DEF Returns
  <2> QED BY <2>3, <2>4
<1>12. ASSUME NEW port \in {"open", "close"}, NEW on \in BOOLEAN
       PROVE  [ports EXCEPT ![port] = on] \in [open : BOOLEAN, close : BOOLEAN]
  OBVIOUS
<1>13. Wanted \in {"open", "close"} /\ Opposite \in {"open", "close"}
  BY DEF Wanted, Opposite
<1>14. CASE HRCOppositeOff
  BY <1>14, <1>12, <1>13 DEF HRCOppositeOff
<1>15. CASE HRCPortOn
  BY <1>15, <1>7, <1>12, <1>13 DEF HRCPortOn
<1>16. CASE HRCSetIOFails
  BY <1>16, <1>7, <1>12, <1>13 DEF HRCSetIOFails
<1>17. CASE HRCServoFails
  BY <1>17, <1>7 DEF HRCServoFails
<1>10. CASE HRCTick
  <2>1. burst' \in [count : Nat, age : 0..ServoPeriod]
    BY <1>10 DEF HRCTick, NoBurst
  <2> QED BY <1>10, <2>1 DEF HRCTick
<1>11. CASE UNCHANGED hrcVars
  BY <1>11 DEF hrcVars
<1> QED
  BY <1>1, <1>2, <1>3, <1>4, <1>5, <1>6, <1>8, <1>9, <1>10, <1>11, <1>14, <1>15, <1>16, <1>17
  DEF HRCNext

\* No step switches an output on while the other one is on, whichever write fails.
LEMMA NextPortsInv == HRCTypeOK /\ PortsInv /\ [HRCNext]_hrcVars => PortsInv'
<1> SUFFICES ASSUME HRCTypeOK, PortsInv, [HRCNext]_hrcVars PROVE PortsInv'
  OBVIOUS
<1> USE DEF PortsInv, PortsExclusive, Opposite
<1>1. CASE HRCConnect
  BY <1>1 DEF HRCConnect, HRCTypeOK
<1>2. CASE HRCDisconnect
  BY <1>2 DEF HRCDisconnect, HRCTypeOK
<1>3. CASE HRCSetTaskFrame
  BY <1>3 DEF HRCSetTaskFrame
<1>4. ASSUME NEW pose, NEW cmd, HRCSendAction(pose, cmd) PROVE PortsInv'
  BY <1>4 DEF HRCSendAction, HRCTypeOK
<1>5. ASSUME NEW cmd, HRCSendGripper(cmd) PROVE PortsInv'
  BY <1>5 DEF HRCSendGripper, HRCTypeOK
<1>6. CASE HRCServo
  BY <1>6 DEF HRCServo, HRCTypeOK
<1>7. CASE HRCServoFails
  BY <1>7 DEF HRCServoFails, Returns, HRCTypeOK
<1>8. ASSUME NEW cooled, HRCNoGripper(cooled) PROVE PortsInv'
  BY <1>8 DEF HRCNoGripper, Returns, HRCTypeOK
<1>9. ASSUME NEW cooled, HRCSetGripper(cooled) PROVE PortsInv'
  <2>1. /\ hrc'.pc = "opposite_off" => hrc'.gripper_cmd # <<>>
        /\ hrc'.pc \in {"opposite_off", "idle"} /\ UNCHANGED ports
    BY <1>9, Commands DEF HRCSetGripper, Returns, HRCTypeOK
  <2> QED BY <2>1
<1>10. CASE HRCOppositeOff
  BY <1>10 DEF HRCOppositeOff, HRCTypeOK
<1>11. CASE HRCPortOn
  <2>1. hrc.gripper_cmd \in {<<0>>, <<1>>} /\ ~ports[Opposite]
    BY <1>11 DEF HRCPortOn, HRCTypeOK, GripperCommands
  <2>2. CASE hrc.gripper_cmd = <<1>>
    BY <1>11, <2>1, <2>2 DEF HRCPortOn, Returns, Wanted, HRCTypeOK
  <2>3. CASE hrc.gripper_cmd # <<1>>
    BY <1>11, <2>1, <2>3 DEF HRCPortOn, Returns, Wanted, HRCTypeOK
  <2> QED BY <2>2, <2>3
<1>12. CASE HRCSetIOFails
  BY <1>12 DEF HRCSetIOFails, Returns, Wanted, HRCTypeOK
<1>13. CASE HRCTick
  BY <1>13 DEF HRCTick, HRCTypeOK
<1>14. CASE UNCHANGED hrcVars
  BY <1>14 DEF hrcVars
<1> QED
  BY <1>1, <1>2, <1>3, <1>4, <1>5, <1>6, <1>7, <1>8, <1>9, <1>10, <1>11, <1>12, <1>13, <1>14
  DEF HRCNext

\* Every setpoint moves the next due time a period on, or to now when it was far behind, and
\* every tick that the window lasts brings it at most one tick nearer.
LEMMA NextBurstInv == HRCTypeOK /\ BurstInv /\ [HRCNext]_hrcVars => BurstInv'
<1> SUFFICES ASSUME HRCTypeOK, BurstInv, [HRCNext]_hrcVars PROVE BurstInv'
  OBVIOUS
<1>0. /\ ServoPeriod \in Nat \ {0} /\ hrc.due \in Int /\ burst.age \in Nat
      /\ burst.count \in 0..4 /\ -MaxDelay <= hrc.due
  BY HRCAssumption DEF HRCTypeOK, BurstInv
<1>1. CASE HRCServo
  <2>1. /\ hrc'.due = NextDue(hrc.due) /\ hrc.due <= 0
        /\ \/ burst'.count = 1 /\ burst'.age = 0
           \/ /\ burst.age < ServoPeriod
              /\ burst'.count = burst.count + 1 /\ burst'.age = burst.age
    BY <1>1 DEF HRCServo, HRCTypeOK
  <2>2. hrc'.due \in Int /\ hrc'.due >= -(2 * ServoPeriod)
        /\ (hrc'.due = hrc.due + ServoPeriod \/ hrc'.due = 0)
        /\ (hrc.due + ServoPeriod >= 0 => hrc'.due = hrc.due + ServoPeriod)
    BY <1>0, <2>1 DEF NextDue
  <2> QED BY <1>0, <2>1, <2>2 DEF BurstInv
<1>2. CASE HRCConnect \/ HRCTick
  <2>1. CASE burst' = NoBurst
    BY <2>1 DEF BurstInv, NoBurst
  <2>2. CASE burst' # NoBurst
    <3>1. /\ burst'.count = burst.count /\ burst'.age = burst.age + 1
          /\ burst.age + 1 < ServoPeriod /\ hrc'.due \in {hrc.due, hrc.due - 1}
      BY <1>2, <2>2 DEF HRCConnect, HRCTick, HRCTypeOK
    <3> QED BY <1>0, <3>1 DEF BurstInv
  <2> QED BY <2>1, <2>2
<1>3. CASE UNCHANGED <<burst, hrc.due>>
  BY <1>3 DEF BurstInv
<1>4. ASSUME HRCDisconnect \/ HRCSetTaskFrame \/ HRCServoFails
      PROVE  UNCHANGED <<burst, hrc.due>>
  BY <1>4 DEF HRCDisconnect, HRCSetTaskFrame, HRCServoFails, Returns, HRCTypeOK
<1>5. ASSUME NEW pose, NEW cmd, HRCSendAction(pose, cmd) \/ HRCSendGripper(cmd)
      PROVE  UNCHANGED <<burst, hrc.due>>
  BY <1>5 DEF HRCSendAction, HRCSendGripper, HRCTypeOK
<1>6. ASSUME NEW cooled, HRCNoGripper(cooled) \/ HRCSetGripper(cooled)
      PROVE  UNCHANGED <<burst, hrc.due>>
  BY <1>6 DEF HRCNoGripper, HRCSetGripper, Returns, HRCTypeOK
<1>7. ASSUME HRCOppositeOff \/ HRCPortOn \/ HRCSetIOFails
      PROVE  UNCHANGED <<burst, hrc.due>>
  BY <1>7 DEF HRCOppositeOff, HRCPortOn, HRCSetIOFails, Returns, HRCTypeOK
<1> QED
  BY <1>1, <1>2, <1>3, <1>4, <1>5, <1>6, <1>7 DEF HRCNext, hrcVars

\* A tick takes as much from the delay as the arm may travel in it.
LEMMA NextPendingInv == HRCTypeOK /\ PendingInv /\ [HRCNext]_hrcVars => PendingInv'
<1> SUFFICES ASSUME HRCTypeOK, PendingInv, [HRCNext]_hrcVars PROVE PendingInv'
  OBVIOUS
<1> USE HRCAssumption DEF PendingInv, HRCTypeOK, Near
<1>1. ASSUME NEW pose \in HRCPoses \cup {hrc_frame.target}, NEW cmd \in GripperCommands,
             HRCSendAction(pose, cmd)
      PROVE  PendingInv'
  BY <1>1 DEF HRCSendAction, SafeStep
<1>2. CASE HRCTick
  BY <1>2 DEF HRCTick, MaxDelay
<1>3. CASE hrc'.pc # "servo" \/ UNCHANGED <<hrc, hrc_arm>>
  BY <1>3
<1>4. ASSUME HRCConnect \/ HRCDisconnect \/ HRCSetTaskFrame \/ HRCServo \/ HRCServoFails
      PROVE  hrc'.pc # "servo" \/ UNCHANGED <<hrc, hrc_arm>>
  BY <1>4 DEF HRCConnect, HRCDisconnect, HRCSetTaskFrame, HRCServo, HRCServoFails, Returns
<1>5. ASSUME NEW cmd, HRCSendGripper(cmd) PROVE hrc'.pc # "servo"
  BY <1>5 DEF HRCSendGripper
<1>6. ASSUME NEW cooled, HRCNoGripper(cooled) \/ HRCSetGripper(cooled)
      PROVE  hrc'.pc # "servo"
  BY <1>6 DEF HRCNoGripper, HRCSetGripper, Returns
<1>7. ASSUME HRCOppositeOff \/ HRCPortOn \/ HRCSetIOFails
      PROVE  hrc'.pc # "servo"
  BY <1>7 DEF HRCOppositeOff, HRCPortOn, HRCSetIOFails, Returns
<1> QED
  BY <1>1, <1>2, <1>3, <1>4, <1>5, <1>6, <1>7 DEF HRCNext, hrcVars

\* The invariant of the HRC robot.
LEMMA HRCInvHolds == HRCSpec => []HRCInv
<1>1. HRCInv /\ [HRCNext]_hrcVars => HRCInv'
  BY NextHRCTypeOK, NextPortsInv, NextBurstInv, NextPendingInv DEF HRCInv
<1> QED BY <1>1, InitHRCInv, PTL DEF HRCSpec

\* The gripper's outputs exclude each other for all periods, steps and frames, through every
\* failure of the link (controller.py:573-575).
THEOREM HRCPortsExclude == HRCSpec => []PortsExclusive
<1>1. HRCInv => PortsExclusive
  BY DEF HRCInv, PortsInv
<1> QED BY <1>1, HRCInvHolds, PTL

\* Less than a period holds at most four setpoints of one connection, whichever of them it is
\* counted from, for every length of the period in ticks (controller.py:539-546).
THEOREM HRCBurstBounded == HRCSpec => []BurstBounded
<1>1. HRCInv => BurstBounded
  BY DEF HRCInv, BurstInv, BurstBounded
<1> QED BY <1>1, HRCInvHolds, PTL

\* A setpoint sent is one allowed step and the distance slept away from the arm, for every limit
\* and period (HRCrobot.py:435-439).
THEOREM HRCSetpointNearArm == HRCSpec => SetpointNearArm
<1>1. HRCInv /\ HRCServo => Near(hrc_arm'.setpoint, hrc_arm.pose, MaxCartesianStep + ServoPeriod)
  BY HRCAssumption DEF HRCInv, HRCTypeOK, PendingInv, HRCServo
<1>2. HRCInv /\ [HRCNext]_hrcVars
        => [HRCServo => Near(hrc_arm'.setpoint, hrc_arm.pose, MaxCartesianStep + ServoPeriod)]_hrcVars
  BY <1>1
<1> QED BY <1>2, HRCInvHolds, PTL DEF HRCSpec, SetpointNearArm

-----------------------------------------------------------------------------
(* The web console                                                         *)

\* a request that starts or stops a process names its role, and a role has one record
ConsoleTypeOK ==
    /\ request \in [Requests -> [pc : {"idle", "start", "wait"}, role : Roles \cup {"none"}]]
    /\ process \in [Roles -> {"none", "running", "signalled", "exited"}]
    /\ \A r \in Requests : request[r].pc # "idle" => request[r].role \in Roles

ConsoleInv == ConsoleTypeOK /\ NoLiveProcessLost

\* Only Start replaces a record, and what it replaces has ended: Refused says so under the same
\* lock.
LEMMA NextConsoleInv == ConsoleInv /\ [ConsoleNext]_consoleVars => ConsoleInv'
<1> SUFFICES ASSUME ConsoleInv, [ConsoleNext]_consoleVars PROVE ConsoleInv'
  OBVIOUS
<1> USE DEF ConsoleInv, ConsoleTypeOK, NoLiveProcessLost
<1>1. ASSUME NEW r \in Requests, NEW role \in Roles, StartRequest(r, role) PROVE ConsoleInv'
  BY <1>1 DEF StartRequest, Serving
<1>2. ASSUME NEW r \in Requests, NEW role \in Roles, StopRequest(r, role) PROVE ConsoleInv'
  BY <1>2 DEF StopRequest, Serving
<1>3. ASSUME NEW r \in Requests, Start(r) PROVE ConsoleInv'
  <2>1. unrecorded' = {}
    BY <1>3 DEF Start, Refused, IsRunning
  <2>2. process' \in [Roles -> {"none", "running", "signalled", "exited"}]
    BY <1>3 DEF Start
  <2> QED BY <1>3, <2>1, <2>2 DEF Start, Replies
<1>4. ASSUME NEW r \in Requests, StopWait(r) PROVE ConsoleInv'
  BY <1>4 DEF StopWait, Serving, Replies
<1>5. ASSUME NEW role \in Roles, ProcessExits(role) PROVE ConsoleInv'
  BY <1>5 DEF ProcessExits
<1>6. CASE UNCHANGED consoleVars
  BY <1>6 DEF consoleVars
<1> QED BY <1>1, <1>2, <1>3, <1>4, <1>5, <1>6 DEF ConsoleNext

\* However many requests are served at once, no record of a live process is replaced
\* (console_runtime.py, ServiceManager.start and stop).
THEOREM ConsoleKeepsProcesses == ConsoleSpec => []NoLiveProcessLost
<1>1. ConsoleInit => ConsoleInv
  BY DEF ConsoleInit, ConsoleInv, ConsoleTypeOK, NoLiveProcessLost
<1>2. ConsoleInv => NoLiveProcessLost
  BY DEF ConsoleInv
<1> QED BY <1>1, <1>2, NextConsoleInv, PTL DEF ConsoleSpec

-----------------------------------------------------------------------------
(* The operator's input                                                    *)

InputTypeOK ==
    /\ binding \in [pulse : BOOLEAN, toggle : BOOLEAN]
    /\ key \in [down : BOOLEAN, press : 0..MaxPresses]
    /\ DOMAIN key_events = {"event", "pressed"}
    /\ key_events.event \in 0..MaxPresses /\ key_events.pressed \in BOOLEAN
    /\ DOMAIN acted = {"press", "pulse"}
    /\ acted.press \in [1..MaxPresses -> Nat] /\ acted.pulse \in [1..MaxPulses -> Nat]
    /\ remote_socket \in Seq(1..MaxPulses)
    /\ remote \in [pending : 0..MaxPulses, active : 0..MaxPulses]
    /\ DOMAIN keys = DOMAIN KeysIdle

\* a press that was remembered or not yet drained is also remembered as one
TapsInv == keys.tapped # {} => keys.since = TRUE

\* a press that can still be read has not been acted on
PressesInv ==
    /\ key_events.event <= key.press
    /\ key.down => key.press >= 1
    /\ key.down /\ ~key_events.pressed => key_events.event = 0 /\ acted.press[key.press] = 0
    /\ key_events.event # 0 /\ cycle # "clearing" => acted.press[key_events.event] = 0
    /\ ~binding.pulse => \A n \in 1..MaxPresses : acted.press[n] = 0
    /\ \A n \in 1..MaxPresses : acted.press[n] <= 1 /\ (n > key.press => acted.press[n] = 0)

\* neither has a pulse that is pending or still in the socket
PulsesInv ==
    /\ remote.pending # 0 => acted.pulse[remote.pending] = 0
    /\ \A i \in DOMAIN remote_socket : acted.pulse[remote_socket[i]] = 0
    /\ \A n \in 1..MaxPulses : acted.pulse[n] <= 1

InputInv == InputTypeOK /\ TapsInv /\ PressesInv /\ PulsesInv /\ TapsReported

\* The pulse that the next reading makes active is none or one not acted on.
LEMMA PendingTyped ==
  ASSUME InputTypeOK, PulsesInv
  PROVE  /\ Pending \in 0..MaxPulses
         /\ Pending # 0 => acted.pulse[Pending] = 0
<1>1. CASE remote_socket = <<>>
  BY <1>1 DEF InputTypeOK, PulsesInv, Pending
<1>2. CASE remote_socket # <<>>
  <2>1. Len(remote_socket) \in DOMAIN remote_socket
    BY <1>2 DEF InputTypeOK
  <2>3. remote_socket \in Seq(1..MaxPulses)
    BY DEF InputTypeOK
  <2>4. Len(remote_socket) \in 1..Len(remote_socket)
    BY <1>2, <2>3
  <2>2. remote_socket[Len(remote_socket)] \in 1..MaxPulses
    BY <2>3, <2>4, InputAssumption
  <2> QED BY <1>2, <2>1, <2>2, InputAssumption DEF PulsesInv, Pending
<1> QED BY <1>1, <1>2

\* Nothing is pressed, queued or pending at the start.
LEMMA InitInputInv == InputInit => InputInv
<1> SUFFICES ASSUME InputInit PROVE InputInv
  OBVIOUS
<1> USE InputAssumption DEF InputInit
<1>1. InputTypeOK
  BY DEF InputTypeOK, NoPresses
<1>2. TapsInv /\ TapsReported
  BY DEF TapsInv, TapsReported, KeysIdle
<1>3. PressesInv /\ PulsesInv
  BY DEF PressesInv, PulsesInv, NoPresses
<1> QED BY <1>1, <1>2, <1>3 DEF InputInv

\* Every step keeps the variables typed.
LEMMA NextInputTypeOK == InputTypeOK /\ PulsesInv /\ [InputNext]_inputVars => InputTypeOK'
<1> SUFFICES ASSUME InputTypeOK, PulsesInv, [InputNext]_inputVars PROVE InputTypeOK'
  OBVIOUS
<1> USE InputAssumption DEF InputTypeOK
<1>1. CASE PressKey
  BY <1>1 DEF PressKey, OnPress
<1>2. CASE RepeatKey
  BY <1>2 DEF RepeatKey, OnPress
<1>3. CASE ReleaseKey
  <2>1. key' \in [down : BOOLEAN, press : 0..MaxPresses]
    BY <1>3 DEF ReleaseKey
  <2>2. /\ DOMAIN key_events' = {"event", "pressed"}
        /\ key_events'.event \in 0..MaxPresses /\ key_events'.pressed \in BOOLEAN
    BY <1>3 DEF ReleaseKey, OnRelease
  <2> QED BY <1>3, <2>1, <2>2 DEF ReleaseKey
<1>4. ASSUME NEW n \in 1..MaxPulses, SendPulse(n) PROVE InputTypeOK'
  BY <1>4 DEF SendPulse
<1>5. CASE ReadKeyboardEvents
  <2>1. \/ UNCHANGED acted
        \/ acted' = [acted EXCEPT !.press[key_events.event] = @ + 1] /\ key_events.event # 0
    BY <1>5 DEF ReadKeyboardEvents
  <2>3. ASSUME acted' = [acted EXCEPT !.press[key_events.event] = @ + 1], key_events.event # 0
        PROVE  /\ DOMAIN acted' = {"press", "pulse"}
               /\ acted'.press \in [1..MaxPresses -> Nat] /\ acted'.pulse \in [1..MaxPulses -> Nat]
    <3>1. acted'.press = [acted.press EXCEPT ![key_events.event] = @ + 1] /\ acted'.pulse = acted.pulse
      BY <2>3
    <3>2. key_events.event \in 1..MaxPresses
      BY <2>3
    <3>3. acted'.press \in [1..MaxPresses -> Nat] /\ acted'.pulse \in [1..MaxPulses -> Nat]
      BY <3>1, <3>2
    <3>4. DOMAIN acted' = {"press", "pulse"}
      BY <2>3
    <3> QED BY <3>3, <3>4
  <2>2. /\ DOMAIN acted' = {"press", "pulse"}
        /\ acted'.press \in [1..MaxPresses -> Nat] /\ acted'.pulse \in [1..MaxPulses -> Nat]
    BY <2>1, <2>3
  <2> QED BY <1>5, <2>2 DEF ReadKeyboardEvents
<1>6. CASE ClearPulse
  BY <1>6 DEF ClearPulse
<1>7. CASE GetTeleopEvents
  <2>1. remote' \in [pending : 0..MaxPulses, active : 0..MaxPulses] /\ remote_socket' = <<>>
    BY <1>7, PendingTyped DEF GetTeleopEvents
  <2>2. acted' = IF Pending = 0 THEN acted ELSE [acted EXCEPT !.pulse[Pending] = @ + 1]
    BY <1>7 DEF GetTeleopEvents
  <2>3. /\ DOMAIN acted' = {"press", "pulse"}
        /\ acted'.press \in [1..MaxPresses -> Nat] /\ acted'.pulse \in [1..MaxPulses -> Nat]
    BY <2>2, PendingTyped
  <2>4. DOMAIN keys' = DOMAIN KeysIdle
    BY <1>7 DEF GetTeleopEvents, DrainedKeys
  <2> QED BY <1>7, <2>1, <2>3, <2>4 DEF GetTeleopEvents
<1>8. CASE GetAction
  <2>1. remote' \in [pending : 0..MaxPulses, active : 0..MaxPulses] /\ remote_socket' = <<>>
    BY <1>8, PendingTyped DEF GetAction
  <2>2. DOMAIN keys' = DOMAIN KeysIdle
    BY <1>8 DEF GetAction, DrainedKeys
  <2> QED BY <1>8, <2>1, <2>2 DEF GetAction
<1>9. CASE ResetProcessor
  BY <1>9 DEF ResetProcessor, NoPresses
<1>10. CASE ResetEpisode
  BY <1>10 DEF ResetEpisode
<1>11. CASE UNCHANGED inputVars
  BY <1>11 DEF inputVars
<1> QED
  BY <1>1, <1>2, <1>3, <1>4, <1>5, <1>6, <1>7, <1>8, <1>9, <1>10, <1>11 DEF InputNext

\* Every drain remembers a press it takes from the queue, and only the next reading forgets it.
LEMMA NextTapsInv ==
  InputTypeOK /\ TapsInv /\ TapsReported /\ [InputNext]_inputVars => TapsInv' /\ TapsReported'
<1> SUFFICES ASSUME InputTypeOK, TapsInv, TapsReported, [InputNext]_inputVars
             PROVE  TapsInv' /\ TapsReported'
  OBVIOUS
<1>1. DrainedKeys.tapped # {} => DrainedKeys.since = TRUE
  <2>1. DOMAIN keys = {"current", "since", "prev", "state", "tapped", "reported"}
    BY DEF InputTypeOK, KeysIdle
  <2>2. /\ DrainedKeys.since = (keys.since \/ PressesWaiting # {})
        /\ DrainedKeys.tapped = keys.tapped \cup {event_queue[i].press : i \in PressesWaiting}
    BY <2>1 DEF DrainedKeys
  <2>3. CASE PressesWaiting = {}
    BY <2>2, <2>3 DEF TapsInv
  <2>4. CASE PressesWaiting # {}
    BY <2>2, <2>4
  <2> QED BY <2>3, <2>4
<1>2. CASE GetTeleopEvents
  <2>1. keys'.tapped = {} /\ keys'.reported.presses = DrainedKeys.tapped
    BY <1>2 DEF GetTeleopEvents, DrainedKeys, InputTypeOK, KeysIdle
  <2>2. ~binding.toggle => keys'.reported.event = (DrainedKeys.current \/ DrainedKeys.since)
    BY <1>2 DEF GetTeleopEvents, DrainedKeys, InputTypeOK, KeysIdle
  <2> QED BY <1>1, <1>2, <2>1, <2>2 DEF GetTeleopEvents, TapsInv, TapsReported
<1>3. CASE GetAction
  <2>1. keys' = DrainedKeys /\ UNCHANGED binding
    BY <1>3 DEF GetAction
  <2>2. DrainedKeys.reported = keys.reported
    BY DEF DrainedKeys, InputTypeOK, KeysIdle
  <2> QED BY <1>1, <2>1, <2>2 DEF TapsInv, TapsReported
<1>4. CASE ResetEpisode
  BY <1>4 DEF ResetEpisode, KeysIdle, TapsInv, TapsReported
<1>5. CASE UNCHANGED <<binding, keys>>
  BY <1>5 DEF TapsInv, TapsReported
<1> QED
  BY <1>2, <1>3, <1>4, <1>5
  DEF InputNext, PressKey, RepeatKey, ReleaseKey, SendPulse, ReadKeyboardEvents, ClearPulse,
      ResetProcessor, inputVars

\* A press is read once and cleared before the next reading; a held key brings it back only after
\* a reset.
LEMMA NextPressesInv == InputTypeOK /\ PressesInv /\ [InputNext]_inputVars => PressesInv'
<1> SUFFICES ASSUME InputTypeOK, PressesInv, [InputNext]_inputVars PROVE PressesInv'
  OBVIOUS
<1> USE InputAssumption DEF InputTypeOK, PressesInv
<1>1. CASE PressKey
  BY <1>1 DEF PressKey, OnPress
<1>2. CASE RepeatKey
  BY <1>2 DEF RepeatKey, OnPress
<1>3. CASE ReleaseKey
  BY <1>3 DEF ReleaseKey, OnRelease
<1>4. CASE ReadKeyboardEvents
  BY <1>4 DEF ReadKeyboardEvents
<1>5. CASE ClearPulse
  BY <1>5 DEF ClearPulse
<1>6. CASE GetTeleopEvents
  <2>1. acted'.press = acted.press
    BY <1>6 DEF GetTeleopEvents
  <2> QED BY <1>6, <2>1 DEF GetTeleopEvents
<1>7. CASE ResetProcessor
  BY <1>7 DEF ResetProcessor, NoPresses
<1>8. CASE UNCHANGED <<binding, key, key_events, acted>> /\ (UNCHANGED cycle \/ cycle = "actions")
  BY <1>8
<1> QED
  BY <1>1, <1>2, <1>3, <1>4, <1>5, <1>6, <1>7, <1>8
  DEF InputNext, SendPulse, GetAction, ResetEpisode, inputVars

\* A pulse acted on is neither pending nor in the socket again.
LEMMA NextPulsesInv == InputTypeOK /\ PulsesInv /\ [InputNext]_inputVars => PulsesInv'
<1> SUFFICES ASSUME InputTypeOK, PulsesInv, [InputNext]_inputVars PROVE PulsesInv'
  OBVIOUS
<1>1. ASSUME NEW n \in 1..MaxPulses, SendPulse(n) PROVE PulsesInv'
  <2>1. \A i \in DOMAIN remote_socket' :
           \/ remote_socket'[i] = n
           \/ i \in DOMAIN remote_socket /\ remote_socket'[i] = remote_socket[i]
    BY <1>1 DEF SendPulse, InputTypeOK
  <2> QED BY <1>1, <2>1 DEF SendPulse, PulsesInv
<1>2. CASE GetTeleopEvents
  <2>1. acted'.pulse = IF Pending = 0 THEN acted.pulse ELSE [acted.pulse EXCEPT ![Pending] = @ + 1]
    BY <1>2 DEF GetTeleopEvents, InputTypeOK
  <2>2. remote'.pending = 0 /\ remote_socket' = <<>>
    BY <1>2 DEF GetTeleopEvents
  <2> QED BY <2>1, <2>2, PendingTyped, InputAssumption DEF PulsesInv, InputTypeOK
<1>3. CASE GetAction
  <2>1. remote'.pending = Pending /\ remote_socket' = <<>> /\ UNCHANGED acted
    BY <1>3 DEF GetAction, InputTypeOK
  <2> QED BY <2>1, PendingTyped DEF PulsesInv
<1>4. CASE ResetEpisode
  BY <1>4 DEF ResetEpisode, PulsesInv
<1>5. CASE UNCHANGED <<remote, remote_socket, acted.pulse>>
  BY <1>5 DEF PulsesInv
<1>6. ASSUME ReadKeyboardEvents \/ ResetProcessor
      PROVE  UNCHANGED <<remote, remote_socket, acted.pulse>>
  BY <1>6 DEF ReadKeyboardEvents, ResetProcessor, InputTypeOK
<1> QED
  BY <1>1, <1>2, <1>3, <1>4, <1>5, <1>6
  DEF InputNext, PressKey, RepeatKey, ReleaseKey, ClearPulse, inputVars

\* The invariant of the operator's input.
LEMMA InputInvHolds == InputSpec => []InputInv
<1>1. InputInv /\ [InputNext]_inputVars => InputInv'
  BY NextInputTypeOK, NextTapsInv, NextPressesInv, NextPulsesInv DEF InputInv
<1> QED BY <1>1, InitInputInv, PTL DEF InputSpec

\* A short tap is reported for every number of presses and every order of the calls that drain
\* the queue (teleop_delta_keyboard.py:321).
THEOREM InputTapsReported == InputSpec => []TapsReported
<1>1. InputInv => TapsReported
  BY DEF InputInv
<1> QED BY <1>1, InputInvHolds, PTL

\* A press and a remote pulse act in one control cycle only, however many there are
\* (info.py:182-223, AUTO_CONTROL.md:56).
THEOREM InputActsOnce == InputSpec => []ActsOnce
<1>1. InputInv => ActsOnce
  BY DEF InputInv, InputTypeOK, PressesInv, PulsesInv, ActsOnce
<1> QED BY <1>1, InputInvHolds, PTL
=============================================================================
