---------------------------- MODULE RobotiqGripper ----------------------------
(***************************************************************************)
(* src/share/grippers/robotiq_controller.py: the Robotiq gripper beside a  *)
(* UR arm, from the wrapper's gripper part (ur.py connect, send_action and *)
(* disconnect) through the command queue to the process that talks to the  *)
(* gripper over a socket, and the gripper itself (external).               *)
(*                                                                         *)
(* Positions are 0 (open) to MaxPosition (closed); an object may lie       *)
(* between the fingers.  The state stream is a ring buffer of its own      *)
(* (SharedMemoryRingBuffer); speed and force are left out.                 *)
(***************************************************************************)
EXTENDS Integers, Sequences, GripperCommandLimiter

CONSTANTS
    MaxPosition,     \* the encoder's closed position, 255
    GripperSlots     \* the queue's buffer_size

ASSUME GripperAssumption == {MaxPosition, GripperSlots} \subseteq Nat \ {0}

VARIABLES
    gripper_front,      \* the wrapper: where it is, the limiter's target
    gripper_cmd_queue,
    gripper_ready,
    gripper_process,    \* where it is, the position it read, the drained commands, its range
    gripper,            \* the hardware: position, goal, the object's position
    missed              \* history: the wrapper's latest command met a full queue; the last one
                        \* the process took was not executed

gripperVars == <<gripper_front, gripper_cmd_queue, gripper_ready, gripper_process, gripper, missed>>

EncoderPositions == 0..MaxPosition
Nowhere == MaxPosition + 1      \* no object

GripperInit ==
    /\ gripper_front = [pc |-> "off", target |-> <<>>]
    /\ gripper_cmd_queue = <<>>
    /\ gripper_ready = FALSE
    /\ gripper_process = [pc |-> "none", current_pos |-> 0, commands |-> <<>>,
                          min_position |-> 0, max_position |-> MaxPosition]
    /\ gripper = [pos |-> 0, goal |-> 0, object |-> Nowhere]
    /\ missed = [full |-> FALSE, unexecuted |-> FALSE]

-----------------------------------------------------------------------------
(* The wrapper                                                             *)

GripperStart ==
    /\ gripper_front.pc = "off"
    /\ gripper_front' = [gripper_front EXCEPT !.pc = "starting"]
    /\ gripper_process' = [gripper_process EXCEPT !.pc = "activating"]
    /\ UNCHANGED <<gripper_cmd_queue, gripper_ready, gripper, missed>>

\* start_wait: no timeout, then assert is_alive, on a process that may just have gone
GripperStarted ==
    /\ gripper_front.pc = "starting" /\ gripper_ready
    /\ gripper_front' = [gripper_front EXCEPT
                            !.pc = IF gripper_process.pc = "dead" THEN "failed" ELSE "connected"]
    /\ UNCHANGED <<gripper_cmd_queue, gripper_ready, gripper_process, gripper, missed>>

\* send_action: the limiter's target becomes the executed action; Full is raised to the caller
\* although the limiter has recorded the target
GripperAction(requested, cooled) ==
    LET filtered == Filter(gripper_front.target, requested, cooled)
        full == Len(gripper_cmd_queue) >= GripperSlots
    IN  /\ gripper_front.pc = "connected"
        /\ gripper_front' = [gripper_front EXCEPT !.target = filtered.target]
        /\ gripper_cmd_queue' = IF filtered.send /\ ~full
                                THEN Append(gripper_cmd_queue, [cmd |-> "MOVE", pos |-> requested])
                                ELSE gripper_cmd_queue
        /\ missed' = IF filtered.send THEN [missed EXCEPT !.full = full] ELSE missed
        /\ UNCHANGED <<gripper_ready, gripper_process, gripper>>

\* stop: STOP names no column but cmd; Full leaves the gripper running
GripperStop ==
    /\ gripper_front.pc = "connected" /\ Len(gripper_cmd_queue) < GripperSlots
    /\ gripper_front' = [gripper_front EXCEPT !.pc = "joining"]
    /\ gripper_cmd_queue' = Append(gripper_cmd_queue, [cmd |-> "STOP", pos |-> 0])
    /\ UNCHANGED <<gripper_ready, gripper_process, gripper, missed>>

GripperJoined ==
    /\ gripper_front.pc = "joining" /\ gripper_process.pc = "dead"
    /\ gripper_front' = [gripper_front EXCEPT !.pc = "disconnected"]
    /\ UNCHANGED <<gripper_cmd_queue, gripper_ready, gripper_process, gripper, missed>>

-----------------------------------------------------------------------------
(* The hardware: it travels to its goal until an object stops it           *)

Blocked == gripper.goal > gripper.pos /\ gripper.object = gripper.pos + 1
AtDest  == gripper.pos = gripper.goal
AtRest  == AtDest \/ Blocked

Travel ==
    /\ ~AtRest
    /\ gripper' = [gripper EXCEPT !.pos = IF gripper.goal > @ THEN @ + 1 ELSE @ - 1]
    /\ UNCHANGED <<gripper_front, gripper_cmd_queue, gripper_ready, gripper_process, missed>>

\* an object is put between the fingers or taken away
ObjectMoves ==
    /\ \E o \in (gripper.pos + 1)..Nowhere : o # gripper.object /\ gripper' = [gripper EXCEPT !.object = o]
    /\ UNCHANGED <<gripper_front, gripper_cmd_queue, gripper_ready, gripper_process, missed>>

-----------------------------------------------------------------------------
(* The process                                                             *)

At(pc) == gripper_process.pc = pc
Goto(pc) == [gripper_process EXCEPT !.pc = pc]

\* a socket call raises (no connection, timeout, unexpected response): the finally clause
\* sets ready and the process ends
GripperDies ==
    /\ gripper_process.pc \notin {"none", "dead"}
    /\ gripper_process' = [Goto("dead") EXCEPT !.commands = <<>>]
    /\ gripper_ready' = TRUE
    /\ UNCHANGED <<gripper_front, gripper_cmd_queue, gripper, missed>>

\* RobotiqGripper.move: the position is clipped to the calibrated range
MoveTo(position) ==
    gripper' = [gripper EXCEPT
                  !.goal = CASE position < gripper_process.min_position -> gripper_process.min_position
                             [] position > gripper_process.max_position -> gripper_process.max_position
                             [] OTHER -> position]

\* activate: with a stored range (set_position_range) or calibrated next
Activate ==
    /\ At("activating")
    /\ \/ /\ gripper_process' = Goto("opening")
          /\ MoveTo(0)
       \/ /\ \E lo, hi \in EncoderPositions :
                /\ lo < hi
                /\ gripper_process' = [Goto("reading") EXCEPT !.min_position = lo, !.max_position = hi]
          /\ UNCHANGED gripper
    /\ UNCHANGED <<gripper_front, gripper_cmd_queue, gripper_ready, missed>>

\* auto_calibrate: open, close as far as possible, open again, recording both ends; only
\* closing may end on an object, as its check is commented out (GripperDies covers the raise)
CalibrateClose ==
    /\ At("opening") /\ AtDest
    /\ gripper_process' = Goto("closing")
    /\ MoveTo(MaxPosition)
    /\ UNCHANGED <<gripper_front, gripper_cmd_queue, gripper_ready, missed>>

CalibrateOpen ==
    /\ At("closing") /\ AtRest
    /\ gripper_process' = [Goto("reopening") EXCEPT !.max_position = gripper.pos]
    /\ gripper' = [gripper EXCEPT !.goal = 0]
    /\ UNCHANGED <<gripper_front, gripper_cmd_queue, gripper_ready, missed>>

CalibrateEnd ==
    /\ At("reopening") /\ AtDest
    /\ gripper_process' = [Goto("reading") EXCEPT !.min_position = gripper.pos]
    /\ UNCHANGED <<gripper_front, gripper_cmd_queue, gripper_ready, gripper, missed>>

\* the loop: the position is read and published before the commands are fetched
ReadPosition ==
    /\ At("reading")
    /\ gripper_process' = [Goto("fetching") EXCEPT !.current_pos = gripper.pos]
    /\ UNCHANGED <<gripper_front, gripper_cmd_queue, gripper_ready, gripper, missed>>

FetchCommands ==
    /\ At("fetching")
    /\ gripper_process' = [Goto("moving") EXCEPT !.commands = gripper_cmd_queue]
    /\ gripper_cmd_queue' = <<>>
    /\ UNCHANGED <<gripper_front, gripper_ready, gripper, missed>>

MovesIn(commands) == {i \in DOMAIN commands : commands[i].cmd = "MOVE"}
LatestMove(commands) ==
    commands[CHOOSE i \in MovesIn(commands) : \A j \in MovesIn(commands) : j <= i].pos

Moves == MovesIn(gripper_process.commands)

\* OPEN, CLOSE and move_smooth have no caller; the last move of the batch counts (nothing
\* follows a STOP); without one the target is where the gripper was
TargetPos ==
    IF Moves = {} THEN gripper_process.current_pos ELSE LatestMove(gripper_process.commands)

\* a move is sent unless the target is, within np.isclose's one per cent (two units of the
\* encoder, one value here), where the gripper was read to be: a gripper that only passed
\* there goes on to its old goal.  One that is not acknowledged may have had no effect, and
\* run ignores the set_ok that says so.  The end of an iteration makes the process ready
MoveGripper ==
    /\ At("moving")
    /\ \/ /\ TargetPos # gripper_process.current_pos /\ MoveTo(TargetPos)
          /\ missed' = [missed EXCEPT !.unexecuted = FALSE]
       \/ /\ UNCHANGED gripper
          /\ missed' = [missed EXCEPT !.unexecuted = @ \/ Moves # {}]
    /\ gripper_process' =
          [Goto(IF \E i \in DOMAIN gripper_process.commands : gripper_process.commands[i].cmd = "STOP"
                THEN "dead" ELSE "reading") EXCEPT !.commands = <<>>]
    /\ gripper_ready' = TRUE
    /\ UNCHANGED <<gripper_front, gripper_cmd_queue>>

GripperNext ==
    \/ GripperStart \/ GripperStarted \/ GripperStop \/ GripperJoined
    \/ \E requested \in EncoderPositions, cooled \in BOOLEAN : GripperAction(requested, cooled)
    \/ Travel \/ ObjectMoves
    \/ GripperDies \/ Activate \/ CalibrateClose \/ CalibrateOpen \/ CalibrateEnd
    \/ ReadPosition \/ FetchCommands \/ MoveGripper

GripperSpec == GripperInit /\ [][GripperNext]_gripperVars

-----------------------------------------------------------------------------
(* Properties                                                              *)

\* everything the wrapper let through has been executed by a process that still runs
Drained == gripper_process.pc = "reading" /\ gripper_cmd_queue = <<>>

Clipped(position) ==
    CASE position < gripper_process.min_position -> gripper_process.min_position
      [] position > gripper_process.max_position -> gripper_process.max_position
      [] OTHER -> position

\* The gripper heads for the target the wrapper reports as executed: repeated targets are
\* suppressed and batches collapse, yet nothing newer than the goal is ever dropped on the way,
\* as long as the queue took the latest command and the process executed the last one it took
\* (gripper_command_limiter.py:33-54, robotiq_controller.py:231-264).
GoalFollowsTarget ==
    \A target \in EncoderPositions :
        Drained /\ missed = [full |-> FALSE, unexecuted |-> FALSE] /\ gripper_front.target = <<target>>
            => gripper.goal = Clipped(target)
=============================================================================
