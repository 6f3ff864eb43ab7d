------------------------------ MODULE MCProcesses ------------------------------
(* Processes.cfg: the processes that have no state in common with another     *)
(* module's: the learner's restarts and its replay rows, the control          *)
(* processes of the UR arm and of the Robotiq gripper, the HRC robot, the web *)
(* console, an operator's key.  A behaviour runs one of them ("live") and     *)
(* leaves the others in an initial state.                                     *)
(* StreamedDemonstrations.cfg and TruncatedCorrections.cfg (the replay rows), *)
(* ConsoleExclusion.cfg (the console): one process alone.                     *)
EXTENDS LearnerCheckpoint, ReplayBuffers, URController, RobotiqGripper, HRCrobot, WebConsole, OperatorInput, TLC

VARIABLE live

TaskFrame(control_mode, relative, origin, target, force, servo, limit) ==
    [space |-> "TASK", control_mode |-> control_mode, relative |-> relative,
     origin |-> origin, target |-> target, force |-> force, servo |-> servo, limit |-> limit]

\* an absolute servo, a wrench in force mode that enables the reference limit, a relative move
\* that keeps the overrides of the frame before it, faster than an absolute one may be, a
\* joint-space frame
URFrames ==
    { TaskFrame("POS", FALSE, 0, 2, "off", "on", "unset"),
      TaskFrame("WRENCH", FALSE, 2, -1, "on", "off", "on"),
      TaskFrame("POS", TRUE, -2, -2, "unset", "unset", "unset"),
      [TaskFrame("VEL", FALSE, 0, 0, "off", "off", "unset") EXCEPT !.space = "JOINT"] }

\* whose offline buffer keeps next states, or starts as the demonstrations it never updates a
\* critic from
ReplayPolicies ==
    { [kind |-> "sac", demos |-> 1], [kind |-> "sac", demos |-> 2], [kind |-> "sac_dagger", demos |-> 0],
      [kind |-> "bc", demos |-> 2] }

\* a critic is updated from streamed demonstrations and later corrections
StreamedDemos == { [kind |-> "sac_dagger", demos |-> 2] }

\* without demonstrations, an offline buffer of next states
PlainSac == { [kind |-> "sac", demos |-> 0] }

ArmPositions == 1..2
AxisPositions == 0..3

TwoHRCFrames == {[origin |-> 0, target |-> 1], [origin |-> 1, target |-> 1]}

otherVars == <<replayVars, urVars, gripperVars, hrcVars, consoleVars, inputVars>>

ProcessesInit ==
    /\ live \in {"learner", "replay", "ur", "gripper", "hrc", "console", "operator"}
    /\ Init /\ ReplayInit /\ URInit /\ GripperInit /\ HRCInit /\ ConsoleInit /\ InputInit
    /\ live # "replay" => policy.demos = 0
    /\ live # "operator" => ~binding.pulse /\ ~binding.toggle
    /\ live # "ur" => arm.pose = 1 /\ front.limit = "off"
    /\ live # "hrc" => hrc_arm.pose = 0 /\ ~ports.open

ProcessesNext ==
    \/ live = "learner" /\ Next /\ UNCHANGED <<live, otherVars>>
    \/ live = "replay" /\ ReplayNext /\ UNCHANGED <<live, vars, urVars, gripperVars, hrcVars, consoleVars, inputVars>>
    \/ live = "ur" /\ URNext /\ UNCHANGED <<live, vars, replayVars, gripperVars, hrcVars, consoleVars, inputVars>>
    \/ live = "gripper" /\ GripperNext /\ UNCHANGED <<live, vars, replayVars, urVars, hrcVars, consoleVars, inputVars>>
    \/ live = "hrc" /\ HRCNext /\ UNCHANGED <<live, vars, replayVars, urVars, gripperVars, consoleVars, inputVars>>
    \/ live = "console" /\ ConsoleNext /\ UNCHANGED <<live, vars, replayVars, urVars, gripperVars, hrcVars, inputVars>>
    \/ live = "operator" /\ InputNext /\ UNCHANGED <<live, vars, replayVars, urVars, gripperVars, hrcVars, consoleVars>>

ProcessesSpec == ProcessesInit /\ [][ProcessesNext]_<<live, vars, otherVars>>

\* one of them alone
ReplayAloneSpec == ProcessesInit /\ live = "replay" /\ [][ProcessesNext]_<<live, vars, otherVars>>
ConsoleAloneSpec == ProcessesInit /\ live = "console" /\ [][ProcessesNext]_<<live, vars, otherVars>>

\* no learner action tells one primitive from another
Primitives == Permutations(Adaptive)
=============================================================================
