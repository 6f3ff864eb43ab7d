# A TLA+ model of share-rl

share-rl trains policies for *manipulation primitives* on a robot. A state machine, the
manipulation primitive net (MP-Net), runs one primitive at a time; an actor process drives it and
collects transitions; a learner process trains one policy per adaptive primitive and sends
parameters back over gRPC. Arms and grippers are driven by control processes of their own that
exchange commands and state with their front ends through shared memory.

These modules model the parts whose correctness depends on the order of steps: two processes on
shared memory, a state machine entered from several calls, an actor and a learner with six queues
between them, files that a crash leaves half written. Paths below are relative to the
repository; `share/` is `src/share/`.

## 1. The system

| Component | State | Operations | What must hold |
|---|---|---|---|
| Command queue, `share/utils/shared_memory.py` `SharedMemoryQueue` | two counters, arrays of columns | put, views, get, get_k, get_all, clear, qsize, empty | it is a bounded FIFO of whole rows; nobody writes a row that is being read |
| State ring buffer, same file, `SharedMemoryRingBuffer` | one counter, columns, timestamps | put (waiting or not), get, get_last_k, get_all | rows read within the time budget are whole |
| MP-Net, `share/envs/manipulation_primitive_net/` | active primitive, reset flag, two step counters, pending entry context; frame on the robot | step, reset, full reset, stop, request_full_reset | episodes follow the graph; limits fire on time; no terminal is stepped; frames match contexts; a reset ends |
| Recording script, `share/scripts/record.py` | episode buffer and episode count per primitive, last events, intervention flags | record_loop, commit, rerecord, abandon, stop | a saved episode is one uninterrupted run of its primitive; the robots hold still while the script saves; every primitive gets its episodes |
| Actor, `share/scripts/actor_server.py` | segment, counts, the policies' parameters, shutdown event | connect, warm-up, control loop, publish, rerecord, stop, join | rejected data is never sent; reported steps advance; the process can end |
| Transport, both scripts | six queues, three workers, the server | send, receive, start, stop | the newest parameters win |
| Learner, `share/scripts/learner_server.py` | buffers, steps, last messages, disk | receive, gate, optimize, push, save, resume | updates are backed by transitions, across crashes too; checkpoints are complete; a row's next state is the real one |
| Runtime, `share/rl/runtime.py` | registry, budgets | apply parameter updates | newest per primitive |
| UR controller, `share/robots/ur/lerobot_robot_ur` | command queue, events, control space, motion mode, virtual target; the watcher thread | connect, start, command, frame and mode changes, control cycle, stop, cleanup, exit watcher | one motion at a time; a servo moves without a jump; a wrench never pushes outward; a requested stop is not reported as a failure |
| Robotiq gripper, `share/grippers/robotiq_controller.py` | command queue, calibrated range, last position read | start, calibrate, read, move, stop | the gripper heads for the target that is reported as executed |
| Gripper command limiter, `share/robots/gripper_command_limiter.py` | last target | filter | repeated targets are suppressed, new ones are not lost |
| HRC robot, `share/robots/HRCrobot` | links, servo deadline, frame, two gripper outputs | connect, disconnect, set_task_frame, send_action | outputs exclude each other; setpoints stay near the arm and are rate limited |
| Web console, `webConfig/server.py`, `console_runtime.py` | a process per role, locks, request threads | start, stop, wait | no live process is lost; the viewer example and the services exclude each other |
| Operator input, `share/processor/info.py`, `share/teleoperators/delta_keyboard` | keys pressed, event queue, pending and active pulse | listen, read events, get action, reset | no tap is lost; a press or a pulse acts once |
| Other processors and teleoperators, cameras, policies, simulation, tools | see `PROJECT.json` | | mostly numerical or pure I/O |

Interactions: the actor and the recording script call the MP-Net; a primitive's environment writes
task frames to the robots, whose wrappers put commands in a queue and read state from a ring
buffer of their control process; the wrappers filter gripper commands through the limiter; actor and
learner share only the gRPC streams; the console starts and stops the programs as child processes.

What is hard: lock-free reads and writes, real-time loops that fall behind, a pending entry context
that several calls consume, counts that go back when the operator rerecords, pushes that are
skipped and applied in bursts, shutdown while a worker blocks in a stream, saves that die
between two files, a motion that must end before another begins although the link may be lost in
between, and requests served by concurrent threads. `PROJECT.json` lists each hazard at its line,
those no property covers with the reason.

## 2. Modules

| Module | Models | Notes |
|---|---|---|
| `FIFOQueue` | (abstract) | a bounded FIFO that may refuse a row when full |
| `SharedMemoryQueue`, `..._proofs` | `SharedMemoryQueue` | one step per load, per column copied and per counter update of either side |
| `SharedMemoryRingBuffer`, `..._proofs` | `SharedMemoryRingBuffer` | discrete time passes between any two steps |
| `PrimitiveGraph` | (abstract) | an episode is a walk along the edges from the start primitive |
| `MPNet`, `..._proofs` | the MP-Net | a pose is abstracted to the frame it is expressed in |
| `RecordLoop`, `..._proofs` | `record`, `record_loop` | extends `MPNet`: composes its operations in the order the script calls them |
| `OperatorInput` | an operator's key in `AddKeyboardEventsAsInfoStep` and `KeyboardVelocityTeleop`, remote pulses | listener threads run between the steps of a control cycle |
| `Transport` | queues, workers and server between actor and learner | the gRPC servicer is LeRobot's, outside this repository |
| `Actor` | `run_actor`, `act_with_policy`, application of updates | extends `Transport` |
| `Learner` | the training loop | extends `Transport` |
| `ActorLearner`, `..._proofs` | one session of both | composes the three above and states their properties |
| `LearnerCheckpoint`, `..._proofs` | saves, crashes, resume | buffers abstracted to row counts |
| `ReplayBuffers`, `..._proofs` | the rows of a primitive's online and offline buffers, through saves and resumes | LeRobot's `ReplayBuffer` and dataset loading are external |
| `URController` | `UR`, `RTDETaskFrameController`, the watcher thread, the arm | one translation axis |
| `RobotiqGripper` | the wrapper's gripper part, `RobotiqController`, the gripper | composes `GripperCommandLimiter` |
| `GripperCommandLimiter` | `filter` | an operator: what is remembered and what is sent |
| `HRCrobot` | `HRCrobot`, its controller, the arm and the outputs | composes `GripperCommandLimiter` |
| `WebConsole` | `ServiceManager`, `ViewerExampleRunner` and the handlers that call them | one thread per request |
| `Processes_proofs` | | proofs about `URController`, `RobotiqGripper`, `HRCrobot`, `WebConsole` and `OperatorInput` |
| `MCSharedMemory`, `MCMPNet`, `MCRecordLoop`, `MCActorLearner`, `MCProcesses` | | instances for TLC |

`MCSharedMemory`, `MCRecordLoop` and `MCProcesses` check several components in one run.
Components without shared state are put side by side: a variable `live`, chosen at the start, says
which one the behaviour runs, and the others stay in an initial state. Each component keeps its own
actions and properties; nothing is claimed about their interaction.

How state and actions correspond to the code:

* **SharedMemoryQueue.** `producer` and `consumer` are the local variables of a call in progress,
  `pc` its position. `PutLoadRead` is the load of the read counter on which `put` decides,
  `PutFull`/`PutAccept` the decision, `PutColumn` one array assignment, `PutCommit` the update of the
  write counter; the consumer mirrors it. A third party, `Qsize`, loads both counters one after the
  other. Every caller in the repository has one producer and one consumer.
* **SharedMemoryRingBuffer.** `PutStart` checks the timestamp of the slot `get_max_k - 1` ahead;
  `PutWake` ends the sleep, `PutRefused` is `wait=False`. A record of `Rings` holds the
  constructor's arguments and how the calling loop is paced: by absolute deadlines, so that it
  catches up after a stall (Robotiq), or (RTDE) by iterations that start at least a period apart
  (`LoopStart`) and put once each, anywhere after their start: two puts may be back to back, as the
  drain of the commands before a put takes any time. `clear` has no caller.
* **MPNet.** `Step` is the whole of `step()`: the environment step, both counters, the choice of
  the first edge that fires, and the entry of its target. `ReenterActive` is `reset()` without a
  pending full reset, `FullReset` its first part with one; `ResetPathStep` is one iteration of
  `_step_reset_path_until_start`, `FinishReset` its end. Edges that look at observations are events
  that occur or not. Counters saturate at `MaxSteps`, above every limit.
* **RecordLoop.** `recorder.pc` is the position in the script. `RecordStep` is one iteration of
  `record_loop`: the step, the choice of the dataset before it, the frame stored or not, and which
  of the ways out is taken; `RequestReset` and `HoldStill` are what follows, `Commit` and `Abandon`
  what `record` does with the buffers. The operator may raise any events at any step.
  `intervened` is the flag of a primitive's intervention processor; entering a primitive clears its
  own and a full reset those of all (`FlagsAfter`, `CallReset`).
* **OperatorInput.** `PressKey`, `RepeatKey` and `ReleaseKey` are what the listener threads do with the
  keyboard's events, `ReadKeyboardEvents`, `ClearPulse`, `GetTeleopEvents` and `GetAction` the parts of a
  control cycle in their order in the action pipeline. Presses and pulses are numbered to see which
  cycle acts on them. `ResetProcessor` is a primitive's entry, `ResetEpisode` a full reset.
* **Actor.** `Decide` is an iteration up to the action, including the updates applied then; the
  step is one of `Advance`, `FinishSegment`, `Rerecord`, `StopRecording`, each with all the counts,
  queue operations and resets of that branch. The MP-Net appears as an arbitrary choice of whether
  a segment ends and which primitive is active after a reset.
* **Learner.** An iteration is `ProcessTransitions`, `ProcessMessages` and `Optimize` over all
  primitives, with or without the push. Items may arrive between these steps.
* **Transport.** A stream ends at the shutdown event, after at most one more item;
  the receiver looks at the event only when an item arrives. `StreamParameters` sends any of the
  pushes that wait and forgets the older ones: the code relies on nothing stronger.
* **LearnerCheckpoint.** `save_training_checkpoint` is one action per file operation; `Crash` may
  come between any two, and `Load` is the next session. `WriteCheckpoint` may fail, in which case
  only the fallback files, which nothing loads, are written.
* **ReplayBuffers.** An observation is a number and a transition leads from s to s + 1, so that a wrong
  next state shows. `ProcessTransition` stores one transition, `SaveDataset` writes the online rows in
  logical order and forgets next states, `Resume` rebuilds both buffers: the online one optimized,
  the offline one from the saved corrections and the external demonstrations. The flag of a truncated
  row is not saved: it only ends an episode of the dataset. `Bootstraps` is the critic's mask, which
  looks at `done` alone. A start that LeRobot refuses (demonstrations larger than the room left)
  does not happen.
* **URController.** `front` is the wrapper, `control` the control process with the messages it has
  drained, `loop` the controller's state, `arm` the robot with the motions live on it. An iteration
  is `GetPendingCommands`, one action per message, and `URCycle`, which advances the virtual target
  and sends a wrench or a setpoint. The link may be lost at any step, also half way through a mode
  change (`ApplySetHalfway`); every RTDE call after that raises. An RTDE call that returns is taken
  to have had its effect. `ControlKilled` runs no handler. A frame may override force mode, servo mode
  and the reference limit; an override stays until a later frame overrides it. The pose bounds are
  those of the robot's configuration: `to_queue_dict` prefers the overrides, which always carry them, so
  that a frame's own bounds (`task_frame.py`:80-84) never reach the controller.
  The command queue is the FIFO that `SharedMemoryQueue` is shown to implement.
* **RobotiqGripper.** The process reads the position (`ReadPosition`), drains the queue
  (`FetchCommands`) and acts on the last command (`MoveGripper`); the gripper travels, and objects
  come and go, in between. A MOVE that is not acknowledged may have no effect, and the process goes
  on; `GripperDies` is any socket call that raises. `missed` is history: whether the queue was full for
  the latest command, and whether the process did not execute the last one it took. In both cases the
  limiter suppresses every repeat; `GoalFollowsTarget` says that nothing else loses a target.
* **HRCrobot.** `hrc.pc` is the position in `send_action`: guard, wait for the servo's deadline
  (`hrc.due` is the deadline minus the present), setpoint, gripper outputs. `HRCTick` is time, in
  which the arm follows its setpoint; each call of the links may fail, after or before its effect.
  `burst` is history: how many setpoints were sent since one of them, any, less than a period ago.
* **WebConsole.** `StartRequest` reads the other manager's status, `Start` is the call of this one
  under its lock; `StopRequest` signals under the lock, `StopWait` waits outside it.

## 3. Runs

| Run | Configuration | Shows |
|---|---|---|
| `shared_memory` | `SharedMemory.cfg` | queue: occupancy within bounds although each side decides on a stale counter, `empty()` truthful, no put touches an unread row, refinement of `FIFOQueue`; ring buffer: published rows are whole, fresh rows are never torn, and for a writer whose iterations start a period apart any read within its budget is whole |
| `ring_catch_up_torn` (violated) | `RingBufferCatchUpTorn.cfg` | for a writer that catches up it is not |
| `mpnet_insertion` | `MPNetInsertion.cfg` | over a graph with every kind of edge, competing edges, a loop, a terminal and a two-step reset path, under an arbitrary caller and under the recording script: terminals, limits, frames, resets, refinement of `PrimitiveGraph`; recorded episodes are whole and the robots hold still while they are saved |
| `mpnet_hrc_frames` (violated) | `MPNetHRCFrames.cfg` | without a reported origin (HRC robot) a repeated reset enters with another frame's origin |
| `mpnet_stuck_reset` (violated) | `MPNetStuckReset.cfg` | a graph that the validation accepts on which `reset()` never returns |
| `record_every_primitive` (violated) | `RecordEveryPrimitive.cfg` | every episode ends with a full reset, so primitives behind the start primitive are never recorded, however patient the operator |
| `actor_learner_session` | `ActorLearnerSession.cfg` | with two policies, one streaming and behavioural cloning, the newest parameters that reached the actor are in force or wait in its queue; updates backed by the actor's own count |
| `actor_learner_segments` | `ActorLearnerSegments.cfg` | no trace of rerecorded segments; reported steps advance; an actor that leaves its loop ends |
| `streamed_demonstrations` (violated) | `StreamedDemonstrations.cfg` | off-policy SAC-dagger keeps the streamed demonstrations as its offline buffer: a later correction bootstraps from another segment |
| `truncated_corrections` (violated) | `TruncatedCorrections.cfg` | a save forgets which rebuilt rows were truncated: after a second resume a critic's correction bootstraps from the segment after its own |
| `processes` | `Processes.cfg` | learner across a crash at any file operation: updates backed, `last` complete, a finished budget saved, at most a save period lost; replay rows: successors follow each other in the online buffer, a row of a critic's offline buffer whose successor was stored bootstraps from it, the newest corrections survive; UR arm: one motion live, a servo that only its frame's step, velocity or bounds move, wrench inward, a stop is no failure; the gripper follows the last target executed; HRC outputs exclusive, bursts bounded, setpoints near the arm; console: no live process is lost; operator input: a tap is reported, a press or a remote pulse acts once |
| `console_exclusion` (violated) | `ConsoleExclusion.cfg` | two concurrent requests start the viewer example beside a service |

The violated runs state what a comment, a document or a test says; `PROJECT.json` quotes
it next to what the code does.

**Bounds, and why they are enough.** The queue wraps around its two slots with three rows put, under a
full and an empty queue on both sides; two columns make a torn row visible. The ring buffer is lapped
within `max_puts`, and `max_time` leaves room for a stall longer than the budget. In the MP-Net only
`MaxSteps` bounds, one above the largest limit; a record loop is left within `MaxLoopSteps`, one more
than the start primitive's own limit, and two episodes per dataset show that counting goes on.
A key is pressed twice, held or tapped, with two
remote pulses and up to two key events that wait: a press in each of two cycles and what is left of
the one before. The session and segment runs have two environment steps: a report or a rerecorded
segment and another after it, and two parameter messages wait on either side in the session. One
transition holds NaN and one is an intervention. For the learner each budget of three spans a
periodic and a final save, and the one crash falls at any point of either primitive's saves; the two
primitives are interchangeable (`SYMMETRY Primitives`: no action tells them apart). The replay
buffers hold three and two rows, fewer than the observations, so both turn over, before and after
either of two restarts; the policies cover demonstrations that fit beside a correction, that do not,
none, and streamed ones. The UR arm's
four frames cover the three task modes and joint space, a relative and an absolute axis, other
origins, and an override inherited from the frame before; two queue slots let one drain take two
commands. One frame enables the reference limit, the relative one leaves it to the override before or
the configuration (both values), so a relative axis moves with and without it. Its positions lie inside
one frame's box and outside another's. Gripper and HRC axis have three and four positions, enough for
a command that overtakes a motion; a servo period is two ticks, so that setpoints of one window lie
at different times. Two requests make a race.

**Deadlock checking** is off where a bound ends the behaviour (time, puts, environment steps,
transitions) or the programs end; it is on in `mpnet_insertion`.

**Fairness.** `ResetTerminates`: the walk of the reset path is a loop of the caller's own thread
(weak fairness of its steps) and no event is assumed to occur. `ActorExits`: the learner's
loop, the server's stop and the workers are threads of running processes (weak fairness);
`OptimizeAndPush` is strongly fair because the push period passes again and again while the learner
loops. Nothing is assumed of the operator, the signals or the environment. `EveryPrimitiveRecorded`
alone assumes an operator (`PatientOperator`): the script runs (weak fairness) and whenever a
primitive is active again and again, an episode of it is completed and accepted (strong
fairness); the violation therefore is not the operator's doing.

## 4. Proofs

`tlapm M.tla` checks every obligation of a module `M`; the modules are the eight `*_proofs` of section 2,
of which `ActorLearner_proofs` takes minutes and the others less. The theorems hold for every value
of the constants that satisfies the modules' named assumptions; what a theorem assumes beyond them
is said below. Each module defines an inductive invariant as a conjunction of named parts, shows
that every action keeps each part, and reads the runs' properties off it.

* **Queue.** The invariant of the runs is not inductive: that a put respects the bound needs the
  fact that the counter it loaded earlier can only have grown. `IInv` adds to `TypeOK` and
  `CountersBounded` what each side knows while a call is in progress (`ProducerInv`: the loaded read counter is behind
  the real one and the slot is free; `ConsumerInv`: the rows to be taken were published and the columns
  copied so far are theirs; `ObserverInv`). From it: `TypeCorrect`, `BoundedOccupancy`,
  `EmptyAnswers`, `NoOverwrite`, and `Refinement` to `FIFOQueue`, by cases on the step: a commit appends
  (`CommitAppends`), an advance releases the rows read (`Release`, `ReadsOldest`), a column
  write is invisible (`ColumnInvisible`), the rest stutters. The lemmas on `%` (`ModUnique`, `ModWrap`,
  `ModDistinct`) say that two rows less than a buffer apart never share a slot.
* **MP-Net.** `IInv` adds to the type invariant and two of the properties `ResetInv`, what the machine is while it walks
  the reset path. From it: types, `TerminalSafe`, `FrameFollows`,
  `LimitsHonoured`, `ResetDelivers` and `Refinement` to `PrimitiveGraph`.
* **Checkpoints.** Neither `UpdatesBackedAcrossRestarts` nor `LastIsComplete` is inductive: a restarted
  learner takes its steps from one file and its rows from another. `IInv` adds what both rest on:
  `SaveInv` (what the save in progress has written so far), `BackedInv` (rows in memory and on disk
  are at most the transitions received, and the linked step is backed as the live one is) and
  `InteractionsInv` (no interaction step passes what was received). `Gate` turns the code's nested
  `max` into arithmetic, from which the gate is monotone. From it: `TypeCorrect`, `LastComplete`,
  `BackedAcrossRestarts`. `FinishedSaved` needs `BudgetInv` besides: a primitive at its budget is
  linked, or its save has not come to the link yet. It assumes a positive budget: with 0 nothing is
  ever saved.

  `LossBounded` rests on `LossInv`: the step linked last is a multiple of the save period or the budget, and
  fewer updates than a period follow it until a save is due.
* **Replay rows.** The lemmas come first: the logical order of a ring goes through it once
  (`LogicalIs`), a row added is its newest and the oldest one gives way (`AddIs`), rows added while
  there is room are the rows in order (`FillIs`; `FillIsAdd` is what ties the model's `Fill` to
  repeated `Add`), and the newest n corrections are n, each above all left out (`NewestOnes`).
  `ReplayInv` then says that the rows in memory (`OnlineOrdered`) and the frames on disk
  (`SavedOrdered`) increase and miss no stored transition between two they hold, that an episode of the
  dataset ends where a segment did, and that until a transition arrives a resumed session holds
  the corrections it was resumed from (`HoldsSaved`). From it: `ReplaySuccessorFollows` and
  `ReplayNewestCorrectionsKept`. `ReplayOfflineSuccessorFollows` adds `OfflineRowsReal`: every row of a critic's buffer
  is final, carries its real successor, or has one that was passed over for good. A truncated row is
  covered because nothing ever stores its successor (`TruncatedUnfollowed`, `TruncatedStays`); what it
  bootstraps from instead is the question of `truncated_corrections`. The theorem assumes
  that no SAC-dagger policy of a critic streams demonstrations (`NoStreamedDemos`), without
  which the property is false (`streamed_demonstrations`).
* **Ring buffer.** `RingInv` orders the stamps of the rows held (`StampInv`), says that the slot about to
  be overwritten belongs to a row whose window is a time budget old (`ThrottleInv`, `RowsInv`), and
  follows a read in progress: what it counts on was published (`WindowInv`), was not overrun
  unless its newest row is a budget old (`AgeInv`), and is copied whole until then (`CopyInv`). From it:
  `RingRowsWhole` and `RingFreshIntact`. `RingPacedWhole` needs `PaceInv`, how far a writer whose
  iterations start a period apart can have come since the reader began, and assumes a budget of more
  than two periods. The arm's controller has 0.4 s and, at its default 500 Hz, 0.05 s; its
  configuration only asserts a frequency above 0.
* **Recording script.** `ScriptUsesNet`: each step of the script is an operation of the MP-Net, or leaves the
  net alone, so that what is proved of the net under any caller holds under the script
  (`ScriptNeverStepsTerminal`). `RecordInv` adds `BufferInv`, at which positions of the script the
  datasets are empty or hold frames of the primitive in progress; with the net's
  invariant it gives `RecordedEpisodesWhole` and `RobotsHeldWhileSaving`.
* **Session of actor and learner.** `ActorLearner_proofs` has four arguments over one set of types.
  `NewestInv`: the newest waiting version of each policy is the last delivered, and with none waiting
  it is the one in force (`SessionNewestApplied`). `BackedInv` is a balance per policy: rows in its buffer,
  usable transitions in both queues and steps of the open segment are together at most what the
  actor counts, and the updates are at most what the buffer unlocks; every step moves an item from one
  account to the next or drops it (`SessionUpdatesBacked`; a streaming policy's count falls when it
  rerecords what it already sent, and the property leaves it out). `TraceInv`: whatever travels was
  taken in a step that is neither rerecorded nor in the open segment
  (`SessionRerecordLeavesNoTrace`). `StepsInv`: the reports under way in both queues increase, begin
  above the last one received, and end, with the open segment, at the actor's count
  (`SessionReportedStepsAdvance`). What the selection and concatenation of sequences yield is
  proved by induction over their length, stated with sets of sequences (`SequenceInduction`), because an
  induction theorem with an operator parameter cannot be instantiated here.
* **Robots.** UR: `StopInv` relates the stop event, the loop's cause and the watcher's verdict,
  `MotionInv` the motion mode, the link and what is live on the arm at each position of the loop, also half way
  through a mode change; the servo and wrench properties are proved of single steps under the
  types and, for the servo, `ServoInv` (its anchor is the virtual target seen from the world); no speed bounds
  a relative axis, in the theorem as in the code. Gripper: `GoalFollowsTarget` alone says nothing of
  commands on their way; `NewestInv` says that the last move among queue, drained batch and, if it was
  executed, goal is the wrapper's target. HRC: `PortsInv` adds that once the opposite output is off it stays off
  until the wanted one is on, `BurstInv` ties the setpoints of a window and its age to how far the deadline lags, `PendingInv`
  bounds how far the arm can have come since the setpoint was computed.
* **Console and operator.** `NoLiveProcessLost` is inductive with its types: only `Start` replaces a
  record, under the lock under which it saw that the process had ended, for any number of requests.
  `TapsInv` (a press drained is remembered until it is used), `PressesInv` and `PulsesInv` (what can still
  be read has not been acted on) give `InputTapsReported` and `InputActsOnce`.

The type invariants the proofs define are theorems and no run repeats them.

Only model-checked: liveness under fairness (`ResetTerminates`, `ActorExits`), which is outside the
prover's reach, as is ENABLED. `FillIsAdd` is a single step: that `Fill` is what any number of `Add`
yields is an induction over data, and not stated as a theorem.

## 5. What is left out, and the plan

Abstracted everywhere: tensors, poses beyond one axis, images, logging, statistics, gRPC chunking.

Not modelled:

* **Sampling and updates.** The gate counts rows, `ReplayBuffers` says what they hold; batches,
  losses and gradients are numerical. Of a truncated row in the online buffer, whose next state
  LeRobot's optimized buffer takes from the next segment, `ReplayBuffers` claims nothing, nor of rows
  whose successor was dropped (NaN) or lost in a restart.
* **The actor's workers as processes.** `ActorExits` is about the thread mode; the process mode joins
  its workers before it cancels the queues' feeder threads (`actor_server.py`:198).
* **UR controller v2.** `UR.connect` reads `wrench_monitor_enabled` (`ur.py`:166), a field that the
  v2 configuration lacks, so it cannot connect as it stands.
* **MuJoCo robot, policies, kinematics, force backoff, most processors.** Arithmetic on real
  numbers; their state is a filter's or an integrator's.
* **Cameras, other teleoperators, Dynamixel motors, the vendor SDK.** Reads and writes of a device.
* **Configurations, builders, adapters, one-shot scripts, examples.** No state after construction.

`PROJECT.json` lists every component with its status and what a partly modelled one leaves out.

Theorems planned next: the row counts of `Learner` and `LearnerCheckpoint` as an abstraction of `ReplayBuffers`
(what a resume makes of the rows is what it makes of their number), and the session's liveness
split into the safety part a proof can reach.
