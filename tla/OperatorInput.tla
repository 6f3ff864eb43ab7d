---------------------------- MODULE OperatorInput ----------------------------
(***************************************************************************)
(* What an operator's key becomes in a control cycle: one key bound to an  *)
(* event of AddKeyboardEventsAsInfoStep (processor/info.py) and to one of  *)
(* KeyboardVelocityTeleop (teleop_delta_keyboard.py), and the key values   *)
(* autoControl sends the latter over a local socket.  The listeners' own   *)
(* threads run between any two steps of the control cycle, the keyboard    *)
(* repeats a key that is held.                                             *)
(*                                                                         *)
(* Presses and pulses are numbered, so that it shows which of them a cycle *)
(* acts on.  Axes, scales and the gripper's keys are left out.             *)
(***************************************************************************)
EXTENDS Integers, Sequences

CONSTANTS
    MaxPresses,     \* bound: presses of the key
    MaxPulses,      \* bound: datagrams sent
    MaxWaiting      \* bound: key events that wait in the queue

ASSUME InputAssumption == {MaxPresses, MaxPulses, MaxWaiting} \subseteq Nat

VARIABLES
    binding,        \* [pulse: the event is in pulse_events, toggle: the teleoperator's binding]
    key,            \* the key on the desk, and the number of its last press
    key_events,     \* _events and _pressed of the processor step; 0 is False
    event_queue,    \* of the teleoperator: the press a key event belongs to, and pressed or released
    keys,           \* what the teleoperator has drained
    remote_socket,
    remote,         \* _remote_key_values_pending and _active: a pulse, or 0
    cycle,          \* where the control cycle is
    acted           \* history: the cycles that acted on a press, on a pulse

inputVars == <<binding, key, key_events, event_queue, keys, remote_socket, remote, cycle, acted>>

NoPresses == [n \in 1..MaxPresses |-> 0]

\* tapped (history): the presses drained since the events were last read; reported: that
\* reading's answer, and the presses it had to answer for
KeysIdle == [current |-> FALSE, since |-> FALSE, prev |-> FALSE, state |-> FALSE,
             tapped |-> {}, reported |-> [event |-> FALSE, presses |-> {}]]

InputInit ==
    /\ binding \in [pulse : BOOLEAN, toggle : BOOLEAN]
    /\ key = [down |-> FALSE, press |-> 0]
    /\ key_events = [event |-> 0, pressed |-> FALSE]
    /\ event_queue = <<>> /\ keys = KeysIdle
    /\ remote_socket = <<>> /\ remote = [pending |-> 0, active |-> 0]
    /\ cycle = "idle"
    /\ acted = [press |-> NoPresses, pulse |-> [n \in 1..MaxPulses |-> 0]]

-----------------------------------------------------------------------------
(* the listener threads                                                    *)

MutOnPress(press) == [event |-> press, pressed |-> TRUE]

OnPress(press) ==
    [event |-> IF binding.pulse /\ key_events.pressed THEN key_events.event ELSE press,
     pressed |-> TRUE]

OnRelease ==
    [event |-> IF binding.pulse THEN key_events.event ELSE 0, pressed |-> FALSE]

Put(press, pressed) ==
    /\ Len(event_queue) < MaxWaiting
    /\ event_queue' = Append(event_queue, [press |-> press, pressed |-> pressed])

PressKey ==
    /\ ~key.down /\ key.press < MaxPresses
    /\ key' = [down |-> TRUE, press |-> key.press + 1]
    /\ key_events' = OnPress(key'.press)
    /\ Put(key'.press, TRUE)
    /\ UNCHANGED <<binding, keys, remote_socket, remote, cycle, acted>>

RepeatKey ==
    /\ key.down
    /\ key_events' = OnPress(key.press)
    /\ Put(key.press, TRUE)
    /\ UNCHANGED <<binding, key, keys, remote_socket, remote, cycle, acted>>

ReleaseKey ==
    /\ key.down
    /\ key' = [key EXCEPT !.down = FALSE]
    /\ key_events' = OnRelease
    /\ Put(key.press, FALSE)
    /\ UNCHANGED <<binding, keys, remote_socket, remote, cycle, acted>>

Pulses == {remote.pending, remote.active} \cup {remote_socket[i] : i \in DOMAIN remote_socket}

\* autoControl's pulse
SendPulse(n) ==
    /\ acted.pulse[n] = 0 /\ n \notin Pulses
    /\ remote_socket' = Append(remote_socket, n)
    /\ UNCHANGED <<binding, key, key_events, event_queue, keys, remote, cycle, acted>>

-----------------------------------------------------------------------------
(* the control cycle                                                       *)

\* AddKeyboardEventsAsInfoStep.info: the event is read, and a pulse cleared in a second step
ReadKeyboardEvents ==
    /\ cycle = "idle"
    /\ cycle' = IF binding.pulse /\ key_events.event # 0 THEN "clearing" ELSE "events"
    /\ acted' = IF cycle' = "clearing"
                THEN [acted EXCEPT !.press[key_events.event] = @ + 1] ELSE acted
    /\ UNCHANGED <<binding, key, key_events, event_queue, keys, remote_socket, remote>>

ClearPulse ==
    /\ cycle = "clearing"
    /\ cycle' = "events"
    /\ key_events' = [key_events EXCEPT !.event = 0]
    /\ UNCHANGED <<binding, key, event_queue, keys, remote_socket, remote, acted>>

PressesWaiting == {i \in DOMAIN event_queue : event_queue[i].pressed}

DrainedCurrent ==
    IF event_queue = <<>> THEN keys.current ELSE event_queue[Len(event_queue)].pressed

MutDrainedKeys ==
    [keys EXCEPT !.current = DrainedCurrent,
                 !.tapped = @ \cup {event_queue[i].press : i \in PressesWaiting}]

\* _drain_pressed_keys: the last event of the key is its state, any press is remembered
DrainedKeys ==
    [keys EXCEPT !.current = DrainedCurrent,
                 !.since = @ \/ PressesWaiting # {},
                 !.tapped = @ \cup {event_queue[i].press : i \in PressesWaiting}]

\* _drain_remote_keys: the last pulse is the one that counts
Pending ==
    IF remote_socket = <<>> THEN remote.pending ELSE remote_socket[Len(remote_socket)]

\* get_teleop_events: a short tap, pressed and released since the last reading, counts as held;
\* the pending pulse becomes the active one, for this cycle
GetTeleopEvents ==
    LET pressed == DrainedKeys.current \/ DrainedKeys.since
        state == IF pressed /\ ~keys.prev THEN ~keys.state ELSE keys.state
    IN  /\ cycle = "events" /\ cycle' = "actions"
        /\ keys' = [DrainedKeys EXCEPT
                !.since = FALSE, !.prev = pressed, !.tapped = {},
                !.state = IF binding.toggle THEN state ELSE @,
                !.reported = [event |-> IF binding.toggle THEN state ELSE pressed,
                              presses |-> DrainedKeys.tapped]]
        /\ remote' = [pending |-> 0, active |-> Pending]
        /\ acted' = IF Pending = 0 THEN acted ELSE [acted EXCEPT !.pulse[Pending] = @ + 1]
        /\ event_queue' = <<>> /\ remote_socket' = <<>>
        /\ UNCHANGED <<binding, key, key_events>>

\* get_action: inside get_teleop_events for the intervention flag, and once more when it is set
GetAction ==
    /\ cycle = "actions"
    /\ cycle' \in {"actions", "idle"}
    /\ keys' = DrainedKeys
    /\ remote' = [remote EXCEPT !.pending = Pending]
    /\ event_queue' = <<>> /\ remote_socket' = <<>>
    /\ UNCHANGED <<binding, key, key_events, acted>>

\* reset of the processor step, at every entry of its primitive
ResetProcessor ==
    /\ cycle = "idle"
    /\ key_events' = [event |-> 0, pressed |-> FALSE]
    /\ acted' = [acted EXCEPT !.press = NoPresses]
    /\ UNCHANGED <<binding, key, event_queue, keys, remote_socket, remote, cycle>>

\* reset_episode, in a full reset; what waits in the socket stays
ResetEpisode ==
    /\ cycle = "idle"
    /\ keys' = KeysIdle /\ event_queue' = <<>>
    /\ remote' = [pending |-> 0, active |-> 0]
    /\ UNCHANGED <<binding, key, key_events, remote_socket, cycle, acted>>

InputNext ==
    \/ PressKey \/ RepeatKey \/ ReleaseKey \/ \E n \in 1..MaxPulses : SendPulse(n)
    \/ ReadKeyboardEvents \/ ClearPulse \/ GetTeleopEvents \/ GetAction
    \/ ResetProcessor \/ ResetEpisode

InputSpec == InputInit /\ [][InputNext]_inputVars

-----------------------------------------------------------------------------
(* Properties                                                              *)

\* "Preserve short taps whose press and release both arrive between two control cycles"
\* (teleop_delta_keyboard.py:321): whichever call drained a press, the next reading of the
\* events reports it.
TapsReported ==
    ~binding.toggle /\ keys.reported.presses # {} => keys.reported.event

\* A pulse event fires in one control cycle only, however long its key is held and repeats
\* (info.py:182-223), and a remote pulse moves the robot for one cycle
\* ("one-control-cycle key pulses", AUTO_CONTROL.md:56); a reset starts the key anew.
ActsOnce ==
    /\ \A n \in DOMAIN acted.press : acted.press[n] <= 1
    /\ \A n \in DOMAIN acted.pulse : acted.pulse[n] <= 1
=============================================================================
