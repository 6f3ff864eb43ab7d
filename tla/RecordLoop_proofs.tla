---------------------------- MODULE RecordLoop_proofs ----------------------------
(***************************************************************************)
(* Offline recording is correct for every graph, every set of recorded     *)
(* primitives and every way of running the script.                         *)
(***************************************************************************)
EXTENDS RecordLoop, MPNet_proofs

Pcs == {"idle", "resetting", "acting", "requesting", "stopping", "committing", "finished"}

Frame == [by : Primitives, step : Nat]

RecordTypeOK ==
    /\ mode \in Modes
    /\ recorder \in [pc : Pcs, step : Nat, events : SUBSET OperatorEvents]
    /\ intervened \in [Primitives -> BOOLEAN]
    /\ buffers \in [Recorded -> Seq(Frame)]

\* Between two loops nothing is buffered.  While a loop acts, only the primitive being
\* stepped has frames, and the newest of them is the step just made: with corrections
\* because that step was an intervention, otherwise the loop would have ended.
Current(p) ==
    buffers[p] # <<>> =>
        /\ p = active
        /\ buffers[p][Len(buffers[p])].step = recorder.step
        /\ mode.corrections => intervened[p]

BufferInv ==
    /\ recorder.pc \in {"idle", "resetting"} => \A p \in Recorded : buffers[p] = <<>>
    /\ recorder.pc = "acting" => \A p \in Recorded : Current(p)

RecordInv == RecordTypeOK /\ BufferInv /\ EpisodesWhole /\ HeldWhileSaving

-----------------------------------------------------------------------------
(* The script only calls the operations of the net                         *)

\* Every step of the script is an operation of the net or leaves the net alone.
LEMMA RecordNextIsNext == [RecordNext]_<<vars, recordVars>> => [Next]_vars
<1> SUFFICES ASSUME [RecordNext]_<<vars, recordVars>> PROVE Next \/ UNCHANGED vars
  OBVIOUS
<1>1. CASE CallReset
  BY <1>1 DEF CallReset, Next, Reset
<1>2. CASE ArriveInReset
  BY <1>2 DEF ArriveInReset, Next, Reset
<1>3. CASE ResetDone \/ Abandon \/ Commit
  BY <1>3 DEF ResetDone, Abandon, Commit
<1>4. CASE RequestReset
  BY <1>4 DEF RequestReset, Next
<1>5. CASE HoldStill
  BY <1>5 DEF HoldStill, Next
<1>6. ASSUME NEW occurring \in SUBSET DOMAIN Edges[active], NEW intervening \in BOOLEAN,
             WalkInReset(occurring, intervening)
      PROVE  Next
  BY <1>6 DEF WalkInReset, Next
<1>7. ASSUME NEW occurring \in SUBSET DOMAIN Edges[active], NEW intervening \in BOOLEAN,
             NEW events \in SUBSET OperatorEvents, RecordStep(occurring, intervening, events)
      PROVE  Next
  BY <1>7 DEF RecordStep, Next
<1>8. CASE UNCHANGED <<vars, recordVars>>
  BY <1>8
<1> QED BY <1>1, <1>2, <1>3, <1>4, <1>5, <1>6, <1>7, <1>8 DEF RecordNext

\* The recording script keeps to the net's contract: what is proved of the net under any
\* caller holds under the script.
THEOREM ScriptUsesNet == RecordSpec => Spec
<1>1. RecordInit => Init
  BY DEF RecordInit
<1> QED BY <1>1, RecordNextIsNext, PTL DEF RecordSpec, Spec

-----------------------------------------------------------------------------
(* Frames                                                                  *)

\* A frame appended right after the newest one keeps the run whole.
LEMMA AppendWhole ==
  ASSUME NEW frames \in Seq(Frame), NEW p \in Primitives, NEW n \in Nat,
         \A i \in DOMAIN frames : frames[i].by = p, Consecutive(frames),
         frames # <<>> => frames[Len(frames)].step + 1 = n,
         NEW longer, longer = Append(frames, [by |-> p, step |-> n])
  PROVE  /\ longer \in Seq(Frame) /\ longer # <<>>
         /\ \A i \in DOMAIN longer : longer[i].by = p
         /\ Consecutive(longer)
         /\ longer[Len(longer)].step = n
<1> DEFINE frame == [by |-> p, step |-> n]
<1>1. frame \in Frame /\ frame.by = p /\ frame.step = n
  BY DEF Frame
<1>0. longer = Append(frames, frame)
  OBVIOUS
<1> HIDE DEF frame
<1>2. /\ longer \in Seq(Frame) /\ Len(longer) = Len(frames) + 1
      /\ \A i \in 1..Len(frames) : longer[i] = frames[i]
      /\ longer[Len(frames) + 1] = frame
  BY <1>0, <1>1, AppendProperties
<1>3. DOMAIN longer = 1..(Len(frames) + 1) /\ DOMAIN frames = 1..Len(frames)
      /\ Len(frames) \in Nat
  BY <1>2, LenProperties
<1>4. longer # <<>>
  BY <1>2, <1>3
<1>5. \A i \in DOMAIN longer : longer[i].by = p
  BY <1>1, <1>2, <1>3
<1>6. ASSUME NEW i \in DOMAIN longer, i > 1 PROVE longer[i].step = longer[i - 1].step + 1
  <2>1. CASE i = Len(frames) + 1
    <3>1. frames # <<>> /\ i - 1 = Len(frames) /\ i - 1 \in 1..Len(frames)
      BY <1>3, <1>6, <2>1
    <3> QED BY <1>1, <1>2, <2>1, <3>1
  <2>2. CASE i # Len(frames) + 1
    <3>1. i \in 1..Len(frames) /\ i - 1 \in 1..Len(frames)
      BY <1>3, <1>6, <2>2
    <3> QED BY <1>2, <1>3, <1>6, <3>1 DEF Consecutive
  <2> QED BY <2>1, <2>2
<1>7. Consecutive(longer)
  BY <1>6 DEF Consecutive
<1>8. longer[Len(longer)].step = n
  BY <1>1, <1>2
<1> QED BY <1>2, <1>4, <1>5, <1>7, <1>8 DEF frame

\* A step that goes on in the loop leaves the same primitive active: an edge that fires
\* ends the loop.
LEMMA ActingStays ==
  ASSUME NEW occurring, NEW intervening, NEW events, Step(occurring),
         ActPc(occurring, intervening, events) = "acting"
  PROVE  active' = active
<1>1. Fired(occurring) = {}
  BY DEF ActPc, Ended
<1> QED BY <1>1 DEF Step, StepActive, First

\* The flags of the action processors stay flags.
LEMMA FlagsTyped ==
  ASSUME NEW occurring, NEW intervening \in BOOLEAN, intervened \in [Primitives -> BOOLEAN]
  PROVE  FlagsAfter(occurring, intervening) \in [Primitives -> BOOLEAN]
<1> DEFINE entered == {Edges[active][i].target : i \in First(Fired(occurring))}
<1>1. \A p \in Primitives :
         (p \notin entered /\ IF p = active THEN intervening ELSE intervened[p]) \in BOOLEAN
  OBVIOUS
<1>2. FlagsAfter(occurring, intervening)
        = [p \in Primitives |-> p \notin entered
                                /\ IF p = active THEN intervening ELSE intervened[p]]
  BY DEF FlagsAfter
<1> HIDE DEF entered
<1> QED BY <1>1, <1>2

\* Where no edge fires the active primitive's flag is the step's.
LEMMA FlagsOfStay ==
  ASSUME NEW occurring, NEW intervening \in BOOLEAN, Fired(occurring) = {},
         active \in Primitives
  PROVE  FlagsAfter(occurring, intervening)[active] = intervening
<1>1. {Edges[active][i].target : i \in First(Fired(occurring))} = {}
  BY DEF First
<1> QED BY <1>1 DEF FlagsAfter

-----------------------------------------------------------------------------
(* The invariant                                                           *)

\* The script starts in the invariant.
LEMMA RecordInitInv == RecordInit => RecordInv
<1> SUFFICES ASSUME RecordInit PROVE RecordInv
  OBVIOUS
<1>1. RecordTypeOK
  BY ModeAssumption, EmptySeq DEF RecordInit, RecordTypeOK, Pcs
<1>2. BufferInv /\ EpisodesWhole /\ HeldWhileSaving
  BY DEF RecordInit, BufferInv, EpisodesWhole, HeldWhileSaving, Consecutive, Current
<1> QED BY <1>1, <1>2 DEF RecordInv

\* One step of the loop, stored or not.
LEMMA RecordStepInv ==
  ASSUME RecordInv, IInv, NEW occurring \in SUBSET DOMAIN Edges[active],
         NEW intervening \in BOOLEAN, NEW events \in SUBSET OperatorEvents,
         RecordStep(occurring, intervening, events)
  PROVE  RecordInv'
<1> DEFINE pc == ActPc(occurring, intervening, events)
<1>1. pc \in {"acting", "requesting", "stopping"} /\ pc \in Pcs
  BY DEF ActPc, Pcs
<1>2. /\ recorder.pc = "acting" /\ recorder.step \in Nat
      /\ recorder \in [pc : Pcs, step : Nat, events : SUBSET OperatorEvents]
  BY DEF RecordStep, Recording, RecordInv, RecordTypeOK
<1>3. active \in Primitives /\ mode' = mode /\ mode \in Modes
  BY DEF IInv, TypeOK, RecordInv, RecordTypeOK, RecordStep
<1>4. recorder' = [pc |-> pc, step |-> recorder.step + 1, events |-> events]
  BY DEF RecordStep
<1>5. recorder' \in [pc : Pcs, step : Nat, events : SUBSET OperatorEvents]
  BY <1>1, <1>2, <1>4
<1>6. recorder'.pc = pc /\ recorder'.step = recorder.step + 1
  BY <1>4
<1>7. /\ intervened' = FlagsAfter(occurring, intervening)
      /\ intervened \in [Primitives -> BOOLEAN]
  BY DEF RecordStep, RecordInv, RecordTypeOK
<1>8. /\ intervened' \in [Primitives -> BOOLEAN]
      /\ pc = "acting" => intervened'[active] = intervening
  <2>1. intervened' \in [Primitives -> BOOLEAN]
    BY <1>7, FlagsTyped
  <2>2. ASSUME pc = "acting" PROVE intervened'[active] = intervening
    <3>1. Fired(occurring) = {}
      BY <2>2 DEF ActPc, Ended
    <3> QED BY <1>3, <1>7, <3>1, FlagsOfStay
  <2> QED BY <2>1, <2>2
<1>9. buffers \in [Recorded -> Seq(Frame)] /\ EpisodesWhole
      /\ \A p \in Recorded : Current(p)
  BY <1>2 DEF RecordInv, RecordTypeOK, BufferInv
<1>10. HeldWhileSaving'
  BY <1>1, <1>6 DEF HeldWhileSaving
<1>11. pc = "acting" => active' = active /\ ~SegmentFinished(intervening)
  <2>1. pc = "acting" => active' = active
    BY ActingStays DEF RecordStep
  <2> QED BY <2>1 DEF ActPc
<1>12. buffers' = buffers \/ buffers' = Stored(intervening)
  BY DEF RecordStep
<1>13. pc = "acting" => buffers' = Stored(intervening)
  BY DEF RecordStep, ActPc
<1>14. CASE active \in Recorded /\ (~mode.corrections \/ intervening)
            /\ buffers' = Stored(intervening)
  <2> DEFINE longer == Append(buffers[active], [by |-> active, step |-> recorder.step + 1])
  <2>1. buffers' = [buffers EXCEPT ![active] = longer]
    BY <1>14 DEF Stored, FrameOwner
  <2>2. /\ longer \in Seq(Frame) /\ longer # <<>>
        /\ \A i \in DOMAIN longer : longer[i].by = active
        /\ Consecutive(longer)
        /\ longer[Len(longer)].step = recorder.step + 1
    <3>1. /\ buffers[active] \in Seq(Frame)
          /\ \A i \in DOMAIN buffers[active] : buffers[active][i].by = active
          /\ Consecutive(buffers[active])
      BY <1>9, <1>14 DEF EpisodesWhole
    <3>2. buffers[active] # <<>> => buffers[active][Len(buffers[active])].step + 1
                                      = recorder.step + 1
      BY <1>9, <1>14 DEF Current
    <3>3. recorder.step + 1 \in Nat
      BY <1>2
    <3> DEFINE frames == buffers[active]
               n == recorder.step + 1
    <3>4. /\ frames \in Seq(Frame) /\ n \in Nat
          /\ \A i \in DOMAIN frames : frames[i].by = active
          /\ Consecutive(frames)
          /\ frames # <<>> => frames[Len(frames)].step + 1 = n
          /\ longer = Append(frames, [by |-> active, step |-> n])
      BY <3>1, <3>2, <3>3
    <3> HIDE DEF longer, frames, n
    <3>5. /\ longer \in Seq(Frame) /\ longer # <<>>
          /\ \A i \in DOMAIN longer : longer[i].by = active
          /\ Consecutive(longer)
          /\ longer[Len(longer)].step = n
      BY <1>3, <3>4, AppendWhole DEF Consecutive
    <3> QED BY <3>5 DEF n
  <2> HIDE DEF longer
  <2>3. buffers' \in [Recorded -> Seq(Frame)] /\ buffers'[active] = longer
        /\ \A p \in Recorded \ {active} : buffers'[p] = buffers[p]
    BY <1>9, <1>14, <2>1, <2>2
  <2>4. EpisodesWhole'
    <3>1. ASSUME NEW p \in Recorded
          PROVE  /\ \A i \in DOMAIN buffers'[p] : buffers'[p][i].by = p
                 /\ Consecutive(buffers'[p])
      <4>1. CASE p = active
        BY <2>2, <2>3, <4>1
      <4>2. CASE p # active
        BY <1>9, <2>3, <4>2 DEF EpisodesWhole
      <4> QED BY <4>1, <4>2
    <3> QED BY <3>1 DEF EpisodesWhole, Consecutive
  <2>5. ASSUME pc = "acting", NEW p \in Recorded PROVE Current(p)'
    <3>1. CASE p = active
      BY <1>6, <1>8, <1>11, <1>14, <1>3, <2>2, <2>3, <2>5, <3>1 DEF Current
    <3>2. CASE p # active
      BY <1>9, <1>11, <2>3, <2>5, <3>2 DEF Current
    <3> QED BY <3>1, <3>2
  <2>6. BufferInv'
    BY <1>1, <1>6, <2>5 DEF BufferInv
  <2> QED BY <1>3, <1>5, <1>8, <1>10, <2>3, <2>4, <2>6 DEF RecordInv, RecordTypeOK
<1>15. CASE ~(active \in Recorded /\ (~mode.corrections \/ intervening)
              /\ buffers' = Stored(intervening))
  <2>1. buffers' = buffers
    BY <1>12, <1>15 DEF Stored, FrameOwner
  <2>2. EpisodesWhole'
    BY <1>9, <2>1 DEF EpisodesWhole, Consecutive
  <2>3. ASSUME pc = "acting", NEW p \in Recorded, buffers[p] # <<>> PROVE FALSE
    <3>1. p = active /\ (mode.corrections => intervened[p])
      BY <1>9, <2>3 DEF Current
    <3>2. mode.corrections /\ ~intervening
      BY <1>13, <1>15, <2>3, <3>1
    <3>3. mode.policy
      BY <3>2 DEF RecordStep
    <3> QED BY <1>11, <2>3, <3>1, <3>2, <3>3 DEF SegmentFinished
  <2>4. BufferInv'
    BY <1>1, <1>6, <2>1, <2>3 DEF BufferInv, Current
  <2> QED BY <1>3, <1>5, <1>8, <1>9, <1>10, <2>1, <2>2, <2>4 DEF RecordInv, RecordTypeOK
<1> QED BY <1>14, <1>15

\* Every step of the script keeps the invariant.
LEMMA RecordNextInv == RecordInv /\ IInv /\ [RecordNext]_<<vars, recordVars>> => RecordInv'
<1> SUFFICES ASSUME RecordInv, IInv, [RecordNext]_<<vars, recordVars>> PROVE RecordInv'
  OBVIOUS
<1>0. /\ recorder \in [pc : Pcs, step : Nat, events : SUBSET OperatorEvents]
      /\ active \in Primitives
      /\ intervened \in [Primitives -> BOOLEAN] /\ mode \in Modes
      /\ buffers \in [Recorded -> Seq(Frame)]
  BY DEF RecordInv, RecordTypeOK, IInv, TypeOK
<1>1. ASSUME UNCHANGED <<mode, buffers>>,
             recorder' \in [pc : Pcs, step : Nat, events : SUBSET OperatorEvents],
             intervened' \in [Primitives -> BOOLEAN],
             recorder'.pc \in {"committing", "finished"} => holding',
             recorder'.pc \in {"idle", "resetting", "acting"} =>
                \A p \in Recorded : buffers[p] = <<>>
      PROVE  RecordInv'
  <2>1. RecordTypeOK'
    BY <1>0, <1>1 DEF RecordTypeOK
  <2>2. EpisodesWhole'
    BY <1>1 DEF RecordInv, EpisodesWhole, Consecutive
  <2>3. BufferInv' /\ HeldWhileSaving'
    BY <1>1 DEF BufferInv, HeldWhileSaving, Current
  <2> QED BY <2>1, <2>2, <2>3 DEF RecordInv
<1>2. ASSUME NEW pc \in Pcs, RecordGoto(pc)
      PROVE  /\ recorder' \in [pc : Pcs, step : Nat, events : SUBSET OperatorEvents]
             /\ recorder'.pc = pc
  BY <1>0, <1>2 DEF RecordGoto
<1>3. CASE CallReset
  <2>1. /\ recorder.pc = "idle" /\ UNCHANGED <<mode, buffers>>
        /\ recorder' = [pc |-> "resetting", step |-> 0, events |-> {}]
        /\ \/ intervened' = [intervened EXCEPT ![active] = FALSE]
           \/ intervened' = [p \in Primitives |-> FALSE]
    BY <1>3 DEF CallReset, Recording
  <2>4. intervened' \in [Primitives -> BOOLEAN]
    BY <1>0, <2>1
  <2>2. recorder' \in [pc : Pcs, step : Nat, events : SUBSET OperatorEvents]
        /\ recorder'.pc = "resetting"
    BY <2>1 DEF Pcs
  <2>3. \A p \in Recorded : buffers[p] = <<>>
    BY <2>1 DEF RecordInv, BufferInv
  <2> QED BY <1>0, <1>1, <2>1, <2>2, <2>3, <2>4
<1>4. CASE ArriveInReset
  <2>1. /\ recorder.pc = "resetting" /\ UNCHANGED <<mode, recorder, buffers>>
        /\ intervened' = [intervened EXCEPT ![Start] = FALSE]
    BY <1>4 DEF ArriveInReset, Recording
  <2>2. \A p \in Recorded : buffers[p] = <<>>
    BY <2>1 DEF RecordInv, BufferInv
  <2>3. intervened' \in [Primitives -> BOOLEAN]
    BY <1>0, <2>1
  <2> QED BY <1>0, <1>1, <2>1, <2>2, <2>3
<1>5. CASE ResetDone
  <2>1. recorder.pc = "resetting" /\ UNCHANGED <<mode, intervened, buffers>>
    BY <1>5 DEF ResetDone, Recording
  <2>2. \A p \in Recorded : buffers[p] = <<>>
    BY <2>1 DEF RecordInv, BufferInv
  <2>3. /\ recorder' \in [pc : Pcs, step : Nat, events : SUBSET OperatorEvents]
        /\ recorder'.pc \in {"acting", "stopping"}
    <3>1. CASE RecordGoto("acting")
      BY <1>2, <3>1 DEF Pcs
    <3>2. CASE /\ "STOP_RECORDING" \in OperatorEvents
               /\ recorder' = [recorder EXCEPT !.pc = "stopping", !.events = {"STOP_RECORDING"}]
      BY <1>0, <3>2 DEF Pcs
    <3> QED BY <1>5, <3>1, <3>2 DEF ResetDone
  <2> QED BY <1>0, <1>1, <2>1, <2>2, <2>3
<1>6. CASE RequestReset
  <2>1. UNCHANGED <<mode, intervened, buffers>> /\ RecordGoto("stopping")
    BY <1>6 DEF RequestReset
  <2>2. recorder' \in [pc : Pcs, step : Nat, events : SUBSET OperatorEvents]
        /\ recorder'.pc = "stopping"
    BY <1>2, <2>1 DEF Pcs
  <2> QED BY <1>0, <1>1, <2>1, <2>2
<1>7. CASE HoldStill
  <2>1. UNCHANGED <<mode, intervened, buffers>> /\ RecordGoto("committing") /\ holding'
    BY <1>7 DEF HoldStill, Stop
  <2>2. recorder' \in [pc : Pcs, step : Nat, events : SUBSET OperatorEvents]
        /\ recorder'.pc = "committing"
    BY <1>2, <2>1 DEF Pcs
  <2> QED BY <1>0, <1>1, <2>1, <2>2
<1>8. CASE Abandon
  <2>1. /\ UNCHANGED <<mode, intervened, buffers>> /\ RecordGoto("finished")
        /\ recorder.pc = "committing" /\ holding' = holding
    BY <1>8 DEF Abandon, Recording, vars
  <2>2. recorder' \in [pc : Pcs, step : Nat, events : SUBSET OperatorEvents]
        /\ recorder'.pc = "finished"
    BY <1>2, <2>1 DEF Pcs
  <2>3. holding'
    BY <2>1 DEF RecordInv, HeldWhileSaving
  <2> QED BY <1>0, <1>1, <2>1, <2>2, <2>3
<1>9. CASE Commit
  <2>1. /\ UNCHANGED <<mode, intervened>> /\ recorder.pc = "committing" /\ holding' = holding
        /\ buffers' = [p \in Recorded |-> <<>>]
    BY <1>9 DEF Commit, Recording, vars
  <2>2. /\ recorder' \in [pc : Pcs, step : Nat, events : SUBSET OperatorEvents]
        /\ recorder'.pc \in {"finished", "idle"}
    <3>1. RecordGoto("finished") \/ RecordGoto("idle")
      BY <1>9 DEF Commit, RecordGoto
    <3> QED BY <1>2, <3>1 DEF Pcs
  <2>3. holding'
    BY <2>1 DEF RecordInv, HeldWhileSaving
  <2>4. RecordTypeOK'
    BY <1>0, <2>1, <2>2, EmptySeq DEF RecordTypeOK
  <2>5. EpisodesWhole' /\ BufferInv' /\ HeldWhileSaving'
    BY <2>1, <2>2, <2>3 DEF EpisodesWhole, Consecutive, BufferInv, HeldWhileSaving, Current
  <2> QED BY <2>4, <2>5 DEF RecordInv
<1>10. ASSUME NEW occurring \in SUBSET DOMAIN Edges[active], NEW intervening \in BOOLEAN,
              WalkInReset(occurring, intervening)
       PROVE  RecordInv'
  <2>1. /\ recorder.pc = "resetting" /\ UNCHANGED <<mode, recorder, buffers>>
        /\ intervened' = FlagsAfter(occurring, intervening)
    BY <1>10 DEF WalkInReset, Recording
  <2>2. \A p \in Recorded : buffers[p] = <<>>
    BY <2>1 DEF RecordInv, BufferInv
  <2>3. intervened' \in [Primitives -> BOOLEAN]
    BY <1>0, <2>1, FlagsTyped
  <2> QED BY <1>0, <1>1, <2>1, <2>2, <2>3
<1>11. CASE UNCHANGED <<vars, recordVars>>
  BY <1>11 DEF vars, recordVars, RecordInv, RecordTypeOK, BufferInv, EpisodesWhole,
               Consecutive, HeldWhileSaving, Current
<1> QED BY <1>3, <1>4, <1>5, <1>6, <1>7, <1>8, <1>9, <1>10, <1>11, RecordStepInv DEF RecordNext

\* The invariant of the recording script.
LEMMA RecordInvariance == RecordSpec => []RecordInv
<1>1. RecordSpec => []IInv
  BY ScriptUsesNet, Invariance, PTL
<1> QED BY <1>1, RecordInitInv, RecordNextInv, PTL DEF RecordSpec

-----------------------------------------------------------------------------
(* The theorems                                                            *)

\* Whatever the operator presses and however often loops are rejected, a dataset buffers one
\* uninterrupted run of its own primitive.
THEOREM RecordedEpisodesWhole == RecordSpec => []EpisodesWhole
<1>1. RecordInv => EpisodesWhole
  BY DEF RecordInv
<1> QED BY <1>1, RecordInvariance, PTL

\* The robots were told to hold still before anything is saved, cleared or abandoned.
THEOREM RobotsHeldWhileSaving == RecordSpec => []HeldWhileSaving
<1>1. RecordInv => HeldWhileSaving
  BY DEF RecordInv
<1> QED BY <1>1, RecordInvariance, PTL

\* The script never steps a terminal primitive, for every graph.
THEOREM ScriptNeverStepsTerminal == RecordSpec => []TerminalNeverStepped
BY ScriptUsesNet, TerminalSafe, PTL
=============================================================================
