----------------------------- MODULE MPNet_proofs -----------------------------
(***************************************************************************)
(* What holds of the primitive state machine for every graph: any set of   *)
(* primitives, any edges in any order, any start, reset and terminal       *)
(* primitives.                                                             *)
(***************************************************************************)
EXTENDS MPNet, SequenceTheorems, TLAPS

\* a full reset stays due until the walk arrives, nothing waits to be entered between two
\* calls, and the walk reaches the start primitive only by entering it
ResetInv ==
    /\ walking => needs_full_reset
    /\ pending_entry_context = NoContext
    /\ walking /\ active = Start => primitive_step_count = 0

IInv == TypeOK /\ ResetInv /\ TerminalNeverStepped /\ LiveFrame

-----------------------------------------------------------------------------
(* The operators                                                           *)

\* Every edge leads to a primitive.
LEMMA EdgeTarget ==
  ASSUME NEW p \in Primitives, NEW i \in DOMAIN Edges[p]
  PROVE  Edges[p][i].target \in Primitives /\ Edges[p][i].target \in Succ(p)
<1> DEFINE EdgeSet == [target : Primitives, kind : EdgeKinds, limit : Nat]
<1>1. Edges[p] \in Seq(EdgeSet)
  BY NetAssumption
<1> HIDE DEF EdgeSet
<1>2. i \in 1..Len(Edges[p])
  BY <1>1, LenProperties
<1>3. Edges[p][i] \in EdgeSet
  BY <1>1, <1>2, ElementOfSeq
<1> QED BY <1>3 DEF EdgeSet, Succ

\* The context an edge packs is a context.
LEMMA TransitionTyped ==
  ASSUME NEW p \in Primitives
  PROVE  TransitionContext(p) \in Context
BY DEF TransitionContext, Context, ObservedOrigin

\* So is the one rebuilt without a transition.
LEMMA RebuiltTyped ==
  ASSUME NEW p \in Primitives, NEW stepped \in Primitives \cup {NoPrimitive}
  PROVE  RebuiltContext(p, stepped) \in Context
<1>1. ASSUME NEW q \in Primitives PROVE ObservedOrigin(p, q) \in {Origins[r] : r \in Primitives}
  BY DEF ObservedOrigin
<1>2. (IF stepped = NoPrimitive THEN p ELSE stepped) \in Primitives
  OBVIOUS
<1> QED BY <1>1, <1>2 DEF RebuiltContext, Context

\* Entering a primitive leaves the robots in its frame with a typed context.
LEMMA EnterTyped ==
  ASSUME TypeOK, NEW p \in Primitives, NEW stepped \in Primitives \cup {NoPrimitive},
         NEW context \in Context \cup {NoContext}, Enter(p, context, stepped)
  PROVE  /\ active' = p /\ robot_frame' = p /\ holding' = FALSE
         /\ pending_entry_context' = NoContext
         /\ entry' \in Context \cup {NoContext}
BY RebuiltTyped DEF Enter

\* A saturated count is a count.
LEMMA CountTyped ==
  ASSUME NEW n \in Nat
  PROVE  Count(n) \in Nat
BY DEF Count

-----------------------------------------------------------------------------
(* The invariant                                                           *)

\* One step of the active primitive: it stays, or the first edge that fires is taken.
LEMMA StepActiveEffect ==
  ASSUME IInv, NEW occurring, StepActive(occurring)
  PROVE  /\ active' \in Succ(active) \cup {active} /\ active' \in Primitives
         /\ robot_frame' = active' /\ holding' = FALSE
         /\ pending_entry_context' = NoContext
         /\ entry' \in Context \cup {NoContext}
         /\ episode_step_count' \in Nat /\ primitive_step_count' \in Nat
         /\ last_stepped' = active
         /\ active' # active => primitive_step_count' = 0
<1>1. active \in Primitives /\ pending_entry_context = NoContext
  BY DEF IInv, TypeOK, ResetInv
<1>2. episode_step_count' \in Nat /\ last_stepped' = active
  BY CountTyped DEF StepActive, IInv, TypeOK
<1>3. ASSUME primitive_step_count' = Count(primitive_step_count),
             robot_frame' = active, holding' = FALSE,
             UNCHANGED <<active, entry, pending_entry_context>>
      PROVE  /\ active' = active /\ robot_frame' = active' /\ holding' = FALSE
             /\ pending_entry_context' = NoContext
             /\ entry' \in Context \cup {NoContext}
             /\ primitive_step_count' \in Nat
  BY <1>1, <1>3, CountTyped DEF IInv, TypeOK
<1>4. ASSUME NEW i \in First(Fired(occurring)), primitive_step_count' = 0,
             Enter(Edges[active][i].target, TransitionContext(active), active)
      PROVE  /\ active' \in Succ(active) /\ active' \in Primitives
             /\ robot_frame' = active' /\ holding' = FALSE
             /\ pending_entry_context' = NoContext
             /\ entry' \in Context \cup {NoContext}
             /\ primitive_step_count' = 0
  <2> DEFINE target == Edges[active][i].target
             context == TransitionContext(active)
  <2>1. target \in Primitives /\ target \in Succ(active)
    BY <1>1, EdgeTarget DEF First, Fired
  <2>2. context \in Context
    BY <1>1, TransitionTyped
  <2>3. Enter(target, context, active)
    BY <1>4
  <2> HIDE DEF target, context
  <2> QED BY <1>1, <1>4, <2>1, <2>2, <2>3, EnterTyped DEF IInv
<1>5. \/ /\ primitive_step_count' = Count(primitive_step_count)
         /\ robot_frame' = active /\ holding' = FALSE
         /\ UNCHANGED <<active, entry, pending_entry_context>>
      \/ \E i \in First(Fired(occurring)) :
            /\ primitive_step_count' = 0
            /\ Enter(Edges[active][i].target, TransitionContext(active), active)
  BY DEF StepActive
<1>6. CASE \E i \in First(Fired(occurring)) :
              /\ primitive_step_count' = 0
              /\ Enter(Edges[active][i].target, TransitionContext(active), active)
  <2>1. PICK i \in First(Fired(occurring)) :
              /\ primitive_step_count' = 0
              /\ Enter(Edges[active][i].target, TransitionContext(active), active)
    BY <1>6
  <2>2. /\ active' \in Succ(active) /\ active' \in Primitives
        /\ robot_frame' = active' /\ holding' = FALSE
        /\ pending_entry_context' = NoContext
        /\ entry' \in Context \cup {NoContext}
        /\ primitive_step_count' = 0
    BY <1>4, <2>1
  <2> QED BY <1>2, <2>2
<1>7. CASE /\ primitive_step_count' = Count(primitive_step_count)
           /\ robot_frame' = active /\ holding' = FALSE
           /\ UNCHANGED <<active, entry, pending_entry_context>>
  BY <1>1, <1>2, <1>3, <1>7
<1> QED BY <1>5, <1>6, <1>7

\* A net just built satisfies the invariant.
LEMMA InitIInv == Init => IInv
<1> SUFFICES ASSUME Init PROVE IInv
  OBVIOUS
<1>1. TypeOK
  BY NetAssumption DEF Init, TypeOK
<1>2. ResetInv /\ TerminalNeverStepped /\ LiveFrame
  BY DEF Init, ResetInv, TerminalNeverStepped, LiveFrame
<1> QED BY <1>1, <1>2 DEF IInv

\* Every action keeps the invariant.
LEMMA NextIInv == IInv /\ [Next]_vars => IInv'
<1> SUFFICES ASSUME IInv, [Next]_vars PROVE IInv'
  OBVIOUS
<1> USE NetAssumption
<1>1. ASSUME NEW occurring \in SUBSET DOMAIN Edges[active], Step(occurring) PROVE IInv'
  <2>1. /\ active' \in Primitives
        /\ robot_frame' = active' /\ holding' = FALSE
        /\ pending_entry_context' = NoContext
        /\ entry' \in Context \cup {NoContext}
        /\ episode_step_count' \in Nat /\ primitive_step_count' \in Nat
        /\ last_stepped' = active /\ active \in Primitives
    BY <1>1, StepActiveEffect DEF Step, IInv, TypeOK
  <2>2. ~walking /\ UNCHANGED walking /\ walking \in BOOLEAN
    BY <1>1 DEF Step, IInv, TypeOK
  <2>3. needs_full_reset' = (needs_full_reset \/ active' \in Terminals)
    BY <1>1 DEF Step
  <2>4. needs_full_reset' \in BOOLEAN
    BY <2>3
  <2>5. TypeOK'
    BY <2>1, <2>2, <2>4 DEF TypeOK
  <2>6. TerminalNeverStepped'
    BY <2>3 DEF TerminalNeverStepped
  <2>7. ResetInv' /\ LiveFrame'
    BY <2>1, <2>2 DEF ResetInv, LiveFrame
  <2> QED BY <2>5, <2>6, <2>7 DEF IInv
<1>2. ASSUME NEW occurring \in SUBSET DOMAIN Edges[active], ResetPathStep(occurring)
      PROVE  IInv'
  BY <1>2, StepActiveEffect
     DEF ResetPathStep, IInv, TypeOK, ResetInv, TerminalNeverStepped, LiveFrame
<1>3. CASE ReenterActive
  <2>1. /\ active' = active /\ robot_frame' = active /\ holding' = FALSE
        /\ pending_entry_context' = NoContext
        /\ entry' \in Context \cup {NoContext}
    <3>1. /\ pending_entry_context \in Context \cup {NoContext}
          /\ last_stepped \in Primitives \cup {NoPrimitive}
          /\ active \in Primitives
      BY DEF IInv, TypeOK
    <3>2. Enter(active, pending_entry_context, last_stepped)
      BY <1>3 DEF ReenterActive
    <3> QED BY <3>1, <3>2, EnterTyped DEF IInv
  <2> QED BY <1>3, <2>1
          DEF ReenterActive, IInv, TypeOK, ResetInv, TerminalNeverStepped, LiveFrame
<1>4. CASE FullReset
  BY <1>4, EnterTyped
     DEF FullReset, IInv, TypeOK, ResetInv, TerminalNeverStepped, LiveFrame
<1>5. CASE FinishReset
  <2>1. /\ active' = Start /\ robot_frame' = Start /\ holding' = FALSE
        /\ pending_entry_context' = NoContext
        /\ entry' \in Context \cup {NoContext}
    <3>1. /\ pending_entry_context \in Context \cup {NoContext}
          /\ last_stepped \in Primitives \cup {NoPrimitive}
          /\ Start \in Primitives
      BY DEF IInv, TypeOK
    <3>2. Enter(Start, pending_entry_context, last_stepped)
      BY <1>5 DEF FinishReset
    <3> QED BY <3>1, <3>2, EnterTyped DEF IInv
  <2> QED BY <1>5, <2>1
          DEF FinishReset, IInv, TypeOK, ResetInv, TerminalNeverStepped, LiveFrame
<1>6. CASE RequestFullReset
  BY <1>6 DEF RequestFullReset, IInv, TypeOK, ResetInv, TerminalNeverStepped, LiveFrame
<1>7. CASE Stop
  BY <1>7 DEF Stop, IInv, TypeOK, ResetInv, TerminalNeverStepped, LiveFrame
<1>8. CASE UNCHANGED vars
  BY <1>8 DEF vars, IInv, TypeOK, ResetInv, TerminalNeverStepped, LiveFrame
<1> QED BY <1>1, <1>2, <1>3, <1>4, <1>5, <1>6, <1>7, <1>8 DEF Next, Reset

-----------------------------------------------------------------------------
(* The theorems                                                            *)

\* The strengthened invariant holds in every reachable state.
THEOREM Invariance == Spec => []IInv
BY InitIInv, NextIInv, PTL DEF Spec

\* The fields keep their types, for every graph.
THEOREM TypeCorrect == Spec => []TypeOK
<1>1. IInv => TypeOK
  BY DEF IInv
<1> QED BY <1>1, Invariance, PTL

\* No graph and no order of calls lets the caller step a terminal primitive.
THEOREM TerminalSafe == Spec => []TerminalNeverStepped
<1>1. IInv => TerminalNeverStepped
  BY DEF IInv
<1> QED BY <1>1, Invariance, PTL

\* The robots hold the frame of the primitive the caller is about to step.
THEOREM FrameFollows == Spec => []LiveFrame
<1>1. IInv => LiveFrame
  BY DEF IInv
<1> QED BY <1>1, Invariance, PTL

\* However a primitive's stay is interrupted by re-entries, resets and stops, it never
\* outlasts the limit of one of its edges.
THEOREM LimitsHonoured == Spec => []TimeLimitHonoured
<1> USE DEF TimeLimitHonoured
<1>1. Init => TimeLimitHonoured
  BY DEF Init
<1>2. TimeLimitHonoured /\ IInv /\ [Next]_vars => TimeLimitHonoured'
  <2> SUFFICES ASSUME TimeLimitHonoured, IInv, [Next]_vars PROVE TimeLimitHonoured'
    OBVIOUS
  <2>1. ASSUME NEW occurring, StepActive(occurring) PROVE TimeLimitHonoured'
    <3>1. CASE primitive_step_count' = 0
      BY <3>1
    <3>2. CASE /\ Fired(occurring) = {}
               /\ primitive_step_count' = Count(primitive_step_count) /\ active' = active
      <4>1. ASSUME NEW i \in DOMAIN Edges[active], Edges[active][i].kind = "primitive_limit",
                   Edges[active][i].limit > 0
            PROVE  Count(primitive_step_count) < Edges[active][i].limit
        <5>1. ~Holds(Edges[active][i], i \in occurring)
          BY <3>2 DEF Fired
        <5>2. ~(Count(primitive_step_count) >= Edges[active][i].limit)
          BY <4>1, <5>1 DEF Holds
        <5>3. Count(primitive_step_count) \in Nat
          BY CountTyped DEF IInv, TypeOK
        <5>4. Edges[active][i].limit \in Nat
          <6> DEFINE EdgeSet == [target : Primitives, kind : EdgeKinds, limit : Nat]
          <6>1. Edges[active] \in Seq(EdgeSet)
            BY NetAssumption DEF IInv, TypeOK
          <6> HIDE DEF EdgeSet
          <6>2. Edges[active][i] \in EdgeSet
            BY <6>1, LenProperties, ElementOfSeq
          <6> QED BY <6>2 DEF EdgeSet
        <5> QED BY <5>2, <5>3, <5>4
      <4> QED BY <3>2, <4>1
    <3> QED BY <2>1, <3>1, <3>2 DEF StepActive
  <2>2. CASE ReenterActive \/ FullReset
    BY <2>2 DEF ReenterActive, FullReset
  <2>3. CASE FinishReset
    BY <2>3 DEF FinishReset, Enter
  <2>4. CASE RequestFullReset \/ Stop \/ UNCHANGED vars
    BY <2>4 DEF RequestFullReset, Stop, vars
  <2> QED BY <2>1, <2>2, <2>3, <2>4 DEF Next, Reset, Step, ResetPathStep
<1> QED BY <1>1, <1>2, Invariance, PTL DEF Spec

\* reset() hands over at the start primitive with both counters at zero.
THEOREM ResetDelivers == Spec => CleanStart
<1> DEFINE Clean == walking /\ ~walking' => /\ active' = Start /\ ~needs_full_reset'
                                          /\ episode_step_count' = 0
                                          /\ primitive_step_count' = 0
<1>1. IInv /\ [Next]_vars => [Clean]_vars
  <2> SUFFICES ASSUME IInv, Next, walking, ~walking' PROVE Clean
    OBVIOUS
  <2>1. FinishReset
    BY DEF Next, Reset, Step, ResetPathStep, ReenterActive, FullReset, RequestFullReset, Stop
  <2> QED BY <2>1 DEF FinishReset, Enter, IInv, ResetInv
<1> QED BY <1>1, Invariance, PTL DEF Spec, CleanStart

\* Every graph the configuration can describe is walked along its edges from the start
\* primitive, and each episode ends when a terminal is entered or a full reset requested.
THEOREM Refinement == Spec => WalksGraph
<1> DEFINE at == IF needs_full_reset THEN NoPrimitive ELSE active
<1>1. Init => Graph!Init
  BY DEF Init, Graph!Init
<1>2. IInv /\ [Next]_vars => [Graph!Next]_at
  <2> SUFFICES ASSUME IInv, [Next]_vars PROVE Graph!Next \/ at' = at
    OBVIOUS
  <2>1. active \in Primitives /\ active # NoPrimitive
    BY NetAssumption DEF IInv, TypeOK
  <2>2. ASSUME NEW occurring, Step(occurring) PROVE Graph!Walk
    <3>1. /\ active' \in Succ(active) \cup {active}
          /\ ~needs_full_reset
          /\ needs_full_reset' = (needs_full_reset \/ active' \in Terminals)
      BY <2>2, StepActiveEffect DEF Step
    <3>2. at = active /\ at' = IF active' \in Terminals THEN NoPrimitive ELSE active'
      BY <3>1
    <3> QED BY <2>1, <3>1, <3>2 DEF Graph!Walk
  <2>3. ASSUME NEW occurring, ResetPathStep(occurring) PROVE at' = at
    BY <2>3 DEF ResetPathStep, IInv, ResetInv
  <2>4. CASE ReenterActive
    BY <2>4 DEF ReenterActive, Enter
  <2>5. CASE FullReset
    <3>1. CASE ResetPrimitive = Start
      BY <2>5, <3>1 DEF FullReset, Enter, Graph!Next, Graph!Begin
    <3>2. CASE ResetPrimitive # Start
      BY <2>5, <3>2 DEF FullReset
    <3> QED BY <3>1, <3>2
  <2>6. CASE FinishReset
    BY <2>6 DEF FinishReset, Enter, IInv, ResetInv, Graph!Next, Graph!Begin
  <2>7. CASE RequestFullReset
    BY <2>1, <2>7 DEF RequestFullReset, Graph!Next, Graph!Abandon
  <2>8. CASE Stop \/ UNCHANGED vars
    BY <2>8 DEF Stop, vars
  <2> QED BY <2>2, <2>3, <2>4, <2>5, <2>6, <2>7, <2>8 DEF Next, Reset, Graph!Next
<1> QED BY <1>1, <1>2, Invariance, PTL DEF Spec, WalksGraph, Graph!Spec
==============================================================================
