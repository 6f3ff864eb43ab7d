----------------------- MODULE LearnerCheckpoint_proofs -----------------------
(***************************************************************************)
(* What a learner may rely on after any number of crashes, for every set   *)
(* of primitives, budget, save period, warmup and buffer capacity.         *)
(***************************************************************************)
EXTENDS LearnerCheckpoint, TLAPS

\* Needed: the rows that come before the first update; Unlocked: the updates r rows allow
Needed == IF 1 >= Warmup THEN 1 ELSE Warmup
Unlocked(r) == Max({0, r - Max({1, Warmup}) + 1})

Backed(n, p) == n <= Unlocked(received[p])

\* what save_training_checkpoint has written so far
SaveInv ==
    pc = "saving" =>
        /\ saving \in [primitive : Adaptive, write : Writes]
        /\ Step \in 1..Budget
        /\ saving.write # "checkpoint" => checkpoints[Saved][Step] \in Checkpoints
        /\ saving.write \notin {"checkpoint", "training_state"}
              => checkpoints[Saved][Step].interaction_step # None
        /\ saving.write = "finalize" => dataset[Saved] \in Datasets

\* memory and disk hold no more rows than were received, and no more steps than they back
BackedInv ==
    \A p \in Adaptive :
        /\ replay[p] <= received[p]
        /\ dataset[p] # None => dataset[p].rows <= received[p]
        /\ Backed(optimization_steps[p], p)
        /\ last[p] # None => Backed(last[p], p)

\* no interaction step, in memory or on disk, passes what was received
InteractionsInv ==
    \A p \in Adaptive :
        /\ interaction_step_offset[p] + session_steps[p] <= received[p]
        /\ last_messages[p] # None => last_messages[p] <= received[p]
        /\ \A s \in 1..Budget :
              checkpoints[p][s] # None /\ checkpoints[p][s].interaction_step # None
                 => checkpoints[p][s].interaction_step <= received[p]

IInv == TypeOK /\ SaveInv /\ LastIsComplete /\ BackedInv /\ InteractionsInv

-----------------------------------------------------------------------------
(* The gate                                                                *)

\* The larger of two integers.
LEMMA MaxOfTwo ==
  ASSUME NEW a \in Int, NEW b \in Int
  PROVE  Max({a, b}) = IF a >= b THEN a ELSE b
<1> DEFINE m == IF a >= b THEN a ELSE b
<1>1. /\ m \in {a, b} /\ \A y \in {a, b} : m >= y
      /\ \A x \in {a, b} : (\A y \in {a, b} : x >= y) => x = m
  OBVIOUS
<1> QED BY <1>1 DEF Max

\* The smaller of two integers.
LEMMA MinOfTwo ==
  ASSUME NEW a \in Int, NEW b \in Int
  PROVE  Min({a, b}) = IF a <= b THEN a ELSE b
<1> DEFINE m == IF a <= b THEN a ELSE b
<1>1. /\ m \in {a, b} /\ \A y \in {a, b} : m <= y
      /\ \A x \in {a, b} : (\A y \in {a, b} : x <= y) => x = m
  OBVIOUS
<1> QED BY <1>1 DEF Min

\* The gate of the code as arithmetic: one update per row from Needed on, none before.
LEMMA Gate ==
  /\ Needed \in Nat /\ Needed >= 1
  /\ \A r \in Nat : Unlocked(r) = IF r >= Needed THEN r - Needed + 1 ELSE 0
<1> SUFFICES ASSUME NEW r \in Nat
             PROVE  /\ Needed \in Nat /\ Needed >= 1
                    /\ Unlocked(r) = IF r >= Needed THEN r - Needed + 1 ELSE 0
  BY CheckpointAssumption DEF Needed
<1>1. Warmup \in Int /\ 1 \in Int /\ 0 \in Int
  BY CheckpointAssumption
<1>2. Max({1, Warmup}) = Needed
  BY <1>1, MaxOfTwo, Zenon DEF Needed
<1>3. Needed \in Nat /\ Needed >= 1
  BY CheckpointAssumption DEF Needed
<1> DEFINE x == r - Needed + 1
<1>4. x \in Int
  BY <1>3
<1>5. Max({0, x}) = IF 0 >= x THEN 0 ELSE x
  BY <1>1, <1>4, MaxOfTwo, Zenon
<1>6. (IF 0 >= x THEN 0 ELSE x) = IF r >= Needed THEN x ELSE 0
  BY <1>3
<1>7. r - Max({1, Warmup}) + 1 = x
  BY <1>2, Zenon
<1>8. Max({0, x}) = IF r >= Needed THEN x ELSE 0
  BY <1>5, <1>6
<1>9. Max({0, r - Max({1, Warmup}) + 1}) = Max({0, x})
  BY <1>7, Zenon
<1>10. Max({0, r - Max({1, Warmup}) + 1}) = IF r >= Needed THEN r - Needed + 1 ELSE 0
  BY <1>8, <1>9, Zenon
<1> QED BY <1>3, <1>10, Zenon DEF Unlocked

-----------------------------------------------------------------------------
(* The initial state and the steps                                         *)

\* A fresh session satisfies the invariant.
LEMMA InitIInv == Init => IInv
<1> SUFFICES ASSUME Init PROVE IInv
  OBVIOUS
<1> USE CheckpointAssumption
<1>1. TypeOK
  BY DEF Init, TypeOK, InteractionSteps
<1>2. SaveInv /\ LastIsComplete /\ InteractionsInv
  BY DEF Init, SaveInv, LastIsComplete, InteractionsInv
<1>3. BackedInv
  BY Gate DEF Init, BackedInv, Backed
<1> QED BY <1>1, <1>2, <1>3 DEF IInv

\* The next session starts from what the files hold.
LEMMA LoadIInv == IInv /\ Load => IInv'
<1> SUFFICES ASSUME IInv, Load PROVE IInv'
  OBVIOUS
<1> USE CheckpointAssumption
<1>1. ASSUME NEW p \in Adaptive
      PROVE  /\ replay'[p] \in 0..BufferCapacity /\ replay'[p] <= received[p]
             /\ RestoredSteps[p] \in 0..Budget /\ Backed(RestoredSteps[p], p)
             /\ RestoredOffset[p] \in InteractionSteps /\ RestoredOffset[p] <= received[p]
  <2>1. replay'[p] \in 0..BufferCapacity /\ replay'[p] \in RestoredRows(p)
    BY DEF Load
  <2>2. received[p] \in Nat
    BY DEF IInv, TypeOK
  <2>3. replay'[p] <= received[p]
    <3>1. CASE dataset[p] = None
      BY <2>1, <2>2, <3>1 DEF RestoredRows
    <3>2. CASE dataset[p] # None
      <4>1. dataset[p].rows \in Nat /\ dataset[p].rows <= received[p]
        BY <3>2 DEF IInv, TypeOK, BackedInv, Datasets
      <4> QED BY <2>1, <2>2, <3>2, <4>1 DEF RestoredRows
    <3> QED BY <3>1, <3>2
  <2>4. CASE \A q \in Adaptive : Loadable(q)
    <3>1. last[p] \in 1..Budget /\ Backed(last[p], p)
      BY <2>4 DEF Loadable, IInv, TypeOK, BackedInv
    <3>2. checkpoints[p][last[p]] \in Checkpoints
      BY <2>4, <3>1 DEF Loadable, IInv, TypeOK
    <3>3. checkpoints[p][last[p]].interaction_step \in InteractionSteps
      BY <2>4, <3>1, <3>2 DEF Loadable, IInv, LastIsComplete, Checkpoints
    <3>4. checkpoints[p][last[p]].interaction_step <= received[p]
      BY <2>4, <3>1, <3>2, <3>3 DEF Loadable, IInv, InteractionsInv, LastIsComplete, TypeOK
    <3> QED BY <2>1, <2>3, <2>4, <3>1, <3>3, <3>4 DEF RestoredSteps, RestoredOffset
  <2>5. CASE ~ \A q \in Adaptive : Loadable(q)
    BY <2>1, <2>2, <2>3, <2>5, Gate DEF RestoredSteps, RestoredOffset, Backed, InteractionSteps
  <2> QED BY <2>4, <2>5
<1>2. RestoredSteps \in [Adaptive -> 0..Budget]
  <2>1. CASE \A q \in Adaptive : Loadable(q)
    <3>1. last \in [Adaptive -> 0..Budget]
      BY <2>1 DEF Loadable, IInv, TypeOK
    <3> QED BY <2>1, <3>1 DEF RestoredSteps
  <2>2. CASE ~ \A q \in Adaptive : Loadable(q)
    BY <2>2 DEF RestoredSteps
  <2> QED BY <2>1, <2>2
<1>3. RestoredOffset \in [Adaptive -> InteractionSteps]
  BY <1>1 DEF RestoredOffset
<1>4. TypeOK'
  BY <1>2, <1>3 DEF Load, IInv, TypeOK, disk
<1>5. SaveInv' /\ LastIsComplete'
  BY DEF Load, IInv, SaveInv, LastIsComplete, disk
<1>6. BackedInv'
  BY <1>1 DEF Load, IInv, BackedInv, Backed, disk
<1>7. InteractionsInv'
  <2> SUFFICES ASSUME NEW p \in Adaptive
               PROVE  /\ interaction_step_offset'[p] + session_steps'[p] <= received'[p]
                      /\ last_messages'[p] = None
    BY DEF Load, IInv, InteractionsInv, disk
  <2>1. RestoredOffset[p] \in Nat /\ received[p] \in Nat
    BY <1>1 DEF InteractionSteps, IInv, TypeOK
  <2> QED BY <1>1, <2>1 DEF Load
<1> QED BY <1>4, <1>5, <1>6, <1>7 DEF IInv

\* A learner that cannot read a dataset stops with its files as they were.
LEMMA LoadRaisesIInv == IInv /\ LoadRaises => IInv'
BY DEF LoadRaises, IInv, TypeOK, SaveInv, LastIsComplete, BackedInv, Backed,
       InteractionsInv, memory, disk

\* A transition adds one to what is received, to the actor's count and, up to the
\* capacity, to the buffer.
LEMMA ReceiveIInv == ASSUME IInv, NEW p \in Adaptive, Receive(p) PROVE IInv'
<1> USE CheckpointAssumption
<1>1. /\ received[p] \in Nat /\ replay[p] \in Nat /\ session_steps[p] \in Nat
      /\ interaction_step_offset[p] \in Nat
      /\ replay[p] <= received[p]
      /\ interaction_step_offset[p] + session_steps[p] <= received[p]
  BY DEF IInv, TypeOK, BackedInv, InteractionsInv, InteractionSteps
<1>2. Min({replay[p] + 1, BufferCapacity})
         = IF replay[p] + 1 <= BufferCapacity THEN replay[p] + 1 ELSE BufferCapacity
  <2>1. replay[p] + 1 \in Int /\ BufferCapacity \in Int
    BY <1>1
  <2> QED BY <2>1, MinOfTwo, Zenon
<1>3. /\ replay'[p] \in 0..BufferCapacity /\ replay'[p] <= received[p] + 1
      /\ \A q \in Adaptive \ {p} : replay'[q] = replay[q]
      /\ replay' \in [Adaptive -> 0..BufferCapacity]
  BY <1>1, <1>2 DEF Receive, IInv, TypeOK
<1>4. /\ received'[p] = received[p] + 1 /\ session_steps'[p] = session_steps[p] + 1
      /\ \A q \in Adaptive \ {p} :
            received'[q] = received[q] /\ session_steps'[q] = session_steps[q]
  BY DEF Receive, IInv, TypeOK
<1>5. /\ received \in [Adaptive -> Nat] /\ received' \in [Adaptive -> Nat]
      /\ \A q \in Adaptive : received[q] <= received'[q]
  BY <1>1 DEF Receive, IInv, TypeOK
<1>6. TypeOK'
  <2>1. received' \in [Adaptive -> 0..MaxTransitions]
    BY <1>1 DEF Receive, IInv, TypeOK
  <2>2. session_steps' \in [Adaptive -> 0..MaxTransitions]
    <3>1. session_steps[p] + 1 \in 0..MaxTransitions
      BY <1>1 DEF Receive
    <3> QED BY <3>1 DEF Receive, IInv, TypeOK
  <2> QED BY <1>3, <2>1, <2>2 DEF Receive, IInv, TypeOK, disk
<1>7. SaveInv' /\ LastIsComplete'
  BY DEF Receive, IInv, SaveInv, LastIsComplete, disk
<1>8. BackedInv'
  <2> SUFFICES ASSUME NEW q \in Adaptive
               PROVE  /\ replay'[q] <= received'[q]
                      /\ dataset[q] # None => dataset[q].rows <= received'[q]
                      /\ optimization_steps[q] <= Unlocked(received'[q])
                      /\ last[q] # None => last[q] <= Unlocked(received'[q])
    BY DEF Receive, BackedInv, Backed, disk
  <2>1. replay'[q] <= received'[q]
    BY <1>3, <1>4 DEF IInv, BackedInv
  <2>2. dataset[q] # None => dataset[q].rows <= received'[q]
    BY <1>5 DEF IInv, TypeOK, BackedInv, Datasets
  <2>3. /\ Unlocked(received[q]) <= Unlocked(received'[q])
        /\ Unlocked(received[q]) \in Int /\ Unlocked(received'[q]) \in Int
    BY <1>5, Gate
  <2>4. optimization_steps[q] \in Int /\ optimization_steps[q] <= Unlocked(received[q])
    BY DEF IInv, TypeOK, BackedInv, Backed
  <2>5. last[q] # None => last[q] \in Int /\ last[q] <= Unlocked(received[q])
    BY DEF IInv, TypeOK, BackedInv, Backed
  <2> QED BY <2>1, <2>2, <2>3, <2>4, <2>5
<1>9. InteractionsInv'
  <2> SUFFICES ASSUME NEW q \in Adaptive
               PROVE  /\ interaction_step_offset[q] + session_steps'[q] <= received'[q]
                      /\ last_messages[q] # None => last_messages[q] <= received'[q]
                      /\ \A s \in 1..Budget :
                            checkpoints[q][s] # None
                               /\ checkpoints[q][s].interaction_step # None
                            => checkpoints[q][s].interaction_step <= received'[q]
    BY DEF Receive, InteractionsInv, disk
  <2>1. interaction_step_offset[q] + session_steps'[q] <= received'[q]
    BY <1>1, <1>4 DEF IInv, InteractionsInv
  <2>2. last_messages[q] # None => last_messages[q] <= received'[q]
    BY <1>5 DEF IInv, TypeOK, InteractionsInv, InteractionSteps
  <2>3. ASSUME NEW s \in 1..Budget, checkpoints[q][s] # None,
               checkpoints[q][s].interaction_step # None
        PROVE  checkpoints[q][s].interaction_step <= received'[q]
    <3>1. checkpoints[q][s].interaction_step \in Int
      BY <2>3 DEF IInv, TypeOK, Checkpoints, InteractionSteps
    <3>2. checkpoints[q][s].interaction_step <= received[q]
      BY <2>3 DEF IInv, InteractionsInv
    <3> QED BY <1>5, <3>1, <3>2
  <2> QED BY <2>1, <2>2, <2>3
<1> QED BY <1>6, <1>7, <1>8, <1>9 DEF IInv

\* A reported interaction step is the offset plus the actor's count.
LEMMA ReportIInv == ASSUME IInv, NEW p \in Adaptive, Report(p) PROVE IInv'
<1> USE CheckpointAssumption
<1>1. /\ session_steps[p] + interaction_step_offset[p] \in Nat
      /\ session_steps[p] + interaction_step_offset[p] <= received[p]
      /\ received[p] \in 0..MaxTransitions
  BY DEF IInv, TypeOK, InteractionsInv, InteractionSteps
<1>2. TypeOK'
  BY <1>1 DEF Report, IInv, TypeOK, InteractionSteps, disk
<1>3. SaveInv' /\ LastIsComplete' /\ BackedInv'
  BY DEF Report, IInv, SaveInv, LastIsComplete, BackedInv, Backed, disk
<1>4. InteractionsInv'
  BY <1>1 DEF Report, IInv, TypeOK, InteractionsInv, disk
<1> QED BY <1>2, <1>3, <1>4 DEF IInv

\* The gate lets an update pass only when the rows of the buffer back it.
LEMMA OptimizeIInv == ASSUME IInv, NEW p \in Adaptive, Optimize(p) PROVE IInv'
<1> USE CheckpointAssumption
<1>1. /\ optimization_steps[p] \in Nat /\ optimization_steps[p] < Budget
      /\ replay[p] \in Nat /\ received[p] \in Nat /\ replay[p] <= received[p]
      /\ optimization_steps[p] < Unlocked(replay[p])
  BY DEF Optimize, UnlockedUpdates, Unlocked, IInv, TypeOK, BackedInv
<1>2. /\ optimization_steps'[p] = optimization_steps[p] + 1
      /\ \A q \in Adaptive \ {p} : optimization_steps'[q] = optimization_steps[q]
  BY DEF Optimize, IInv, TypeOK
<1>3. TypeOK'
  BY <1>1 DEF Optimize, IInv, TypeOK, disk, Writes, FirstWrite
<1>4. LastIsComplete' /\ InteractionsInv'
  BY DEF Optimize, IInv, LastIsComplete, InteractionsInv, disk
<1>5. SaveInv'
  <2> SUFFICES ASSUME saving' = [primitive |-> p, write |-> "checkpoint"], pc' = "saving"
               PROVE  SaveInv'
    BY DEF Optimize, FirstWrite, SaveInv
  <2>1. Step' \in 1..Budget
    BY <1>1, <1>2 DEF Step, Saved
  <2> QED BY <2>1 DEF SaveInv, Writes, Saved
<1>6. BackedInv'
  <2>1. optimization_steps[p] + 1 <= Unlocked(received[p])
    BY <1>1, Gate
  <2> QED BY <1>2, <2>1 DEF Optimize, IInv, BackedInv, Backed, disk
<1> QED BY <1>3, <1>4, <1>5, <1>6 DEF IInv

\* The end of the training loop changes nothing else.
LEMMA FinishIInv == IInv /\ Finish => IInv'
BY DEF Finish, IInv, TypeOK, SaveInv, LastIsComplete, BackedInv, Backed,
       InteractionsInv, memory, disk

\* A crash leaves the files as they are, between any two writes.
LEMMA CrashIInv == IInv /\ Crash => IInv'
BY CheckpointAssumption DEF Crash, IInv, TypeOK, SaveInv, LastIsComplete, BackedInv, Backed,
       InteractionsInv, memory, disk

-----------------------------------------------------------------------------
(* save_training_checkpoint                                                *)

\* What every write finds: the primitive that is saved and a step of its budget.
LEMMA SaveTyped ==
  ASSUME IInv, pc = "saving"
  PROVE  /\ saving \in [primitive : Adaptive, write : Writes]
         /\ Saved \in Adaptive /\ Step \in 1..Budget
         /\ checkpoints[Saved] \in [1..Budget -> Checkpoints \cup {None}]
BY DEF IInv, TypeOK, SaveInv, Saved

\* The entry of checkpoints a write changes, and the writes that follow.
LEMMA WriteCheckpointIInv == IInv /\ WriteCheckpoint => IInv'
<1> SUFFICES ASSUME IInv, WriteCheckpoint PROVE IInv'
  OBVIOUS
<1> USE CheckpointAssumption
<1>1. /\ saving \in [primitive : Adaptive, write : Writes]
      /\ Saved \in Adaptive /\ Step \in 1..Budget
      /\ checkpoints[Saved][Step] \in Checkpoints \cup {None}
  BY SaveTyped DEF WriteCheckpoint, Writing
<1> DEFINE old == checkpoints[Saved][Step]
<1>2. PICK complete \in BOOLEAN :
         checkpoints' = [checkpoints EXCEPT ![Saved][Step] =
            [loadable |-> complete \/ (old # None /\ old.loadable),
             interaction_step |-> IF old = None THEN None ELSE old.interaction_step]]
  BY DEF WriteCheckpoint
<1> DEFINE new == [loadable |-> complete \/ (old # None /\ old.loadable),
                   interaction_step |-> IF old = None THEN None ELSE old.interaction_step]
<1>3. new \in Checkpoints
  <2>1. (complete \/ (old # None /\ old.loadable)) \in BOOLEAN
    OBVIOUS
  <2>2. (IF old = None THEN None ELSE old.interaction_step) \in InteractionSteps \cup {None}
    BY <1>1 DEF Checkpoints
  <2> QED BY <2>1, <2>2 DEF Checkpoints
<1>4. new.interaction_step # None => old # None /\ new.interaction_step = old.interaction_step
  OBVIOUS
<1>5. old # None => new.interaction_step = old.interaction_step
  OBVIOUS
<1>6. checkpoints' = [checkpoints EXCEPT ![Saved][Step] = new]
  BY <1>2
<1> HIDE DEF new
<1>7. /\ checkpoints' \in [Adaptive -> [1..Budget -> Checkpoints \cup {None}]]
      /\ checkpoints'[Saved][Step] = new
      /\ \A p \in Adaptive, s \in 1..Budget :
            checkpoints'[p][s] # checkpoints[p][s] => p = Saved /\ s = Step
  BY <1>1, <1>3, <1>6 DEF IInv, TypeOK
<1>8. saving' = [primitive |-> Saved, write |-> "training_state"] /\ pc' = "saving"
  BY <1>1 DEF WriteCheckpoint, Writing, Then, WriteAfter, Saved
<1>9. TypeOK'
  <2>1. \A p \in Adaptive : last[p] # None => checkpoints'[p][last[p]] # None
    BY <1>3, <1>7 DEF IInv, TypeOK
  <2>2. saving' \in [primitive : Adaptive, write : Writes]
    BY <1>1, <1>8 DEF Writes
  <2> QED BY <1>7, <1>8, <2>1, <2>2 DEF WriteCheckpoint, Then, memory, IInv, TypeOK
<1>10. SaveInv'
  <2>1. Saved' = Saved /\ Step' = Step
    BY <1>8 DEF WriteCheckpoint, Then, memory, Saved, Step
  <2> QED BY <1>1, <1>3, <1>7, <1>8, <2>1 DEF SaveInv, Writes
<1>11. LastIsComplete'
  BY <1>5, <1>7 DEF WriteCheckpoint, IInv, TypeOK, LastIsComplete
<1>12. BackedInv'
  BY DEF WriteCheckpoint, Then, memory, IInv, BackedInv, Backed
<1>13. InteractionsInv'
  BY <1>1, <1>4, <1>7 DEF WriteCheckpoint, Then, memory, IInv, InteractionsInv
<1> QED BY <1>9, <1>10, <1>11, <1>12, <1>13 DEF IInv

\* training_state.pt holds an interaction step, which is 0 before the first report.
LEMMA WriteTrainingStateIInv == IInv /\ WriteTrainingState => IInv'
<1> SUFFICES ASSUME IInv, WriteTrainingState PROVE IInv'
  OBVIOUS
<1> USE CheckpointAssumption
<1> DEFINE step == IF last_messages[Saved] = None THEN 0 ELSE last_messages[Saved]
<1>1. /\ saving \in [primitive : Adaptive, write : Writes]
      /\ Saved \in Adaptive /\ Step \in 1..Budget
      /\ checkpoints[Saved][Step] \in Checkpoints
  BY SaveTyped DEF WriteTrainingState, Writing, IInv, SaveInv
<1>2. step \in InteractionSteps /\ step <= received[Saved] /\ step # None
  BY <1>1 DEF IInv, TypeOK, InteractionsInv, InteractionSteps
<1> DEFINE new == [checkpoints[Saved][Step] EXCEPT !.interaction_step = step]
<1>3. new \in Checkpoints /\ new.interaction_step = step
  BY <1>1, <1>2 DEF Checkpoints
<1>4. checkpoints' = [checkpoints EXCEPT ![Saved][Step] = new]
  BY DEF WriteTrainingState
<1> HIDE DEF step, new
<1>5. /\ checkpoints' \in [Adaptive -> [1..Budget -> Checkpoints \cup {None}]]
      /\ checkpoints'[Saved][Step] = new
      /\ \A p \in Adaptive, s \in 1..Budget :
            checkpoints'[p][s] # checkpoints[p][s] => p = Saved /\ s = Step
  BY <1>1, <1>3, <1>4 DEF IInv, TypeOK
<1>6. saving' = [primitive |-> Saved, write |-> "link"] /\ pc' = "saving"
  BY <1>1 DEF WriteTrainingState, Writing, Then, WriteAfter, Saved
<1>7. TypeOK'
  <2>1. \A p \in Adaptive : last[p] # None => checkpoints'[p][last[p]] # None
    BY <1>3, <1>5 DEF IInv, TypeOK
  <2>2. saving' \in [primitive : Adaptive, write : Writes]
    BY <1>1, <1>6 DEF Writes
  <2> QED BY <1>5, <1>6, <2>1, <2>2 DEF WriteTrainingState, Then, memory, IInv, TypeOK
<1>8. SaveInv'
  <2>1. Saved' = Saved /\ Step' = Step
    BY <1>6 DEF WriteTrainingState, Then, memory, Saved, Step
  <2> QED BY <1>1, <1>2, <1>3, <1>5, <1>6, <2>1 DEF SaveInv, Writes
<1>9. LastIsComplete'
  BY <1>2, <1>3, <1>5 DEF WriteTrainingState, IInv, TypeOK, LastIsComplete
<1>10. BackedInv'
  BY DEF WriteTrainingState, Then, memory, IInv, BackedInv, Backed
<1>11. InteractionsInv'
  BY <1>1, <1>2, <1>3, <1>5 DEF WriteTrainingState, Then, memory, IInv, InteractionsInv
<1> QED BY <1>7, <1>8, <1>9, <1>10, <1>11 DEF IInv

\* The link is moved to a checkpoint that is complete by then.
LEMMA UpdateLastCheckpointIInv == IInv /\ UpdateLastCheckpoint => IInv'
<1> SUFFICES ASSUME IInv, UpdateLastCheckpoint PROVE IInv'
  OBVIOUS
<1> USE CheckpointAssumption
<1>1. /\ saving \in [primitive : Adaptive, write : Writes]
      /\ Saved \in Adaptive /\ Step \in 1..Budget
      /\ checkpoints[Saved][Step] \in Checkpoints
      /\ checkpoints[Saved][Step].interaction_step # None
  BY SaveTyped DEF UpdateLastCheckpoint, Writing, IInv, SaveInv
<1>2. /\ last' \in [Adaptive -> (1..Budget) \cup {None}]
      /\ last'[Saved] = Step
      /\ \A p \in Adaptive : last'[p] # last[p] => p = Saved
  BY <1>1 DEF UpdateLastCheckpoint, IInv, TypeOK
<1>3. saving' = [primitive |-> Saved, write |-> "remove"] /\ pc' = "saving"
  BY <1>1 DEF UpdateLastCheckpoint, Writing, Then, WriteAfter, Saved
<1>4. TypeOK'
  <2>1. \A p \in Adaptive : last'[p] # None => checkpoints[p][last'[p]] # None
    <3>1. checkpoints[Saved][last'[Saved]] # None
      BY <1>1, <1>2
    <3>2. \A p \in Adaptive : p # Saved => last'[p] = last[p]
      BY <1>2
    <3>3. \A p \in Adaptive : last[p] # None => checkpoints[p][last[p]] # None
      BY DEF IInv, TypeOK
    <3> QED BY <3>1, <3>2, <3>3
  <2>2. saving' \in [primitive : Adaptive, write : Writes]
    BY <1>1, <1>3 DEF Writes
  <2> QED BY <1>2, <1>3, <2>1, <2>2 DEF UpdateLastCheckpoint, Then, memory, IInv, TypeOK
<1>5. SaveInv'
  <2>1. Saved' = Saved /\ Step' = Step
    BY <1>3 DEF UpdateLastCheckpoint, Then, memory, Saved, Step
  <2> QED BY <1>1, <1>3, <2>1 DEF UpdateLastCheckpoint, SaveInv, Writes
<1>6. LastIsComplete'
  BY <1>1, <1>2 DEF UpdateLastCheckpoint, IInv, LastIsComplete
<1>7. BackedInv'
  <2>1. Backed(Step, Saved)
    BY <1>1 DEF IInv, BackedInv, Step
  <2> QED BY <1>2, <2>1 DEF UpdateLastCheckpoint, Then, memory, IInv, BackedInv, Backed
<1>8. InteractionsInv'
  BY DEF UpdateLastCheckpoint, Then, memory, IInv, InteractionsInv
<1> QED BY <1>4, <1>5, <1>6, <1>7, <1>8 DEF IInv

\* The old rows are removed before the new ones are written.
LEMMA RemoveDatasetIInv == IInv /\ RemoveDataset => IInv'
<1> SUFFICES ASSUME IInv, RemoveDataset PROVE IInv'
  OBVIOUS
<1> USE CheckpointAssumption
<1>1. /\ saving \in [primitive : Adaptive, write : Writes]
      /\ Saved \in Adaptive /\ Step \in 1..Budget
      /\ checkpoints[Saved][Step] \in Checkpoints
      /\ checkpoints[Saved][Step].interaction_step # None
  BY SaveTyped DEF RemoveDataset, Writing, IInv, SaveInv
<1>2. /\ dataset' \in [Adaptive -> Datasets \cup {None}]
      /\ \A p \in Adaptive : dataset'[p] # None => dataset'[p] = dataset[p]
  BY <1>1 DEF RemoveDataset, IInv, TypeOK
<1>3. saving' = [primitive |-> Saved, write |-> "rows"] /\ pc' = "saving"
  BY <1>1 DEF RemoveDataset, Writing, Then, WriteAfter, Saved
<1>4. TypeOK'
  <2>1. saving' \in [primitive : Adaptive, write : Writes]
    BY <1>1, <1>3 DEF Writes
  <2> QED BY <1>2, <1>3, <2>1 DEF RemoveDataset, Then, memory, IInv, TypeOK
<1>5. SaveInv'
  <2>1. Saved' = Saved /\ Step' = Step
    BY <1>3 DEF RemoveDataset, Then, memory, Saved, Step
  <2> QED BY <1>1, <1>3, <2>1 DEF RemoveDataset, SaveInv, Writes
<1>6. LastIsComplete' /\ InteractionsInv'
  BY DEF RemoveDataset, Then, memory, IInv, LastIsComplete, InteractionsInv
<1>7. BackedInv'
  BY <1>2 DEF RemoveDataset, Then, memory, IInv, BackedInv, Backed
<1> QED BY <1>4, <1>5, <1>6, <1>7 DEF IInv

\* The rows that are written are those of the buffer.
LEMMA WriteRowsIInv == IInv /\ WriteRows => IInv'
<1> SUFFICES ASSUME IInv, WriteRows PROVE IInv'
  OBVIOUS
<1> USE CheckpointAssumption
<1>1. /\ saving \in [primitive : Adaptive, write : Writes]
      /\ Saved \in Adaptive /\ Step \in 1..Budget
      /\ checkpoints[Saved][Step] \in Checkpoints
      /\ checkpoints[Saved][Step].interaction_step # None
  BY SaveTyped DEF WriteRows, Writing, IInv, SaveInv
<1> DEFINE rows == [rows |-> replay[Saved], finalized |-> FALSE]
<1>2. rows \in Datasets /\ rows.rows <= received[Saved]
  <2>1. replay[Saved] \in 1..BufferCapacity /\ replay[Saved] <= received[Saved]
    BY <1>1 DEF WriteRows, IInv, TypeOK, BackedInv
  <2> QED BY <2>1 DEF Datasets
<1>3. dataset' = [dataset EXCEPT ![Saved] = rows]
  BY DEF WriteRows
<1> HIDE DEF rows
<1>4. /\ dataset' \in [Adaptive -> Datasets \cup {None}]
      /\ dataset'[Saved] = rows
      /\ \A p \in Adaptive : dataset'[p] # dataset[p] => p = Saved
  BY <1>1, <1>2, <1>3 DEF IInv, TypeOK
<1>5. saving' = [primitive |-> Saved, write |-> "finalize"] /\ pc' = "saving"
  BY <1>1 DEF WriteRows, Writing, Then, WriteAfter, Saved
<1>6. TypeOK'
  <2>1. saving' \in [primitive : Adaptive, write : Writes]
    BY <1>1, <1>5 DEF Writes
  <2> QED BY <1>4, <1>5, <2>1 DEF WriteRows, Then, memory, IInv, TypeOK
<1>7. SaveInv'
  <2>1. Saved' = Saved /\ Step' = Step
    BY <1>5 DEF WriteRows, Then, memory, Saved, Step
  <2> QED BY <1>1, <1>2, <1>4, <1>5, <2>1 DEF WriteRows, SaveInv, Writes
<1>8. LastIsComplete' /\ InteractionsInv'
  BY DEF WriteRows, Then, memory, IInv, LastIsComplete, InteractionsInv
<1>9. BackedInv'
  BY <1>2, <1>4 DEF WriteRows, Then, memory, IInv, BackedInv, Backed
<1> QED BY <1>6, <1>7, <1>8, <1>9 DEF IInv

\* Finalizing keeps the number of rows.
LEMMA FinalizeDatasetIInv == IInv /\ FinalizeDataset => IInv'
<1> SUFFICES ASSUME IInv, FinalizeDataset PROVE IInv'
  OBVIOUS
<1> USE CheckpointAssumption
<1>1. Saved \in Adaptive /\ dataset[Saved] \in Datasets
  BY SaveTyped DEF FinalizeDataset, Writing, IInv, SaveInv
<1> DEFINE rows == [dataset[Saved] EXCEPT !.finalized = TRUE]
<1>2. rows \in Datasets /\ rows.rows = dataset[Saved].rows
  BY <1>1 DEF Datasets
<1>3. dataset' = [dataset EXCEPT ![Saved] = rows]
  BY DEF FinalizeDataset
<1> HIDE DEF rows
<1>4. /\ dataset' \in [Adaptive -> Datasets \cup {None}]
      /\ dataset'[Saved] = rows
      /\ \A p \in Adaptive : dataset'[p] # dataset[p] => p = Saved
  BY <1>1, <1>2, <1>3 DEF IInv, TypeOK
<1>5. TypeOK'
  BY <1>4 DEF FinalizeDataset, memory, IInv, TypeOK
<1>6. SaveInv' /\ LastIsComplete' /\ InteractionsInv'
  BY DEF FinalizeDataset, memory, IInv, SaveInv, LastIsComplete, InteractionsInv
<1>7. BackedInv'
  <2>1. rows.rows <= received[Saved]
    BY <1>1, <1>2 DEF IInv, BackedInv
  <2> QED BY <1>4, <2>1 DEF FinalizeDataset, memory, IInv, BackedInv, Backed
<1> QED BY <1>5, <1>6, <1>7 DEF IInv

-----------------------------------------------------------------------------
(* Theorems                                                                *)

\* Every step of any session, and a step that changes nothing, preserves the invariant.
LEMMA NextIInv == IInv /\ [Next]_vars => IInv'
<1> SUFFICES ASSUME IInv, [Next]_vars PROVE IInv'
  OBVIOUS
<1>1. CASE Load
  BY <1>1, LoadIInv
<1>2. CASE LoadRaises
  BY <1>2, LoadRaisesIInv
<1>3. CASE Finish
  BY <1>3, FinishIInv
<1>4. CASE Save
  BY <1>4, WriteCheckpointIInv, WriteTrainingStateIInv, UpdateLastCheckpointIInv,
     RemoveDatasetIInv, WriteRowsIInv, FinalizeDatasetIInv DEF Save
<1>5. CASE Crash
  BY <1>5, CrashIInv
<1>6. ASSUME NEW p \in Adaptive, Receive(p) \/ Report(p) \/ Optimize(p)
      PROVE  IInv'
  BY <1>6, ReceiveIInv, ReportIInv, OptimizeIInv
<1>7. CASE UNCHANGED vars
  BY <1>7 DEF vars, IInv, TypeOK, SaveInv, LastIsComplete, BackedInv, Backed,
              InteractionsInv, Saved, Step
<1> QED BY <1>1, <1>2, <1>3, <1>4, <1>5, <1>6, <1>7 DEF Next

\* The invariant of all sessions.
LEMMA IInvHolds == Spec => []IInv
BY InitIInv, NextIInv, PTL DEF Spec

\* Types: for any set of primitives, budget, capacity and warmup (TypeOK of the run).
THEOREM TypeCorrect == Spec => []TypeOK
<1>1. IInv => TypeOK
  BY DEF IInv
<1> QED BY <1>1, IInvHolds, PTL

\* "last" names a complete checkpoint after any number of crashes, at any write
\* (learner_server.py:1263-1267, 1364-1372).
THEOREM LastComplete == Spec => []LastIsComplete
<1>1. IInv => LastIsComplete
  BY DEF IInv
<1> QED BY <1>1, IInvHolds, PTL

\* At most one update per transition after the warmup, over all sessions
\* (learner_server.py:611): no crash and no order of the writes lets a learner resume with
\* more updates than transitions back.
THEOREM BackedAcrossRestarts == Spec => []UpdatesBackedAcrossRestarts
<1>1. IInv => UpdatesBackedAcrossRestarts
  BY DEF IInv, BackedInv, Backed, Unlocked, UpdatesBackedAcrossRestarts
<1> QED BY <1>1, IInvHolds, PTL

-----------------------------------------------------------------------------
(* The last checkpoint                                                     *)

\* A primitive at its budget has the checkpoint of it, or save_training_checkpoint is at
\* work on it and has not come to the link.
BudgetInv ==
    /\ pc \in {"training", "saving"} =>
          \A p \in Adaptive : optimization_steps[p] = Budget =>
             \/ last[p] = Budget
             \/ /\ pc = "saving" /\ Saved = p
                /\ saving.write \in {"checkpoint", "training_state", "link"}
    /\ FinishedIsSaved

\* The invariant before the first update.
LEMMA InitBudget == Budget # 0 /\ Init => BudgetInv
BY DEF Init, BudgetInv, FinishedIsSaved

\* Only the link ends the exception the invariant makes for the primitive that is saved.
LEMMA NextBudget ==
  Budget # 0 /\ IInv /\ BudgetInv /\ [Next]_vars => BudgetInv'
<1> SUFFICES ASSUME Budget # 0, IInv, BudgetInv, [Next]_vars PROVE BudgetInv'
  OBVIOUS
<1> USE CheckpointAssumption
<1>1. CASE Load
  <2>1. \A p \in Adaptive : optimization_steps'[p] = last[p] \/ optimization_steps'[p] = 0
    BY <1>1 DEF Load, RestoredSteps
  <2> QED BY <1>1, <2>1 DEF Load, disk, BudgetInv, FinishedIsSaved
<1>2. CASE LoadRaises \/ Crash
  BY <1>2 DEF LoadRaises, Crash, BudgetInv, FinishedIsSaved
<1>3. CASE Finish
  <2>1. \A p \in Adaptive : optimization_steps[p] = Budget
    BY <1>3 DEF Finish, IInv, TypeOK
  <2> QED BY <1>3, <2>1 DEF Finish, memory, disk, BudgetInv, FinishedIsSaved
<1>4. CASE Save
  <2>1. Saved \in Adaptive /\ saving \in [primitive : Adaptive, write : Writes]
    BY <1>4, SaveTyped DEF Save, WriteCheckpoint, WriteTrainingState, UpdateLastCheckpoint,
                           RemoveDataset, WriteRows, FinalizeDataset, Writing
  <2>2. CASE WriteCheckpoint
    BY <2>1, <2>2 DEF WriteCheckpoint, Writing, Then, WriteAfter, memory, Saved,
                      BudgetInv, FinishedIsSaved
  <2>3. CASE WriteTrainingState
    BY <2>1, <2>3 DEF WriteTrainingState, Writing, Then, WriteAfter, memory, Saved,
                      BudgetInv, FinishedIsSaved
  <2>4. CASE UpdateLastCheckpoint
    <3>1. last'[Saved] = optimization_steps[Saved]
      BY <2>1, <2>4 DEF UpdateLastCheckpoint, IInv, TypeOK, Step
    <3>2. \A p \in Adaptive : p # Saved => last'[p] = last[p]
      BY <2>1, <2>4 DEF UpdateLastCheckpoint, IInv, TypeOK
    <3> QED BY <2>1, <2>4, <3>1, <3>2 DEF UpdateLastCheckpoint, Writing, Then, memory,
                                          BudgetInv, FinishedIsSaved
  <2>5. CASE RemoveDataset
    BY <2>1, <2>5 DEF RemoveDataset, Writing, Then, memory, BudgetInv, FinishedIsSaved
  <2>6. CASE WriteRows
    BY <2>1, <2>6 DEF WriteRows, Writing, Then, memory, BudgetInv, FinishedIsSaved
  <2>7. CASE FinalizeDataset
    BY <2>1, <2>7 DEF FinalizeDataset, Writing, memory, BudgetInv, FinishedIsSaved
  <2> QED BY <1>4, <2>2, <2>3, <2>4, <2>5, <2>6, <2>7 DEF Save
<1>5. ASSUME NEW p \in Adaptive, Receive(p) \/ Report(p)
      PROVE  BudgetInv'
  BY <1>5 DEF Receive, Report, disk, BudgetInv, FinishedIsSaved
<1>6. ASSUME NEW p \in Adaptive, Optimize(p)
      PROVE  BudgetInv'
  <2>1. /\ optimization_steps'[p] = optimization_steps[p] + 1
        /\ \A q \in Adaptive : q # p => optimization_steps'[q] = optimization_steps[q]
    BY <1>6 DEF Optimize, IInv, TypeOK
  <2>2. \A q \in Adaptive : optimization_steps[q] = Budget => last[q] = Budget
    BY <1>6 DEF Optimize, BudgetInv
  <2>3. pc' # "finished" /\ last' = last
    BY <1>6 DEF Optimize, disk
  <2>4. CASE optimization_steps[p] + 1 = Budget
    <3>1. SaveDue(optimization_steps[p] + 1)
      BY <2>4 DEF SaveDue
    <3>2. pc' = "saving" /\ saving' = [primitive |-> p, write |-> "checkpoint"]
      BY <1>6, <3>1 DEF Optimize, FirstWrite
    <3> QED BY <2>1, <2>2, <2>3, <3>2 DEF BudgetInv, FinishedIsSaved, Saved
  <2>5. CASE optimization_steps[p] + 1 # Budget
    BY <2>1, <2>2, <2>3, <2>5 DEF BudgetInv, FinishedIsSaved
  <2> QED BY <2>4, <2>5
<1>7. CASE UNCHANGED vars
  BY <1>7 DEF vars, BudgetInv, FinishedIsSaved, Saved
<1> QED BY <1>1, <1>2, <1>3, <1>4, <1>5, <1>6, <1>7 DEF Next

\* A learner that ends because its budgets are reached leaves the checkpoint of the last
\* step of every primitive behind (learner_server.py:355-372), whatever save_freq is and
\* in however many sessions the budgets were reached.
THEOREM FinishedSaved == Budget # 0 => (Spec => []FinishedIsSaved)
<1> SUFFICES ASSUME Budget # 0 PROVE Spec => []FinishedIsSaved
  OBVIOUS
<1>1. Init => BudgetInv
  BY InitBudget
<1>2. IInv /\ BudgetInv /\ [Next]_vars => BudgetInv'
  BY NextBudget
<1>3. BudgetInv => FinishedIsSaved
  BY DEF BudgetInv
<1> QED BY <1>1, <1>2, <1>3, IInvHolds, PTL DEF Spec

-----------------------------------------------------------------------------
(* What a crash costs                                                      *)

\* a link names a step that was due, and training goes on only up to the next one
LossInv ==
    /\ pc = "saving" => SaveDue(Step)
    /\ \A p \in Adaptive :
          /\ Kept(p) % SaveFreq = 0 \/ Kept(p) = Budget
          /\ optimization_steps[p] - Kept(p) <= SaveFreq
          /\ pc = "training" => optimization_steps[p] - Kept(p) < SaveFreq
          /\ pc = "saving" /\ (Saved # p \/ saving.write \in {"remove", "rows", "finalize"})
                => optimization_steps[p] - Kept(p) < SaveFreq

\* A period later than a multiple of it is one.
LEMMA NextMultiple ==
  ASSUME NEW a \in Nat, NEW n \in Nat \ {0}, a % n = 0
  PROVE  (a + n) % n = 0
<1> DEFINE q == (a \div n) + 1
           q1 == (a + n) \div n
           r1 == (a + n) % n
<1>1. q \in Int /\ a + n = n * q
  <2>1. a \div n \in Int /\ a = n * (a \div n)
    OBVIOUS
  <2> QED BY <2>1
<1>2. q1 \in Int /\ r1 \in 0..(n - 1) /\ a + n = n * q1 + r1
  OBVIOUS
<1> HIDE DEF q, q1, r1
<1>3. n * (q - q1) = r1
  BY <1>1, <1>2
<1>4. CASE q > q1
  <2>1. n * (q - q1) >= n
    BY <1>1, <1>2, <1>4
  <2> QED BY <1>2, <1>3, <2>1
<1>5. CASE q < q1
  <2>1. n * (q1 - q) >= n
    BY <1>1, <1>2, <1>5
  <2>2. n * (q1 - q) = -r1
    BY <1>1, <1>2
  <2> QED BY <1>2, <2>1, <2>2
<1>6. CASE q = q1
  BY <1>2, <1>3, <1>6 DEF r1
<1> QED BY <1>1, <1>2, <1>4, <1>5, <1>6

\* What the next session starts from lies within the budget.
LEMMA KeptTyped == ASSUME IInv, NEW p \in Adaptive PROVE Kept(p) \in 0..Budget
BY CheckpointAssumption DEF IInv, TypeOK, Kept

\* Nothing is lost before the first update.
LEMMA InitLoss == Init => LossInv
<1>1. 0 % SaveFreq = 0 /\ 0 < SaveFreq
  BY CheckpointAssumption
<1> QED BY <1>1, CheckpointAssumption DEF Init, LossInv, Kept

\* An update that would reach a whole period without a save is due one: the link names an
\* earlier multiple of the period.
LEMMA NextLoss == IInv /\ LossInv /\ [Next]_vars => LossInv'
<1> SUFFICES ASSUME IInv, LossInv, [Next]_vars PROVE LossInv'
  OBVIOUS
<1> USE CheckpointAssumption
<1>1. CASE Load
  <2>1. pc' = "training" /\ UNCHANGED last
    BY <1>1 DEF Load, disk
  <2>2. \A p \in Adaptive : Kept(p)' = Kept(p)
    BY <2>1 DEF Kept
  <2>3. ASSUME NEW p \in Adaptive PROVE optimization_steps'[p] - Kept(p) < SaveFreq
    <3>1. optimization_steps'[p] = 0 \/ (last[p] # None /\ optimization_steps'[p] = last[p])
      BY <1>1 DEF Load, RestoredSteps, Loadable
    <3>2. Kept(p) \in Nat /\ (last[p] # None => Kept(p) = last[p])
      BY KeptTyped DEF Kept
    <3> QED BY <3>1, <3>2
  <2>4. \A p \in Adaptive : optimization_steps'[p] - Kept(p) \in Int
    BY <1>1, KeptTyped DEF Load, RestoredSteps, Loadable, IInv, TypeOK
  <2> QED BY <2>1, <2>2, <2>3, <2>4 DEF LossInv
<1>2. CASE UNCHANGED <<optimization_steps, last>> /\ pc' \notin {"training", "saving"}
  BY <1>2 DEF LossInv, Kept
<1>3. CASE LoadRaises \/ Crash \/ Finish
  BY <1>2, <1>3 DEF LoadRaises, Crash, Finish, memory, disk
<1>4. CASE Save
  <2>1. Saved \in Adaptive /\ saving \in [primitive : Adaptive, write : Writes] /\ pc = "saving"
    BY <1>4, SaveTyped DEF Save, WriteCheckpoint, WriteTrainingState, UpdateLastCheckpoint,
                           RemoveDataset, WriteRows, FinalizeDataset, Writing
  <2>2. CASE WriteCheckpoint \/ WriteTrainingState
    <3>1. /\ pc' = "saving" /\ UNCHANGED <<optimization_steps, last>> /\ Saved' = Saved
          /\ saving'.write \notin {"remove", "rows", "finalize"}
      BY <2>1, <2>2 DEF WriteCheckpoint, WriteTrainingState, Writing, Then, WriteAfter, memory, Saved
    <3> QED BY <2>1, <3>1 DEF LossInv, Kept, Step, SaveDue
  <2>3. CASE UpdateLastCheckpoint
    <3>1. /\ pc' = "saving" /\ UNCHANGED optimization_steps /\ Saved' = Saved
          /\ last' = [last EXCEPT ![Saved] = Step]
      BY <2>1, <2>3 DEF UpdateLastCheckpoint, Writing, Then, memory, Saved
    <3>2. Step \in 1..Budget /\ SaveDue(Step) /\ Step = optimization_steps[Saved]
      BY <2>1 DEF IInv, SaveInv, LossInv, Step
    <3>3. Kept(Saved)' = Step
      BY <2>1, <3>1, <3>2 DEF Kept, IInv, TypeOK
    <3>4. \A p \in Adaptive : p # Saved => Kept(p)' = Kept(p)
      BY <2>1, <3>1 DEF Kept, IInv, TypeOK
    <3>5. Step % SaveFreq = 0 \/ Step = Budget
      BY <3>2 DEF SaveDue
    <3>6. ASSUME NEW p \in Adaptive, p = Saved
          PROVE  /\ Kept(p)' % SaveFreq = 0 \/ Kept(p)' = Budget
                 /\ optimization_steps'[p] - Kept(p)' < SaveFreq
                 /\ optimization_steps'[p] - Kept(p)' <= SaveFreq
      BY <3>1, <3>2, <3>3, <3>5, <3>6
    <3>7. ASSUME NEW p \in Adaptive, p # Saved
          PROVE  /\ Kept(p)' % SaveFreq = 0 \/ Kept(p)' = Budget
                 /\ optimization_steps'[p] - Kept(p)' < SaveFreq
                 /\ optimization_steps'[p] - Kept(p)' <= SaveFreq
      BY <2>1, <3>1, <3>4, <3>7 DEF LossInv
    <3>8. SaveDue(Step)'
      BY <3>1, <3>2 DEF SaveDue, Step
    <3> QED BY <3>1, <3>6, <3>7, <3>8 DEF LossInv
  <2>4. CASE RemoveDataset \/ WriteRows
    <3>1. /\ pc' = "saving" /\ UNCHANGED <<optimization_steps, last>> /\ Saved' = Saved
          /\ saving.write \in {"remove", "rows", "finalize"}
      BY <2>1, <2>4 DEF RemoveDataset, WriteRows, Writing, Then, memory, Saved
    <3> QED BY <2>1, <3>1 DEF LossInv, Kept, Step, SaveDue
  <2>5. CASE FinalizeDataset
    <3>1. /\ pc' = "training" /\ UNCHANGED <<optimization_steps, last>>
          /\ saving.write \in {"remove", "rows", "finalize"}
      BY <2>1, <2>5 DEF FinalizeDataset, Writing, memory
    <3> QED BY <2>1, <3>1 DEF LossInv, Kept
  <2> QED BY <1>4, <2>2, <2>3, <2>4, <2>5 DEF Save
<1>5. CASE UNCHANGED <<pc, optimization_steps, last, saving>>
  BY <1>5 DEF LossInv, Kept, Step, Saved, SaveDue
<1>6. ASSUME NEW p \in Adaptive, Receive(p) \/ Report(p)
      PROVE  UNCHANGED <<pc, optimization_steps, last, saving>>
  BY <1>6 DEF Receive, Report, disk
<1>7. ASSUME NEW p \in Adaptive, Optimize(p)
      PROVE  LossInv'
  <2> DEFINE s == optimization_steps[p] + 1
  <2>1. /\ pc = "training" /\ optimization_steps'[p] = s /\ s \in 1..Budget
        /\ \A q \in Adaptive : q # p => optimization_steps'[q] = optimization_steps[q]
    BY <1>7 DEF Optimize, IInv, TypeOK
  <2>2. \A q \in Adaptive : Kept(q)' = Kept(q) /\ Kept(q) \in 0..Budget
    BY <1>7, KeptTyped DEF Optimize, disk, Kept
  <2>3. s - Kept(p) <= SaveFreq
    <3>1. optimization_steps[p] \in 0..Budget /\ optimization_steps[p] - Kept(p) < SaveFreq
      BY <2>1 DEF LossInv, IInv, TypeOK
    <3> QED BY <2>2, <3>1
  <2>4. CASE SaveDue(s)
    <3>1. pc' = "saving" /\ saving' = [primitive |-> p, write |-> "checkpoint"]
      BY <1>7, <2>4 DEF Optimize, FirstWrite
    <3>2. SaveDue(Step)'
      BY <2>1, <2>4, <3>1 DEF SaveDue, Step, Saved
    <3> HIDE DEF s
    <3> QED BY <2>1, <2>2, <2>3, <3>1, <3>2 DEF LossInv, Saved
  <2>5. CASE ~SaveDue(s)
    <3>1. pc' = "training"
      BY <1>7, <2>1, <2>5 DEF Optimize
    <3>2. s - Kept(p) # SaveFreq
      <4>1. SUFFICES ASSUME s = Kept(p) + SaveFreq PROVE FALSE
        BY <2>1, <2>2
      <4>2. Kept(p) % SaveFreq = 0
        BY <2>1, <2>2, <4>1 DEF LossInv
      <4>3. s % SaveFreq = 0
        BY <2>2, <4>1, <4>2, NextMultiple
      <4> QED BY <2>5, <4>3 DEF SaveDue
    <3> HIDE DEF s
    <3>3. s - Kept(p) < SaveFreq
      BY <2>1, <2>2, <2>3, <3>2
    <3> QED BY <2>1, <2>2, <2>3, <3>1, <3>3 DEF LossInv
  <2> QED BY <2>4, <2>5
<1>8. CASE UNCHANGED vars
  BY <1>5, <1>8 DEF vars
<1> QED BY <1>1, <1>3, <1>4, <1>5, <1>6, <1>7, <1>8 DEF Next

\* A crash costs at most the updates since the last due save, for every budget and save period
\* (learner_server.py:1255-1279).
THEOREM LossBounded == Spec => []CrashLosesLittle
<1>1. LossInv => CrashLosesLittle
  BY DEF LossInv, CrashLosesLittle
<1> QED BY <1>1, InitLoss, NextLoss, IInvHolds, PTL DEF Spec
=============================================================================
