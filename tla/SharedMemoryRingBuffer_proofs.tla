------------------- MODULE SharedMemoryRingBuffer_proofs -------------------
(***************************************************************************)
(* What the ring buffer promises for every window, time budget, period,    *)
(* set of columns and number of puts.  The arithmetic of slots is that of  *)
(* the queue's proofs.                                                     *)
(***************************************************************************)
EXTENDS SharedMemoryRingBuffer, SharedMemoryQueue_proofs

\* where the n-th put is written, and when that slot was stamped
Slot(n) == (n - 1) % RingBufferSize
Stamp(n) == timestamp_array[Slot(n)]

\* the puts whose rows may have been written to, the last of them in part
Begun == IF writer.pc = "columns" THEN counter + 1 ELSE counter

\* the iterations begun, those that have not put yet included
Puts == IF writer.pc = "idle" THEN counter ELSE counter + 1

RingTypeOK ==
    /\ ring \in Rings /\ now \in Nat /\ counter \in Nat
    /\ ring_arrays \in [RingKeys -> [RingSlots -> Nat]]
    /\ timestamp_array \in [RingSlots -> Int]
    /\ DOMAIN writer = {"pc", "started", "wake", "todo"}
    /\ writer.pc \in {"idle", "looping", "sleeping", "columns"}
    /\ writer.started \in Int /\ writer.started <= now /\ writer.wake \in Int
    /\ writer.todo \in SUBSET RingKeys
    /\ DOMAIN reader = {"pc", "k", "start_time", "count", "newest", "todo", "out"}
    /\ reader.pc \in {"idle", "called", "columns", "returned"}
    /\ reader.k \in Nat /\ reader.start_time \in Nat /\ reader.start_time <= now
    /\ reader.count \in Nat /\ reader.newest \in Int
    /\ reader.todo \in SUBSET RingKeys /\ DOMAIN reader.out = RingKeys

\* the slots still held are stamped in the order of their puts
StampInv ==
    /\ \A n \in 1..counter : n > counter - RingBufferSize => Stamp(n) <= now
    /\ \A m, n \in 1..counter : m > counter - RingBufferSize /\ m <= n => Stamp(m) <= Stamp(n)

\* nothing is overwritten before the newest row of the window it belongs to is old enough
ThrottleInv ==
    /\ writer.pc = "sleeping" => writer.wake = timestamp_array[LookaheadIdx] + TimeBudget
    /\ writer.pc = "columns" => timestamp_array[LookaheadIdx] + TimeBudget <= now

\* a slot keeps its row until the put that reuses it begins
RowsInv ==
    /\ \A n \in 1..counter : n + RingBufferSize > Begun
          => \A key \in RingKeys : ring_arrays[key][Slot(n)] = n
    /\ writer.pc = "columns" =>
          \A key \in RingKeys \ writer.todo : ring_arrays[key][Slot(counter + 1)] = counter + 1

Reading == reader.pc \in {"columns", "returned"}

\* the writer has begun to overwrite the oldest row of the window being read
Overrun == Begun >= reader.count - reader.k + 1 + RingBufferSize

WindowInv ==
    /\ reader.pc # "idle" => reader.k <= counter /\ reader.k <= GetMaxK
    /\ Reading => reader.k <= reader.count /\ reader.count <= counter

\* when the window is overrun, its newest row is a time budget old
AgeInv ==
    Reading /\ reader.k > 0 =>
        /\ reader.count > counter - RingBufferSize => Stamp(reader.count) = reader.newest
        /\ Overrun => reader.newest + TimeBudget <= now

\* what was copied before the window was overrun is right, and stays so
CopyInv ==
    /\ Reading /\ ~Overrun =>
          \A key \in RingKeys \ reader.todo, i \in 1..reader.k :
             reader.out[key][i] = reader.count - reader.k + i
    /\ reader.pc = "returned" => reader.todo = {}

\* every iteration after that of the next put begins a period after the one before it, the
\* first of them no earlier than the read
PaceInv ==
    ring.pacing = "period" /\ reader.pc = "columns" /\ Puts >= reader.count + 2 =>
        writer.started >= reader.start_time + (Puts - reader.count - 2) * Period

RingInv ==
    /\ RingTypeOK /\ StampInv /\ ThrottleInv /\ RowsInv
    /\ WindowInv /\ AgeInv /\ CopyInv /\ PaceInv

-----------------------------------------------------------------------------
(* Slots                                                                   *)

\* The array is longer than a window by one and a half time budgets (569-580).
LEMMA RingSize ==
  ASSUME ring \in Rings
  PROVE  /\ GetMaxK \in Nat \ {0} /\ TimeBudget \in Nat \ {0} /\ Period \in Nat \ {0}
         /\ RingBufferSize \in Nat \ {0} /\ RingBufferSize > GetMaxK
         /\ 2 * ((RingBufferSize - GetMaxK) * Period) >= 3 * TimeBudget
<1>1. GetMaxK \in Nat \ {0} /\ TimeBudget \in Nat \ {0} /\ Period \in Nat \ {0}
  BY RingAssumption DEF GetMaxK, TimeBudget, Period
<1> DEFINE e == 3 * TimeBudget + 2 * Period - 1
           d == 2 * Period
           c == e \div d
           r == e % d
<1>2. d \in Nat \ {0} /\ e \in Nat /\ e >= d
  BY <1>1
<1>3. c \in Int /\ r \in 0..(d - 1) /\ e = d * c + r
  <2> HIDE DEF d, e
  <2> QED BY <1>2
<1>4. RingBufferSize = c + GetMaxK
  BY DEF RingBufferSize
<1>5. c >= 1
  <2> HIDE DEF c, r, d, e
  <2>1. ASSUME c <= 0 PROVE FALSE
    <3>1. d * c <= 0
      BY <1>2, <1>3, <2>1
    <3> QED BY <1>2, <1>3, <3>1
  <2> QED BY <1>3, <2>1
<1>6. d * c >= 3 * TimeBudget
  <2> HIDE DEF c, r
  <2> QED BY <1>1, <1>2, <1>3
<1>7. d * c = 2 * (c * Period)
  <2> HIDE DEF c
  <2> QED BY <1>1, <1>3
<1> HIDE DEF c, d, e
<1> QED BY <1>1, <1>3, <1>4, <1>5, <1>6, <1>7

\* Every serial number has a slot of the array.
LEMMA SlotRange ==
  ASSUME ring \in Rings, NEW n \in Int
  PROVE  Slot(n) \in RingSlots
BY RingSize DEF Slot, RingSlots

\* Two rows less than the array apart lie in different slots.
LEMMA SlotsDiffer ==
  ASSUME ring \in Rings, NEW m \in Nat, NEW n \in Nat, m >= 1, m < n, n < m + RingBufferSize
  PROVE  Slot(m) # Slot(n)
<1> DEFINE a == m - 1
           b == n - 1
<1>1. a \in Nat /\ b \in Nat /\ a < b /\ b < a + RingBufferSize /\ RingBufferSize \in Nat \ {0}
  BY RingSize
<1> HIDE DEF a, b
<1>2. a % RingBufferSize # b % RingBufferSize
  BY <1>1, ModDistinct
<1> QED BY <1>2 DEF a, b, Slot

\* The slot put writes is that of the next serial number.
LEMMA WrittenSlot ==
  ASSUME ring \in Rings, counter \in Nat
  PROVE  counter % RingBufferSize = Slot(counter + 1)
<1>1. (counter + 1) - 1 = counter
  OBVIOUS
<1> QED BY <1>1 DEF Slot

\* The slot put looks ahead to holds the newest row of the window whose oldest row it is
\* about to overwrite (put 531-534).
LEMMA LookaheadRow ==
  ASSUME ring \in Rings, counter \in Nat
  PROVE  LookaheadIdx = Slot(counter + GetMaxK - RingBufferSize) /\ LookaheadIdx \in RingSlots
<1> DEFINE S == RingBufferSize
           K == GetMaxK
           q == counter \div S
           r == counter % S
           b == r + K - 1
           a == counter + K - S - 1
<1>1. S \in Nat \ {0} /\ K \in Nat \ {0} /\ S > K
  BY RingSize
<1>2. q \in Int /\ r \in 0..(S - 1) /\ counter = S * q + r
  <2> HIDE DEF S
  <2> QED BY <1>1
<1>3. LookaheadIdx = b % S
  BY DEF LookaheadIdx
<1>4. Slot(counter + K - S) = a % S
  <2> DEFINE n == counter + K - S
  <2>1. n - 1 = a
    <3> HIDE DEF K, S
    <3> QED BY <1>1
  <2> HIDE DEF n, a
  <2>2. Slot(n) = a % S
    BY <2>1 DEF Slot
  <2> QED BY <2>2 DEF n
<1> HIDE DEF S, K, q, r
<1>5. CASE b < S
  <2>1. b \in 0..(S - 1) /\ b = S * 0 + b /\ b \in Int /\ 0 \in Int
    BY <1>1, <1>2, <1>5
  <2>2. a \in Int /\ q - 1 \in Int /\ a = S * (q - 1) + b
    BY <1>1, <1>2
  <2> HIDE DEF a, b
  <2>3. b % S = b /\ a % S = b
    BY <1>1, <2>1, <2>2, ModUnique
  <2> QED BY <1>3, <1>4, <2>1, <2>3 DEF S, K, RingSlots
<1>6. CASE ~(b < S)
  <2> DEFINE w == b - S
  <2>1. w \in 0..(S - 1) /\ b = S * 1 + w /\ b \in Int /\ 1 \in Int
    BY <1>1, <1>2, <1>6
  <2>2. a \in Int /\ q \in Int /\ a = S * q + w
    BY <1>1, <1>2
  <2> HIDE DEF a, b, w
  <2>3. b % S = w /\ a % S = w
    BY <1>1, <2>1, <2>2, ModUnique
  <2> QED BY <1>3, <1>4, <2>1, <2>3 DEF S, K, RingSlots
<1> QED BY <1>5, <1>6

\* The two slices of a copy, glued, are the window row by row (_get_last_k_impl 664-679).
LEMMA CopiedRow ==
  ASSUME ring \in Rings, reader.count \in Nat, reader.k \in Nat, reader.k <= reader.count,
         reader.k <= GetMaxK, NEW key \in RingKeys, NEW i \in 1..reader.k
  PROVE  RingCopyColumn(key)[i] = ring_arrays[key][Slot(reader.count - reader.k + i)]
<1> DEFINE S == RingBufferSize
           k == reader.k
           n == reader.count
           last == n - 1
           q == last \div S
           r == last % S
           end == r + 1
           start == IF end >= k THEN end - k ELSE 0
           remainder == k - (end - start)
           a == n - k + i - 1
           index == IF i <= remainder THEN S - remainder + i - 1 ELSE start + i - remainder - 1
<1>1. /\ S \in Nat \ {0} /\ k \in Nat /\ n \in Nat /\ k <= n /\ k < S /\ i \in Nat
      /\ i >= 1 /\ i <= k /\ last \in Nat
  BY RingSize
<1>2. q \in Int /\ r \in 0..(S - 1) /\ last = S * q + r
  <2> HIDE DEF S, last
  <2> QED BY <1>1
<1>3. RingCopyColumn(key)[i] = ring_arrays[key][index]
  BY DEF RingCopyColumn
<1>4. Slot(n - k + i) = a % S
  BY DEF Slot
<1> HIDE DEF S, q, r, k, n
<1>5. CASE end >= k
  <2>1. index = r + 1 - k + i - 1 /\ index \in 0..(S - 1)
    BY <1>1, <1>2, <1>5
  <2>2. a \in Int /\ a = S * q + index
    BY <1>1, <1>2, <2>1
  <2> HIDE DEF a, index
  <2>3. a % S = index
    BY <1>1, <1>2, <2>1, <2>2, ModUnique
  <2> QED BY <1>3, <1>4, <2>3 DEF n, k
<1>6. CASE ~(end >= k)
  <2>1. CASE i <= k - end
    <3>1. index = S - (k - end) + i - 1 /\ index \in 0..(S - 1)
      BY <1>1, <1>2, <1>6, <2>1
    <3>2. a \in Int /\ q - 1 \in Int /\ a = S * (q - 1) + index
      BY <1>1, <1>2, <3>1
    <3> HIDE DEF a, index
    <3>3. a % S = index
      BY <1>1, <1>2, <3>1, <3>2, ModUnique
    <3> QED BY <1>3, <1>4, <3>3 DEF n, k
  <2>2. CASE ~(i <= k - end)
    <3>1. index = i - (k - end) - 1 /\ index \in 0..(S - 1)
      BY <1>1, <1>2, <1>6, <2>2
    <3>2. a \in Int /\ a = S * q + index
      BY <1>1, <1>2, <3>1
    <3> HIDE DEF a, index
    <3>3. a % S = index
      BY <1>1, <1>2, <3>1, <3>2, ModUnique
    <3> QED BY <1>3, <1>4, <3>3 DEF n, k
  <2> QED BY <2>1, <2>2
<1> QED BY <1>5, <1>6

\* The ring buffer's parameters never change.
LEMMA RingConstant ==
  ASSUME ring' = ring
  PROVE  /\ GetMaxK' = GetMaxK /\ TimeBudget' = TimeBudget /\ Period' = Period
         /\ RingKeys' = RingKeys /\ RingBufferSize' = RingBufferSize /\ RingSlots' = RingSlots
         /\ \A n : Slot(n)' = Slot(n)
         /\ counter' = counter => LookaheadIdx' = LookaheadIdx
<1>1. GetMaxK' = GetMaxK /\ TimeBudget' = TimeBudget /\ Period' = Period /\ RingKeys' = RingKeys
  BY DEF GetMaxK, TimeBudget, Period, RingKeys
<1>2. RingBufferSize' = RingBufferSize
  BY <1>1 DEF RingBufferSize
<1> QED BY <1>1, <1>2 DEF RingSlots, Slot, LookaheadIdx

\* The constructor's arguments never change.
LEMMA RingKept == RingInv /\ [RingNext]_ringVars => ring' = ring
BY DEF RingNext, ringVars, Tick, WriterStep, ReaderStep, LoopStart, PutStart, PutRefused, PutWake,
       RingPutColumn, RingPutCommit, GetCall, GetLoadCount, RingGetColumn, GetReturn,
       GetTimeout, GetDone

-----------------------------------------------------------------------------
(* The invariant                                                           *)

\* An empty buffer satisfies the invariant.
LEMMA InitRingInv == RingInit => RingInv
<1> SUFFICES ASSUME RingInit PROVE RingInv
  OBVIOUS
<1>0. ring \in Rings
  BY DEF RingInit
<1>1. /\ writer = [pc |-> "idle", started |-> -Period, wake |-> 0, todo |-> {}]
      /\ reader = ReaderIdle /\ now = 0 /\ counter = 0
      /\ ring_arrays = [key \in RingKeys |-> [slot \in RingSlots |-> 0]]
      /\ timestamp_array = [slot \in RingSlots |-> LongAgo]
  BY DEF RingInit
<1>2. Period \in Nat /\ TimeBudget \in Nat
  BY <1>0, RingSize
<1>3. RingTypeOK
  BY <1>0, <1>1, <1>2 DEF RingTypeOK, ReaderIdle, LongAgo
<1>4. StampInv /\ ThrottleInv /\ RowsInv
  BY <1>1 DEF StampInv, ThrottleInv, RowsInv
<1>5. WindowInv /\ AgeInv /\ CopyInv /\ PaceInv
  BY <1>1 DEF WindowInv, AgeInv, CopyInv, PaceInv, Reading, ReaderIdle
<1> QED BY <1>3, <1>4, <1>5 DEF RingInv

\* No step breaks the types.
LEMMA NextRingTypeOK == RingInv /\ [RingNext]_ringVars => RingTypeOK'
<1> SUFFICES ASSUME RingInv, [RingNext]_ringVars PROVE RingTypeOK'
  OBVIOUS
<1>0. RingTypeOK /\ ring \in Rings /\ ring' = ring
  BY RingKept DEF RingInv, RingTypeOK
<1> USE RingConstant DEF RingTypeOK
<1>1. CASE Tick
  BY <1>0, <1>1 DEF Tick
<1>2. CASE PutStart
  <2>1. timestamp_array[LookaheadIdx] \in Int /\ TimeBudget \in Nat
    BY <1>0, LookaheadRow, RingSize
  <2> QED BY <1>0, <1>2, <2>1 DEF PutStart, StartWriting
<1>3. CASE PutRefused
  BY <1>0, <1>3 DEF PutRefused
<1>13. CASE LoopStart
  BY <1>0, <1>13 DEF LoopStart
<1>4. CASE PutWake
  BY <1>0, <1>4 DEF PutWake, StartWriting
<1>5. ASSUME NEW key \in RingKeys, RingPutColumn(key) PROVE RingTypeOK'
  <2>1. /\ writer' = [writer EXCEPT !.todo = @ \ {key}]
        /\ UNCHANGED <<ring, now, counter, timestamp_array, reader>>
        /\ ring_arrays' = [ring_arrays EXCEPT ![key][counter % RingBufferSize] = counter + 1]
    BY <1>5 DEF RingPutColumn
  <2>2. counter % RingBufferSize \in RingSlots
    BY <1>0, WrittenSlot, SlotRange
  <2>3. ring_arrays' \in [RingKeys -> [RingSlots -> Nat]]
    BY <1>0, <2>1, <2>2
  <2> QED BY <1>0, <2>1, <2>3
<1>6. CASE RingPutCommit
  <2>1. /\ writer' = [writer EXCEPT !.pc = "idle"] /\ counter' = counter + 1
        /\ UNCHANGED <<ring, now, ring_arrays, reader>>
        /\ timestamp_array' = [timestamp_array EXCEPT ![counter % RingBufferSize] = now]
    BY <1>6 DEF RingPutCommit
  <2>2. counter % RingBufferSize \in RingSlots
    BY <1>0, WrittenSlot, SlotRange
  <2>3. timestamp_array' \in [RingSlots -> Int]
    BY <1>0, <2>1, <2>2
  <2> QED BY <1>0, <2>1, <2>3
<1>7. ASSUME NEW k \in 0..GetMaxK, GetCall(k) PROVE RingTypeOK'
  <2>1. k \in Nat
    BY <1>0, RingSize
  <2> QED BY <1>0, <1>7, <2>1 DEF GetCall, ReaderIdle
<1>8. CASE GetLoadCount
  <2>1. timestamp_array[(counter - 1) % RingBufferSize] \in Int
    <3>1. (counter - 1) % RingBufferSize = Slot(counter)
      BY DEF Slot
    <3> QED BY <1>0, <3>1, SlotRange
  <2> QED BY <1>0, <1>8, <2>1 DEF GetLoadCount
<1>9. ASSUME NEW key \in RingKeys, RingGetColumn(key) PROVE RingTypeOK'
  BY <1>0, <1>9 DEF RingGetColumn
<1>10. CASE GetReturn
  BY <1>0, <1>10 DEF GetReturn
<1>11. CASE GetTimeout \/ GetDone
  BY <1>0, <1>11 DEF GetTimeout, GetDone, ReaderIdle
<1>12. CASE UNCHANGED ringVars
  BY <1>0, <1>12 DEF ringVars
<1> QED BY <1>1, <1>2, <1>3, <1>4, <1>5, <1>6, <1>7, <1>8, <1>9, <1>10, <1>11, <1>12,
        <1>13 DEF RingNext, WriterStep, ReaderStep

\* Only a commit stamps a slot, and the slot it stamps held a row that is no longer counted.
LEMMA CommitStamps ==
  ASSUME RingInv, RingPutCommit
  PROVE  /\ timestamp_array'[Slot(counter + 1)] = now
         /\ \A n \in 1..counter : n > counter + 1 - RingBufferSize
                => timestamp_array'[Slot(n)] = Stamp(n)
<1>0. RingTypeOK /\ ring \in Rings /\ ring' = ring /\ counter \in Nat
  BY DEF RingInv, RingTypeOK, RingPutCommit
<1>1. timestamp_array' = [timestamp_array EXCEPT ![Slot(counter + 1)] = now]
  BY <1>0, WrittenSlot DEF RingPutCommit
<1>2. timestamp_array \in [RingSlots -> Int] /\ Slot(counter + 1) \in RingSlots
  BY <1>0, SlotRange DEF RingTypeOK
<1>3. RingBufferSize \in Nat \ {0}
  BY <1>0, RingSize
<1>4. ASSUME NEW n \in 1..counter, n > counter + 1 - RingBufferSize
      PROVE  Slot(n) # Slot(counter + 1) /\ Slot(n) \in RingSlots
  BY <1>0, <1>3, <1>4, SlotsDiffer, SlotRange
<1> QED BY <1>1, <1>2, <1>4 DEF Stamp

\* Rows are stamped in order, and never later than now.
LEMMA NextStampInv == RingInv /\ [RingNext]_ringVars => StampInv'
<1> SUFFICES ASSUME RingInv, [RingNext]_ringVars PROVE StampInv'
  OBVIOUS
<1>0. /\ RingTypeOK /\ StampInv /\ ring \in Rings /\ ring' = ring /\ counter \in Nat
      /\ now \in Nat /\ RingBufferSize \in Nat \ {0} /\ RingBufferSize' = RingBufferSize
      /\ \A n : Stamp(n)' = timestamp_array'[Slot(n)]
  BY RingKept, RingConstant, RingSize DEF RingInv, RingTypeOK, Stamp
<1>1. ASSUME NEW n \in 1..counter PROVE Stamp(n) \in Int
  BY <1>0, SlotRange DEF Stamp, RingTypeOK
<1>2. CASE UNCHANGED <<counter, timestamp_array>> /\ now' >= now /\ now' \in Nat
  BY <1>0, <1>1, <1>2 DEF StampInv, Stamp
<1>3. CASE RingPutCommit
  <2>1. counter' = counter + 1 /\ now' = now
    BY <1>3 DEF RingPutCommit
  <2>2. ASSUME NEW n \in 1..(counter + 1), n > counter + 1 - RingBufferSize
        PROVE  /\ Stamp(n)' <= now
               /\ n <= counter => Stamp(n)' = Stamp(n) /\ n \in 1..counter
    BY <1>0, <1>3, <2>2, CommitStamps DEF StampInv
  <2>3. ASSUME NEW m \in 1..(counter + 1), NEW n \in 1..(counter + 1),
               m > counter + 1 - RingBufferSize, m <= n
        PROVE  Stamp(m)' <= Stamp(n)'
    <3>1. CASE n = counter + 1
      BY <1>0, <1>3, <2>2, <2>3, <3>1, CommitStamps
    <3>2. CASE n <= counter
      BY <1>0, <2>2, <2>3, <3>2 DEF StampInv
    <3> QED BY <1>0, <3>1, <3>2
  <2> QED BY <1>0, <2>1, <2>2, <2>3 DEF StampInv
<1>4. CASE Tick
  BY <1>0, <1>2, <1>4 DEF Tick
<1>5. CASE UNCHANGED <<now, counter, timestamp_array>>
  BY <1>0, <1>2, <1>5
<1> QED BY <1>3, <1>4, <1>5
        DEF RingNext, ringVars, WriterStep, ReaderStep, LoopStart, PutStart, PutRefused, PutWake,
            RingPutColumn, GetCall, GetLoadCount, RingGetColumn, GetReturn, GetTimeout, GetDone

\* A put goes on at once when the window's newest row is old enough, and wakes when it is.
LEMMA NextThrottleInv == RingInv /\ [RingNext]_ringVars => ThrottleInv'
<1> SUFFICES ASSUME RingInv, [RingNext]_ringVars PROVE ThrottleInv'
  OBVIOUS
<1>0. /\ RingTypeOK /\ ThrottleInv /\ ring \in Rings /\ ring' = ring /\ counter \in Nat
      /\ now \in Nat /\ TimeBudget \in Nat /\ timestamp_array[LookaheadIdx] \in Int
      /\ TimeBudget' = TimeBudget /\ (counter' = counter => LookaheadIdx' = LookaheadIdx)
      /\ DOMAIN writer = {"pc", "started", "wake", "todo"}
  BY RingKept, RingConstant, RingSize, LookaheadRow DEF RingInv, RingTypeOK
<1>1. CASE UNCHANGED <<counter, timestamp_array, writer>> /\ now' >= now /\ now' \in Nat
  BY <1>0, <1>1 DEF ThrottleInv
<1>2. CASE PutStart
  <2>1. UNCHANGED <<counter, timestamp_array, now>>
    BY <1>2 DEF PutStart
  <2>2. CASE TooFast
    <3>1. writer'.pc = "sleeping" /\ writer'.wake = timestamp_array[LookaheadIdx] + TimeBudget
      BY <1>0, <1>2, <2>2 DEF PutStart
    <3> QED BY <1>0, <2>1, <3>1 DEF ThrottleInv
  <2>3. CASE ~TooFast
    <3>1. writer'.pc = "columns" /\ timestamp_array[LookaheadIdx] + TimeBudget <= now
      BY <1>0, <1>2, <2>3 DEF PutStart, StartWriting, TooFast
    <3> QED BY <1>0, <2>1, <3>1 DEF ThrottleInv
  <2> QED BY <2>2, <2>3
<1>3. CASE PutRefused \/ LoopStart
  BY <1>0, <1>3 DEF PutRefused, LoopStart, ThrottleInv
<1>4. CASE PutWake
  <2>1. /\ UNCHANGED <<counter, timestamp_array, now>> /\ writer'.pc = "columns"
        /\ timestamp_array[LookaheadIdx] + TimeBudget <= now
    BY <1>0, <1>4 DEF PutWake, StartWriting, ThrottleInv
  <2> QED BY <1>0, <2>1 DEF ThrottleInv
<1>5. ASSUME NEW key \in RingKeys, RingPutColumn(key) PROVE ThrottleInv'
  BY <1>0, <1>5 DEF RingPutColumn, ThrottleInv
<1>6. CASE RingPutCommit
  BY <1>0, <1>6 DEF RingPutCommit, ThrottleInv
<1>7. CASE Tick
  BY <1>0, <1>1, <1>7 DEF Tick
<1>8. CASE UNCHANGED <<now, counter, timestamp_array, writer>>
  BY <1>0, <1>1, <1>8
<1> QED BY <1>2, <1>3, <1>4, <1>5, <1>6, <1>7, <1>8
        DEF RingNext, ringVars, WriterStep, ReaderStep, GetCall, GetLoadCount, RingGetColumn,
            GetReturn, GetTimeout, GetDone

\* How far the writer has begun to write grows by one when a put starts or wakes.
LEMMA BegunGrows ==
  ASSUME RingInv, [RingNext]_ringVars
  PROVE  /\ Begun \in Nat /\ Begun' \in {Begun, Begun + 1}
         /\ Begun' # Begun =>
               /\ writer'.pc = "columns" /\ Begun = counter /\ (PutStart \/ PutWake)
<1>0. RingTypeOK
  BY DEF RingInv
<1>1. CASE PutStart
  BY <1>0, <1>1 DEF PutStart, StartWriting, Begun, RingTypeOK
<1>2. CASE PutWake
  BY <1>0, <1>2 DEF PutWake, StartWriting, Begun, RingTypeOK
<1>3. CASE PutRefused \/ LoopStart
  BY <1>0, <1>3 DEF PutRefused, LoopStart, Begun, RingTypeOK
<1>4. ASSUME NEW key \in RingKeys, RingPutColumn(key)
      PROVE  writer'.pc = writer.pc /\ counter' = counter
  BY <1>0, <1>4 DEF RingPutColumn, RingTypeOK
<1>5. CASE RingPutCommit
  BY <1>0, <1>5 DEF RingPutCommit, Begun, RingTypeOK
<1>6. CASE writer'.pc = writer.pc /\ counter' = counter
  BY <1>0, <1>6 DEF Begun, RingTypeOK
<1>7. CASE UNCHANGED <<counter, writer>>
  BY <1>6, <1>7
<1> QED BY <1>1, <1>2, <1>3, <1>4, <1>5, <1>6, <1>7
        DEF RingNext, ringVars, WriterStep, ReaderStep, Tick, GetCall, GetLoadCount,
            RingGetColumn, GetReturn, GetTimeout, GetDone

\* Writing a row leaves every row of the array's length before it alone.
LEMMA NextRowsInv == RingInv /\ [RingNext]_ringVars => RowsInv'
<1> SUFFICES ASSUME RingInv, [RingNext]_ringVars PROVE RowsInv'
  OBVIOUS
<1>0. /\ RingTypeOK /\ RowsInv /\ ring \in Rings /\ ring' = ring /\ counter \in Nat
      /\ RingBufferSize \in Nat /\ RingBufferSize # 0 /\ RingBufferSize' = RingBufferSize
      /\ Begun \in Nat /\ Begun' \in Nat /\ Begun' >= Begun
      /\ RingKeys' = RingKeys /\ \A n : Slot(n)' = Slot(n)
      /\ DOMAIN writer = {"pc", "started", "wake", "todo"}
  BY RingKept, RingConstant, RingSize, BegunGrows DEF RingInv, RingTypeOK
<1>1. ASSUME NEW n \in 1..counter, n + RingBufferSize > Begun', NEW key \in RingKeys
      PROVE  ring_arrays[key][Slot(n)] = n
  <2>1. n + RingBufferSize > Begun
    BY <1>0, <1>1
  <2> QED BY <1>0, <1>1, <2>1 DEF RowsInv
<1>2. ASSUME counter' = counter, ring_arrays' = ring_arrays,
             writer'.pc = "columns" => writer'.todo = RingKeys
      PROVE  RowsInv'
  BY <1>0, <1>1, <1>2 DEF RowsInv
<1>3. ASSUME counter' = counter, ring_arrays' = ring_arrays, writer' = writer
      PROVE  RowsInv'
  <2>1. writer.pc = "columns" =>
           \A key \in RingKeys \ writer.todo :
              ring_arrays[key][Slot(counter + 1)] = counter + 1
    BY <1>0 DEF RowsInv
  <2> QED BY <1>0, <1>1, <1>3, <2>1 DEF RowsInv
<1>4. CASE PutStart
  BY <1>0, <1>2, <1>4 DEF PutStart, StartWriting
<1>5. CASE PutRefused \/ LoopStart
  BY <1>0, <1>2, <1>5 DEF PutRefused, LoopStart
<1>6. CASE PutWake
  BY <1>0, <1>2, <1>6 DEF PutWake, StartWriting
<1>7. ASSUME NEW c \in RingKeys, RingPutColumn(c) PROVE RowsInv'
  <2>1. /\ writer.pc = "columns" /\ counter' = counter
        /\ writer'.pc = "columns" /\ writer'.todo = writer.todo \ {c}
        /\ ring_arrays' = [ring_arrays EXCEPT ![c][Slot(counter + 1)] = counter + 1]
    BY <1>0, <1>7, WrittenSlot DEF RingPutColumn
  <2>2. /\ ring_arrays \in [RingKeys -> [RingSlots -> Nat]]
        /\ Slot(counter + 1) \in RingSlots
    BY <1>0, SlotRange DEF RingTypeOK
  <2>3. Begun = counter + 1 /\ Begun' = counter + 1
    BY <2>1 DEF Begun
  <2>4. ASSUME NEW n \in 1..counter, n > counter + 1 - RingBufferSize, NEW key \in RingKeys
        PROVE  ring_arrays'[key][Slot(n)] = n
    <3>1. Slot(n) # Slot(counter + 1) /\ Slot(n) \in RingSlots
      BY <1>0, <2>4, SlotsDiffer, SlotRange
    <3>2. ring_arrays[key][Slot(n)] = n
      BY <1>0, <2>3, <2>4 DEF RowsInv
    <3> QED BY <2>1, <2>2, <3>1, <3>2
  <2>5. ASSUME NEW key \in RingKeys \ (writer.todo \ {c})
        PROVE  ring_arrays'[key][Slot(counter + 1)] = counter + 1
    <3>1. CASE key = c
      BY <2>1, <2>2, <3>1
    <3>2. CASE key # c
      BY <1>0, <2>1, <2>2, <2>5, <3>2 DEF RowsInv
    <3> QED BY <3>1, <3>2
  <2> QED BY <1>0, <2>1, <2>3, <2>4, <2>5 DEF RowsInv
<1>8. CASE RingPutCommit
  <2>1. /\ writer.pc = "columns" /\ writer.todo = {} /\ counter' = counter + 1
        /\ writer'.pc = "idle" /\ ring_arrays' = ring_arrays
    BY <1>0, <1>8 DEF RingPutCommit
  <2>2. Begun = counter + 1 /\ Begun' = counter + 1
    BY <2>1 DEF Begun
  <2>3. ASSUME NEW n \in 1..(counter + 1), n > counter + 1 - RingBufferSize,
               NEW key \in RingKeys
        PROVE  ring_arrays[key][Slot(n)] = n
    <3>1. CASE n = counter + 1
      BY <1>0, <2>1, <3>1 DEF RowsInv
    <3>2. CASE n # counter + 1
      <4>1. n \in 1..counter
        BY <1>0, <3>2
      <4> QED BY <1>0, <2>2, <2>3, <4>1 DEF RowsInv
    <3> QED BY <3>1, <3>2
  <2> QED BY <1>0, <2>1, <2>2, <2>3 DEF RowsInv
<1> QED BY <1>3, <1>4, <1>5, <1>6, <1>7, <1>8
        DEF RingNext, ringVars, WriterStep, ReaderStep, Tick, GetCall, GetLoadCount,
            RingGetColumn, GetReturn, GetTimeout, GetDone

\* Neither the clock nor the counter goes back.
LEMMA CountersGrow ==
  ASSUME RingInv, [RingNext]_ringVars
  PROVE  counter' \in Nat /\ counter' >= counter /\ now' \in Nat /\ now' >= now
<1>0. counter \in Nat /\ now \in Nat
  BY DEF RingInv, RingTypeOK
<1>1. CASE Tick
  BY <1>0, <1>1 DEF Tick
<1>2. CASE RingPutCommit
  BY <1>0, <1>2 DEF RingPutCommit
<1>3. CASE UNCHANGED <<now, counter>>
  BY <1>0, <1>3
<1> QED BY <1>1, <1>2, <1>3
        DEF RingNext, ringVars, WriterStep, ReaderStep, LoopStart, PutStart, PutRefused, PutWake,
            RingPutColumn, GetCall, GetLoadCount, RingGetColumn, GetReturn, GetTimeout, GetDone

\* What a step does to the reader's window.
LEMMA ReaderStepKinds ==
  ASSUME RingInv, [RingNext]_ringVars
  PROVE  \/ UNCHANGED reader
         \/ reader'.pc \in {"idle", "called"} /\ reader'.k <= counter /\ reader'.k <= GetMaxK
         \/ GetLoadCount
         \/ GetReturn
         \/ \E key \in RingKeys : RingGetColumn(key)
<1>0. RingTypeOK /\ ring \in Rings /\ GetMaxK \in Nat
  BY RingSize DEF RingInv, RingTypeOK
<1>1. ASSUME NEW k \in 0..GetMaxK, GetCall(k)
      PROVE  reader'.pc = "called" /\ reader'.k <= counter /\ reader'.k <= GetMaxK
  <2>1. reader'.pc = "called" /\ reader'.k = k
    BY <1>1 DEF GetCall, ReaderIdle
  <2>2. k <= counter /\ k <= GetMaxK
    BY <1>0, <1>1 DEF GetCall, RingTypeOK
  <2> QED BY <2>1, <2>2
<1>2. CASE GetTimeout \/ GetDone
  BY <1>0, <1>2 DEF GetTimeout, GetDone, ReaderIdle, RingTypeOK
<1> QED BY <1>1, <1>2
        DEF RingNext, ringVars, WriterStep, ReaderStep, Tick, LoopStart, PutStart, PutRefused, PutWake,
            RingPutColumn, RingPutCommit

\* Loading the count, copying a column and returning keep the window asked for.
LEMMA ReaderFields ==
  ASSUME RingInv
  PROVE  /\ GetLoadCount => /\ reader.pc = "called" /\ reader'.pc = "columns"
                            /\ reader'.k = reader.k /\ reader'.count = counter
                            /\ reader'.start_time = reader.start_time
                            /\ reader'.newest = Stamp(counter) /\ reader'.todo = RingKeys
                            /\ UNCHANGED <<ring, now, counter, ring_arrays, timestamp_array,
                                           writer>>
         /\ \A key \in RingKeys : RingGetColumn(key) =>
                /\ reader.pc = "columns" /\ reader'.pc = "columns"
                /\ reader'.k = reader.k /\ reader'.count = reader.count
                /\ reader'.start_time = reader.start_time
                /\ reader'.newest = reader.newest
                /\ reader'.todo = reader.todo \ {key}
                /\ reader'.out = [reader.out EXCEPT ![key] = RingCopyColumn(key)]
                /\ UNCHANGED <<ring, now, counter, ring_arrays, timestamp_array, writer>>
         /\ GetReturn => /\ reader.pc = "columns" /\ reader'.pc = "returned"
                         /\ reader.todo = {}
                         /\ now - reader.start_time <= TimeBudget
                         /\ reader'.k = reader.k /\ reader'.count = reader.count
                         /\ reader'.start_time = reader.start_time
                         /\ reader'.newest = reader.newest
                         /\ reader'.todo = {} /\ reader'.out = reader.out
                         /\ UNCHANGED <<ring, now, counter, ring_arrays, timestamp_array,
                                        writer>>
BY DEF GetLoadCount, RingGetColumn, GetReturn, RingInv, RingTypeOK, Stamp, Slot

\* The reader counts on rows that were published when it began.
LEMMA NextWindowInv == RingInv /\ [RingNext]_ringVars => WindowInv'
<1> SUFFICES ASSUME RingInv, [RingNext]_ringVars PROVE WindowInv'
  OBVIOUS
<1>0. /\ RingTypeOK /\ WindowInv /\ ring \in Rings /\ counter \in Nat /\ GetMaxK' = GetMaxK
      /\ GetMaxK \in Nat /\ counter' \in Nat /\ counter' >= counter
  BY CountersGrow, RingKept, RingConstant, RingSize DEF RingInv, RingTypeOK
<1>1. CASE UNCHANGED reader
  BY <1>0, <1>1 DEF WindowInv, RingTypeOK, Reading
<1>2. CASE reader'.pc \in {"idle", "called"} /\ reader'.k <= counter /\ reader'.k <= GetMaxK
  <2>1. reader'.k \in Nat
    BY NextRingTypeOK DEF RingTypeOK
  <2> QED BY <1>0, <1>2, <2>1 DEF WindowInv, Reading
<1>3. CASE GetLoadCount
  BY <1>0, <1>3, ReaderFields DEF WindowInv, Reading
<1>4. CASE GetReturn \/ \E key \in RingKeys : RingGetColumn(key)
  BY <1>0, <1>4, ReaderFields DEF WindowInv, Reading
<1> QED BY <1>1, <1>2, <1>3, <1>4, ReaderStepKinds

\* The window is overrun once, by the put that reuses the slot of its oldest row; that put
\* was let in because the window's newest row is old.
LEMMA NextAgeInv == RingInv /\ [RingNext]_ringVars => AgeInv'
<1> SUFFICES ASSUME RingInv, [RingNext]_ringVars PROVE AgeInv'
  OBVIOUS
<1>0. /\ RingTypeOK /\ AgeInv /\ WindowInv /\ ring \in Rings /\ ring' = ring
      /\ counter \in Nat /\ now \in Nat /\ now' \in Nat /\ now' >= now
      /\ reader.k \in Nat /\ reader.count \in Nat /\ reader.newest \in Int
      /\ GetMaxK \in Nat \ {0} /\ TimeBudget \in Nat /\ RingBufferSize \in Nat \ {0}
      /\ RingBufferSize > GetMaxK /\ RingBufferSize' = RingBufferSize
      /\ TimeBudget' = TimeBudget /\ \A n : Slot(n)' = Slot(n)
  BY CountersGrow, RingKept, RingConstant, RingSize DEF RingInv, RingTypeOK
<1>1. Begun \in Nat /\ Begun' \in {Begun, Begun + 1}
  BY BegunGrows
<1>2. ASSUME UNCHANGED reader, Reading, reader.k > 0 PROVE AgeInv'
  <2>1. /\ reader.k <= reader.count /\ reader.count <= counter /\ reader.k <= GetMaxK
        /\ reader.count > counter - RingBufferSize => Stamp(reader.count) = reader.newest
        /\ Overrun => reader.newest + TimeBudget <= now
    BY <1>0, <1>2 DEF AgeInv, WindowInv, Reading
  <2>2. counter' >= counter /\ (reader.count > counter' - RingBufferSize
                                  => Stamp(reader.count)' = Stamp(reader.count))
    <3>1. CASE RingPutCommit
      <4>1. counter' = counter + 1 /\ reader.count \in 1..counter /\ reader' = reader
        BY <1>0, <1>2, <2>1, <3>1 DEF RingPutCommit
      <4> QED BY <1>0, <3>1, <4>1, CommitStamps DEF Stamp
    <3>2. CASE UNCHANGED <<counter, timestamp_array>>
      BY <1>0, <1>2, <3>2 DEF Stamp
    <3> QED BY <3>1, <3>2
            DEF RingNext, ringVars, WriterStep, ReaderStep, Tick, LoopStart, PutStart, PutRefused,
                PutWake, RingPutColumn, GetCall, GetLoadCount, RingGetColumn, GetReturn,
                GetTimeout, GetDone
  <2>3. ASSUME Overrun', ~Overrun PROVE reader.newest + TimeBudget <= now'
    <3>1. /\ Begun = counter /\ writer'.pc = "columns" /\ (PutStart \/ PutWake)
          /\ counter = reader.count - reader.k + RingBufferSize
      BY <1>0, <1>1, <1>2, <2>3, BegunGrows DEF Overrun
    <3>2. UNCHANGED <<counter, timestamp_array>>
      BY <3>1 DEF PutStart, PutWake
    <3>3. timestamp_array[LookaheadIdx] + TimeBudget <= now'
      <4>1. ThrottleInv' /\ LookaheadIdx' = LookaheadIdx
        BY <1>0, <3>2, NextThrottleInv, RingConstant
      <4> QED BY <1>0, <3>1, <3>2, <4>1 DEF ThrottleInv
    <3> DEFINE row == counter + GetMaxK - RingBufferSize
    <3>4. LookaheadIdx = Slot(row)
      BY <1>0, LookaheadRow
    <3>5. row \in 1..counter /\ reader.count <= row /\ reader.count \in 1..counter
          /\ reader.count > counter - RingBufferSize
      BY <1>0, <1>2, <2>1, <3>1
    <3> HIDE DEF row
    <3>6. Stamp(reader.count) <= Stamp(row)
      BY <3>5 DEF RingInv, StampInv
    <3>7. Stamp(row) \in Int /\ Stamp(reader.count) = reader.newest
      BY <1>0, <2>1, <3>5, SlotRange DEF Stamp, RingTypeOK
    <3> QED BY <1>0, <3>3, <3>4, <3>6, <3>7 DEF Stamp
  <2>4. Overrun' => reader'.newest + TimeBudget <= now'
    BY <1>0, <1>2, <2>1, <2>3
  <2>5. reader'.count > counter' - RingBufferSize => Stamp(reader.count)' = reader'.newest
    BY <1>0, <1>2, <2>1, <2>2, NextRingTypeOK DEF RingTypeOK, Stamp
  <2> QED BY <1>0, <2>4, <2>5 DEF AgeInv
<1>3. CASE reader'.pc \in {"idle", "called"}
  BY <1>3 DEF AgeInv, Reading
<1>4. CASE GetLoadCount
  <2>1. /\ reader'.k = reader.k /\ reader'.count = counter /\ reader'.newest = Stamp(counter)
        /\ UNCHANGED <<ring, now, counter, timestamp_array, writer>>
        /\ reader.k <= GetMaxK
    BY <1>0, <1>4, ReaderFields DEF WindowInv
  <2>2. ~Overrun'
    BY <1>0, <2>1 DEF Overrun, Begun
  <2> QED BY <1>0, <2>1, <2>2 DEF AgeInv, Stamp
<1>5. CASE GetReturn \/ \E key \in RingKeys : RingGetColumn(key)
  <2>1. /\ reader'.k = reader.k /\ reader'.count = reader.count
        /\ reader'.newest = reader.newest /\ Reading
        /\ UNCHANGED <<ring, now, counter, timestamp_array, writer>>
    BY <1>5, ReaderFields DEF Reading
  <2>2. (Overrun' => Overrun) /\ Stamp(reader.count)' = Stamp(reader.count)
    BY <1>0, <2>1 DEF Overrun, Begun, Stamp
  <2> QED BY <1>0, <2>1, <2>2 DEF AgeInv
<1> QED BY <1>2, <1>3, <1>4, <1>5, ReaderStepKinds DEF AgeInv, Reading

\* A column copied before the window is overrun is the window, and the copy is not touched
\* by what the writer does later.
LEMMA NextCopyInv == RingInv /\ [RingNext]_ringVars => CopyInv'
<1> SUFFICES ASSUME RingInv, [RingNext]_ringVars PROVE CopyInv'
  OBVIOUS
<1>0. /\ RingTypeOK /\ CopyInv /\ WindowInv /\ RowsInv /\ ring \in Rings /\ ring' = ring
      /\ counter \in Nat /\ reader.k \in Nat /\ reader.count \in Nat
      /\ RingBufferSize \in Nat /\ RingBufferSize' = RingBufferSize /\ RingKeys' = RingKeys
      /\ Begun \in Nat /\ Begun' \in Nat /\ Begun' >= Begun
  BY RingKept, RingConstant, RingSize, BegunGrows DEF RingInv, RingTypeOK
<1>1. CASE UNCHANGED reader
  <2>1. ~Overrun' => ~Overrun
    BY <1>0, <1>1 DEF Overrun
  <2> QED BY <1>0, <1>1, <2>1 DEF CopyInv, Reading
<1>2. CASE reader'.pc \in {"idle", "called"}
  BY <1>2 DEF CopyInv, Reading
<1>3. CASE GetLoadCount
  BY <1>0, <1>3, ReaderFields DEF CopyInv
<1>4. ASSUME NEW c \in RingKeys, RingGetColumn(c) PROVE CopyInv'
  <2>1. /\ reader.pc = "columns" /\ reader'.pc = "columns" /\ Reading
        /\ reader'.k = reader.k /\ reader'.count = reader.count
        /\ reader'.todo = reader.todo \ {c}
        /\ reader'.out = [reader.out EXCEPT ![c] = RingCopyColumn(c)]
        /\ UNCHANGED <<counter, writer>>
    BY <1>4, ReaderFields DEF Reading
  <2>2. Begun' = Begun
    BY <2>1 DEF Begun
  <2>3. ASSUME ~Overrun, NEW key \in RingKeys \ (reader.todo \ {c}), NEW i \in 1..reader.k
        PROVE  reader'.out[key][i] = reader.count - reader.k + i
    <3>1. CASE key # c
      <4>1. key \in RingKeys \ reader.todo /\ reader'.out[key] = reader.out[key]
        BY <1>0, <2>1, <2>3, <3>1 DEF RingTypeOK
      <4> QED BY <1>0, <2>1, <2>3, <4>1 DEF CopyInv
    <3>2. CASE key = c
      <4> DEFINE n == reader.count - reader.k + i
      <4>1. reader'.out[c][i] = RingCopyColumn(c)[i]
        BY <1>0, <2>1 DEF RingTypeOK
      <4>2. reader.k <= reader.count /\ reader.count <= counter /\ reader.k <= GetMaxK
        BY <1>0, <2>1 DEF WindowInv
      <4>3. RingCopyColumn(c)[i] = ring_arrays[c][Slot(n)]
        BY <1>0, <4>2, CopiedRow
      <4>4. n \in 1..counter /\ n + RingBufferSize > Begun
        BY <1>0, <2>3, <4>2 DEF Overrun
      <4> HIDE DEF n
      <4>5. ring_arrays[c][Slot(n)] = n
        BY <1>0, <4>4 DEF RowsInv
      <4> QED BY <3>2, <4>1, <4>3, <4>5 DEF n
    <3> QED BY <3>1, <3>2
  <2>4. Overrun' = Overrun
    BY <1>0, <2>1, <2>2 DEF Overrun
  <2> QED BY <1>0, <2>1, <2>3, <2>4 DEF CopyInv
<1>5. CASE GetReturn
  <2>1. /\ reader.pc = "columns" /\ Reading /\ reader.todo = {} /\ reader'.todo = {}
        /\ reader'.k = reader.k /\ reader'.count = reader.count /\ reader'.out = reader.out
        /\ UNCHANGED <<counter, writer>>
    BY <1>5, ReaderFields DEF Reading
  <2>2. Overrun' = Overrun
    BY <1>0, <2>1 DEF Overrun, Begun
  <2> QED BY <1>0, <2>1, <2>2 DEF CopyInv
<1> QED BY <1>1, <1>2, <1>3, <1>4, <1>5, ReaderStepKinds

\* The number of iterations begun grows when one starts, a period after the one before.
LEMMA PutsGrow ==
  ASSUME RingInv, [RingNext]_ringVars
  PROVE  /\ Puts \in Nat /\ writer'.started \in Int /\ writer'.started >= writer.started
         /\ \/ Puts' = Puts \/ Puts' = Puts - 1
            \/ /\ Puts' = Puts + 1 /\ Puts = counter /\ now = now'
               /\ writer'.started = now
               /\ ring.pacing = "period" => writer'.started >= writer.started + Period
<1>0. /\ RingTypeOK /\ counter \in Nat /\ now \in Nat
      /\ DOMAIN writer = {"pc", "started", "wake", "todo"}
      /\ writer.started \in Int /\ writer.started <= now
      /\ writer.pc \in {"idle", "looping", "sleeping", "columns"}
      /\ ring.pacing \in {"deadlines", "period"}
  BY RingAssumption DEF RingInv, RingTypeOK
<1>1. CASE LoopStart
  <2>1. /\ writer.pc = "idle" /\ writer'.started = now
        /\ writer'.pc # "idle" /\ UNCHANGED <<now, counter>>
        /\ ring.pacing = "period" => now >= writer.started + Period
    BY <1>0, <1>1 DEF LoopStart, Due
  <2> QED BY <1>0, <2>1 DEF Puts
<1>2. CASE PutRefused
  BY <1>0, <1>2 DEF PutRefused, Puts
<1>3. CASE PutWake
  BY <1>0, <1>3 DEF PutWake, StartWriting, Puts
<1>4. ASSUME NEW key \in RingKeys, RingPutColumn(key)
      PROVE  /\ counter' = counter /\ writer'.pc = writer.pc
             /\ writer'.started = writer.started
  BY <1>0, <1>4 DEF RingPutColumn
<1>5. CASE RingPutCommit
  BY <1>0, <1>5 DEF RingPutCommit, Puts
<1>6. CASE counter' = counter /\ writer'.pc = writer.pc /\ writer'.started = writer.started
  BY <1>0, <1>6 DEF Puts
<1>7. CASE UNCHANGED <<counter, writer>>
  BY <1>6, <1>7
<1>8. CASE PutStart
  BY <1>0, <1>8 DEF PutStart, StartWriting, Puts
<1> QED BY <1>1, <1>2, <1>3, <1>4, <1>5, <1>6, <1>7, <1>8
        DEF RingNext, ringVars, WriterStep, ReaderStep, Tick, GetCall, GetLoadCount,
            RingGetColumn, GetReturn, GetTimeout, GetDone

\* Each put after the reader began took the writer a period further.
LEMMA NextPaceInv == RingInv /\ [RingNext]_ringVars => PaceInv'
<1> SUFFICES ASSUME RingInv, [RingNext]_ringVars, (ring.pacing = "period")',
                    (reader.pc = "columns")', (Puts >= reader.count + 2)'
             PROVE  (writer.started >= reader.start_time + (Puts - reader.count - 2) * Period)'
  BY DEF PaceInv
<1>0. /\ RingTypeOK /\ PaceInv /\ WindowInv /\ ring \in Rings /\ ring' = ring
      /\ counter \in Nat /\ now \in Nat /\ Puts \in Nat /\ Period \in Nat /\ Period' = Period
      /\ writer.started \in Int /\ reader.start_time \in Nat /\ reader.start_time <= now
      /\ reader.count \in Nat /\ writer'.started \in Int
      /\ writer'.started >= writer.started
  BY RingKept, RingConstant, RingSize, PutsGrow DEF RingInv, RingTypeOK
<1>1. ASSUME reader'.pc = reader.pc, reader'.count = reader.count,
             reader'.start_time = reader.start_time
      PROVE  (writer.started >= reader.start_time + (Puts - reader.count - 2) * Period)'
  <2>1. ring.pacing = "period" /\ reader.pc = "columns"
    BY <1>0, <1>1
  <2>2. CASE Puts' = Puts
    <3>1. writer.started >= reader.start_time + (Puts - reader.count - 2) * Period
      BY <1>0, <1>1, <2>1, <2>2 DEF PaceInv
    <3> DEFINE lag == (Puts - reader.count - 2) * Period
    <3>2. lag \in Int
      BY <1>0
    <3>3. (Puts' - reader'.count - 2) * Period' = lag
      BY <1>0, <1>1, <2>2
    <3> HIDE DEF lag
    <3>4. writer.started >= reader.start_time + lag
      BY <3>1 DEF lag
    <3> QED BY <1>0, <1>1, <3>2, <3>3, <3>4
  <2>4. CASE Puts' = Puts - 1
    <3> DEFINE m == Puts' - reader.count - 2
    <3>1. m \in Nat /\ Puts - reader.count - 2 = m + 1 /\ Puts >= reader.count + 2
      BY <1>0, <1>1, <2>4
    <3>2. writer.started >= reader.start_time + (Puts - reader.count - 2) * Period
      BY <2>1, <3>1, <1>0 DEF PaceInv
    <3>3. (Puts' - reader'.count - 2) * Period' = m * Period
      BY <1>0, <1>1
    <3> HIDE DEF m
    <3>4. m * Period \in Int /\ (m + 1) * Period = m * Period + Period
      BY <1>0, <3>1
    <3> DEFINE lag == m * Period
    <3>5. /\ lag \in Int /\ (m + 1) * Period = lag + Period
          /\ (Puts' - reader'.count - 2) * Period' = lag
      BY <3>3, <3>4
    <3> HIDE DEF lag
    <3>6. writer.started >= reader.start_time + (lag + Period)
      BY <3>1, <3>2, <3>5
    <3> QED BY <1>0, <1>1, <3>5, <3>6
  <2>3. CASE /\ Puts' = Puts + 1 /\ Puts = counter /\ writer'.started = now
             /\ writer'.started >= writer.started + Period
    <3> DEFINE m == Puts - reader.count - 2
    <3>1. m \in Int /\ m >= -1 /\ Puts' - reader'.count - 2 = m + 1
      BY <1>0, <1>1, <2>3
    <3>2. CASE m = -1
      <4>1. (Puts' - reader'.count - 2) * Period' = 0
        BY <1>0, <3>1, <3>2
      <4> QED BY <1>0, <1>1, <2>3, <4>1
    <3>3. CASE m >= 0
      <4>1. Puts >= reader.count + 2
        BY <1>0, <3>3
      <4>2. writer.started >= reader.start_time + m * Period
        BY <1>0, <2>1, <4>1 DEF PaceInv
      <4> HIDE DEF m
      <4>3. m * Period \in Int /\ (m + 1) * Period = m * Period + Period
        BY <1>0, <3>1
      <4>4. (Puts' - reader'.count - 2) * Period' = m * Period + Period
        BY <1>0, <3>1, <4>3
      <4> DEFINE lag == m * Period
      <4> HIDE DEF lag
      <4>5. /\ lag \in Int /\ writer.started >= reader.start_time + lag
            /\ (Puts' - reader'.count - 2) * Period' = lag + Period
        BY <4>2, <4>3, <4>4 DEF lag
      <4> QED BY <1>0, <1>1, <2>3, <4>5
    <3> HIDE DEF m
    <3> QED BY <3>1, <3>2, <3>3
  <2> QED BY <2>1, <2>2, <2>3, <2>4, PutsGrow
<1>2. CASE GetLoadCount
  <2>1. reader'.count = counter /\ UNCHANGED <<counter, writer>>
    BY <1>2, ReaderFields
  <2>2. Puts' <= counter + 1 /\ Puts' \in Nat
    BY <1>0, <2>1 DEF Puts
  <2> QED BY <1>0, <2>1, <2>2
<1> QED BY <1>1, <1>2, ReaderStepKinds, ReaderFields

\* The invariant is inductive.
LEMMA NextRingInv == RingInv /\ [RingNext]_ringVars => RingInv'
BY NextRingTypeOK, NextStampInv, NextThrottleInv, NextRowsInv, NextWindowInv, NextAgeInv,
   NextCopyInv, NextPaceInv DEF RingInv

\* The invariant holds throughout, for every window, period, budget and pacing.
THEOREM RingInvariance == RingSpec => []RingInv
BY InitRingInv, NextRingInv, PTL DEF RingSpec

-----------------------------------------------------------------------------
(* The theorems                                                            *)

\* The rows get_last_k counts on are never partly written, for every window, period and
\* number of columns.
THEOREM RingRowsWhole == RingSpec => []PublishedRowsWhole
<1>1. RingInv => PublishedRowsWhole
  <2> SUFFICES ASSUME RingInv, NEW n \in 1..counter, n > counter - GetMaxK,
                      NEW key \in RingKeys
               PROVE  ring_arrays[key][(n - 1) % RingBufferSize] = n
    BY DEF PublishedRowsWhole
  <2>1. /\ ring \in Rings /\ counter \in Nat /\ RowsInv /\ GetMaxK \in Nat
        /\ RingBufferSize \in Nat /\ RingBufferSize > GetMaxK
    BY RingSize DEF RingInv, RingTypeOK
  <2>2. Begun <= counter + 1 /\ Begun \in Nat
    BY <2>1 DEF Begun
  <2>3. n + RingBufferSize > Begun
    BY <2>1, <2>2
  <2> QED BY <2>1, <2>3 DEF RowsInv, Slot
<1> QED BY <1>1, RingInvariance, PTL

\* However late and however fast the writer runs, a row is only lost when the window's newest
\* row is already a time budget old (put 522-534).
THEOREM RingFreshIntact == RingSpec => []FreshRowsIntact
<1>1. RingInv => FreshRowsIntact
  <2> SUFFICES ASSUME RingInv, reader.pc = "returned", now < reader.newest + TimeBudget
               PROVE  Intact
    BY DEF FreshRowsIntact
  <2>1. /\ AgeInv /\ CopyInv /\ Reading /\ reader.todo = {} /\ reader.k \in Nat
        /\ now \in Nat /\ reader.newest \in Int /\ TimeBudget \in Nat
    BY RingSize DEF RingInv, RingTypeOK, CopyInv, Reading
  <2>2. CASE reader.k = 0
    BY <2>2 DEF Intact
  <2>3. CASE reader.k > 0
    <3>1. ~Overrun
      BY <2>1, <2>3 DEF AgeInv
    <3> QED BY <2>1, <3>1 DEF CopyInv, Intact
  <2> QED BY <2>1, <2>2, <2>3
<1> QED BY <1>1, RingInvariance, PTL

\* A writer whose iterations start a period apart, and put at any time after they start, never
\* overruns a reader within its budget, as long as the budget spans more than two periods (0.4 s and 0.05 s at 500 Hz for the arm).
THEOREM RingPacedWhole ==
  ASSUME \A r \in Rings : r.pacing = "period" => r.get_time_budget > 2 * r.period
  PROVE  RingSpec => []PacedReadsWhole
<1>1. RingInit => PacedReadsWhole
  BY DEF RingInit, ReaderIdle, PacedReadsWhole, SafeToReadLastK
<1>2. RingInv /\ PacedReadsWhole /\ [RingNext]_ringVars => PacedReadsWhole'
  <2> SUFFICES ASSUME RingInv, PacedReadsWhole, [RingNext]_ringVars,
                      (ring.pacing = "period")', (reader.pc = "returned")'
               PROVE  Intact'
    BY DEF PacedReadsWhole, SafeToReadLastK
  <2>1. /\ ring \in Rings /\ ring' = ring /\ RingKeys' = RingKeys
        /\ ring.pacing = "period" /\ RingTypeOK
    BY RingKept, RingConstant DEF RingInv, RingTypeOK
  <2>2. CASE UNCHANGED reader
    BY <2>1, <2>2 DEF PacedReadsWhole, SafeToReadLastK, Intact
  <2>3. CASE GetReturn
    <3>1. /\ reader.pc = "columns" /\ Reading /\ reader.todo = {}
          /\ now - reader.start_time <= TimeBudget
          /\ reader'.k = reader.k /\ reader'.count = reader.count /\ reader'.out = reader.out
      BY <2>3, ReaderFields DEF Reading
    <3>2. ASSUME Overrun PROVE FALSE
      <4> DEFINE c == RingBufferSize - GetMaxK
                 m == Puts - reader.count - 2
      <4>1. /\ counter \in Nat /\ now \in Nat /\ reader.k \in Nat /\ reader.count \in Nat
            /\ writer.started \in Int /\ writer.started <= now /\ reader.start_time \in Nat
            /\ reader.k <= GetMaxK /\ GetMaxK \in Nat /\ RingBufferSize \in Nat
            /\ TimeBudget \in Nat /\ Period \in Nat /\ c \in Nat /\ c >= 1
            /\ 2 * (c * Period) >= 3 * TimeBudget /\ TimeBudget > 2 * Period
        BY <2>1, <3>1, RingSize
           DEF RingInv, RingTypeOK, WindowInv, TimeBudget, Period
      <4>2. Puts \in Nat /\ Puts >= reader.count + 1 + c
        <5>1. Begun \in Nat /\ Puts \in Nat /\ Puts >= Begun
          BY <2>1, <4>1 DEF Begun, Puts
        <5>2. Begun >= reader.count - reader.k + 1 + RingBufferSize
          BY <3>2 DEF Overrun
        <5> QED BY <4>1, <5>1, <5>2
      <4>3. m \in Int /\ m >= c - 1
        BY <4>1, <4>2
      <4> HIDE DEF c, m
      <4>4. m * Period >= (c - 1) * Period
        BY <4>1, <4>3
      <4>5. (c - 1) * Period = c * Period - Period
        BY <4>1
      <4> DEFINE x == c * Period
                 y == m * Period
      <4>6. x \in Int /\ y \in Int
        BY <4>1, <4>3
      <4>7. y >= x - Period /\ 2 * x >= 3 * TimeBudget
        BY <4>1, <4>4, <4>5
      <4>8. Puts >= reader.count + 2 => writer.started >= reader.start_time + y
        BY <2>1, <3>1 DEF RingInv, PaceInv, m
      <4> HIDE DEF x, y
      <4>9. y > TimeBudget
        BY <4>1, <4>6, <4>7
      <4>10. Puts >= reader.count + 2
        <5>1. CASE c >= 1 /\ Puts < reader.count + 2
          <6>1. m <= -1
            BY <4>1, <4>2, <5>1 DEF m
          <6>2. y <= 0
            BY <4>1, <4>3, <6>1 DEF y
          <6> QED BY <4>1, <4>6, <4>9, <6>2
        <5> QED BY <4>1, <4>2, <5>1
      <4> QED BY <3>1, <4>1, <4>6, <4>8, <4>9, <4>10
    <3>3. Intact
      BY <3>1, <3>2 DEF RingInv, CopyInv, Intact
    <3> QED BY <2>1, <3>1, <3>3 DEF Intact
  <2>4. CASE reader'.pc # "returned"
    BY <2>4
  <2> QED BY <2>2, <2>3, <2>4, ReaderStepKinds, ReaderFields
<1> QED BY <1>1, <1>2, RingInvariance, PTL DEF RingSpec
=============================================================================
