------------------------ MODULE SharedMemoryRingBuffer ------------------------
(***************************************************************************)
(* src/share/utils/shared_memory.py, class SharedMemoryRingBuffer: the     *)
(* state stream from a control process (one writer) to its front end (a    *)
(* reader).  Nothing stops the writer from lapping the reader except time: *)
(* put throttles itself on the timestamps of the slots ahead and get gives *)
(* up when its copy took longer than the time budget.  Time is discrete    *)
(* and passes (Tick) between any two steps of either process.              *)
(*                                                                         *)
(* A row's content is abstracted to the serial number of its put (1, 2,    *)
(* ...; 0 is zero-filled memory).  clear() has no caller and is left out.  *)
(***************************************************************************)
EXTENDS Integers

CONSTANT
    Rings   \* the constructor's arguments, one record per ring buffer of the program

\* get_max_k; get_time_budget and 1 / put_desired_frequency in ticks; the columns; how the
\* writer's loop is paced: "deadlines" are absolute, so missed ones are caught up on
\* (robotiq_controller), "period" starts an iteration a period after the last one's start
\* (rtde initPeriod and waitPeriod); an iteration puts once;
\* max_puts and max_time bound the counter and the clock
ASSUME RingAssumption ==
    \A r \in Rings : /\ {r.get_max_k, r.get_time_budget, r.period} \subseteq Nat \ {0}
                     /\ r.pacing \in {"deadlines", "period"}
                     /\ {r.max_puts, r.max_time} \subseteq Nat

VARIABLES ring, now, counter, ring_arrays, timestamp_array, writer, reader

ringVars == <<ring, now, counter, ring_arrays, timestamp_array, writer, reader>>

GetMaxK    == ring.get_max_k
TimeBudget == ring.get_time_budget
Period     == ring.period
RingKeys       == ring.keys
RingMaxPuts    == ring.max_puts
RingMaxTime    == ring.max_time

MutRingBufferSizeNoSlack == GetMaxK

\* ceil(put_desired_frequency * get_time_budget * 1.5) + get_max_k
RingBufferSize == (3 * TimeBudget + 2 * Period - 1) \div (2 * Period) + GetMaxK

RingSlots == 0..(RingBufferSize - 1)
LongAgo == -TimeBudget          \* the initial -inf: old enough for every check

ReaderIdle == [pc |-> "idle", k |-> 0, start_time |-> 0, count |-> 0, newest |-> 0,
               todo |-> {}, out |-> [key \in RingKeys |-> <<>>]]

RingInit ==
    /\ ring \in Rings
    /\ now = 0
    /\ counter = 0
    /\ ring_arrays = [key \in RingKeys |-> [slot \in RingSlots |-> 0]]
    /\ timestamp_array = [slot \in RingSlots |-> LongAgo]
    /\ writer = [pc |-> "idle", started |-> -Period, wake |-> 0, todo |-> {}]
    /\ reader = ReaderIdle

Tick ==
    /\ now < RingMaxTime
    /\ now' = now + 1
    /\ UNCHANGED <<ring, counter, ring_arrays, timestamp_array, writer, reader>>

-----------------------------------------------------------------------------
(* put                                                                     *)

MutLookaheadIdx == counter % RingBufferSize

\* timestamp_lookahead_idx: the newest row of the window whose oldest row is overwritten
LookaheadIdx == ((counter % RingBufferSize) + GetMaxK - 1) % RingBufferSize

TooFast == now - timestamp_array[LookaheadIdx] < TimeBudget

\* the control loop may begin its next iteration
Due ==
    \/ ring.pacing = "deadlines" /\ now >= counter * Period
    \/ ring.pacing = "period" /\ now >= writer.started + Period

\* initPeriod: the period runs from here, and the one put of the iteration comes at any time
\* after it, so a late put and the next iteration's early one may be back to back
LoopStart ==
    /\ writer.pc = "idle" /\ counter < RingMaxPuts /\ Due
    /\ writer' = [writer EXCEPT !.pc = "looping", !.started = now]
    /\ UNCHANGED <<ring, now, counter, ring_arrays, timestamp_array, reader>>

StartWriting == [writer EXCEPT !.pc = "columns", !.wake = 0, !.todo = RingKeys]

PutStart ==
    /\ writer.pc = "looping"
    /\ writer' = IF TooFast
                 THEN [writer EXCEPT !.pc = "sleeping",
                                     !.wake = timestamp_array[LookaheadIdx] + TimeBudget]
                 ELSE StartWriting
    /\ UNCHANGED <<ring, now, counter, ring_arrays, timestamp_array, reader>>

\* put(wait=False), the wrench monitor's way: raise TimeoutError, the sample is dropped
PutRefused ==
    /\ writer.pc = "looping" /\ TooFast
    /\ writer' = [writer EXCEPT !.pc = "idle"]
    /\ UNCHANGED <<ring, now, counter, ring_arrays, timestamp_array, reader>>

PutWake ==
    /\ writer.pc = "sleeping" /\ now >= writer.wake
    /\ writer' = StartWriting
    /\ UNCHANGED <<ring, now, counter, ring_arrays, timestamp_array, reader>>

RingPutColumn(key) ==
    /\ writer.pc = "columns" /\ key \in writer.todo
    /\ ring_arrays' = [ring_arrays EXCEPT ![key][counter % RingBufferSize] = counter + 1]
    /\ writer' = [writer EXCEPT !.todo = @ \ {key}]
    /\ UNCHANGED <<ring, now, counter, timestamp_array, reader>>

RingPutCommit ==
    /\ writer.pc = "columns" /\ writer.todo = {}
    /\ timestamp_array' = [timestamp_array EXCEPT ![counter % RingBufferSize] = now]
    /\ counter' = counter + 1
    /\ writer' = [writer EXCEPT !.pc = "idle"]
    /\ UNCHANGED <<ring, now, ring_arrays, reader>>

-----------------------------------------------------------------------------
(* get, get_last_k and get_all                                             *)

\* get_all reads the counter for k here and again in GetLoadCount; a caller of get_last_k
\* derives its k from an earlier count in the same way (wrench_monitor.py).
GetCall(k) ==
    /\ reader.pc = "idle"
    /\ k \in 0..(IF counter <= GetMaxK THEN counter ELSE GetMaxK)
    /\ reader' = [ReaderIdle EXCEPT !.pc = "called", !.k = k, !.start_time = now]
    /\ UNCHANGED <<ring, now, counter, ring_arrays, timestamp_array, writer>>

\* newest: a history of when the newest row of the window was stamped, for the properties
GetLoadCount ==
    /\ reader.pc = "called"
    /\ reader' = [reader EXCEPT !.pc = "columns", !.count = counter, !.todo = RingKeys,
                                !.newest = timestamp_array[(counter - 1) % RingBufferSize]]
    /\ UNCHANGED <<ring, now, counter, ring_arrays, timestamp_array, writer>>

\* one column: the slots up to curr_idx, and the wrapped remainder from the array's end
RingCopyColumn(key) ==
    LET end       == ((reader.count - 1) % RingBufferSize) + 1
        start     == IF end >= reader.k THEN end - reader.k ELSE 0
        remainder == reader.k - (end - start)
    IN  [i \in 1..reader.k |->
           IF i <= remainder THEN ring_arrays[key][RingBufferSize - remainder + i - 1]
                             ELSE ring_arrays[key][start + i - remainder - 1]]

RingGetColumn(key) ==
    /\ reader.pc = "columns" /\ key \in reader.todo
    /\ reader' = [reader EXCEPT !.todo = @ \ {key}, !.out[key] = RingCopyColumn(key)]
    /\ UNCHANGED <<ring, now, counter, ring_arrays, timestamp_array, writer>>

\* returned: end_time - start_time stayed within the budget
GetReturn ==
    /\ reader.pc = "columns" /\ reader.todo = {}
    /\ now - reader.start_time <= TimeBudget
    /\ reader' = [reader EXCEPT !.pc = "returned"]
    /\ UNCHANGED <<ring, now, counter, ring_arrays, timestamp_array, writer>>

\* raise TimeoutError
GetTimeout ==
    /\ reader.pc = "columns" /\ reader.todo = {}
    /\ now - reader.start_time > TimeBudget
    /\ reader' = ReaderIdle
    /\ UNCHANGED <<ring, now, counter, ring_arrays, timestamp_array, writer>>

\* the caller has used the rows
GetDone ==
    /\ reader.pc = "returned"
    /\ reader' = ReaderIdle
    /\ UNCHANGED <<ring, now, counter, ring_arrays, timestamp_array, writer>>

-----------------------------------------------------------------------------
WriterStep ==
    \/ LoopStart \/ PutStart \/ PutRefused \/ PutWake \/ RingPutCommit
    \/ \E key \in RingKeys : RingPutColumn(key)

ReaderStep ==
    \/ \E k \in 0..GetMaxK : GetCall(k)
    \/ GetLoadCount \/ GetReturn \/ GetTimeout \/ GetDone
    \/ \E key \in RingKeys : RingGetColumn(key)

RingNext == Tick \/ WriterStep \/ ReaderStep

RingSpec == RingInit /\ [][RingNext]_ringVars

-----------------------------------------------------------------------------
(* Properties                                                              *)

\* The rows returned are the last k published ones, oldest first, in every column.
Intact ==
    \A key \in RingKeys, i \in 1..reader.k : reader.out[key][i] = reader.count - reader.k + i

\* "so that get_last_k can safely read k elements from any count location" (put, 522-526):
\* a get that returns within its budget never hands over an overwritten row.
SafeToReadLastK == reader.pc = "returned" => Intact

\* The same promise for the writers that keep it: where iterations start a period apart, and
\* however late in each its put comes, a get that returns within its budget is whole
\* (put 522-534; the loop of controller.py 466-554).
PacedReadsWhole == ring.pacing = "period" => SafeToReadLastK

\* What the throttle does ensure however late the writer runs: rows can only be lost when
\* the newest of them is already a full time budget old at the end of the read, so a fresh
\* sample is never torn.
FreshRowsIntact ==
    reader.pc = "returned" /\ now < reader.newest + TimeBudget => Intact

\* The rows that get_last_k counts on are never partly written: every slot of the last k
\* published rows carries its own serial number in every column.
PublishedRowsWhole ==
    \A n \in 1..counter : n > counter - GetMaxK
        => \A key \in RingKeys : ring_arrays[key][(n - 1) % RingBufferSize] = n
=============================================================================
