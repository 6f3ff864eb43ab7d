-------------------------- MODULE SharedMemoryQueue --------------------------
(***************************************************************************)
(* src/share/utils/shared_memory.py, class SharedMemoryQueue: the queue    *)
(* that carries commands from a robot or gripper front end (the producer   *)
(* process) to its control process (the consumer).  There is no lock: the  *)
(* two processes meet only in two atomic counters and in the arrays, one   *)
(* array per key, so every load, column copy and counter update is a step. *)
(*                                                                         *)
(* A message carries one value for the columns it names.  A message may    *)
(* name some of the keys only (RTDERobotiqController.stop sends just       *)
(* 'cmd'): the other columns of the slot then keep what was there before.  *)
(* The 64-bit counters only grow; MaxPuts bounds them, far below 2^64.     *)
(***************************************************************************)
EXTENDS Integers, Sequences

CONSTANTS
    BufferSize,   \* slots
    Keys,         \* the columns of a row
    ArrayKeys,    \* the columns that hold numpy arrays (zero-copy writable)
    Vals,         \* what a column can hold
    Zero,         \* fresh shared memory is zero-filled
    MaxPuts       \* bound on the number of committed puts

ASSUME QueueAssumption ==
    /\ BufferSize \in Nat \ {0}
    /\ MaxPuts \in Nat
    /\ ArrayKeys \subseteq Keys
    /\ Zero \in Vals

VARIABLES
    write_counter, read_counter,   \* SharedAtomicCounter
    shared_arrays,                 \* key -> slot -> value
    producer,                      \* the locals of put / get_next_view / put_next_view
    consumer,                      \* the locals of get / get_view / get_k / get_all / clear
    observer,                      \* the locals of qsize / empty in any process
    received                       \* the rows the last successful get returned

vars == <<write_counter, read_counter, shared_arrays, producer, consumer, observer, received>>

Slots == 0..(BufferSize - 1)
Rows  == [Keys -> Vals]
PutOps == {"put", "get_next_view", "put_next_view"}
GetOps == {"get", "get_view", "get_k", "get_all", "clear"}

\* between two calls the locals of a caller are gone
ProducerIdle == [pc |-> "idle", op |-> "put", keys |-> {}, val |-> Zero,
                 read_count |-> 0, write_count |-> 0, todo |-> {}]
ConsumerIdle == [pc |-> "idle", op |-> "get", read_count |-> 0, write_count |-> 0,
                 k |-> 0, todo |-> {}, out |-> [key \in Keys |-> <<>>]]

Init ==
    /\ write_counter = 0
    /\ read_counter = 0
    /\ shared_arrays = [key \in Keys |-> [slot \in Slots |-> Zero]]
    /\ producer = ProducerIdle
    /\ consumer = ConsumerIdle
    /\ observer = [pc |-> "idle", read_count |-> 0, empty |-> TRUE, was_empty |-> TRUE]
    /\ received = <<>>

-----------------------------------------------------------------------------
(* The producer: put, and the zero-copy pair get_next_view / put_next_view *)

\* the columns a producer operation writes itself
ColumnsOf(op, keys) ==
    CASE op = "put" -> keys
      [] op = "get_next_view" -> keys \cap ArrayKeys    \* by the caller, through the view
      [] op = "put_next_view" -> keys \ ArrayKeys       \* "assumed already written"

PutLoadRead(op, keys, val) ==
    /\ producer.pc = "idle"
    /\ write_counter < MaxPuts
    /\ producer' = [producer EXCEPT !.pc = "loaded", !.op = op, !.keys = keys, !.val = val,
                                    !.read_count = read_counter]
    /\ UNCHANGED <<write_counter, read_counter, shared_arrays, consumer, observer, received>>

\* raise Full(): decided on the values loaded, whatever the consumer did since
PutFull ==
    /\ producer.pc = "loaded"
    /\ write_counter - producer.read_count >= BufferSize
    /\ producer' = ProducerIdle
    /\ UNCHANGED <<write_counter, read_counter, shared_arrays, consumer, observer, received>>

MutPutAcceptOffByOne ==
    /\ producer.pc = "loaded"
    /\ write_counter - producer.read_count <= BufferSize
    /\ producer' = [producer EXCEPT !.pc = "columns", !.write_count = write_counter,
                                    !.todo = ColumnsOf(producer.op, producer.keys)]
    /\ UNCHANGED <<write_counter, read_counter, shared_arrays, consumer, observer, received>>

PutAccept ==
    /\ producer.pc = "loaded"
    /\ write_counter - producer.read_count < BufferSize
    /\ producer' = [producer EXCEPT !.pc = "columns", !.write_count = write_counter,
                                    !.todo = ColumnsOf(producer.op, producer.keys)]
    /\ UNCHANGED <<write_counter, read_counter, shared_arrays, consumer, observer, received>>

MutPutColumnAtReadIndex(key) ==
    /\ producer.pc = "columns" /\ key \in producer.todo
    /\ shared_arrays' = [shared_arrays EXCEPT ![key][(producer.read_count) % BufferSize] = producer.val]
    /\ producer' = [producer EXCEPT !.todo = @ \ {key}]
    /\ UNCHANGED <<write_counter, read_counter, consumer, observer, received>>

PutColumn(key) ==
    /\ producer.pc = "columns" /\ key \in producer.todo
    /\ shared_arrays' = [shared_arrays EXCEPT ![key][(producer.write_count) % BufferSize] = producer.val]
    /\ producer' = [producer EXCEPT !.todo = @ \ {key}]
    /\ UNCHANGED <<write_counter, read_counter, consumer, observer, received>>

\* the view is filled: put_next_view starts over with its own two loads
PutNextView ==
    /\ producer.pc = "columns" /\ producer.todo = {} /\ producer.op = "get_next_view"
    /\ producer' = [producer EXCEPT !.pc = "loaded", !.op = "put_next_view",
                                    !.read_count = read_counter]
    /\ UNCHANGED <<write_counter, read_counter, shared_arrays, consumer, observer, received>>

PutCommit ==
    /\ producer.pc = "columns" /\ producer.todo = {} /\ producer.op # "get_next_view"
    /\ write_counter' = write_counter + 1
    /\ producer' = ProducerIdle
    /\ UNCHANGED <<read_counter, shared_arrays, consumer, observer, received>>

-----------------------------------------------------------------------------
(* The consumer: get, get_view, get_k, get_all and clear                   *)

GetLoadWrite(op) ==
    /\ consumer.pc = "idle"
    /\ consumer' = [consumer EXCEPT !.pc = "loaded", !.op = op, !.write_count = write_counter]
    /\ UNCHANGED <<write_counter, read_counter, shared_arrays, producer, observer, received>>

\* raise Empty()
GetEmpty ==
    /\ consumer.pc = "loaded" /\ consumer.op # "clear"
    /\ consumer.write_count - read_counter <= 0
    /\ consumer' = ConsumerIdle
    /\ UNCHANGED <<write_counter, read_counter, shared_arrays, producer, observer, received>>

\* how many rows an operation takes when n_data are there
Taken(op, n_data) ==
    CASE op \in {"get", "get_view"} -> {1}
      [] op = "get_k" -> 1..n_data      \* assert k <= n_data
      [] OTHER -> {n_data}              \* get_all

GetAccept(k) ==
    /\ consumer.pc = "loaded" /\ consumer.op # "clear"
    /\ consumer.write_count - read_counter > 0
    /\ k \in Taken(consumer.op, consumer.write_count - read_counter)
    /\ consumer' = [consumer EXCEPT !.pc = "columns", !.read_count = read_counter, !.k = k,
                                    !.todo = Keys, !.out = [key \in Keys |-> <<>>]]
    /\ UNCHANGED <<write_counter, read_counter, shared_arrays, producer, observer, received>>

MutCopyColumn(key, read_count, k) ==
    LET curr_idx == read_count % BufferSize
        first    == IF k <= BufferSize - curr_idx THEN k ELSE BufferSize - curr_idx
    IN  [i \in 1..k |-> IF i <= first THEN shared_arrays[key][curr_idx + i - 1]
                                      ELSE shared_arrays[key][i - first]]

\* _get_k_impl: the run of slots up to the end of the array, then the wrapped remainder
CopyColumn(key, read_count, k) ==
    LET curr_idx == read_count % BufferSize
        first    == IF k <= BufferSize - curr_idx THEN k ELSE BufferSize - curr_idx
    IN  [i \in 1..k |-> IF i <= first THEN shared_arrays[key][curr_idx + i - 1]
                                      ELSE shared_arrays[key][i - first - 1]]

GetColumn(key) ==
    /\ consumer.pc = "columns" /\ key \in consumer.todo
    /\ consumer' = [consumer EXCEPT !.todo = @ \ {key},
                                    !.out[key] = CopyColumn(key, consumer.read_count, consumer.k)]
    /\ UNCHANGED <<write_counter, read_counter, shared_arrays, producer, observer, received>>

\* the rows are handed over only after the read counter released their slots
GetAdvance ==
    /\ consumer.pc = "columns" /\ consumer.todo = {}
    /\ read_counter' = read_counter + consumer.k
    /\ received' = [i \in 1..consumer.k |-> [key \in Keys |-> consumer.out[key][i]]]
    /\ consumer' = ConsumerIdle
    /\ UNCHANGED <<write_counter, shared_arrays, producer, observer>>

\* clear: store into the read counter the write counter loaded one step before
ClearStore ==
    /\ consumer.pc = "loaded" /\ consumer.op = "clear"
    /\ read_counter' = consumer.write_count
    /\ consumer' = ConsumerIdle
    /\ UNCHANGED <<write_counter, shared_arrays, producer, observer, received>>

-----------------------------------------------------------------------------
(* qsize and empty, callable from any process                              *)

MutQsizeSwapped ==
    /\ \/ /\ observer.pc = "idle"
          /\ observer' = [pc |-> "loaded", read_count |-> write_counter, empty |-> FALSE,
                          was_empty |-> write_counter = read_counter]
       \/ /\ observer.pc = "loaded"
          /\ observer' = [observer EXCEPT !.pc = "idle", !.read_count = 0,
                                          !.empty = observer.read_count - read_counter <= 0]
    /\ UNCHANGED <<write_counter, read_counter, shared_arrays, producer, consumer, received>>

\* was_empty is a history of the first load only, used by EmptyIsTrue
Qsize ==
    /\ \/ /\ observer.pc = "idle"
          /\ observer' = [pc |-> "loaded", read_count |-> read_counter, empty |-> FALSE,
                          was_empty |-> write_counter = read_counter]
       \/ /\ observer.pc = "loaded"
          /\ observer' = [observer EXCEPT !.pc = "idle", !.read_count = 0,
                                          !.empty = write_counter - observer.read_count <= 0]
    /\ UNCHANGED <<write_counter, read_counter, shared_arrays, producer, consumer, received>>

-----------------------------------------------------------------------------
ProducerStep ==
    \/ \E op \in {"put", "get_next_view"}, keys \in SUBSET Keys, val \in Vals :
          PutLoadRead(op, keys, val)
    \/ PutFull \/ PutAccept \/ PutNextView \/ PutCommit
    \/ \E key \in Keys : PutColumn(key)

ConsumerStep ==
    \/ \E op \in GetOps : GetLoadWrite(op)
    \/ GetEmpty \/ GetAdvance \/ ClearStore
    \/ \E k \in 1..BufferSize : GetAccept(k)
    \/ \E key \in Keys : GetColumn(key)

Next == ProducerStep \/ ConsumerStep \/ Qsize

Spec == Init /\ [][Next]_vars

-----------------------------------------------------------------------------
(* Properties                                                              *)

Batches(rows) == UNION {[1..k -> rows] : k \in 0..BufferSize}

ProducerLocals ==
    [pc : {"idle", "loaded", "columns"}, op : PutOps, keys : SUBSET Keys, val : Vals,
     read_count : Nat, write_count : Nat, todo : SUBSET Keys]

ConsumerLocals ==
    [pc : {"idle", "loaded", "columns"}, op : GetOps, read_count : Nat, write_count : Nat,
     k : 0..BufferSize, todo : SUBSET Keys, out : [Keys -> Batches(Vals)]]

ObserverLocals ==
    [pc : {"idle", "loaded"}, read_count : Nat, empty : BOOLEAN, was_empty : BOOLEAN]

\* The counters, the arrays and the locals of the three callers keep their types.
TypeOK ==
    /\ write_counter \in Nat /\ read_counter \in Nat
    /\ shared_arrays \in [Keys -> [Slots -> Vals]]
    /\ producer \in ProducerLocals
    /\ consumer \in ConsumerLocals
    /\ observer \in ObserverLocals
    /\ received \in Batches(Rows)

\* The read counter never overtakes the write counter and never falls more than
\* BufferSize behind it, although each side decides on a stale copy of the other's
\* counter (put 247-266, get_all 360-369, clear 244).
CountersBounded ==
    /\ read_counter <= write_counter
    /\ write_counter <= read_counter + BufferSize

\* A committed row that the consumer has not released keeps every column: the slot the
\* producer fills is never one the consumer may be copying (put's n_data check).
UnreadRowsStable ==
    [][\A n \in read_counter..(write_counter - 1), key \in Keys :
          shared_arrays'[key][n % BufferSize] = shared_arrays[key][n % BufferSize]]_vars

\* empty() answers True only when the queue was empty at the first of its two loads:
\* qsize loads the read counter before the write counter.
EmptyIsTrue ==
    observer.empty => observer.was_empty

\* The waiting rows, as the abstract queue sees them.
Unread ==
    [i \in 1..(write_counter - read_counter) |->
        [key \in Keys |-> shared_arrays[key][(read_counter + i - 1) % BufferSize]]]

FIFO == INSTANCE FIFOQueue WITH Capacity <- BufferSize, items <- Unread

\* "A Lock-Free FIFO Shared Memory Data Structure" (class docstring): with one producer
\* and one consumer the counters and columns implement a FIFO queue of whole rows.
ImplementsFIFO == FIFO!Spec
=============================================================================
