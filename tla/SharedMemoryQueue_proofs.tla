----------------------- MODULE SharedMemoryQueue_proofs -----------------------
(***************************************************************************)
(* The shared-memory queue is correct for every buffer size, every set of  *)
(* columns and values and every number of puts.  The proof rests on one    *)
(* inductive invariant: what each side knows about the other's counter is  *)
(* stale, but stale on the safe side.                                      *)
(***************************************************************************)
EXTENDS SharedMemoryQueue, SequenceTheorems, TLAPS

\* the row a slot sequence holds from a counter value on
Window(key, read_count, k) ==
    [i \in 1..k |-> shared_arrays[key][(read_count + i - 1) % BufferSize]]

\* the producer's copy of the read counter is old, so it sees less room than there is
ProducerInv ==
    /\ producer.pc # "idle" => producer.read_count <= read_counter
    /\ producer.pc = "columns" =>
          /\ producer.write_count = write_counter
          /\ write_counter < read_counter + BufferSize

\* the consumer's copy of the write counter is old, so it sees fewer rows than there are,
\* and what it has copied is still what the slots hold
ConsumerInv ==
    /\ consumer.pc = "loaded" =>
          /\ read_counter <= consumer.write_count
          /\ consumer.write_count <= write_counter
    /\ consumer.pc = "columns" =>
          /\ consumer.read_count = read_counter
          /\ consumer.k >= 1
          /\ read_counter + consumer.k <= write_counter
          /\ \A key \in Keys \ consumer.todo :
                consumer.out[key] = Window(key, read_counter, consumer.k)

ObserverInv ==
    /\ observer.pc = "loaded" =>
          /\ ~observer.empty
          /\ ~observer.was_empty => observer.read_count < write_counter
    /\ EmptyIsTrue

IInv == TypeOK /\ CountersBounded /\ ProducerInv /\ ConsumerInv /\ ObserverInv

-----------------------------------------------------------------------------
(* Slots                                                                   *)

\* The remainder is determined by any decomposition of a around the modulus.
LEMMA ModUnique ==
  ASSUME NEW B \in Nat \ {0}, NEW a \in Int, NEW q \in Int, NEW r \in 0..(B-1), a = B * q + r
  PROVE a % B = r
<1> DEFINE q1 == a \div B
           r1 == a % B
<1>1. q1 \in Int /\ r1 \in 0..(B-1) /\ a = B * q1 + r1
  OBVIOUS
<1> HIDE DEF q1, r1
<1>2. ASSUME q1 = q PROVE r1 = r
  BY <1>1, <1>2
<1>3. ASSUME q1 >= q + 1 PROVE r1 = r
  <2>1. B * (q1 - q) >= B BY <1>1, <1>3
  <2>2. B * (q1 - q) = r - r1 BY <1>1
  <2> QED BY <1>1, <2>1, <2>2
<1>4. ASSUME q >= q1 + 1 PROVE r1 = r
  <2>1. B * (q - q1) >= B BY <1>1, <1>4
  <2>2. B * (q - q1) = r1 - r BY <1>1
  <2> QED BY <1>1, <2>1, <2>2
<1>5. r1 = r BY <1>1, <1>2, <1>3, <1>4
<1> QED BY <1>5 DEF r1

\* Moving j slots on from a slot wraps around at most once (_get_k_impl 371-395).
LEMMA ModWrap ==
  ASSUME NEW B \in Nat \ {0}, NEW a \in Nat, NEW j \in 0..(B-1)
  PROVE (a + j) % B = IF (a % B) + j < B THEN (a % B) + j ELSE (a % B) + j - B
<1> DEFINE q == a \div B
           r == a % B
<1>1. q \in Int /\ r \in 0..(B-1) /\ a = B * q + r
  OBVIOUS
<1> HIDE DEF q, r
<1>2. CASE r + j < B
  <2>1. r + j \in 0..(B-1) /\ a + j = B * q + (r + j) BY <1>1, <1>2
  <2>2. (a + j) % B = r + j BY <1>1, <2>1, ModUnique
  <2> QED BY <1>2, <2>2 DEF r
<1>3. CASE ~(r + j < B)
  <2> DEFINE next == q + 1
             rest == r + j - B
  <2>1. rest \in 0..(B-1) BY <1>1, <1>3
  <2>2. next \in Int /\ a + j = B * next + rest BY <1>1
  <2> DEFINE sum == a + j
  <2>3. sum \in Int OBVIOUS
  <2> HIDE DEF next, rest, sum
  <2>4. sum % B = rest BY <2>1, <2>2, <2>3, ModUnique DEF sum
  <2> QED BY <1>3, <2>4 DEF r, rest, sum
<1> QED BY <1>2, <1>3

\* Two counter values less than BufferSize apart fall into different slots.
LEMMA ModDistinct ==
  ASSUME NEW B \in Nat \ {0}, NEW a \in Nat, NEW b \in Nat, a < b, b < a + B
  PROVE a % B # b % B
<1> DEFINE j == b - a
<1>1. b = a + j /\ j \in 0..(B-1) /\ j # 0 OBVIOUS
<1>2. a % B \in 0..(B-1) OBVIOUS
<1> HIDE DEF j
<1>3. (a + j) % B = IF (a % B) + j < B THEN (a % B) + j ELSE (a % B) + j - B
   BY <1>1, ModWrap
<1> QED BY <1>1, <1>2, <1>3

\* The two-part copy of _get_k_impl reads the k rows from the read counter on.
LEMMA CopyIsWindow ==
  ASSUME TypeOK, NEW key \in Keys, NEW read_count \in Nat, NEW k \in 0..BufferSize
  PROVE  /\ CopyColumn(key, read_count, k) = Window(key, read_count, k)
         /\ Window(key, read_count, k) \in [1..k -> Vals]
<1> DEFINE curr_idx == read_count % BufferSize
           first == IF k <= BufferSize - curr_idx THEN k ELSE BufferSize - curr_idx
           slot(i) == IF i <= first THEN curr_idx + i - 1 ELSE i - first - 1
<1>1. curr_idx \in 0..(BufferSize - 1)
  BY QueueAssumption
<1>2. ASSUME NEW i \in 1..k
      PROVE  (read_count + i - 1) % BufferSize = slot(i) /\ slot(i) \in Slots
  <2> DEFINE j == i - 1
  <2>1. j \in 0..(BufferSize - 1) /\ read_count + i - 1 = read_count + j
    BY QueueAssumption
  <2> HIDE DEF j
  <2>2. (read_count + j) % BufferSize =
          IF curr_idx + j < BufferSize THEN curr_idx + j ELSE curr_idx + j - BufferSize
    BY <2>1, ModWrap, QueueAssumption
  <2>3. slot(i) = IF curr_idx + j < BufferSize THEN curr_idx + j ELSE curr_idx + j - BufferSize
    <3> HIDE DEF curr_idx
    <3> QED BY <1>1, QueueAssumption DEF j
  <2>4. slot(i) \in Slots
    <3> HIDE DEF curr_idx
    <3> QED BY <1>1, <2>1, <2>3, QueueAssumption DEF Slots, j
  <2> QED BY <2>1, <2>2, <2>3, <2>4
<1>3. CopyColumn(key, read_count, k) = [i \in 1..k |-> shared_arrays[key][slot(i)]]
  BY DEF CopyColumn
<1>4. Window(key, read_count, k) = [i \in 1..k |-> shared_arrays[key][slot(i)]]
  <2> HIDE DEF slot
  <2> QED BY <1>2 DEF Window
<1>5. \A i \in 1..k : shared_arrays[key][slot(i)] \in Vals
  <2> HIDE DEF slot
  <2> QED BY <1>2 DEF TypeOK
<1> HIDE DEF slot
<1> QED BY <1>3, <1>4, <1>5

\* The slot a put fills is none of the slots that hold unread rows.
LEMMA FreshSlot ==
  ASSUME IInv, producer.pc = "columns",
         NEW n \in Nat, read_counter <= n, n < write_counter
  PROVE  n % BufferSize # producer.write_count % BufferSize
<1>1. n < write_counter /\ write_counter < n + BufferSize /\ write_counter \in Nat
  BY QueueAssumption DEF IInv, TypeOK, ProducerInv
<1>2. n % BufferSize # write_counter % BufferSize
  BY <1>1, ModDistinct, QueueAssumption
<1> QED BY <1>2 DEF IInv, ProducerInv

\* Filling a column leaves every window of unread rows as it was.
LEMMA WindowStable ==
  ASSUME IInv, NEW c \in Keys, PutColumn(c),
         NEW key \in Keys, NEW n \in Nat, read_counter <= n, n < write_counter
  PROVE  shared_arrays'[key][n % BufferSize] = shared_arrays[key][n % BufferSize]
<1>1. n % BufferSize # producer.write_count % BufferSize
  BY FreshSlot DEF PutColumn
<1>2. shared_arrays' = [shared_arrays EXCEPT ![c][producer.write_count % BufferSize] = producer.val]
  BY DEF PutColumn
<1>3. shared_arrays \in [Keys -> [Slots -> Vals]]
  BY DEF IInv, TypeOK
<1> HIDE DEF IInv
<1> QED BY <1>1, <1>2, <1>3


-----------------------------------------------------------------------------
(* The invariant                                                           *)

\* The locals of an idle caller and the empty batch have their types.
LEMMA IdleTyped ==
  /\ ProducerIdle \in ProducerLocals
  /\ ConsumerIdle \in ConsumerLocals
  /\ <<>> \in Batches(Rows)
<1>1. <<>> \in Batches(Rows) /\ <<>> \in Batches(Vals)
  BY QueueAssumption, 0 \in 0..BufferSize, <<>> \in [1..0 -> Rows], <<>> \in [1..0 -> Vals]
     DEF Batches
<1>2. [key \in Keys |-> <<>>] \in [Keys -> Batches(Vals)]
  BY <1>1
<1> QED
  BY <1>1, <1>2, QueueAssumption
     DEF ProducerIdle, ConsumerIdle, ProducerLocals, ConsumerLocals, PutOps, GetOps

\* Everything starts empty, idle and zero-filled.
LEMMA InitIInv == Init => IInv
<1> SUFFICES ASSUME Init PROVE IInv
  OBVIOUS
<1>1. TypeOK
  BY IdleTyped, QueueAssumption DEF Init, TypeOK, ObserverLocals
<1> QED BY <1>1, QueueAssumption
     DEF Init, IInv, CountersBounded, ProducerInv, ConsumerInv, ObserverInv, EmptyIsTrue,
         ProducerIdle, ConsumerIdle

\* What the columns operator and the accepted sizes return.
LEMMA TakenBounded ==
  ASSUME NEW op \in GetOps, op # "clear", NEW n \in Nat, n > 0, NEW k \in Taken(op, n)
  PROVE  k \in 1..n
BY DEF Taken, GetOps

\* A call touches columns of the queue only.
LEMMA ColumnsOfSubset ==
  ASSUME NEW op \in PutOps, NEW keys \in SUBSET Keys
  PROVE  ColumnsOf(op, keys) \in SUBSET Keys
BY DEF ColumnsOf, PutOps

\* A producer step keeps the invariant.
LEMMA ProducerIInv == IInv /\ ProducerStep => IInv'
<1> SUFFICES ASSUME IInv, ProducerStep PROVE IInv'
  OBVIOUS
<1> USE QueueAssumption
<1>1. ASSUME NEW op \in {"put", "get_next_view"}, NEW keys \in SUBSET Keys, NEW val \in Vals,
             PutLoadRead(op, keys, val)
      PROVE  IInv'
  <2>1. TypeOK'
    BY <1>1 DEF PutLoadRead, IInv, TypeOK, ProducerLocals, PutOps
  <2>2. CountersBounded' /\ ProducerInv'
    BY <1>1 DEF PutLoadRead, IInv, TypeOK, CountersBounded, ProducerInv, ProducerLocals
  <2>3. ConsumerInv' /\ ObserverInv'
    BY <1>1 DEF PutLoadRead, IInv, ConsumerInv, ObserverInv, EmptyIsTrue, Window
  <2> QED BY <2>1, <2>2, <2>3 DEF IInv
<1>2. CASE PutFull
  <2>1. TypeOK'
    BY <1>2, IdleTyped DEF PutFull, IInv, TypeOK
  <2>2. CountersBounded' /\ ProducerInv'
    BY <1>2 DEF PutFull, IInv, CountersBounded, ProducerInv, ProducerIdle
  <2>3. ConsumerInv' /\ ObserverInv'
    BY <1>2 DEF PutFull, IInv, ConsumerInv, ObserverInv, EmptyIsTrue, Window
  <2> QED BY <2>1, <2>2, <2>3 DEF IInv
<1>3. CASE PutAccept
  <2>1. ColumnsOf(producer.op, producer.keys) \in SUBSET Keys
    BY ColumnsOfSubset DEF IInv, TypeOK, ProducerLocals
  <2>2. TypeOK'
    BY <1>3, <2>1 DEF PutAccept, IInv, TypeOK, ProducerLocals
  <2>3. CountersBounded' /\ ProducerInv'
    BY <1>3 DEF PutAccept, IInv, TypeOK, CountersBounded, ProducerInv, ProducerLocals
  <2>4. ConsumerInv' /\ ObserverInv'
    BY <1>3 DEF PutAccept, IInv, ConsumerInv, ObserverInv, EmptyIsTrue, Window
  <2> QED BY <2>2, <2>3, <2>4 DEF IInv
<1>4. CASE PutNextView
  <2>1. TypeOK'
    BY <1>4 DEF PutNextView, IInv, TypeOK, ProducerLocals, PutOps
  <2>2. CountersBounded' /\ ProducerInv'
    BY <1>4 DEF PutNextView, IInv, TypeOK, CountersBounded, ProducerInv, ProducerLocals
  <2>3. ConsumerInv' /\ ObserverInv'
    BY <1>4 DEF PutNextView, IInv, ConsumerInv, ObserverInv, EmptyIsTrue, Window
  <2> QED BY <2>1, <2>2, <2>3 DEF IInv
<1>5. CASE PutCommit
  <2>1. TypeOK'
    BY <1>5, IdleTyped DEF PutCommit, IInv, TypeOK
  <2>2. CountersBounded' /\ ProducerInv'
    BY <1>5 DEF PutCommit, IInv, TypeOK, CountersBounded, ProducerInv, ProducerIdle
  <2>3. ConsumerInv' /\ ObserverInv'
    BY <1>5 DEF PutCommit, IInv, TypeOK, ConsumerInv, ObserverInv, EmptyIsTrue, Window,
                ConsumerLocals, ObserverLocals
  <2> QED BY <2>1, <2>2, <2>3 DEF IInv
<1>6. ASSUME NEW c \in Keys, PutColumn(c) PROVE IInv'
  <2>1. TypeOK'
    BY <1>6 DEF PutColumn, IInv, TypeOK, ProducerLocals
  <2>2. CountersBounded' /\ ProducerInv' /\ ObserverInv'
    BY <1>6 DEF PutColumn, IInv, TypeOK, CountersBounded, ProducerInv, ObserverInv, EmptyIsTrue
  <2>3. ASSUME consumer.pc = "columns", NEW key \in Keys \ consumer.todo
        PROVE  consumer.out[key] = Window(key, read_counter, consumer.k)'
    <3>1. consumer.out[key] = Window(key, read_counter, consumer.k)
      BY <2>3 DEF IInv, ConsumerInv
    <3>2. \A i \in 1..consumer.k :
             /\ read_counter + i - 1 \in Nat
             /\ read_counter <= read_counter + i - 1
             /\ read_counter + i - 1 < write_counter
      BY <2>3 DEF IInv, TypeOK, ConsumerInv, ConsumerLocals
    <3>3. \A i \in 1..consumer.k :
             shared_arrays'[key][(read_counter + i - 1) % BufferSize]
                = shared_arrays[key][(read_counter + i - 1) % BufferSize]
      BY <1>6, <3>2, WindowStable
    <3>4. consumer' = consumer /\ read_counter' = read_counter
      BY <1>6 DEF PutColumn
    <3> QED BY <3>1, <3>3, <3>4 DEF Window
  <2>4. ConsumerInv'
    BY <1>6, <2>3 DEF PutColumn, IInv, ConsumerInv
  <2> QED BY <2>1, <2>2, <2>4 DEF IInv
<1> QED BY <1>1, <1>2, <1>3, <1>4, <1>5, <1>6 DEF ProducerStep


\* A consumer step keeps the invariant.
LEMMA ConsumerIInv == IInv /\ ConsumerStep => IInv'
<1> SUFFICES ASSUME IInv, ConsumerStep PROVE IInv'
  OBVIOUS
<1> USE QueueAssumption
<1>1. ASSUME NEW op \in GetOps, GetLoadWrite(op) PROVE IInv'
  <2>1. TypeOK'
    BY <1>1 DEF GetLoadWrite, IInv, TypeOK, ConsumerLocals
  <2>2. CountersBounded' /\ ProducerInv' /\ ObserverInv'
    BY <1>1 DEF GetLoadWrite, IInv, CountersBounded, ProducerInv, ObserverInv, EmptyIsTrue
  <2>3. ConsumerInv'
    BY <1>1 DEF GetLoadWrite, IInv, TypeOK, CountersBounded, ConsumerInv, ConsumerLocals
  <2> QED BY <2>1, <2>2, <2>3 DEF IInv
<1>2. CASE GetEmpty
  <2>1. TypeOK'
    BY <1>2, IdleTyped DEF GetEmpty, IInv, TypeOK
  <2>2. CountersBounded' /\ ProducerInv' /\ ObserverInv'
    BY <1>2 DEF GetEmpty, IInv, CountersBounded, ProducerInv, ObserverInv, EmptyIsTrue
  <2>3. ConsumerInv'
    BY <1>2 DEF GetEmpty, ConsumerInv, ConsumerIdle
  <2> QED BY <2>1, <2>2, <2>3 DEF IInv
<1>3. CASE GetAdvance
  <2>1. consumer.k \in 1..BufferSize /\ read_counter + consumer.k <= write_counter
    BY <1>3 DEF GetAdvance, IInv, TypeOK, ConsumerInv, ConsumerLocals
  <2>2. \A key \in Keys : consumer.out[key] \in [1..consumer.k -> Vals]
    <3>1. \A key \in Keys : consumer.out[key] = Window(key, read_counter, consumer.k)
      BY <1>3 DEF GetAdvance, IInv, ConsumerInv
    <3>2. \A key \in Keys : Window(key, read_counter, consumer.k) \in [1..consumer.k -> Vals]
      BY <2>1, CopyIsWindow DEF IInv, TypeOK
    <3> QED BY <3>1, <3>2
  <2>3. received' \in Batches(Rows)
    <3>1. received' \in [1..consumer.k -> Rows]
      BY <1>3, <2>1, <2>2 DEF GetAdvance, Rows
    <3> QED BY <2>1, <3>1 DEF Batches
  <2>4. TypeOK'
    BY <1>3, <2>1, <2>3, IdleTyped DEF GetAdvance, IInv, TypeOK
  <2>5. CountersBounded' /\ ProducerInv' /\ ObserverInv'
    BY <1>3, <2>1 DEF GetAdvance, IInv, TypeOK, CountersBounded, ProducerInv, ObserverInv,
                      EmptyIsTrue, ProducerLocals
  <2>6. ConsumerInv'
    BY <1>3 DEF GetAdvance, ConsumerInv, ConsumerIdle
  <2> QED BY <2>4, <2>5, <2>6 DEF IInv
<1>4. CASE ClearStore
  <2>1. read_counter <= consumer.write_count /\ consumer.write_count <= write_counter
    BY <1>4 DEF ClearStore, IInv, ConsumerInv
  <2>2. TypeOK'
    BY <1>4, IdleTyped DEF ClearStore, IInv, TypeOK, ConsumerLocals
  <2>3. CountersBounded' /\ ProducerInv' /\ ObserverInv'
    BY <1>4, <2>1 DEF ClearStore, IInv, TypeOK, CountersBounded, ProducerInv, ObserverInv,
                      EmptyIsTrue, ProducerLocals, ConsumerLocals
  <2>4. ConsumerInv'
    BY <1>4 DEF ClearStore, ConsumerInv, ConsumerIdle
  <2> QED BY <2>2, <2>3, <2>4 DEF IInv
<1>5. ASSUME NEW k \in 1..BufferSize, GetAccept(k) PROVE IInv'
  <2>1. k <= consumer.write_count - read_counter
    BY <1>5, TakenBounded DEF GetAccept, IInv, TypeOK, ConsumerLocals
  <2> DEFINE none == [key \in Keys |-> <<>>]
  <2>2. none \in [Keys -> Batches(Vals)]
    BY IdleTyped DEF ConsumerLocals, ConsumerIdle
  <2>3. TypeOK'
    <3>1. consumer' = [consumer EXCEPT !.pc = "columns", !.read_count = read_counter, !.k = k,
                                       !.todo = Keys, !.out = none]
      BY <1>5 DEF GetAccept
    <3> HIDE DEF none
    <3>2. k \in 0..BufferSize /\ read_counter \in Nat /\ Keys \in SUBSET Keys
      BY DEF IInv, TypeOK
    <3>3. consumer \in ConsumerLocals
      BY DEF IInv, TypeOK
    <3>4. consumer' \in ConsumerLocals
      BY <2>2, <3>1, <3>2, <3>3 DEF ConsumerLocals
    <3> QED BY <1>5, <3>4 DEF GetAccept, IInv, TypeOK
  <2>4. CountersBounded' /\ ProducerInv' /\ ObserverInv'
    BY <1>5 DEF GetAccept, IInv, CountersBounded, ProducerInv, ObserverInv, EmptyIsTrue
  <2>5. ConsumerInv'
    BY <1>5, <2>1 DEF GetAccept, IInv, TypeOK, ConsumerInv, ConsumerLocals
  <2> QED BY <2>3, <2>4, <2>5 DEF IInv
<1>6. ASSUME NEW c \in Keys, GetColumn(c) PROVE IInv'
  <2>1. consumer.pc = "columns" /\ consumer.k \in 0..BufferSize /\ read_counter \in Nat
    BY <1>6 DEF GetColumn, IInv, TypeOK, ConsumerLocals
  <2> DEFINE copy == Window(c, read_counter, consumer.k)
  <2>2. CopyColumn(c, consumer.read_count, consumer.k) = copy /\ copy \in Batches(Vals)
    <3>1. consumer.read_count = read_counter
      BY <2>1 DEF IInv, ConsumerInv
    <3>2. /\ CopyColumn(c, read_counter, consumer.k) = copy
          /\ copy \in [1..consumer.k -> Vals]
      BY <2>1, CopyIsWindow DEF IInv
    <3> HIDE DEF copy
    <3> QED BY <2>1, <3>1, <3>2 DEF Batches
  <2> HIDE DEF copy
  <2>3. consumer' = [consumer EXCEPT !.todo = @ \ {c}, !.out[c] = copy]
    BY <1>6, <2>2 DEF GetColumn
  <2>4. TypeOK'
    <3>1. consumer' \in ConsumerLocals
      BY <2>2, <2>3 DEF IInv, TypeOK, ConsumerLocals
    <3> QED BY <1>6, <3>1 DEF GetColumn, IInv, TypeOK
  <2>5. CountersBounded' /\ ProducerInv' /\ ObserverInv'
    BY <1>6 DEF GetColumn, IInv, CountersBounded, ProducerInv, ObserverInv, EmptyIsTrue
  <2>6. ConsumerInv'
    <3>1. UNCHANGED <<read_counter, write_counter, shared_arrays>>
      BY <1>6 DEF GetColumn
    <3>2. \A key \in Keys : consumer'.out[key] = IF key = c THEN copy ELSE consumer.out[key]
      BY <2>3 DEF IInv, TypeOK, ConsumerLocals
    <3>3. /\ consumer'.pc = "columns" /\ consumer'.todo = consumer.todo \ {c}
          /\ consumer'.k = consumer.k /\ consumer'.read_count = consumer.read_count
      BY <2>1, <2>3 DEF IInv, TypeOK, ConsumerLocals
    <3>4. \A key \in Keys : Window(key, read_counter, consumer.k)'
                              = Window(key, read_counter, consumer.k)
      BY <3>1, <3>3 DEF Window
    <3>5. ASSUME NEW key \in Keys, key \notin consumer'.todo
          PROVE  consumer'.out[key] = Window(key, read_counter, consumer.k)
      BY <2>1, <3>2, <3>3, <3>5 DEF copy, IInv, ConsumerInv
    <3> QED BY <2>1, <3>1, <3>3, <3>4, <3>5 DEF IInv, ConsumerInv
  <2> QED BY <2>4, <2>5, <2>6 DEF IInv
<1> QED BY <1>1, <1>2, <1>3, <1>4, <1>5, <1>6 DEF ConsumerStep

\* So does a step of qsize: what it loaded first can only have grown older.
LEMMA ObserverIInv == IInv /\ Qsize => IInv'
<1> SUFFICES ASSUME IInv, Qsize PROVE IInv'
  OBVIOUS
<1>1. CountersBounded' /\ ProducerInv' /\ ConsumerInv'
  BY DEF Qsize, IInv, CountersBounded, ProducerInv, ConsumerInv, Window
<1> DEFINE nothing == write_counter = read_counter
           none_seen == write_counter - observer.read_count <= 0
<1>2. nothing \in BOOLEAN /\ none_seen \in BOOLEAN
  OBVIOUS
<1>3. CASE observer.pc = "idle"
  <2>1. observer' = [pc |-> "loaded", read_count |-> read_counter, empty |-> FALSE,
                     was_empty |-> nothing]
    BY <1>3 DEF Qsize
  <2>2. ~nothing => read_counter < write_counter
    BY DEF IInv, TypeOK, CountersBounded
  <2> HIDE DEF nothing
  <2>3. observer' \in ObserverLocals
    BY <1>2, <2>1 DEF IInv, TypeOK, ObserverLocals
  <2>4. /\ observer'.pc = "loaded" /\ observer'.read_count = read_counter
        /\ observer'.empty = FALSE /\ observer'.was_empty = nothing
    BY <2>1
  <2>5. TypeOK' /\ ObserverInv'
    BY <2>2, <2>3, <2>4 DEF Qsize, IInv, TypeOK, ObserverInv, EmptyIsTrue
  <2> QED BY <1>1, <2>5 DEF IInv
<1>4. CASE observer.pc = "loaded"
  <2>1. observer' = [observer EXCEPT !.pc = "idle", !.read_count = 0, !.empty = none_seen]
    BY <1>4 DEF Qsize
  <2>2. none_seen => ~(observer.read_count < write_counter)
    BY DEF IInv, TypeOK, ObserverLocals
  <2> HIDE DEF none_seen
  <2>3. observer' \in ObserverLocals
    BY <1>2, <2>1 DEF IInv, TypeOK, ObserverLocals
  <2>4. /\ observer'.pc = "idle" /\ observer'.empty = none_seen
        /\ observer'.was_empty = observer.was_empty
    BY <2>1 DEF IInv, TypeOK, ObserverLocals
  <2>5. ~observer.was_empty => observer.read_count < write_counter
    BY <1>4 DEF IInv, ObserverInv
  <2>6. TypeOK' /\ ObserverInv'
    BY <2>2, <2>3, <2>4, <2>5 DEF Qsize, IInv, TypeOK, ObserverInv, EmptyIsTrue
  <2> QED BY <1>1, <2>6 DEF IInv
<1> QED BY <1>3, <1>4 DEF Qsize

\* No step of either side or of the observer breaks the invariant.
LEMMA NextIInv == IInv /\ [Next]_vars => IInv'
<1> SUFFICES ASSUME IInv, [Next]_vars PROVE IInv'
  OBVIOUS
<1>1. CASE UNCHANGED vars
  BY <1>1 DEF vars, IInv, TypeOK, CountersBounded, ProducerInv, ConsumerInv, ObserverInv,
              EmptyIsTrue, Window
<1> QED BY <1>1, ProducerIInv, ConsumerIInv, ObserverIInv DEF Next

-----------------------------------------------------------------------------
(* The theorems                                                            *)

\* The strengthened invariant holds in every reachable state.
THEOREM Invariance == Spec => []IInv
BY InitIInv, NextIInv, PTL DEF Spec

\* Counters, arrays and locals keep their types, for every queue.
THEOREM TypeCorrect == Spec => []TypeOK
<1>1. IInv => TypeOK
  BY DEF IInv
<1> QED BY <1>1, Invariance, PTL

\* The queue never holds fewer than zero or more than BufferSize rows, although put and
\* get each decide on an old value of the other's counter.
THEOREM BoundedOccupancy == Spec => []CountersBounded
<1>1. IInv => CountersBounded
  BY DEF IInv
<1> QED BY <1>1, Invariance, PTL

\* empty() never answers True for a queue that held a row all along.
THEOREM EmptyAnswers == Spec => []EmptyIsTrue
<1>1. IInv => EmptyIsTrue
  BY DEF IInv, ObserverInv
<1> QED BY <1>1, Invariance, PTL

\* No put ever touches a column of a row that waits to be read.
THEOREM NoOverwrite == Spec => UnreadRowsStable
<1> DEFINE Kept == \A n \in read_counter..(write_counter - 1), key \in Keys :
                      shared_arrays'[key][n % BufferSize] = shared_arrays[key][n % BufferSize]
<1>1. IInv /\ [Next]_vars => [Kept]_vars
  <2> SUFFICES ASSUME IInv, [Next]_vars, ~UNCHANGED vars PROVE Kept
    OBVIOUS
  <2>1. ASSUME NEW c \in Keys, PutColumn(c) PROVE Kept
    <3>1. \A n \in read_counter..(write_counter - 1) :
             n \in Nat /\ read_counter <= n /\ n < write_counter
      BY DEF IInv, TypeOK
    <3> QED BY <2>1, <3>1, WindowStable
  <2>2. CASE UNCHANGED shared_arrays
    BY <2>2
  <2>3. (\E c \in Keys : PutColumn(c)) \/ UNCHANGED shared_arrays
    BY DEF Next, ProducerStep, ConsumerStep, PutLoadRead, PutFull, PutAccept, PutNextView,
           PutCommit, GetLoadWrite, GetEmpty, GetAdvance, ClearStore, GetAccept, GetColumn, Qsize
  <2> QED BY <2>1, <2>2, <2>3
<1> QED BY <1>1, Invariance, PTL DEF Spec, UnreadRowsStable


-----------------------------------------------------------------------------
(* The queue implements the abstract FIFO                                  *)

UnreadIsRows ==
    /\ Unread \in Seq(Rows)
    /\ Len(Unread) = write_counter - read_counter
    /\ \A i \in 1..(write_counter - read_counter) :
          Unread[i] = [key \in Keys |-> shared_arrays[key][(read_counter + i - 1) % BufferSize]]

\* The waiting rows are a sequence of whole rows, one per count.
LEMMA UnreadIsSequence == IInv => UnreadIsRows
<1> SUFFICES ASSUME IInv PROVE UnreadIsRows
  OBVIOUS
<1> DEFINE len == write_counter - read_counter
           row(i) == [key \in Keys |-> shared_arrays[key][(read_counter + i - 1) % BufferSize]]
<1>1. len \in Nat
  BY DEF IInv, TypeOK, CountersBounded
<1>2. ASSUME NEW i \in 1..len PROVE row(i) \in Rows
  <2>1. (read_counter + i - 1) % BufferSize \in Slots
    BY <1>1, QueueAssumption DEF IInv, TypeOK, Slots
  <2> QED BY <2>1 DEF IInv, TypeOK, Rows
<1>3. Unread = [i \in 1..len |-> row(i)]
  BY DEF Unread
<1> HIDE DEF len, row
<1>4. Unread \in Seq(Rows) /\ Len(Unread) = len /\ \A i \in 1..len : Unread[i] = row(i)
  BY <1>1, <1>2, <1>3
<1> QED BY <1>4 DEF len, row, UnreadIsRows


\* releasing n rows removes exactly the n oldest
LEMMA Release ==
  ASSUME IInv, IInv', NEW n \in Nat, read_counter + n <= write_counter,
         read_counter' = read_counter + n, UNCHANGED <<write_counter, shared_arrays>>
  PROVE  Unread' = SubSeq(Unread, n + 1, Len(Unread))
<1> DEFINE len == write_counter - read_counter
           rest == SubSeq(Unread, n + 1, len)
<1>1. len \in Nat /\ n <= len /\ Len(Unread) = len
  BY UnreadIsSequence DEF IInv, TypeOK, UnreadIsRows
<1>2. \A i \in 1..len : Unread[i] \in Rows
  BY UnreadIsSequence, ElementOfSeq DEF UnreadIsRows
<1>3. /\ rest \in Seq(Rows)
      /\ Len(rest) = len - n
      /\ \A i \in 1..(len - n) : rest[i] = Unread[n + i]
  <2>1. /\ SubSeq(Unread, n + 1, len) \in Seq(Rows)
        /\ Len(SubSeq(Unread, n + 1, len)) = IF n + 1 <= len THEN len - (n + 1) + 1 ELSE 0
        /\ \A i \in 1..(len - (n + 1) + 1) :
              SubSeq(Unread, n + 1, len)[i] = Unread[n + 1 + i - 1]
    <3>1. \A i \in (n + 1)..len : Unread[i] \in Rows
      BY <1>1, <1>2
    <3> HIDE DEF len
    <3> QED BY <1>1, <3>1, SubSeqProperties
  <2> HIDE DEF len
  <2>2. len - (n + 1) + 1 = len - n /\ \A i \in 1..(len - n) : n + 1 + i - 1 = n + i
    BY <1>1
  <2> QED BY <1>1, <2>1, <2>2
<1>4. /\ Unread' \in Seq(Rows)
      /\ Len(Unread)' = len - n
      /\ \A i \in 1..(len - n) :
            Unread'[i] = [key \in Keys |-> shared_arrays[key][(read_counter + n + i - 1) % BufferSize]]
  <2>1. /\ Unread' \in Seq(Rows)
        /\ Len(Unread)' = (write_counter - read_counter)'
        /\ \A i \in 1..(write_counter - read_counter)' :
              Unread'[i] = [key \in Keys |-> shared_arrays'[key][(read_counter' + i - 1) % BufferSize]]
    <3>1. IInv' => UnreadIsRows'
      BY UnreadIsSequence, PTL
    <3> QED BY <3>1 DEF UnreadIsRows
  <2>2. (write_counter - read_counter)' = len - n
    BY DEF IInv, TypeOK
  <2> HIDE DEF len
  <2> QED BY <2>1, <2>2
<1>5. ASSUME NEW i \in 1..(len - n)
      PROVE  /\ n + i \in 1..len
             /\ read_counter + (n + i) - 1 = read_counter + n + i - 1
  BY <1>1 DEF IInv, TypeOK
<1>6. \A i \in 1..(len - n) : Unread'[i] = rest[i]
  BY <1>3, <1>4, <1>5, UnreadIsSequence DEF UnreadIsRows
<1> HIDE DEF len, rest
<1>7. Unread' = rest
  BY <1>3, <1>4, <1>6, SeqEqual
<1> QED BY <1>1, <1>7 DEF rest


\* what a read hands over are the oldest waiting rows
LEMMA ReadsOldest ==
  ASSUME IInv, GetAdvance
  PROVE  received' = SubSeq(Unread, 1, consumer.k) /\ consumer.k \in 1..Len(Unread)
<1> DEFINE len == write_counter - read_counter
           k == consumer.k
<1>1. k \in 1..len /\ Len(Unread) = len /\ len \in Nat
  BY UnreadIsSequence
     DEF GetAdvance, IInv, TypeOK, ConsumerInv, ConsumerLocals, CountersBounded, UnreadIsRows
<1>2. \A i \in 1..len : Unread[i] \in Rows
  BY UnreadIsSequence, ElementOfSeq DEF UnreadIsRows
<1>3. /\ SubSeq(Unread, 1, k) \in Seq(Rows)
      /\ Len(SubSeq(Unread, 1, k)) = k
      /\ \A i \in 1..k : SubSeq(Unread, 1, k)[i] = Unread[i]
  <2>1. /\ SubSeq(Unread, 1, k) \in Seq(Rows)
        /\ Len(SubSeq(Unread, 1, k)) = IF 1 <= k THEN k - 1 + 1 ELSE 0
        /\ \A i \in 1..(k - 1 + 1) : SubSeq(Unread, 1, k)[i] = Unread[1 + i - 1]
    <3>1. \A i \in 1..k : Unread[i] \in Rows
      BY <1>1, <1>2
    <3> HIDE DEF k, len
    <3> QED BY <1>1, <3>1, SubSeqProperties
  <2> HIDE DEF k, len
  <2>2. k - 1 + 1 = k /\ 1 <= k /\ \A i \in 1..k : 1 + i - 1 = i
    BY <1>1
  <2> QED BY <2>1, <2>2
<1>4. ASSUME NEW i \in 1..k
      PROVE  [key \in Keys |-> consumer.out[key][i]] = Unread[i]
  <2>1. \A key \in Keys : consumer.out[key] = Window(key, read_counter, k)
    BY DEF GetAdvance, IInv, ConsumerInv
  <2>2. \A key \in Keys : consumer.out[key][i]
                            = shared_arrays[key][(read_counter + i - 1) % BufferSize]
    <3> HIDE DEF k
    <3> QED BY <2>1 DEF Window
  <2>3. Unread[i] = [key \in Keys |-> shared_arrays[key][(read_counter + i - 1) % BufferSize]]
    BY <1>1, UnreadIsSequence DEF UnreadIsRows
  <2> QED BY <2>2, <2>3
<1>5. received' = [i \in 1..k |-> Unread[i]]
  <2>1. received' = [i \in 1..k |-> [key \in Keys |-> consumer.out[key][i]]]
    BY DEF GetAdvance
  <2> QED BY <1>4, <2>1
<1> HIDE DEF k, len
<1>6. \A i \in 1..k : Unread[i] \in Rows
  BY <1>1, <1>2
<1>7. received' \in Seq(Rows) /\ Len(received') = k /\ \A i \in 1..k : received'[i] = Unread[i]
  BY <1>1, <1>5, <1>6
<1>8. received' = SubSeq(Unread, 1, k)
  BY <1>3, <1>7, SeqEqual
<1> QED BY <1>1, <1>8 DEF k

\* a commit appends the row whose columns were just filled
LEMMA CommitAppends ==
  ASSUME IInv, IInv', PutCommit
  PROVE  \E row \in Rows : Unread' = Append(Unread, row) /\ Len(Unread) < BufferSize
<1> DEFINE len == write_counter - read_counter
           row == [key \in Keys |-> shared_arrays[key][write_counter % BufferSize]]
<1>1. len \in Nat /\ Len(Unread) = len /\ len < BufferSize /\ Unread \in Seq(Rows)
  BY UnreadIsSequence, QueueAssumption
     DEF PutCommit, IInv, TypeOK, ProducerInv, CountersBounded, UnreadIsRows
<1>2. row \in Rows
  BY QueueAssumption DEF IInv, TypeOK, Rows, Slots
<1>3. (write_counter - read_counter)' = len + 1 /\ UNCHANGED <<read_counter, shared_arrays>>
  BY DEF PutCommit, IInv, TypeOK
<1>4. /\ Unread' \in Seq(Rows)
      /\ Len(Unread)' = len + 1
      /\ \A i \in 1..(len + 1) :
            Unread'[i] = [key \in Keys |-> shared_arrays[key][(read_counter + i - 1) % BufferSize]]
  <2>1. IInv' => UnreadIsRows'
    BY UnreadIsSequence, PTL
  <2> HIDE DEF len
  <2> QED BY <1>3, <2>1 DEF UnreadIsRows
<1>5. \A i \in 1..len : Unread'[i] = Unread[i]
  BY <1>1, <1>4, UnreadIsSequence DEF UnreadIsRows
<1>6. Unread'[len + 1] = row
  <2>1. read_counter + (len + 1) - 1 = write_counter /\ len + 1 \in 1..(len + 1)
    BY <1>1 DEF IInv, TypeOK
  <2> HIDE DEF len
  <2> QED BY <1>4, <2>1
<1> HIDE DEF len, row
<1>7. /\ Append(Unread, row) \in Seq(Rows)
      /\ Len(Append(Unread, row)) = len + 1
      /\ \A i \in 1..len : Append(Unread, row)[i] = Unread[i]
      /\ Append(Unread, row)[len + 1] = row
  BY <1>1, <1>2, AppendProperties
<1>8. \A i \in 1..(len + 1) : Unread'[i] = Append(Unread, row)[i]
  <2> TAKE i \in 1..(len + 1)
  <2>1. i \in 1..len \/ i = len + 1
    BY <1>1
  <2> QED BY <1>5, <1>6, <1>7, <2>1
<1>9. Unread' = Append(Unread, row)
  BY <1>4, <1>7, <1>8, SeqEqual
<1> QED BY <1>1, <1>2, <1>9

\* filling a column of a slot that is not committed changes no waiting row
LEMMA ColumnInvisible ==
  ASSUME IInv, NEW c \in Keys, PutColumn(c)
  PROVE  Unread' = Unread
<1>1. \A i \in 1..(write_counter - read_counter) :
         /\ read_counter + i - 1 \in Nat
         /\ read_counter <= read_counter + i - 1
         /\ read_counter + i - 1 < write_counter
  BY DEF IInv, TypeOK
<1>2. \A i \in 1..(write_counter - read_counter), key \in Keys :
         shared_arrays'[key][(read_counter + i - 1) % BufferSize]
            = shared_arrays[key][(read_counter + i - 1) % BufferSize]
  BY <1>1, WindowStable
<1>3. UNCHANGED <<read_counter, write_counter>>
  BY DEF PutColumn
<1> QED BY <1>2, <1>3 DEF Unread

\* Every step of the two processes is a step of the abstract queue or invisible to it.
LEMMA StepSimulation ==
  ASSUME IInv, IInv', [Next]_vars
  PROVE  [FIFO!Next]_(FIFO!vars)
<1>1. CASE PutCommit
  <2>1. PICK row \in Rows : Unread' = Append(Unread, row) /\ Len(Unread) < BufferSize
    BY <1>1, CommitAppends
  <2>2. FIFO!Put(row)
    BY <1>1, <2>1 DEF PutCommit, FIFO!Put
  <2> QED BY <2>2 DEF FIFO!Next
<1>2. CASE GetAdvance
  <2>1. received' = SubSeq(Unread, 1, consumer.k) /\ consumer.k \in 1..Len(Unread)
    BY <1>2, ReadsOldest
  <2>2. Unread' = SubSeq(Unread, consumer.k + 1, Len(Unread))
    <3>1. consumer.k \in Nat /\ read_counter + consumer.k <= write_counter
      BY <1>2 DEF GetAdvance, IInv, TypeOK, ConsumerInv, ConsumerLocals
    <3> QED BY <1>2, <3>1, Release DEF GetAdvance
  <2>3. FIFO!Take(consumer.k)
    BY <2>1, <2>2 DEF FIFO!Take
  <2> QED BY <2>1, <2>3 DEF FIFO!Next
<1>3. CASE ClearStore
  <2> DEFINE n == consumer.write_count - read_counter
  <2>1. n \in Nat /\ read_counter + n <= write_counter /\ read_counter' = read_counter + n
    BY <1>3 DEF ClearStore, IInv, TypeOK, ConsumerInv, ConsumerLocals
  <2> HIDE DEF n
  <2>2. Unread' = SubSeq(Unread, n + 1, Len(Unread))
    BY <1>3, <2>1, Release DEF ClearStore
  <2>3. CASE n = 0
    <3>1. UNCHANGED <<read_counter, write_counter, shared_arrays, received>>
      BY <1>3, <2>1, <2>3 DEF ClearStore, IInv, TypeOK
    <3> QED BY <3>1 DEF FIFO!vars, Unread
  <2>4. CASE n # 0
    <3>1. n \in 1..Len(Unread)
      BY <2>1, <2>4, UnreadIsSequence DEF UnreadIsRows, IInv, TypeOK
    <3>2. FIFO!Discard(n)
      BY <1>3, <2>2 DEF FIFO!Discard, ClearStore
    <3> QED BY <3>1, <3>2 DEF FIFO!Next
  <2> QED BY <2>3, <2>4
<1>4. ASSUME NEW c \in Keys, PutColumn(c) PROVE UNCHANGED FIFO!vars
  BY <1>4, ColumnInvisible DEF PutColumn, FIFO!vars
<1>5. CASE UNCHANGED <<read_counter, write_counter, shared_arrays, received>>
  BY <1>5 DEF FIFO!vars, Unread
<1>6. \/ PutCommit \/ GetAdvance \/ ClearStore \/ \E c \in Keys : PutColumn(c)
      \/ UNCHANGED <<read_counter, write_counter, shared_arrays, received>>
  BY DEF Next, vars, ProducerStep, ConsumerStep, PutLoadRead, PutFull, PutAccept, PutNextView,
         GetLoadWrite, GetEmpty, GetAccept, GetColumn, Qsize
<1> QED BY <1>1, <1>2, <1>3, <1>4, <1>5, <1>6

\* With one producer and one consumer the lock-free structure is a bounded FIFO queue of
\* whole rows, whatever its size and its columns.
THEOREM Refinement == Spec => ImplementsFIFO
<1>1. Init => FIFO!Init
  <2> SUFFICES ASSUME Init PROVE FIFO!Init
    OBVIOUS
  <2>1. write_counter - read_counter = 0
    BY DEF Init
  <2>2. Unread = <<>>
    <3>1. Unread \in Seq(Rows) /\ Len(Unread) = 0
      BY <2>1, InitIInv, UnreadIsSequence DEF UnreadIsRows
    <3> QED BY <3>1, EmptySeq
  <2> QED BY <2>2 DEF Init, FIFO!Init
<1>2. IInv /\ IInv' /\ [Next]_vars => [FIFO!Next]_(FIFO!vars)
  BY StepSimulation
<1> QED BY <1>1, <1>2, Invariance, PTL DEF Spec, ImplementsFIFO, FIFO!Spec

=============================================================================
