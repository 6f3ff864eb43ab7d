------------------------ MODULE ReplayBuffers_proofs ------------------------
(***************************************************************************)
(* What a primitive's replay rows may be relied on for, for every          *)
(* capacity, policy and number of demonstrations, through any number of    *)
(* saves and restarts.                                                     *)
(***************************************************************************)
EXTENDS ReplayBuffers, SequenceTheorems, FiniteSetTheorems, TLAPS

Row == [state : Int, next : Int, done : BOOLEAN, truncated : BOOLEAN, intervention : BOOLEAN]

Frame == [state : Int, done : BOOLEAN, episode : Nat, intervention : BOOLEAN]

Buffer == [rows : Seq(Row), position : Nat, capacity : Nat, optimized : BOOLEAN]

\* a ring is filled from its first row and turns over once it is full
Whole(b) ==
    /\ b \in Buffer
    /\ Len(b.rows) <= b.capacity /\ b.position < b.capacity
    /\ Len(b.rows) < b.capacity => b.position = Len(b.rows)

-----------------------------------------------------------------------------
(* Numbers                                                                 *)

\* The minimum of two numbers, as a case distinction for the arithmetic.
LEMMA MinOfTwo ==
  ASSUME NEW a \in Int, NEW b \in Int
  PROVE  Min({a, b}) = IF a <= b THEN a ELSE b
<1> DEFINE m == IF a <= b THEN a ELSE b
<1>1. m \in {a, b} /\ \A y \in {a, b} : m <= y
  OBVIOUS
<1>2. \A x \in {a, b} : (\A y \in {a, b} : x <= y) => x = m
  OBVIOUS
<1>3. Min({a, b}) = CHOOSE x \in {a, b} : \A y \in {a, b} : x <= y
  BY DEF Min
<1> HIDE DEF m
<1>4. Min({a, b}) = m
  BY <1>1, <1>2, <1>3, Zenon
<1> QED BY <1>4 DEF m

\* The remainder of a number less than one capacity away from the range.
LEMMA Remainder ==
  ASSUME NEW n \in Int, NEW c \in Nat \ {0}
  PROVE  /\ 0 <= n /\ n < c => n % c = n
         /\ -c <= n /\ n < 0 => n % c = n + c
         /\ n = c => n % c = 0
<1> DEFINE q == n \div c
           r == n % c
<1>1. q \in Int /\ r \in 0..(c - 1) /\ n = c * q + r
  BY Z3
<1> HIDE DEF q, r
<1>2. q >= 1 => c * q >= c
  BY <1>1
<1>3. q >= 2 => c * q >= 2 * c
  BY <1>1
<1>4. q <= -1 => c * q <= -c
  BY <1>1
<1>5. q <= -2 => c * q <= -(2 * c)
  BY <1>1
<1>6. /\ q = 0 => c * q = 0
      /\ q = -1 => c * q = -c
      /\ q = 1 => c * q = c
  BY <1>1
<1>7. 0 <= n /\ n < c => r = n
  <2> SUFFICES ASSUME 0 <= n, n < c PROVE r = n
    OBVIOUS
  <2>1. q = 0
    BY <1>1, <1>2, <1>4
  <2> QED BY <1>1, <1>6, <2>1
<1>8. -c <= n /\ n < 0 => r = n + c
  <2> SUFFICES ASSUME -c <= n, n < 0 PROVE r = n + c
    OBVIOUS
  <2>1. q = -1
    BY <1>1, <1>2, <1>5, <1>6
  <2> QED BY <1>1, <1>6, <2>1
<1>9. n = c => r = 0
  <2> SUFFICES ASSUME n = c PROVE r = 0
    OBVIOUS
  <2>1. q = 1
    BY <1>1, <1>3, <1>4, <1>6
  <2> QED BY <1>1, <1>6, <2>1
<1> QED BY <1>7, <1>8, <1>9 DEF r

\* the elements of a set of numbers from one of them on
Above(S, i) == {j \in S : j >= i}

\* Counted, they are at least one and at most all.
LEMMA RankTyped ==
  ASSUME NEW S \in SUBSET Int, IsFiniteSet(S), NEW i \in S
  PROVE  /\ Cardinality(S) \in Nat /\ IsFiniteSet(Above(S, i))
         /\ Cardinality(Above(S, i)) \in 1..Cardinality(S)
<1>1. Above(S, i) \in SUBSET S /\ i \in Above(S, i)
  BY DEF Above
<1>2. /\ IsFiniteSet(Above(S, i)) /\ Cardinality(Above(S, i)) <= Cardinality(S)
  BY <1>1, FS_Subset
<1>3. Cardinality(Above(S, i)) \in Nat /\ Cardinality(S) \in Nat
  BY <1>2, FS_CardinalityType
<1>4. Cardinality(Above(S, i)) # 0
  BY <1>1, <1>2, FS_EmptySet
<1> QED BY <1>2, <1>3, <1>4

\* The count falls as the element rises.
LEMMA RankFalls ==
  ASSUME NEW S \in SUBSET Int, IsFiniteSet(S), NEW i \in S, NEW j \in S, i < j
  PROVE  Cardinality(Above(S, j)) < Cardinality(Above(S, i))
<1>1. Above(S, j) \in SUBSET Above(S, i)
  <2>1. \A k \in S : k >= j => k >= i
    OBVIOUS
  <2> QED BY <2>1 DEF Above
<1>2. i \in Above(S, i) /\ i \notin Above(S, j)
  BY DEF Above
<1>3. Above(S, i) # Above(S, j)
  BY <1>2
<1>4. /\ IsFiniteSet(Above(S, i)) /\ Cardinality(Above(S, i)) \in Int
      /\ Cardinality(Above(S, j)) \in Int
  BY RankTyped
<1>5. /\ Cardinality(Above(S, j)) <= Cardinality(Above(S, i))
      /\ Cardinality(Above(S, i)) # Cardinality(Above(S, j))
  BY <1>1, <1>3, <1>4, FS_Subset
<1> QED BY <1>4, <1>5

\* It takes every value up to the cardinality: there is an n-th newest.
LEMMA NthNewestIs ==
  ASSUME NEW S \in SUBSET Int, IsFiniteSet(S), NEW n \in 1..Cardinality(S)
  PROVE  /\ NthNewest(S, n) \in S
         /\ Cardinality(Above(S, NthNewest(S, n))) = n
<1> DEFINE C == Cardinality(S)
           rank == [i \in S |-> Cardinality(Above(S, i))]
<1>1. C \in Nat
  BY FS_CardinalityType
<1>2. rank \in [S -> 1..C]
  BY RankTyped
<1>3. \A i, j \in S : rank[i] = rank[j] => i = j
  <2> SUFFICES ASSUME NEW i \in S, NEW j \in S, rank[i] = rank[j], i # j PROVE FALSE
    OBVIOUS
  <2>1. Cardinality(Above(S, i)) \in Int /\ Cardinality(Above(S, i)) = Cardinality(Above(S, j))
    BY RankTyped
  <2>2. i < j \/ j < i
    OBVIOUS
  <2> QED BY <2>1, <2>2, RankFalls
<1>4. rank \in Injection(S, 1..C)
  BY <1>2, <1>3 DEF Injection, IsInjective
<1>5. IsFiniteSet(1..C) /\ Cardinality(1..C) = C
  BY <1>1, FS_Interval
<1>6. rank \in Surjection(S, 1..C)
  BY <1>4, <1>5, FS_Injection
<1>7. \E i \in S : rank[i] = n
  BY <1>6 DEF Surjection
<1>8. \E i \in S : Cardinality({j \in S : j >= i}) = n
  BY <1>7 DEF Above
<1>9. /\ NthNewest(S, n) \in S
      /\ Cardinality({j \in S : j >= NthNewest(S, n)}) = n
  BY <1>8, Zenon DEF NthNewest
<1> QED BY <1>9 DEF Above

\* Of a finite set of numbers the m newest are m of them, each above all that are left out.
LEMMA NewestOnes ==
  ASSUME NEW S \in SUBSET Int, IsFiniteSet(S), NEW m \in 0..Cardinality(S)
  PROVE  /\ \A n \in 1..m : NthNewest(S, n) \in S
         /\ \A n, k \in 1..m : NthNewest(S, n) = NthNewest(S, k) => n = k
         /\ \A i \in S : \/ \E n \in 1..m : i = NthNewest(S, n)
                         \/ m < Cardinality(S) /\ \A n \in 1..m : i < NthNewest(S, n)
<1>1. Cardinality(S) \in Nat /\ m \in Nat /\ m <= Cardinality(S)
  BY FS_CardinalityType
<1>2. \A n \in 1..m : /\ n \in 1..Cardinality(S)
                      /\ NthNewest(S, n) \in S /\ NthNewest(S, n) \in Int
                      /\ Cardinality(Above(S, NthNewest(S, n))) = n
  <2> SUFFICES ASSUME NEW n \in 1..m
               PROVE  /\ n \in 1..Cardinality(S)
                      /\ NthNewest(S, n) \in S /\ NthNewest(S, n) \in Int
                      /\ Cardinality(Above(S, NthNewest(S, n))) = n
    OBVIOUS
  <2>1. n \in 1..Cardinality(S)
    BY <1>1
  <2> QED BY <2>1, NthNewestIs
<1>3. \A n, k \in 1..m : NthNewest(S, n) = NthNewest(S, k) => n = k
  BY <1>2
<1>4. ASSUME NEW i \in S
      PROVE  \/ \E n \in 1..m : i = NthNewest(S, n)
             \/ m < Cardinality(S) /\ \A n \in 1..m : i < NthNewest(S, n)
  <2> DEFINE rank == Cardinality(Above(S, i))
  <2>1. rank \in 1..Cardinality(S) /\ i \in Int
    BY RankTyped
  <2>2. ASSUME NEW j \in S, Cardinality(Above(S, j)) = rank PROVE i = j
    <3>1. j \in Int /\ (i = j \/ i < j \/ j < i)
      BY <2>1
    <3>2. Cardinality(Above(S, j)) \in Int
      BY <2>1, <2>2
    <3> QED BY <2>1, <2>2, <3>1, <3>2, RankFalls
  <2>3. CASE rank <= m
    <3>1. rank \in 1..m
      BY <1>1, <2>1, <2>3
    <3>2. NthNewest(S, rank) \in S /\ Cardinality(Above(S, NthNewest(S, rank))) = rank
      BY <1>2, <3>1
    <3>3. i = NthNewest(S, rank)
      BY <2>2, <3>2
    <3> QED BY <3>1, <3>3
  <2>4. CASE rank > m
    <3>1. m < Cardinality(S)
      BY <1>1, <2>1, <2>4
    <3>2. ASSUME NEW n \in 1..m PROVE i < NthNewest(S, n)
      <4>1. /\ NthNewest(S, n) \in S /\ NthNewest(S, n) \in Int
            /\ Cardinality(Above(S, NthNewest(S, n))) = n
        BY <1>2
      <4>2. n < rank
        BY <1>1, <2>1, <2>4
      <4>3. i # NthNewest(S, n)
        BY <2>1, <4>1, <4>2
      <4>4. ~(NthNewest(S, n) < i)
        <5> SUFFICES ASSUME NthNewest(S, n) < i PROVE FALSE
          OBVIOUS
        <5>1. Cardinality(Above(S, i)) < Cardinality(Above(S, NthNewest(S, n)))
          BY <4>1, RankFalls
        <5> QED BY <1>1, <2>1, <4>1, <4>2, <5>1
      <4> QED BY <2>1, <4>1, <4>3, <4>4
    <3> QED BY <3>1, <3>2
  <2> QED BY <1>1, <2>1, <2>3, <2>4
<1> QED BY <1>2, <1>3, <1>4

-----------------------------------------------------------------------------
(* The buffer                                                              *)

\* A buffer whose rows were replaced, written out.
LEMMA BufferForm ==
  ASSUME NEW b \in Buffer, NEW rows, NEW position
  PROVE  [b EXCEPT !.rows = rows, !.position = position]
            = [rows |-> rows, position |-> position, capacity |-> b.capacity,
               optimized |-> b.optimized]
<1>1. PICK r \in Seq(Row), p \in Nat, c \in Nat, o \in BOOLEAN :
         b = [rows |-> r, position |-> p, capacity |-> c, optimized |-> o]
  BY DEF Buffer
<1>2. /\ b.capacity = c /\ b.optimized = o
      /\ DOMAIN b = {"rows", "position", "capacity", "optimized"}
  BY <1>1
<1> DEFINE f == [b EXCEPT !.rows = rows, !.position = position]
           g == [rows |-> rows, position |-> position, capacity |-> c, optimized |-> o]
<1>3. f = [x \in {"rows", "position", "capacity", "optimized"} |-> f[x]]
  BY <1>2
<1>4. g = [x \in {"rows", "position", "capacity", "optimized"} |-> g[x]]
  OBVIOUS
<1>5. \A x \in {"rows", "position", "capacity", "optimized"} : f[x] = g[x]
  <2>1. f["rows"] = g["rows"] /\ f["position"] = g["position"]
    BY <1>1, <1>2
  <2>2. f["capacity"] = g["capacity"] /\ f["optimized"] = g["optimized"]
    BY <1>1, <1>2
  <2> HIDE DEF f, g
  <2> QED BY <2>1, <2>2
<1>6. f = g
  <2> HIDE DEF f, g
  <2> QED BY <1>3, <1>4, <1>5, Zenon
<1> QED BY <1>2, <1>6

\* where the i-th oldest row lies
Place(b, i) ==
    IF Len(b.rows) < b.capacity THEN i
    ELSE IF b.position + i > b.capacity THEN b.position + i - b.capacity
    ELSE b.position + i

\* The logical order goes through the ring once, from the oldest row on.
LEMMA LogicalIs ==
  ASSUME NEW b, Whole(b)
  PROVE  /\ Len(b.rows) \in Nat /\ DOMAIN b.rows = 1..Len(b.rows)
         /\ DOMAIN Logical(b) = 1..Len(b.rows) /\ Len(Logical(b)) = Len(b.rows)
         /\ \A i \in 1..Len(b.rows) :
               /\ Place(b, i) \in 1..Len(b.rows)
               /\ Logical(b)[i] = b.rows[Place(b, i)]
               /\ Logical(b)[i] \in Row
         /\ \A k \in 1..Len(b.rows) : \E i \in 1..Len(b.rows) : k = Place(b, i)
<1> DEFINE size == Len(b.rows)
           pos == b.position
           c == b.capacity
<1>1. /\ size \in Nat /\ pos \in Nat /\ c \in Nat \ {0} /\ size <= c /\ pos < c
      /\ size < c => pos = size
      /\ DOMAIN b.rows = 1..size /\ b.rows \in Seq(Row)
  BY LenProperties DEF Whole, Buffer
<1>2. Logical(b) = [i \in 1..size |-> b.rows[((pos - size + i - 1) % c) + 1]]
  BY DEF Logical
<1>3. Len(Logical(b)) = size /\ DOMAIN Logical(b) = 1..size
  BY <1>1, <1>2
<1>4. ASSUME NEW i \in 1..size
      PROVE  /\ Place(b, i) \in 1..size
             /\ ((pos - size + i - 1) % c) + 1 = Place(b, i)
  <2> DEFINE n == pos - size + i - 1
             r == n % c
             place == Place(b, i)
  <2>0. n \in Int /\ n = pos - size + i - 1
    BY <1>1
  <2>1. /\ n \in Int /\ n = pos - size + i - 1
        /\ 0 <= n /\ n < c => r = n
        /\ -c <= n /\ n < 0 => r = n + c
    <3> HIDE DEF n
    <3> QED BY <1>1, <2>0, Remainder
  <2>2. place = IF size < c THEN i ELSE IF pos + i > c THEN pos + i - c ELSE pos + i
    BY DEF Place
  <2> HIDE DEF n, r, place, size, pos, c
  <2>3. CASE size < c
    <3>1. n = i - 1 /\ 0 <= n /\ n < c /\ place = i
      BY <1>1, <2>1, <2>2, <2>3
    <3> QED BY <1>1, <2>1, <2>3, <3>1 DEF r, n, place, size, pos, c
  <2>4. CASE size = c /\ pos + i > c
    <3>1. n = pos + i - 1 - c /\ 0 <= n /\ n < c /\ place = pos + i - c
      BY <1>1, <2>1, <2>2, <2>4
    <3>2. r + 1 = place /\ place \in 1..size
      BY <1>1, <2>1, <2>4, <3>1
    <3> QED BY <3>2 DEF r, n, place, size, pos, c
  <2>5. CASE size = c /\ pos + i <= c
    <3>1. n = pos + i - 1 - c /\ -c <= n /\ n < 0 /\ place = pos + i
      BY <1>1, <2>1, <2>2, <2>5
    <3>2. r + 1 = place /\ place \in 1..size
      BY <1>1, <2>1, <2>5, <3>1
    <3> QED BY <3>2 DEF r, n, place, size, pos, c
  <2> QED BY <1>1, <2>3, <2>4, <2>5
<1>5. ASSUME NEW i \in 1..size
      PROVE  Logical(b)[i] = b.rows[Place(b, i)] /\ Logical(b)[i] \in Row
  <2>1. Logical(b)[i] = b.rows[((pos - size + i - 1) % c) + 1]
    BY <1>2
  <2> HIDE DEF size, pos, c
  <2>2. Logical(b)[i] = b.rows[Place(b, i)]
    BY <1>4, <2>1
  <2> QED BY <1>1, <1>4, <2>2, ElementOfSeq DEF size
<1>6. ASSUME NEW k \in 1..size PROVE \E i \in 1..size : k = Place(b, i)
  <2>1. CASE size < c
    BY <2>1 DEF Place
  <2>2. CASE size = c /\ k > pos
    <3>1. k - pos \in 1..size /\ k = Place(b, k - pos)
      BY <1>1, <2>2 DEF Place
    <3> QED BY <3>1
  <2>3. CASE size = c /\ k <= pos
    <3>1. k - pos + c \in 1..size /\ k = Place(b, k - pos + c)
      BY <1>1, <2>3 DEF Place
    <3> QED BY <3>1
  <2> QED BY <1>1, <2>1, <2>2, <2>3
<1> QED BY <1>1, <1>3, <1>4, <1>5, <1>6

\* A new row is the newest; the oldest one gives way when the ring is full.
LEMMA AddIs ==
  ASSUME NEW b, Whole(b), NEW row \in Row
  PROVE  /\ Whole(Add(b, row))
         /\ Add(b, row).capacity = b.capacity /\ Add(b, row).optimized = b.optimized
         /\ Len(b.rows) < b.capacity =>
               /\ Len(Add(b, row).rows) = Len(b.rows) + 1
               /\ \A i \in 1..Len(b.rows) : Logical(Add(b, row))[i] = Logical(b)[i]
               /\ Logical(Add(b, row))[Len(b.rows) + 1] = row
         /\ Len(b.rows) = b.capacity =>
               /\ Len(Add(b, row).rows) = Len(b.rows)
               /\ \A i \in 1..(Len(b.rows) - 1) : Logical(Add(b, row))[i] = Logical(b)[i + 1]
               /\ Logical(Add(b, row))[Len(b.rows)] = row
         /\ \A k \in DOMAIN Add(b, row).rows :
               \/ Add(b, row).rows[k] = row
               \/ k \in DOMAIN b.rows /\ Add(b, row).rows[k] = b.rows[k]
<1> DEFINE size == Len(b.rows)
           pos == b.position
           c == b.capacity
           a == Add(b, row)
<1>1. /\ size \in Nat /\ pos \in Nat /\ c \in Nat \ {0} /\ size <= c /\ pos < c
      /\ size < c => pos = size
      /\ DOMAIN b.rows = 1..size /\ b.rows \in Seq(Row) /\ b \in Buffer
  BY LenProperties DEF Whole, Buffer
<1>2. /\ a.rows = IF size < c THEN Append(b.rows, row) ELSE [b.rows EXCEPT ![pos + 1] = row]
      /\ a.position = (pos + 1) % c
      /\ a.capacity = c /\ a.optimized = b.optimized
      /\ a = [rows |-> a.rows, position |-> a.position, capacity |-> a.capacity,
              optimized |-> a.optimized]
  <2>1. PICK rows, position :
           /\ a = [b EXCEPT !.rows = rows, !.position = position]
           /\ rows = IF size < c THEN Append(b.rows, row) ELSE [b.rows EXCEPT ![pos + 1] = row]
           /\ position = (pos + 1) % c
    BY DEF Add
  <2>2. a = [rows |-> rows, position |-> position, capacity |-> b.capacity,
             optimized |-> b.optimized]
    BY <1>1, <2>1, BufferForm
  <2> HIDE DEF a
  <2> QED BY <2>1, <2>2
<1>3. a.position = IF pos + 1 < c THEN pos + 1 ELSE 0
  <2>1. pos + 1 \in Int
    BY <1>1
  <2>2. CASE pos + 1 < c
    BY <1>1, <1>2, <2>1, <2>2, Remainder
  <2>3. CASE pos + 1 = c
    BY <1>1, <1>2, <2>1, <2>3, Remainder
  <2> QED BY <1>1, <2>2, <2>3
<1>4. CASE size < c
  <2>1. /\ a.rows = Append(b.rows, row) /\ a.rows \in Seq(Row) /\ Len(a.rows) = size + 1
        /\ \A i \in 1..size : a.rows[i] = b.rows[i]
        /\ a.rows[size + 1] = row
        /\ DOMAIN a.rows = 1..(size + 1)
    BY <1>1, <1>2, <1>4, AppendProperties, LenProperties
  <2>2. Whole(a)
    <3>1. a \in Buffer
      <4>1. a.position \in Nat /\ a.capacity \in Nat /\ a.optimized \in BOOLEAN
        BY <1>1, <1>2, <1>3 DEF Buffer
      <4> HIDE DEF a
      <4> QED BY <1>2, <2>1, <4>1 DEF Buffer
    <3> QED BY <1>1, <1>2, <1>3, <1>4, <2>1, <3>1 DEF Whole
  <2>3. \A i \in 1..(size + 1) : Place(a, i) = i
    BY <1>1, <1>2, <1>3, <1>4, <2>1 DEF Place
  <2>4. \A i \in 1..size : Place(b, i) = i
    BY <1>1, <1>4 DEF Place
  <2>5. \A i \in 1..(size + 1) : Logical(a)[i] = a.rows[i]
    BY <2>1, <2>2, <2>3, LogicalIs
  <2>6. \A i \in 1..size : Logical(b)[i] = b.rows[i]
    BY <2>4, LogicalIs
  <2>7. /\ \A i \in 1..size : Logical(a)[i] = Logical(b)[i]
        /\ Logical(a)[size + 1] = row
    <3> HIDE DEF a, size
    <3> QED BY <1>1, <2>1, <2>5, <2>6
  <2>8. \A k \in DOMAIN a.rows : a.rows[k] = row \/ (k \in DOMAIN b.rows /\ a.rows[k] = b.rows[k])
    <3> HIDE DEF a, size
    <3> QED BY <1>1, <2>1
  <2> HIDE DEF a
  <2> QED BY <1>1, <1>2, <1>4, <2>1, <2>2, <2>7, <2>8 DEF a
<1>5. CASE size = c
  <2>1. /\ a.rows = [b.rows EXCEPT ![pos + 1] = row] /\ pos + 1 \in 1..size
    BY <1>1, <1>2, <1>5
  <2>2. /\ a.rows \in Seq(Row) /\ Len(a.rows) = size
        /\ a.rows[pos + 1] = row
        /\ \A k \in 1..size : k # pos + 1 => a.rows[k] = b.rows[k]
        /\ DOMAIN a.rows = 1..size
    BY <1>1, <2>1, ExceptSeq
  <2>3. Whole(a)
    <3>1. a \in Buffer
      <4>1. a.position \in Nat /\ a.capacity \in Nat /\ a.optimized \in BOOLEAN
        BY <1>1, <1>2, <1>3 DEF Buffer
      <4> HIDE DEF a
      <4> QED BY <1>2, <2>2, <4>1 DEF Buffer
    <3> QED BY <1>1, <1>2, <1>3, <1>5, <2>2, <3>1 DEF Whole
  <2>a. \A i : /\ Place(a, i) = IF a.position + i > c THEN a.position + i - c ELSE a.position + i
              /\ Place(b, i) = IF pos + i > c THEN pos + i - c ELSE pos + i
    BY <1>1, <1>2, <1>5, <2>2 DEF Place
  <2>4. \A i \in 1..(size - 1) : /\ Place(a, i) = Place(b, i + 1)
                                 /\ Place(a, i) \in 1..size /\ Place(a, i) # pos + 1
    <3> HIDE DEF a, size, pos, c
    <3> QED BY <1>1, <1>3, <1>5, <2>a
  <2>5. Place(a, size) = pos + 1
    <3> HIDE DEF a, size, pos, c
    <3> QED BY <1>1, <1>3, <1>5, <2>a
  <2>6. \A i \in 1..size : /\ Logical(a)[i] = a.rows[Place(a, i)]
                           /\ Logical(b)[i] = b.rows[Place(b, i)]
    BY <2>2, <2>3, LogicalIs
  <2>7. \A i \in 1..(size - 1) : Logical(a)[i] = Logical(b)[i + 1]
    <3> SUFFICES ASSUME NEW i \in 1..(size - 1) PROVE Logical(a)[i] = Logical(b)[i + 1]
      OBVIOUS
    <3>1. i \in 1..size /\ i + 1 \in 1..size
      BY <1>1
    <3> HIDE DEF a, size
    <3> QED BY <2>2, <2>4, <2>6, <3>1
  <2>8. Logical(a)[size] = row
    <3>1. size \in 1..size
      BY <1>1, <1>5
    <3> HIDE DEF a, size
    <3> QED BY <2>2, <2>5, <2>6, <3>1
  <2> HIDE DEF a
  <2> QED BY <1>1, <1>2, <1>5, <2>2, <2>3, <2>7, <2>8 DEF a
<1> QED BY <1>1, <1>4, <1>5

\* A buffer of which no row was dropped holds its rows in order.
LEMMA FillIs ==
  ASSUME NEW b, Whole(b), Len(b.rows) < b.capacity,
         NEW rows \in Seq(Row), Len(b.rows) + Len(rows) <= b.capacity
  PROVE  /\ Whole(Fill(b, rows))
         /\ Fill(b, rows).rows = b.rows \o rows
         /\ Fill(b, rows).capacity = b.capacity /\ Fill(b, rows).optimized = b.optimized
         /\ \A i \in DOMAIN Fill(b, rows).rows :
               Logical(Fill(b, rows))[i] = Fill(b, rows).rows[i]
<1> DEFINE size == Len(b.rows)
           n == Len(rows)
           c == b.capacity
           a == Fill(b, rows)
<1>1. /\ size \in Nat /\ n \in Nat /\ c \in Nat \ {0} /\ b.position = size
      /\ b.rows \in Seq(Row) /\ b \in Buffer
  BY LenProperties DEF Whole, Buffer
<1>2. /\ a.rows = b.rows \o rows /\ a.position = (size + n) % c
      /\ a.capacity = c /\ a.optimized = b.optimized
      /\ a = [rows |-> a.rows, position |-> a.position, capacity |-> a.capacity,
              optimized |-> a.optimized]
  <2>1. PICK filled, position :
           /\ a = [b EXCEPT !.rows = filled, !.position = position]
           /\ filled = b.rows \o rows
           /\ position = (b.position + Len(rows)) % c
    BY DEF Fill
  <2>2. a = [rows |-> filled, position |-> position, capacity |-> b.capacity,
             optimized |-> b.optimized]
    BY <1>1, <2>1, BufferForm
  <2> HIDE DEF a
  <2> QED BY <1>1, <2>1, <2>2
<1>3. a.rows \in Seq(Row) /\ Len(a.rows) = size + n /\ DOMAIN a.rows = 1..(size + n)
  BY <1>1, <1>2, ConcatProperties, LenProperties
<1>4. a.position = IF size + n < c THEN size + n ELSE 0
  <2>1. size + n \in Int /\ 0 <= size + n
    BY <1>1
  <2>2. CASE size + n < c
    BY <1>1, <1>2, <2>1, <2>2, Remainder
  <2>3. CASE size + n = c
    BY <1>1, <1>2, <2>1, <2>3, Remainder
  <2> QED BY <1>1, <2>2, <2>3
<1>5. Whole(a)
  <2>1. a \in Buffer
    <3>1. a.position \in Nat /\ a.capacity \in Nat /\ a.optimized \in BOOLEAN
      BY <1>1, <1>2, <1>4 DEF Buffer
    <3> HIDE DEF a
    <3> QED BY <1>2, <1>3, <3>1 DEF Buffer
  <2> QED BY <1>1, <1>2, <1>3, <1>4, <2>1 DEF Whole
<1>6. \A i \in 1..(size + n) : Place(a, i) = i
  BY <1>1, <1>2, <1>3, <1>4 DEF Place
<1>7. \A i \in DOMAIN a.rows : Logical(a)[i] = a.rows[i]
  BY <1>3, <1>5, <1>6, LogicalIs
<1> QED BY <1>2, <1>5, <1>7

\* An empty buffer.
LEMMA RingIs ==
  ASSUME NEW c \in Nat \ {0}, NEW optimized \in BOOLEAN
  PROVE  /\ Whole(Ring(c, optimized)) /\ Ring(c, optimized).rows = <<>>
         /\ Len(Ring(c, optimized).rows) = 0
         /\ Ring(c, optimized).capacity = c /\ Ring(c, optimized).optimized = optimized
<1>1. <<>> \in Seq(Row) /\ Len(<<>>) = 0
  BY EmptySeq
<1> QED BY <1>1 DEF Ring, Whole, Buffer

\* Filling is adding row by row.
LEMMA FillIsAdd ==
  ASSUME NEW b, Whole(b), NEW rows \in Seq(Row), NEW row \in Row,
         Len(b.rows) + Len(rows) < b.capacity
  PROVE  /\ Fill(b, <<>>) = b
         /\ Fill(b, Append(rows, row)) = Add(Fill(b, rows), row)
<1> DEFINE size == Len(b.rows)
           n == Len(rows)
           c == b.capacity
<1>1. /\ size \in Nat /\ n \in Nat /\ c \in Nat \ {0} /\ b.position = size /\ size < c
      /\ b.rows \in Seq(Row) /\ b \in Buffer
  BY LenProperties DEF Whole, Buffer
<1>2. /\ size % c = size /\ (size + n) % c = size + n
  <2>1. size \in Int /\ size + n \in Int /\ 0 <= size /\ 0 <= size + n /\ size + n < c
    BY <1>1
  <2> HIDE DEF size, n, c
  <2> QED BY <1>1, <2>1, Remainder
<1>3. Fill(b, <<>>) = b
  <2>1. b.rows \o <<>> = b.rows /\ Len(<<>>) = 0
    BY <1>1
  <2>2. (size + 0) % c = size
    BY <1>1, <1>2
  <2> QED BY <1>1, <2>1, <2>2 DEF Fill, Buffer
<1>4. /\ Len(Append(rows, row)) = n + 1 /\ Len(b.rows \o rows) = size + n
      /\ b.rows \o Append(rows, row) = Append(b.rows \o rows, row)
  <2>1. /\ Len(Append(rows, row)) = n + 1 /\ Len(b.rows \o rows) = size + n
        /\ b.rows \o rows \in Seq(Row) /\ <<row>> \in Seq(Row)
    BY <1>1, AppendProperties, ConcatProperties
  <2>2. /\ Append(rows, row) = rows \o <<row>>
        /\ Append(b.rows \o rows, row) = (b.rows \o rows) \o <<row>>
    BY <1>1, <2>1, AppendIsConcat
  <2>3. (b.rows \o rows) \o <<row>> = b.rows \o (rows \o <<row>>)
    <3>1. \A s, t, u \in Seq(Row) : (s \o t) \o u = s \o (t \o u)
      BY ConcatAssociative
    <3> QED BY <1>1, <2>1, <3>1, Zenon
  <2> QED BY <2>1, <2>2, <2>3
<1>5. Fill(b, rows) = [rows |-> b.rows \o rows, position |-> size + n, capacity |-> c,
                       optimized |-> b.optimized]
  <2>1. Fill(b, rows) = [b EXCEPT !.rows = b.rows \o rows, !.position = (size + n) % c]
    BY <1>1 DEF Fill
  <2> QED BY <1>1, <1>2, <2>1, BufferForm
<1>6. Fill(b, Append(rows, row))
        = [rows |-> Append(b.rows \o rows, row), position |-> (size + (n + 1)) % c,
           capacity |-> c, optimized |-> b.optimized]
  <2>1. Fill(b, Append(rows, row))
          = [b EXCEPT !.rows = Append(b.rows \o rows, row), !.position = (size + (n + 1)) % c]
    BY <1>1, <1>4 DEF Fill
  <2> QED BY <1>1, <2>1, BufferForm
<1>7. Add(Fill(b, rows), row)
        = [rows |-> Append(b.rows \o rows, row), position |-> (size + n + 1) % c,
           capacity |-> c, optimized |-> b.optimized]
  <2> DEFINE a == Fill(b, rows)
  <2>1. /\ a.rows = b.rows \o rows /\ a.position = size + n /\ a.capacity = c
        /\ a.optimized = b.optimized /\ Len(a.rows) < c
    BY <1>1, <1>4, <1>5
  <2>2. Add(a, row) = [a EXCEPT !.rows = Append(a.rows, row), !.position = (a.position + 1) % c]
    BY <2>1 DEF Add
  <2>3. a \in Buffer
    BY <1>1, FillIs DEF Whole
  <2> HIDE DEF a, c, size, n
  <2>4. Add(a, row) = [rows |-> Append(a.rows, row), position |-> (a.position + 1) % c,
                       capacity |-> a.capacity, optimized |-> a.optimized]
    BY <2>2, <2>3, BufferForm
  <2> QED BY <2>1, <2>4 DEF a
<1>8. size + (n + 1) = size + n + 1
  <2> HIDE DEF size, n
  <2> QED BY <1>1
<1> HIDE DEF size, n, c
<1> QED BY <1>3, <1>6, <1>7, <1>8

-----------------------------------------------------------------------------
(* What a session rebuilds                                                 *)

\* the next state a loaded frame gets
LoadedNext(frames, i) ==
    IF /\ ~frames[i].done /\ i < Len(frames) /\ frames[i].episode = frames[i + 1].episode
       THEN frames[i + 1].state ELSE frames[i].state

FromFrame(row, frames, i) ==
    /\ row \in Row
    /\ row.state = frames[i].state /\ row.done = frames[i].done /\ row.truncated = FALSE
    /\ row.intervention = frames[i].intervention /\ row.next = LoadedNext(frames, i)

\* A loaded buffer holds the first frames, in order.
LEMMA LoadedIs ==
  ASSUME NEW frames \in Seq(Frame), NEW c \in Nat \ {0}, NEW optimized \in BOOLEAN
  PROVE  /\ Whole(Loaded(frames, c, optimized))
         /\ Loaded(frames, c, optimized).capacity = c
         /\ Loaded(frames, c, optimized).optimized = optimized
         /\ Len(Loaded(frames, c, optimized).rows) = IF Len(frames) <= c THEN Len(frames) ELSE c
         /\ \A i \in 1..Len(Loaded(frames, c, optimized).rows) :
               /\ i \in DOMAIN frames
               /\ Logical(Loaded(frames, c, optimized))[i] = Loaded(frames, c, optimized).rows[i]
               /\ FromFrame(Loaded(frames, c, optimized).rows[i], frames, i)
<1> DEFINE n == IF Len(frames) <= c THEN Len(frames) ELSE c
           row(i) == [state |-> frames[i].state, done |-> frames[i].done,
                      truncated |-> FALSE, intervention |-> frames[i].intervention,
                      next |-> IF /\ ~frames[i].done /\ i < Len(frames)
                                  /\ frames[i].episode = frames[i + 1].episode
                               THEN frames[i + 1].state ELSE frames[i].state]
           rows == [i \in 1..n |-> row(i)]
           b == Loaded(frames, c, optimized)
<1>1. Len(frames) \in Nat /\ DOMAIN frames = 1..Len(frames) /\ n \in Nat /\ n <= c
      /\ n <= Len(frames)
  BY LenProperties
<1>2. Min({Len(frames), c}) = n
  BY <1>1, MinOfTwo
<1>3. b = Fill(Ring(c, optimized), rows)
  BY <1>2 DEF Loaded
<1>4. ASSUME NEW i \in 1..n
      PROVE  i \in DOMAIN frames /\ row(i) \in Row /\ FromFrame(row(i), frames, i)
  <2>1. i \in DOMAIN frames /\ frames[i] \in Frame
    BY <1>1, ElementOfSeq
  <2>2. i < Len(frames) => frames[i + 1] \in Frame
    BY <1>1, ElementOfSeq
  <2>3. LoadedNext(frames, i) \in Int
    BY <2>1, <2>2 DEF Frame, LoadedNext
  <2>4. row(i) = [state |-> frames[i].state, done |-> frames[i].done,
                  truncated |-> FALSE, intervention |-> frames[i].intervention,
                  next |-> LoadedNext(frames, i)]
    BY DEF LoadedNext
  <2>5. /\ frames[i].state \in Int /\ frames[i].done \in BOOLEAN
        /\ frames[i].intervention \in BOOLEAN
    BY <2>1 DEF Frame
  <2>6. row(i) \in Row
    BY <2>3, <2>4, <2>5 DEF Row
  <2>7. FromFrame(row(i), frames, i)
    BY <2>4, <2>6 DEF FromFrame
  <2> HIDE DEF row
  <2> QED BY <2>1, <2>6, <2>7
<1> HIDE DEF row
<1>5. rows \in Seq(Row) /\ Len(rows) = n /\ \A i \in 1..n : rows[i] = row(i)
  BY <1>1, <1>4
<1>6. /\ Whole(b) /\ b.rows = rows /\ b.capacity = c /\ b.optimized = optimized
      /\ \A i \in DOMAIN b.rows : Logical(b)[i] = b.rows[i]
  <2>1. /\ Whole(Ring(c, optimized)) /\ Ring(c, optimized).rows = <<>>
        /\ Len(Ring(c, optimized).rows) = 0
        /\ Ring(c, optimized).capacity = c /\ Ring(c, optimized).optimized = optimized
    BY RingIs
  <2>2. Len(Ring(c, optimized).rows) + Len(rows) <= Ring(c, optimized).capacity
        /\ Len(Ring(c, optimized).rows) < Ring(c, optimized).capacity
    BY <1>1, <1>5, <2>1
  <2>3. <<>> \o rows = rows
    BY <1>5, ConcatEmptySeq
  <2> HIDE DEF rows, b
  <2> QED BY <1>3, <1>5, <2>1, <2>2, <2>3, FillIs
<1>7. Len(b.rows) = n /\ \A i \in 1..n : /\ i \in DOMAIN b.rows
                                          /\ FromFrame(b.rows[i], frames, i)
  <2> HIDE DEF rows, b
  <2>1. DOMAIN rows = 1..n
    BY DEF rows
  <2> QED BY <1>4, <1>5, <1>6, <2>1
<1>8. \A i \in 1..Len(b.rows) : /\ i \in DOMAIN frames /\ Logical(b)[i] = b.rows[i]
                                /\ FromFrame(b.rows[i], frames, i)
  <2> HIDE DEF rows, b, n
  <2> QED BY <1>4, <1>6, <1>7
<1> QED BY <1>6, <1>7, <1>8

Marked(rows) == {i \in DOMAIN rows : rows[i].intervention}

\* Interventions of a sequence are finitely many of its positions.
LEMMA MarkedIs ==
  ASSUME NEW A, NEW rows \in Seq(A)
  PROVE  /\ Marked(rows) \in SUBSET Int /\ IsFiniteSet(Marked(rows))
         /\ Cardinality(Marked(rows)) \in Nat
<1>1. /\ DOMAIN rows = 1..Len(rows) /\ Len(rows) \in Nat
  BY LenProperties
<1>2. IsFiniteSet(1..Len(rows)) /\ Marked(rows) \in SUBSET (1..Len(rows))
  BY <1>1, FS_Interval DEF Marked
<1>3. IsFiniteSet(Marked(rows))
  BY <1>2, FS_Subset
<1> QED BY <1>2, <1>3, FS_CardinalityType

Fewer(a, b) == IF a <= b THEN a ELSE b

\* _extract_intervention_transitions copies the newest interventions, as many as fit.
LEMMA ExtractedAre ==
  ASSUME NEW source, Whole(source),
         \A i \in DOMAIN source.rows : Logical(source)[i] = source.rows[i],
         NEW c \in Nat \ {0}, NEW optimized \in BOOLEAN, NEW b,
         b = ExtractInterventions(source, Ring(c, optimized), c)
  PROVE  /\ Whole(b) /\ b.capacity = c /\ b.optimized = optimized
         /\ Len(b.rows) = Fewer(c, Cardinality(Marked(source.rows)))
         /\ \A n \in 1..Len(b.rows) :
               b.rows[n] = source.rows[NthNewest(Marked(source.rows), n)]
<1> DEFINE found == Marked(source.rows)
           m == Fewer(c, Cardinality(found))
           rows == [n \in 1..m |-> Logical(source)[NthNewest(found, n)]]
<1>1. source.rows \in Seq(Row) /\ DOMAIN source.rows = 1..Len(source.rows)
  BY LenProperties DEF Whole, Buffer
<1>2. found \in SUBSET Int /\ IsFiniteSet(found) /\ Cardinality(found) \in Nat
  BY <1>1, MarkedIs
<1>3. /\ m \in 0..Cardinality(found) /\ m <= c /\ m \in Nat
      /\ Min({c, Cardinality(found)}) = m
  BY <1>2, MinOfTwo DEF Fewer
<1>4. b = Fill(Ring(c, optimized), rows)
  BY <1>3 DEF ExtractInterventions, Marked
<1>5. \A n \in 1..m : /\ NthNewest(found, n) \in found
                      /\ rows[n] = source.rows[NthNewest(found, n)] /\ rows[n] \in Row
  <2> SUFFICES ASSUME NEW n \in 1..m
               PROVE  /\ NthNewest(found, n) \in found
                      /\ rows[n] = source.rows[NthNewest(found, n)] /\ rows[n] \in Row
    OBVIOUS
  <2>1. n \in 1..Cardinality(found)
    BY <1>2, <1>3
  <2>2. NthNewest(found, n) \in found
    BY <1>2, <2>1, NthNewestIs
  <2>3. NthNewest(found, n) \in DOMAIN source.rows
    BY <2>2 DEF Marked
  <2>4. rows[n] = source.rows[NthNewest(found, n)]
    BY <2>3
  <2>5. source.rows[NthNewest(found, n)] \in Row
    BY <1>1, <2>3, ElementOfSeq
  <2> QED BY <2>2, <2>4, <2>5
<1>6. rows \in Seq(Row) /\ Len(rows) = m
  BY <1>3, <1>5
<1>7. Whole(b) /\ b.rows = rows /\ b.capacity = c /\ b.optimized = optimized
  <2>1. /\ Whole(Ring(c, optimized)) /\ Ring(c, optimized).rows = <<>>
        /\ Len(Ring(c, optimized).rows) = 0
        /\ Ring(c, optimized).capacity = c /\ Ring(c, optimized).optimized = optimized
    BY RingIs
  <2>2. /\ Len(Ring(c, optimized).rows) + Len(rows) <= Ring(c, optimized).capacity
        /\ Len(Ring(c, optimized).rows) < Ring(c, optimized).capacity
    BY <1>3, <1>6, <2>1
  <2>3. <<>> \o rows = rows
    BY <1>6, ConcatEmptySeq
  <2> HIDE DEF rows, m, found
  <2> QED BY <1>4, <1>6, <2>1, <2>2, <2>3, FillIs
<1> HIDE DEF rows
<1> QED BY <1>5, <1>6, <1>7

\* The corrections of a saved dataset come back newest first, as many as fit.
LEMMA CorrectionsAre ==
  ASSUME NEW p \in Policies, NEW frames \in Seq(Frame), NEW b, b = Corrections(p, frames)
  PROVE  /\ Whole(b) /\ b.capacity = OfflineCapacity /\ b.optimized = UsesBcUpdates(p)
         /\ Len(b.rows) = Fewer(OfflineCapacity, Cardinality(Marked(frames)))
         /\ \A n \in 1..Len(b.rows) :
               /\ NthNewest(Marked(frames), n) \in Marked(frames)
               /\ FromFrame(b.rows[n], frames, NthNewest(Marked(frames), n))
<1>1. /\ OfflineCapacity \in Nat \ {0} /\ UsesBcUpdates(p) \in BOOLEAN
  BY ReplayAssumption DEF UsesBcUpdates
<1>2. /\ Marked(frames) \in SUBSET Int /\ IsFiniteSet(Marked(frames))
      /\ Cardinality(Marked(frames)) \in Nat
  BY MarkedIs
<1>3. CASE frames = <<>>
  <2>1. b = Ring(OfflineCapacity, UsesBcUpdates(p))
    BY <1>3 DEF Corrections
  <2>2. Marked(frames) = {}
    BY <1>3 DEF Marked
  <2>3. Fewer(OfflineCapacity, Cardinality(Marked(frames))) = 0
    BY <1>1, <2>2, FS_EmptySet DEF Fewer
  <2> QED BY <1>1, <2>1, <2>3, RingIs
<1>4. CASE frames # <<>>
  <2> DEFINE source == Loaded(frames, Len(frames), FALSE)
  <2>1. Len(frames) \in Nat \ {0} /\ DOMAIN frames = 1..Len(frames)
    BY <1>4, EmptySeq, LenProperties
  <2>2. /\ Whole(source) /\ Len(source.rows) = Len(frames)
        /\ \A i \in 1..Len(source.rows) : /\ Logical(source)[i] = source.rows[i]
                                          /\ FromFrame(source.rows[i], frames, i)
    <3> DEFINE c == Len(frames)
    <3>a. PICK o \in BOOLEAN : o = FALSE
      OBVIOUS
    <3>b. c \in Nat \ {0} /\ c <= c
      BY <2>1
    <3>c. source = Loaded(frames, c, o)
      BY <3>a, Zenon
    <3>1. c \in Nat \ {0} /\ c <= c /\ source = Loaded(frames, c, o)
      BY <3>b, <3>c
    <3> HIDE DEF source, c
    <3>2. /\ Whole(source) /\ Len(source.rows) = IF Len(frames) <= c THEN Len(frames) ELSE c
      BY <3>1, LoadedIs
    <3>3. \A i \in 1..Len(source.rows) : /\ Logical(source)[i] = source.rows[i]
                                        /\ FromFrame(source.rows[i], frames, i)
      BY <3>1, LoadedIs
    <3> QED BY <3>2, <3>3 DEF c
  <2>3. DOMAIN source.rows = 1..Len(source.rows)
    BY <2>2, LogicalIs
  <2>4. Marked(source.rows) = Marked(frames)
    BY <2>1, <2>2, <2>3 DEF Marked, FromFrame
  <2>5. b = ExtractInterventions(source, Ring(OfflineCapacity, UsesBcUpdates(p)), OfflineCapacity)
    BY <1>4 DEF Corrections
  <2> HIDE DEF source
  <2>6. /\ Whole(b) /\ b.capacity = OfflineCapacity /\ b.optimized = UsesBcUpdates(p)
        /\ Len(b.rows) = Fewer(OfflineCapacity, Cardinality(Marked(frames)))
        /\ \A n \in 1..Len(b.rows) : b.rows[n] = source.rows[NthNewest(Marked(frames), n)]
    BY <1>1, <2>2, <2>3, <2>4, <2>5, ExtractedAre
  <2>7. ASSUME NEW n \in 1..Len(b.rows)
        PROVE  /\ NthNewest(Marked(frames), n) \in Marked(frames)
               /\ FromFrame(b.rows[n], frames, NthNewest(Marked(frames), n))
    <3>1. n \in 1..Cardinality(Marked(frames))
      BY <1>1, <1>2, <2>6 DEF Fewer
    <3>2. NthNewest(Marked(frames), n) \in Marked(frames)
      BY <1>2, <3>1, NthNewestIs
    <3>3. NthNewest(Marked(frames), n) \in 1..Len(source.rows)
      BY <2>1, <2>2, <3>2 DEF Marked
    <3> QED BY <2>2, <2>6, <3>2, <3>3
  <2> QED BY <2>6, <2>7
<1> QED BY <1>3, <1>4

\* a demonstration keeps its next state where the buffer keeps next states
FromDemo(row, p) ==
    /\ row \in Row /\ row.state < 0 /\ p.demos # 0
    /\ ~IsSacDagger(p) => row.done \/ row.next = row.state + 1

\* The demonstrations are frames of one episode.
LEMMA DemosAre ==
  ASSUME NEW p \in Policies
  PROVE  /\ p.demos \in Nat
         /\ DemoFrames(p) \in Seq(Frame) /\ Len(DemoFrames(p)) = p.demos
         /\ \A i \in 1..p.demos : /\ DemoFrames(p)[i].state = i - 1 - p.demos
                                  /\ DemoFrames(p)[i].done = (i = p.demos)
                                  /\ DemoFrames(p)[i].episode = 0
<1>1. p.demos \in Nat
  BY ReplayAssumption
<1> DEFINE row(i) == [state |-> i - 1 - p.demos, done |-> i = p.demos, episode |-> 0,
                      intervention |-> FALSE]
<1>2. \A i \in 1..p.demos : row(i) \in Frame
  BY <1>1 DEF Frame
<1>3. DemoFrames(p) = [i \in 1..p.demos |-> row(i)]
  BY DEF DemoFrames
<1>4. DemoFrames(p) \in Seq(Frame) /\ Len(DemoFrames(p)) = p.demos
  <2> HIDE DEF row
  <2> QED BY <1>1, <1>2, <1>3
<1> QED BY <1>1, <1>3, <1>4

\* A row loaded from the demonstrations.
LEMMA LoadedDemo ==
  ASSUME NEW p \in Policies, NEW i \in 1..p.demos, NEW row, FromFrame(row, DemoFrames(p), i)
  PROVE  /\ row \in Row /\ row.state < 0 /\ (row.done \/ row.next = row.state + 1)
<1>1. /\ p.demos \in Nat /\ Len(DemoFrames(p)) = p.demos
      /\ DemoFrames(p)[i].state = i - 1 - p.demos /\ DemoFrames(p)[i].done = (i = p.demos)
      /\ DemoFrames(p)[i].episode = 0
  BY DemosAre
<1>2. row.state = i - 1 - p.demos /\ row.done = (i = p.demos) /\ row \in Row
  BY <1>1 DEF FromFrame
<1>a. row.state < 0
  BY <1>1, <1>2
<1>3. CASE i = p.demos
  <2>1. row.done
    BY <1>2, <1>3, Zenon
  <2> QED BY <1>2, <1>a, <2>1
<1>4. CASE i < p.demos
  <2>1. /\ i + 1 \in 1..p.demos
        /\ DemoFrames(p)[i + 1].state = (i + 1) - 1 - p.demos
        /\ DemoFrames(p)[i + 1].episode = 0
    BY <1>1, <1>4, DemosAre
  <2>2. ~DemoFrames(p)[i].done
    <3>1. i # p.demos
      BY <1>1, <1>4
    <3> QED BY <1>1, <3>1, Zenon
  <2>3. row.next = DemoFrames(p)[i + 1].state
    BY <1>1, <1>4, <2>1, <2>2 DEF FromFrame, LoadedNext
  <2>4. row.next = row.state + 1
    BY <1>1, <1>2, <2>1, <2>3
  <2> QED BY <1>2, <1>a, <2>4
<1> QED BY <1>1, <1>3, <1>4

\* The rebuilt offline buffer: the corrections first, demonstrations in what room is left, and
\* no demonstration without a next state unless the demonstrations are streamed.
LEMMA OfflineIs ==
  ASSUME NEW p \in Policies, NEW frames \in Seq(Frame), NEW b, b = InitialOffline(p, frames),
         NEW m, m = Fewer(OfflineCapacity, Cardinality(Marked(frames)))
  PROVE  /\ Whole(b) /\ m \in Nat /\ m <= Len(b.rows)
         /\ m = OfflineCapacity => Len(b.rows) = OfflineCapacity
         /\ ~IsSacDagger(p) \/ p.demos = 0 => b.optimized = UsesBcUpdates(p)
         /\ \A n \in 1..m :
               /\ NthNewest(Marked(frames), n) \in Marked(frames)
               /\ FromFrame(b.rows[n], frames, NthNewest(Marked(frames), n))
         /\ \A n \in DOMAIN b.rows : n > m => FromDemo(b.rows[n], p)
<1> DEFINE corrections == Corrections(p, frames)
           remaining == OfflineCapacity - Len(corrections.rows)
           capacity == Min({p.demos, remaining})
           demos == IF IsSacDagger(p) THEN Streamed(DemoFrames(p), capacity)
                    ELSE Loaded(DemoFrames(p), capacity, FALSE)
<1>1. /\ Whole(corrections) /\ corrections.capacity = OfflineCapacity
      /\ corrections.optimized = UsesBcUpdates(p) /\ Len(corrections.rows) = m
      /\ \A n \in 1..m : /\ NthNewest(Marked(frames), n) \in Marked(frames)
                         /\ FromFrame(corrections.rows[n], frames, NthNewest(Marked(frames), n))
  BY CorrectionsAre
<1>2. /\ OfflineCapacity \in Nat \ {0} /\ p.demos \in Nat
      /\ m \in Nat /\ m <= OfflineCapacity
      /\ corrections.rows \in Seq(Row) /\ DOMAIN corrections.rows = 1..m
  BY <1>1, ReplayAssumption, MarkedIs, LenProperties DEF Fewer, Whole, Buffer
<1>3. b = IF p.demos = 0 \/ remaining = 0 THEN corrections
          ELSE IF corrections.rows = <<>> THEN demos
          ELSE MergeDemos(corrections, demos, remaining)
  BY DEF InitialOffline
<1>4. CASE p.demos = 0 \/ remaining = 0
  <2>1. b = corrections
    BY <1>3, <1>4
  <2> HIDE DEF corrections
  <2> QED BY <1>1, <1>2, <2>1
<1>5. CASE ~(p.demos = 0 \/ remaining = 0)
  <2>1. /\ remaining \in Nat \ {0} /\ remaining = OfflineCapacity - m
        /\ capacity = IF p.demos <= remaining THEN p.demos ELSE remaining
        /\ capacity \in Nat \ {0} /\ capacity <= p.demos /\ capacity <= remaining
    BY <1>1, <1>2, <1>5, MinOfTwo
  <2> HIDE DEF capacity, remaining
  <2>2. /\ DemoFrames(p) \in Seq(Frame) /\ Len(DemoFrames(p)) = p.demos
    BY DemosAre
  <2>3. /\ Whole(demos) /\ demos.capacity = capacity /\ demos.optimized = IsSacDagger(p)
        /\ Len(demos.rows) = capacity
        /\ \A i \in 1..Len(demos.rows) : /\ Logical(demos)[i] = demos.rows[i]
                                         /\ FromFrame(demos.rows[i], DemoFrames(p), i)
    <3>1. /\ IsSacDagger(p) \in BOOLEAN
          /\ demos = Loaded(DemoFrames(p), capacity, IsSacDagger(p))
      <4>1. CASE IsSacDagger(p)
        <5>1. IsSacDagger(p) = TRUE
          BY <4>1, Zenon
        <5> QED BY <5>1 DEF Streamed
      <4>2. CASE ~IsSacDagger(p)
        <5>1. IsSacDagger(p) \in BOOLEAN
          BY DEF IsSacDagger
        <5>2. IsSacDagger(p) = FALSE
          BY <4>2, <5>1, Zenon
        <5> QED BY <5>2
      <4> QED BY <4>1, <4>2
    <3> HIDE DEF demos
    <3>2. /\ Whole(demos) /\ demos.capacity = capacity /\ demos.optimized = IsSacDagger(p)
          /\ Len(demos.rows) = IF Len(DemoFrames(p)) <= capacity THEN Len(DemoFrames(p))
                               ELSE capacity
      BY <2>1, <2>2, <3>1, LoadedIs
    <3>3. \A i \in 1..Len(demos.rows) : /\ Logical(demos)[i] = demos.rows[i]
                                        /\ FromFrame(demos.rows[i], DemoFrames(p), i)
      BY <2>1, <2>2, <3>1, LoadedIs
    <3>4. (IF Len(DemoFrames(p)) <= capacity THEN Len(DemoFrames(p)) ELSE capacity) = capacity
      BY <1>2, <2>1, <2>2
    <3> QED BY <3>2, <3>3, <3>4
  <2> HIDE DEF demos
  <2>4. \A i \in 1..capacity : /\ i \in 1..p.demos /\ demos.rows[i] \in Row
                               /\ demos.rows[i].state < 0
                               /\ demos.rows[i].done \/ demos.rows[i].next = demos.rows[i].state + 1
    <3> SUFFICES ASSUME NEW i \in 1..capacity
                 PROVE  /\ i \in 1..p.demos /\ demos.rows[i] \in Row
                        /\ demos.rows[i].state < 0
                        /\ demos.rows[i].done \/ demos.rows[i].next = demos.rows[i].state + 1
      OBVIOUS
    <3>1. i \in 1..p.demos
      BY <1>2, <2>1
    <3>2. FromFrame(demos.rows[i], DemoFrames(p), i)
      BY <2>3
    <3> QED BY <3>1, <3>2, LoadedDemo
  <2>5. CASE corrections.rows = <<>>
    <3>1. b = demos /\ m = 0
      BY <1>1, <1>3, <1>5, <2>5, EmptySeq
    <3>2. DOMAIN demos.rows = 1..capacity
      BY <2>3, LogicalIs
    <3>3. ~IsSacDagger(p) => UsesBcUpdates(p) = FALSE /\ IsSacDagger(p) = FALSE
      <4>1. IsSacDagger(p) \in BOOLEAN /\ UsesBcUpdates(p) \in BOOLEAN
        BY DEF IsSacDagger, UsesBcUpdates
      <4>2. UsesBcUpdates(p) => IsSacDagger(p)
        BY DEF IsSacDagger, UsesBcUpdates
      <4> QED BY <4>1, <4>2, Zenon
    <3>4. \A n \in DOMAIN b.rows : FromDemo(b.rows[n], p)
      BY <1>5, <2>4, <3>1, <3>2 DEF FromDemo
    <3>5. ~IsSacDagger(p) \/ p.demos = 0 => b.optimized = UsesBcUpdates(p)
      <4>1. SUFFICES ASSUME ~IsSacDagger(p) PROVE b.optimized = UsesBcUpdates(p)
        BY <1>5
      <4> QED BY <2>3, <3>1, <3>3, <4>1, Zenon
    <3> QED BY <1>2, <2>1, <2>3, <3>1, <3>4, <3>5
  <2>6. CASE corrections.rows # <<>>
    <3> DEFINE Copied(row) == IF demos.optimized THEN [row EXCEPT !.next = row.state] ELSE row
               size == Len(demos.rows)
               rows == [n \in 1..capacity |-> Copied(Logical(demos)[size + 1 - n])]
    <3>1. size = capacity /\ Min({remaining, size}) = capacity
      BY <2>1, <2>3, MinOfTwo
    <3>2. b = Fill(corrections, rows)
      BY <1>3, <1>5, <2>6, <3>1 DEF MergeDemos
    <3>3. \A n \in 1..capacity : rows[n] \in Row /\ FromDemo(rows[n], p)
      <4> SUFFICES ASSUME NEW n \in 1..capacity PROVE rows[n] \in Row /\ FromDemo(rows[n], p)
        OBVIOUS
      <4> DEFINE i == size + 1 - n
                 row == demos.rows[i]
      <4>1. i \in 1..capacity
        BY <2>1, <3>1
      <4>2. /\ row \in Row /\ row.state < 0 /\ row.state \in Int
            /\ row.done \/ row.next = row.state + 1
        BY <2>4, <4>1 DEF Row
      <4>3. Logical(demos)[i] = row
        BY <2>3, <3>1, <4>1
      <4>4. rows[n] = Copied(row)
        BY <4>3
      <4> HIDE DEF i, row, rows, size
      <4>5. CASE IsSacDagger(p)
        <5>1. rows[n] = [row EXCEPT !.next = row.state]
          BY <2>3, <4>4, <4>5
        <5>2. rows[n] \in Row /\ rows[n].state = row.state
          BY <4>2, <5>1 DEF Row
        <5> QED BY <1>5, <4>2, <4>5, <5>2 DEF FromDemo
      <4>6. CASE ~IsSacDagger(p)
        <5>1. rows[n] = row
          BY <2>3, <4>4, <4>6
        <5> QED BY <1>5, <4>2, <5>1 DEF FromDemo
      <4> QED BY <4>5, <4>6
    <3>4. rows \in Seq(Row) /\ Len(rows) = capacity
      <4>1. \A n \in 1..capacity : rows[n] \in Row
        BY <3>3
      <4>2. rows = [n \in 1..capacity |-> rows[n]]
        OBVIOUS
      <4>3. rows \in [1..capacity -> Row] /\ capacity \in Nat
        <5> HIDE DEF rows
        <5> QED BY <2>1, <4>1, <4>2, Zenon
      <4> HIDE DEF rows
      <4> QED BY <4>3
    <3>5. /\ Len(corrections.rows) < corrections.capacity
          /\ Len(corrections.rows) + Len(rows) <= corrections.capacity
      BY <1>1, <1>2, <2>1, <3>4
    <3> HIDE DEF rows, corrections
    <3>6. /\ Whole(b) /\ b.rows = corrections.rows \o rows
          /\ b.optimized = UsesBcUpdates(p)
      BY <1>1, <3>2, <3>4, <3>5, FillIs
    <3>7. /\ Len(b.rows) = m + capacity /\ DOMAIN b.rows = 1..(m + capacity)
          /\ \A n \in 1..m : b.rows[n] = corrections.rows[n]
          /\ \A n \in 1..(m + capacity) : n > m => b.rows[n] = rows[n - m]
      <4>1. /\ Len(b.rows) = m + capacity
            /\ \A n \in 1..(m + capacity) : b.rows[n] = IF n <= m THEN corrections.rows[n]
                                                        ELSE rows[n - m]
            /\ b.rows \in Seq(Row)
        <5> DEFINE s == corrections.rows
                   t == s \o rows
        <5>1. s \in Seq(Row) /\ rows \in Seq(Row) /\ Len(s) = m /\ Len(rows) = capacity
              /\ b.rows = t
          BY <1>1, <1>2, <3>4, <3>6
        <5> HIDE DEF s
        <5>2. /\ t \in Seq(Row) /\ Len(t) = Len(s) + Len(rows)
              /\ \A n \in 1..(Len(s) + Len(rows)) :
                    t[n] = IF n <= Len(s) THEN s[n] ELSE rows[n - Len(s)]
          BY <5>1, ConcatProperties
        <5> HIDE DEF t
        <5> QED BY <5>1, <5>2 DEF s
      <4>2. DOMAIN b.rows = 1..(m + capacity)
        BY <4>1, LenProperties
      <4>3. m \in Nat /\ capacity \in Nat
        BY <1>2, <2>1
      <4>4. \A n \in 1..m : b.rows[n] = corrections.rows[n]
        BY <4>1, <4>3
      <4>5. \A n \in 1..(m + capacity) : n > m => b.rows[n] = rows[n - m]
        BY <4>1, <4>3
      <4> QED BY <4>1, <4>2, <4>4, <4>5
    <3>8. \A n \in DOMAIN b.rows : n > m => FromDemo(b.rows[n], p)
      <4> SUFFICES ASSUME NEW n \in 1..(m + capacity), n > m PROVE FromDemo(b.rows[n], p)
        BY <3>7
      <4>1. n - m \in 1..capacity
        BY <1>2, <2>1
      <4> QED BY <3>3, <3>7, <4>1
    <3>9. m # OfflineCapacity
      BY <1>2, <2>1
    <3>10. m \in Nat /\ m <= Len(b.rows)
      BY <1>2, <2>1, <3>7
    <3> QED BY <1>1, <3>6, <3>7, <3>8, <3>9, <3>10
  <2> QED BY <2>5, <2>6
<1> QED BY <1>4, <1>5
\* A saved dataset holds the rows in their logical order, one episode up to each end.
LEMMA SavedAre ==
  ASSUME NEW b, Whole(b), NEW frames, frames = SavedFrames(b)
  PROVE  /\ frames \in Seq(Frame) /\ Len(frames) = Len(b.rows) /\ DOMAIN frames = 1..Len(b.rows)
         /\ \A i \in 1..Len(b.rows) :
               /\ frames[i].state = Logical(b)[i].state /\ frames[i].done = Logical(b)[i].done
               /\ frames[i].intervention = Logical(b)[i].intervention
         /\ \A i \in 1..(Len(b.rows) - 1) :
               frames[i].episode # frames[i + 1].episode
                   => Logical(b)[i].done \/ Logical(b)[i].truncated
<1> DEFINE rows == Logical(b)
           size == Len(b.rows)
           Ends(i) == rows[i].done \/ rows[i].truncated
           before(i) == {j \in 1..(i - 1) : Ends(j)}
           frame(i) == [state |-> rows[i].state, done |-> rows[i].done,
                        intervention |-> rows[i].intervention, episode |-> Cardinality(before(i))]
<1>1. /\ size \in Nat /\ Len(rows) = size
      /\ \A i \in 1..size : rows[i] \in Row
  BY LogicalIs
<1>2. frames = [i \in 1..size |-> frame(i)]
  BY <1>1 DEF SavedFrames
<1>3. ASSUME NEW i \in 1..size PROVE Cardinality(before(i)) \in Nat
  <2>1. i - 1 \in Int /\ IsFiniteSet(1..(i - 1)) /\ before(i) \in SUBSET (1..(i - 1))
    BY FS_Interval
  <2> HIDE DEF before
  <2>2. IsFiniteSet(before(i))
    BY <2>1, FS_Subset
  <2> QED BY <2>2, FS_CardinalityType
<1>4. ASSUME NEW i \in 1..size PROVE frame(i) \in Frame
  <2>1. /\ rows[i].state \in Int /\ rows[i].done \in BOOLEAN /\ rows[i].intervention \in BOOLEAN
    BY <1>1 DEF Row
  <2> HIDE DEF before, rows
  <2> QED BY <1>3, <2>1 DEF Frame
<1>5. ASSUME NEW i \in 1..(size - 1), ~Ends(i) PROVE before(i) = before(i + 1)
  <2>1. \A j \in Int : j \in 1..((i + 1) - 1) <=> j \in 1..(i - 1) \/ j = i
    BY <1>1
  <2> HIDE DEF Ends
  <2> QED BY <1>5, <2>1
<1>6. ASSUME NEW i \in 1..(size - 1), frames[i].episode # frames[i + 1].episode PROVE Ends(i)
  <2>1. i \in 1..size /\ i + 1 \in 1..size
    BY <1>1
  <2>2. /\ frames[i].episode = Cardinality(before(i))
        /\ frames[i + 1].episode = Cardinality(before(i + 1))
    <3> HIDE DEF before, size
    <3> QED BY <1>2, <2>1
  <2> HIDE DEF before, Ends
  <2> QED BY <1>5, <1>6, <2>2
<1>7. frames \in Seq(Frame) /\ Len(frames) = size /\ DOMAIN frames = 1..size
  <2> HIDE DEF frame, size
  <2> QED BY <1>1, <1>2, <1>4
<1>8. \A i \in 1..size : /\ frames[i].state = rows[i].state /\ frames[i].done = rows[i].done
                         /\ frames[i].intervention = rows[i].intervention
  <2> HIDE DEF before, rows, size
  <2> QED BY <1>2
<1> QED BY <1>6, <1>7, <1>8

-----------------------------------------------------------------------------
(* The invariant                                                           *)

\* rows or frames in the order their transitions were received in
Ascending(rows) == \A i, j \in DOMAIN rows : i < j => rows[i].state < rows[j].state

\* no stored transition is missing from the first row on
NoGapFrom(rows, stored) ==
    \A s \in stored, i \in DOMAIN rows :
        rows[i].state <= s => \E j \in DOMAIN rows : rows[j].state = s

\* nor between the first frame and the last
NoGap(frames, stored) ==
    \A s \in stored, i, k \in DOMAIN frames :
        frames[i].state <= s /\ s <= frames[k].state => \E j \in DOMAIN frames : frames[j].state = s

ReplayTypes ==
    /\ policy \in Policies
    /\ Whole(online) /\ online.capacity = OnlineCapacity /\ online.optimized = TRUE
    /\ Whole(offline)
    /\ saved \in Seq(Frame) /\ Len(saved) <= OnlineCapacity
    /\ observation \in Nat \ {0}
    /\ history \in [stored : SUBSET (1..(observation - 1)), truncated : SUBSET Int,
                    corrections : SUBSET Int]
    /\ resumed \in BOOLEAN

\* what the online buffer holds was received in that order, without a gap to now
OnlineOrdered ==
    /\ Ascending(Logical(online)) /\ NoGapFrom(Logical(online), history.stored)
    /\ \A i \in DOMAIN Logical(online) :
          /\ Logical(online)[i].state \in 1..(observation - 1)
          /\ Logical(online)[i].truncated => Logical(online)[i].state \in history.truncated

\* so was what the dataset holds; its episodes end where a segment did
SavedOrdered ==
    /\ Ascending(saved) /\ NoGap(saved, history.stored)
    /\ \A i \in DOMAIN saved : saved[i].state \in 1..(observation - 1)
    /\ \A i \in 1..(Len(saved) - 1) :
          saved[i].episode # saved[i + 1].episode =>
              saved[i].done \/ saved[i].state \in history.truncated
    /\ history.corrections = {saved[i].state : i \in Marked(saved)}

\* until a transition arrives, the online buffer holds the saved corrections
HoldsSaved == resumed => {online.rows[i].state : i \in Marked(online.rows)} = history.corrections

ReplayInv == ReplayTypes /\ OnlineOrdered /\ SavedOrdered /\ HoldsSaved /\ NewestCorrectionsKept

\* a row's next state is the real one wherever its successor is, or may come to be, stored
RealNext(row, stored, truncated, now, demos) ==
    \/ row.done \/ row.state \in truncated \/ row.next = row.state + 1
    \/ /\ row.state + 1 < now
       /\ row.state + 1 \notin stored \cup (-demos)..0

OfflineRowsReal ==
    ~UsesBcUpdates(policy) =>
        /\ ~offline.optimized
        /\ \A k \in DOMAIN offline.rows :
              RealNext(offline.rows[k], history.stored, history.truncated, observation, policy.demos)

\* A row newer than all of them keeps the rows in order and without a gap.
LEMMA AddOrdered ==
  ASSUME NEW b, Whole(b), NEW row \in Row, NEW S \in SUBSET Int, NEW a, a = Add(b, row),
         Ascending(Logical(b)), NoGapFrom(Logical(b), S),
         \A i \in DOMAIN Logical(b) : Logical(b)[i].state < row.state,
         \A s \in S : s < row.state
  PROVE  /\ Ascending(Logical(a)) /\ NoGapFrom(Logical(a), S \cup {row.state})
         /\ \A i \in DOMAIN Logical(a) : \/ Logical(a)[i] = row
                                         \/ \E j \in DOMAIN Logical(b) : Logical(a)[i] = Logical(b)[j]
<1> DEFINE size == Len(b.rows)
           L == Logical(b)
           M == Logical(a)
<1>1. /\ size \in Nat /\ size <= b.capacity /\ b.capacity \in Nat \ {0}
      /\ DOMAIN L = 1..size /\ \A i \in 1..size : L[i] \in Row
  <2>1. b.capacity \in Nat /\ b.position \in Nat /\ size <= b.capacity /\ b.position < b.capacity
    BY DEF Whole, Buffer
  <2>2. size \in Nat /\ DOMAIN L = 1..size /\ \A i \in 1..size : L[i] \in Row
    BY LogicalIs
  <2> QED BY <2>1, <2>2
<1>2. Whole(a) /\ DOMAIN M = 1..Len(a.rows)
  <2>1. Whole(a)
    BY AddIs
  <2> QED BY <2>1, LogicalIs
<1>3. PICK d \in {0, 1} :
        /\ DOMAIN M = 1..(size + 1 - d) /\ size - d \in Nat
        /\ \A i \in 1..(size - d) : M[i] = L[i + d]
        /\ M[size + 1 - d] = row
  <2>1. CASE size < b.capacity
    <3>1. /\ Len(a.rows) = size + 1
          /\ \A i \in 1..size : M[i] = L[i]
          /\ M[size + 1] = row
      BY <2>1, AddIs
    <3> HIDE DEF L, M, size
    <3>2. /\ size + 1 - 0 = size + 1 /\ size - 0 = size
          /\ \A i \in 1..size : i + 0 = i
      BY <1>1
    <3> WITNESS 0 \in {0, 1}
    <3> QED BY <1>1, <1>2, <3>1, <3>2
  <2>2. CASE size = b.capacity
    <3>1. /\ Len(a.rows) = size
          /\ \A i \in 1..(size - 1) : M[i] = L[i + 1]
          /\ M[size] = row
      BY <2>2, AddIs
    <3> HIDE DEF L, M, size
    <3>2. size + 1 - 1 = size /\ size - 1 \in Nat
      BY <1>1, <2>2
    <3> WITNESS 1 \in {0, 1}
    <3> QED BY <1>1, <1>2, <3>1, <3>2
  <2> QED BY <1>1, <2>1, <2>2
<1>4. /\ \A i, j \in 1..size : i < j => L[i].state < L[j].state
      /\ \A i \in 1..size : L[i].state < row.state
      /\ \A s \in S, i \in 1..size : L[i].state <= s => \E j \in 1..size : L[j].state = s
  BY <1>1 DEF Ascending, NoGapFrom
<1>5. \A i \in 1..size : L[i].state \in Int
  BY <1>1 DEF Row
<1>6. row.state \in Int
  BY DEF Row
<1> DEFINE last == size + 1 - d
<1>7. /\ last \in Nat \ {0} /\ M[last] = row /\ last - 1 = size - d
      /\ \A i \in 1..last : i = last \/ i \in 1..(size - d)
      /\ \A i \in 1..(size - d) : i + d \in 1..size /\ M[i] = L[i + d]
      /\ DOMAIN M = 1..last
  BY <1>1, <1>3
<1> HIDE DEF L, M, last, size
<1>8. ASSUME NEW i \in 1..last, NEW j \in 1..last, i < j PROVE M[i].state < M[j].state
  <2>1. i \in 1..(size - d)
    BY <1>7, <1>8
  <2>2. CASE j = last
    BY <1>4, <1>7, <2>1, <2>2
  <2>3. CASE j # last
    <3>1. j \in 1..(size - d) /\ i + d < j + d
      BY <1>7, <1>8, <2>3
    <3> QED BY <1>4, <1>7, <2>1, <3>1
  <2> QED BY <2>2, <2>3
<1>9. ASSUME NEW s \in S \cup {row.state}, NEW i \in 1..last, M[i].state <= s
      PROVE  \E j \in 1..last : M[j].state = s
  <2>1. CASE s = row.state
    BY <1>7, <2>1
  <2>2. CASE s # row.state
    <3>1. s \in S /\ s < row.state /\ s \in Int
      BY <2>2
    <3>2. i # last
      BY <1>6, <1>7, <1>9, <3>1
    <3>3. i \in 1..(size - d) /\ i + d \in 1..size /\ M[i] = L[i + d]
      BY <1>7, <3>2
    <3>4. PICK k \in 1..size : L[k].state = s
      BY <1>4, <1>9, <3>1, <3>3
    <3>5. k >= i + d
      <4> SUFFICES ASSUME k < i + d PROVE FALSE
        BY <1>1, <3>3
      <4>1. L[k].state < L[i + d].state
        BY <1>4, <3>3
      <4> QED BY <1>5, <1>9, <3>3, <3>4, <4>1
    <3>6. k - d \in 1..(size - d) /\ k - d + d = k /\ k - d \in 1..last
      BY <1>1, <1>7, <3>3, <3>5
    <3>7. M[k - d] = L[k]
      BY <1>7, <3>6
    <3> QED BY <3>4, <3>6, <3>7
  <2> QED BY <2>1, <2>2
<1>10. \A i \in 1..last : M[i] = row \/ \E j \in 1..size : M[i] = L[j]
  BY <1>7
<1>11. Ascending(M)
  BY <1>7, <1>8 DEF Ascending
<1>12. NoGapFrom(M, S \cup {row.state})
  BY <1>7, <1>9 DEF NoGapFrom
<1>13. \A i \in DOMAIN M : M[i] = row \/ \E j \in DOMAIN L : M[i] = L[j]
  BY <1>1, <1>7, <1>10
<1> QED BY <1>11, <1>12, <1>13 DEF L, M

\* An observation later than another has those before it behind it.
LEMMA Later ==
  ASSUME NEW m \in Nat \ {0}, NEW n \in Nat \ {0}, m < n
  PROVE  m \in 1..(n - 1) /\ \A i \in 1..(m - 1) : i \in 1..(n - 1)
OBVIOUS

\* The online buffer holds the whole saved dataset, which never exceeds it.
LEMMA OnlineIs ==
  ASSUME NEW frames \in Seq(Frame), Len(frames) <= OnlineCapacity,
         NEW b, b = InitialOnline(frames)
  PROVE  /\ Whole(b) /\ b.capacity = OnlineCapacity /\ b.optimized = TRUE
         /\ DOMAIN Logical(b) = DOMAIN frames /\ DOMAIN b.rows = DOMAIN frames
         /\ \A i \in DOMAIN frames : /\ Logical(b)[i] = b.rows[i]
                                    /\ FromFrame(b.rows[i], frames, i)
<1>1. PICK o \in BOOLEAN : o = TRUE
  OBVIOUS
<1>2. b = Loaded(frames, OnlineCapacity, o)
  BY <1>1 DEF InitialOnline
<1>3. /\ Len(frames) \in Nat /\ DOMAIN frames = 1..Len(frames)
      /\ OnlineCapacity \in Nat \ {0}
  BY LenProperties, ReplayAssumption
<1>4. /\ Whole(b) /\ b.capacity = OnlineCapacity /\ b.optimized = o
      /\ Len(b.rows) = IF Len(frames) <= OnlineCapacity THEN Len(frames) ELSE OnlineCapacity
  BY <1>2, <1>3, LoadedIs
<1>5. \A i \in 1..Len(b.rows) : /\ Logical(b)[i] = b.rows[i]
                                /\ FromFrame(b.rows[i], frames, i)
  BY <1>2, <1>3, LoadedIs
<1>6. Len(b.rows) = Len(frames)
  BY <1>3, <1>4
<1>7. DOMAIN Logical(b) = 1..Len(b.rows) /\ DOMAIN b.rows = 1..Len(b.rows)
  BY <1>4, LogicalIs
<1> QED BY <1>1, <1>3, <1>4, <1>5, <1>6, <1>7

\* A session starts with empty rows and an empty dataset.
LEMMA ReplayInitKeeps == ReplayInit => ReplayInv
<1> SUFFICES ASSUME ReplayInit PROVE ReplayInv
  OBVIOUS
<1>1. /\ policy \in Policies /\ online = InitialOnline(<<>>)
      /\ offline = InitialOffline(policy, <<>>) /\ saved = <<>> /\ observation = 1
      /\ history = [stored |-> {}, truncated |-> {}, corrections |-> {}]
      /\ resumed = FALSE
  BY DEF ReplayInit
<1>2. <<>> \in Seq(Frame) /\ Len(<<>>) = 0 /\ OnlineCapacity \in Nat \ {0} /\ DOMAIN <<>> = {}
  BY EmptySeq, ReplayAssumption
<1>4. /\ Whole(online) /\ online.capacity = OnlineCapacity /\ online.optimized = TRUE
      /\ DOMAIN Logical(online) = {}
  <2>1. PICK frames : frames = <<>>
    OBVIOUS
  <2>2. /\ online = InitialOnline(frames) /\ frames \in Seq(Frame) /\ DOMAIN frames = {}
        /\ Len(frames) <= OnlineCapacity
    BY <1>1, <1>2, <2>1
  <2> QED BY <2>2, OnlineIs
<1>5. Whole(offline)
  <2>1. PICK m : m = Fewer(OfflineCapacity, Cardinality(Marked(<<>>)))
    OBVIOUS
  <2> QED BY <1>1, <1>2, <2>1, OfflineIs
<1>7. ReplayTypes
  <2>1. saved \in Seq(Frame) /\ Len(saved) <= OnlineCapacity
    BY <1>1, <1>2
  <2>2. history \in [stored : SUBSET (1..(observation - 1)), truncated : SUBSET Int,
                     corrections : SUBSET Int]
    BY <1>1
  <2>3. observation \in Nat \ {0} /\ resumed \in BOOLEAN /\ policy \in Policies
    <3>1. observation \in Nat \ {0} /\ policy \in Policies
      BY <1>1
    <3>2. resumed \in BOOLEAN
      BY <1>1
    <3> QED BY <3>1, <3>2
  <2> QED BY <1>4, <1>5, <2>1, <2>2, <2>3 DEF ReplayTypes
<1>8. OnlineOrdered
  BY <1>4 DEF OnlineOrdered, Ascending, NoGapFrom
<1>9. SavedOrdered
  <2>1. Marked(saved) = {}
    BY <1>1, <1>2 DEF Marked
  <2> QED BY <1>1, <1>2, <2>1 DEF SavedOrdered, Ascending, NoGap
<1> QED BY <1>1, <1>7, <1>8, <1>9 DEF ReplayInv, HoldsSaved, NewestCorrectionsKept

\* A transition, dropped or stored, keeps the rows whole and in order.
LEMMA TransitionKeeps ==
  ASSUME ReplayInv, NEW end \in {"no", "done", "truncated"}, NEW intervention \in BOOLEAN,
         NEW has_nan \in BOOLEAN, ProcessTransition(end, intervention, has_nan)
  PROVE  ReplayInv'
<1> DEFINE row == [state |-> observation, next |-> observation + 1, done |-> end = "done",
                   truncated |-> end = "truncated", intervention |-> intervention]
<1>1. /\ observation \in Nat \ {0} /\ observation' \in Nat \ {0} /\ observation < observation'
      /\ resumed' = FALSE /\ policy' = policy /\ saved' = saved
      /\ online' = IF has_nan THEN online ELSE Add(online, row)
      /\ offline' = IF has_nan \/ ~intervention THEN offline ELSE Add(offline, row)
  BY DEF ProcessTransition, ReplayInv, ReplayTypes
<1>a. /\ observation \in Nat \ {0} /\ observation' \in Nat \ {0}
      /\ observation < observation'
      /\ \A i \in 1..(observation - 1) : i \in 1..(observation' - 1)
      /\ observation \in 1..(observation' - 1)
  <2>1. /\ observation \in Nat \ {0} /\ observation' \in Nat \ {0}
        /\ observation < observation'
    BY <1>1
  <2> QED BY <2>1, Later
<1>2. row \in Row /\ row.state = observation /\ row.truncated = (end = "truncated")
  BY <1>1 DEF Row
<1>3. /\ history.stored \in SUBSET (1..(observation - 1)) /\ history.truncated \in SUBSET Int
      /\ history.corrections \in SUBSET Int
  BY DEF ReplayInv, ReplayTypes
<1>4. /\ history'.stored = IF has_nan THEN history.stored ELSE history.stored \cup {observation}
      /\ history'.truncated = IF end = "truncated" THEN history.truncated \cup {observation}
                              ELSE history.truncated
      /\ history'.corrections = history.corrections
      /\ history' \in [stored : SUBSET (1..(observation' - 1)), truncated : SUBSET Int,
                       corrections : SUBSET Int]
  <2>1. /\ history = [stored |-> history.stored, truncated |-> history.truncated,
                      corrections |-> history.corrections]
    BY DEF ReplayInv, ReplayTypes
  <2>2. PICK stored, truncated :
           /\ history' = [history EXCEPT !.stored = stored, !.truncated = truncated]
           /\ stored = IF has_nan THEN history.stored ELSE history.stored \cup {observation}
           /\ truncated = IF end = "truncated" THEN history.truncated \cup {observation}
                          ELSE history.truncated
    BY DEF ProcessTransition
  <2>3. history' = [stored |-> stored, truncated |-> truncated,
                    corrections |-> history.corrections]
    BY <2>1, <2>2
  <2>4. /\ stored \in SUBSET (1..(observation' - 1)) /\ truncated \in SUBSET Int
    BY <1>1, <1>3, <2>2
  <2> QED BY <1>3, <2>2, <2>3, <2>4
<1> HIDE DEF row
<1>5. /\ Whole(online) /\ online.capacity = OnlineCapacity /\ online.optimized = TRUE
      /\ Whole(offline) /\ saved \in Seq(Frame) /\ Len(saved) <= OnlineCapacity
      /\ policy \in Policies
  BY DEF ReplayInv, ReplayTypes
<1>6. ReplayTypes'
  <2>1. /\ Whole(online') /\ online'.capacity = OnlineCapacity /\ online'.optimized = TRUE
    BY <1>1, <1>2, <1>5, AddIs
  <2>2. Whole(offline')
    BY <1>1, <1>2, <1>5, AddIs
  <2> QED BY <1>1, <1>4, <1>5, <2>1, <2>2 DEF ReplayTypes
<1>7. /\ Ascending(Logical(online)) /\ NoGapFrom(Logical(online), history.stored)
      /\ \A i \in DOMAIN Logical(online) :
            /\ Logical(online)[i].state \in 1..(observation - 1)
            /\ Logical(online)[i].truncated => Logical(online)[i].state \in history.truncated
  BY DEF ReplayInv, OnlineOrdered
<1>8. /\ Ascending(Logical(online')) /\ NoGapFrom(Logical(online'), history'.stored)
      /\ \A i \in DOMAIN Logical(online') :
            /\ Logical(online')[i].state \in 1..(observation' - 1)
            /\ Logical(online')[i].truncated => Logical(online')[i].state \in history'.truncated
  <2>1. CASE has_nan
    <3>1. online' = online /\ history'.stored = history.stored
      BY <1>1, <1>4, <2>1
    <3>2. \A s \in history.truncated : s \in history'.truncated
      BY <1>4
    <3> QED BY <1>a, <1>7, <3>1, <3>2
  <2>2. CASE ~has_nan
    <3>1. online' = Add(online, row) /\ history'.stored = history.stored \cup {row.state}
      BY <1>1, <1>2, <1>4, <2>2
    <3>2. /\ history.stored \in SUBSET Int /\ \A s \in history.stored : s < row.state
          /\ \A i \in DOMAIN Logical(online) : Logical(online)[i].state < row.state
      BY <1>1, <1>2, <1>3, <1>7
    <3>3. /\ Ascending(Logical(online')) /\ NoGapFrom(Logical(online'), history'.stored)
          /\ \A i \in DOMAIN Logical(online') :
                \/ Logical(online')[i] = row
                \/ \E j \in DOMAIN Logical(online) : Logical(online')[i] = Logical(online)[j]
      <4> DEFINE S == history.stored
                 T == history'.stored
      <4>1. /\ Ascending(Logical(online)) /\ NoGapFrom(Logical(online), S)
            /\ S \in SUBSET Int /\ \A s \in S : s < row.state
            /\ T = S \cup {row.state}
        BY <1>7, <3>1, <3>2
      <4> HIDE DEF S, T
      <4>2. /\ Ascending(Logical(online')) /\ NoGapFrom(Logical(online'), S \cup {row.state})
            /\ \A i \in DOMAIN Logical(online') :
                  \/ Logical(online')[i] = row
                  \/ \E j \in DOMAIN Logical(online) : Logical(online')[i] = Logical(online)[j]
        <5>1. PICK b, a : b = online /\ a = online'
          OBVIOUS
        <5>2. /\ Whole(b) /\ row \in Row /\ S \in SUBSET Int /\ a = Add(b, row)
              /\ Ascending(Logical(b)) /\ NoGapFrom(Logical(b), S)
          BY <1>2, <1>5, <3>1, <4>1, <5>1
        <5>3. /\ \A i \in DOMAIN Logical(b) : Logical(b)[i].state < row.state
              /\ \A s \in S : s < row.state
          BY <3>2, <4>1, <5>1
        <5>4. /\ Ascending(Logical(a)) /\ NoGapFrom(Logical(a), S \cup {row.state})
              /\ \A i \in DOMAIN Logical(a) :
                    \/ Logical(a)[i] = row
                    \/ \E j \in DOMAIN Logical(b) : Logical(a)[i] = Logical(b)[j]
          BY <5>2, <5>3, AddOrdered
        <5> QED BY <5>1, <5>4
      <4> QED BY <4>1, <4>2 DEF T
    <3>4. ASSUME NEW i \in DOMAIN Logical(online')
          PROVE  /\ Logical(online')[i].state \in 1..(observation' - 1)
                 /\ Logical(online')[i].truncated
                        => Logical(online')[i].state \in history'.truncated
      <4>1. CASE Logical(online')[i] = row
        <5>1. row.state \in 1..(observation' - 1)
          BY <1>a, <1>2
        <5>2. row.truncated => row.state \in history'.truncated
          BY <1>2, <1>4, Zenon
        <5> QED BY <4>1, <5>1, <5>2
      <4>2. ASSUME NEW j \in DOMAIN Logical(online), Logical(online')[i] = Logical(online)[j]
            PROVE  /\ Logical(online')[i].state \in 1..(observation' - 1)
                   /\ Logical(online')[i].truncated
                          => Logical(online')[i].state \in history'.truncated
        <5>1. Logical(online)[j].state \in 1..(observation' - 1)
          BY <1>a, <1>7
        <5> QED BY <1>4, <1>7, <4>2, <5>1
      <4> QED BY <3>3, <4>1, <4>2
    <3> QED BY <3>3, <3>4
  <2> QED BY <2>1, <2>2
<1>9. OnlineOrdered'
  BY <1>8 DEF OnlineOrdered
<1>10. SavedOrdered'
  <2>1. /\ Ascending(saved) /\ NoGap(saved, history.stored)
        /\ \A i \in DOMAIN saved : saved[i].state \in 1..(observation - 1)
        /\ \A i \in 1..(Len(saved) - 1) :
              saved[i].episode # saved[i + 1].episode =>
                  saved[i].done \/ saved[i].state \in history.truncated
        /\ history.corrections = {saved[i].state : i \in Marked(saved)}
    BY DEF ReplayInv, SavedOrdered
  <2>2. \A i \in DOMAIN saved : /\ saved[i].state \in 1..(observation' - 1)
                                /\ ~(observation <= saved[i].state)
    BY <1>1, <2>1
  <2>3. NoGap(saved, history'.stored)
    BY <1>4, <2>1, <2>2 DEF NoGap
  <2>4. \A i \in 1..(Len(saved) - 1) :
            saved[i].episode # saved[i + 1].episode =>
                saved[i].done \/ saved[i].state \in history'.truncated
    BY <1>4, <2>1
  <2> QED BY <1>1, <1>4, <2>1, <2>2, <2>3, <2>4 DEF SavedOrdered
<1> QED BY <1>1, <1>6, <1>9, <1>10 DEF ReplayInv, HoldsSaved, NewestCorrectionsKept

\* A save writes the rows in order, and the corrections among them.
LEMMA SaveKeeps ==
  ASSUME ReplayInv, SaveDataset
  PROVE  ReplayInv'
<1> DEFINE marked == {online.rows[i].state : i \in Marked(online.rows)}
<1>1. /\ policy' = policy /\ online' = online /\ offline' = offline
      /\ observation' = observation /\ resumed' = resumed
      /\ saved' = SavedFrames(online)
  BY DEF SaveDataset
<1>2. /\ Whole(online) /\ online.capacity = OnlineCapacity /\ online.optimized = TRUE
      /\ Whole(offline) /\ policy \in Policies /\ observation \in Nat \ {0}
      /\ resumed \in BOOLEAN
  BY DEF ReplayInv, ReplayTypes
<1>3. /\ DOMAIN online.rows = 1..Len(online.rows) /\ Len(online.rows) \in Nat
      /\ DOMAIN Logical(online) = 1..Len(online.rows)
      /\ \A i \in 1..Len(online.rows) : /\ Place(online, i) \in 1..Len(online.rows)
                                        /\ Logical(online)[i] = online.rows[Place(online, i)]
      /\ \A k \in 1..Len(online.rows) : \E i \in 1..Len(online.rows) : k = Place(online, i)
      /\ Len(online.rows) <= OnlineCapacity /\ online.rows \in Seq(Row)
  <2>1. Len(online.rows) <= OnlineCapacity /\ online.rows \in Seq(Row)
    BY <1>2 DEF Whole, Buffer
  <2> QED BY <1>2, <2>1, LogicalIs
<1>4. /\ saved' \in Seq(Frame) /\ Len(saved') = Len(online.rows)
      /\ DOMAIN saved' = 1..Len(online.rows)
      /\ \A i \in 1..Len(online.rows) :
            /\ saved'[i].state = Logical(online)[i].state
            /\ saved'[i].done = Logical(online)[i].done
            /\ saved'[i].intervention = Logical(online)[i].intervention
      /\ \A i \in 1..(Len(online.rows) - 1) :
            saved'[i].episode # saved'[i + 1].episode
                => Logical(online)[i].done \/ Logical(online)[i].truncated
  BY <1>1, <1>2, SavedAre
<1>5. \A i \in DOMAIN online.rows : online.rows[i].state \in Int
  <2>1. \A i \in DOMAIN online.rows : online.rows[i] \in Row
    BY <1>3, ElementOfSeq
  <2> QED BY <2>1 DEF Row
<1>6. marked \in SUBSET Int
  BY <1>5 DEF Marked
<1>7. /\ history'.stored = history.stored /\ history'.truncated = history.truncated
      /\ history'.corrections = marked
      /\ history' \in [stored : SUBSET (1..(observation - 1)), truncated : SUBSET Int,
                       corrections : SUBSET Int]
  <2>1. /\ history = [stored |-> history.stored, truncated |-> history.truncated,
                      corrections |-> history.corrections]
        /\ history.stored \in SUBSET (1..(observation - 1)) /\ history.truncated \in SUBSET Int
    BY DEF ReplayInv, ReplayTypes
  <2>2. history' = [history EXCEPT !.corrections = marked]
    BY DEF SaveDataset, Marked
  <2> HIDE DEF marked
  <2>3. history' = [stored |-> history.stored, truncated |-> history.truncated,
                    corrections |-> marked]
    BY <2>1, <2>2
  <2> QED BY <1>6, <2>1, <2>3
<1>8. ReplayTypes'
  <2>1. Len(saved') <= OnlineCapacity
    BY <1>3, <1>4
  <2> QED BY <1>1, <1>2, <1>4, <1>7, <2>1 DEF ReplayTypes
<1>9. /\ Ascending(Logical(online)) /\ NoGapFrom(Logical(online), history.stored)
      /\ \A i \in DOMAIN Logical(online) :
            /\ Logical(online)[i].state \in 1..(observation - 1)
            /\ Logical(online)[i].truncated => Logical(online)[i].state \in history.truncated
  BY DEF ReplayInv, OnlineOrdered
<1>10. OnlineOrdered'
  BY <1>1, <1>7, <1>9 DEF OnlineOrdered
<1>11. marked = {saved'[i].state : i \in Marked(saved')}
  <2>1. ASSUME NEW s \in marked PROVE s \in {saved'[i].state : i \in Marked(saved')}
    <3>1. PICK k \in DOMAIN online.rows : online.rows[k].intervention /\ s = online.rows[k].state
      BY DEF Marked
    <3>2. PICK i \in 1..Len(online.rows) : k = Place(online, i)
      BY <1>3
    <3>3. i \in DOMAIN saved' /\ saved'[i].intervention /\ saved'[i].state = s
      BY <1>3, <1>4, <3>1, <3>2
    <3> QED BY <3>3 DEF Marked
  <2>2. ASSUME NEW i \in Marked(saved') PROVE saved'[i].state \in marked
    <3>1. i \in 1..Len(online.rows) /\ saved'[i].intervention
      BY <1>4 DEF Marked
    <3>2. /\ Place(online, i) \in DOMAIN online.rows
          /\ online.rows[Place(online, i)].intervention
          /\ saved'[i].state = online.rows[Place(online, i)].state
      BY <1>3, <1>4, <3>1
    <3> QED BY <3>2 DEF Marked
  <2> HIDE DEF marked
  <2> QED BY <2>1, <2>2
<1> HIDE DEF marked
<1>12. SavedOrdered'
  <2>1. Ascending(saved')
    BY <1>3, <1>4, <1>9 DEF Ascending
  <2>2. NoGap(saved', history'.stored)
    BY <1>3, <1>4, <1>7, <1>9 DEF NoGap, NoGapFrom
  <2>3. \A i \in DOMAIN saved' : saved'[i].state \in 1..(observation' - 1)
    BY <1>1, <1>3, <1>4, <1>9
  <2>4. ASSUME NEW i \in 1..(Len(saved') - 1), saved'[i].episode # saved'[i + 1].episode
        PROVE  saved'[i].done \/ saved'[i].state \in history'.truncated
    <3>1. i \in 1..(Len(online.rows) - 1) /\ i \in 1..Len(online.rows)
      BY <1>3, <1>4
    <3>2. Logical(online)[i].done \/ Logical(online)[i].truncated
      BY <1>4, <2>4, <3>1
    <3>3. /\ saved'[i].done = Logical(online)[i].done
          /\ saved'[i].state = Logical(online)[i].state
      BY <1>4, <3>1
    <3>4. Logical(online)[i].truncated => Logical(online)[i].state \in history'.truncated
      BY <1>3, <1>7, <1>9, <3>1
    <3> QED BY <3>2, <3>3, <3>4, Zenon
  <2> QED BY <1>7, <1>11, <2>1, <2>2, <2>3, <2>4 DEF SavedOrdered
<1>13. HoldsSaved'
  BY <1>1, <1>7 DEF HoldsSaved, marked
<1>14. NewestCorrectionsKept'
  <2>1. resumed => history'.corrections = history.corrections
    BY <1>7 DEF ReplayInv, HoldsSaved, marked
  <2> QED BY <1>1, <2>1 DEF ReplayInv, NewestCorrectionsKept
<1> QED BY <1>8, <1>10, <1>12, <1>13, <1>14 DEF ReplayInv

\* the transitions of the session among the rows: a demonstration's state is not positive
KeptStates(b) == {s \in {b.rows[i].state : i \in DOMAIN b.rows} : s > 0}

MarkedStates(frames) == {frames[i].state : i \in Marked(frames)}

\* a buffer keeps of the corrections the newest, as many as fit
KeepsNewest(b, C) ==
    /\ KeptStates(b) \subseteq C
    /\ \A s \in C \ KeptStates(b) : \A t \in KeptStates(b) : s < t
    /\ KeptStates(b) # C => /\ Len(b.rows) = Cardinality(KeptStates(b))
                           /\ Cardinality(KeptStates(b)) = OfflineCapacity

\* The rebuilt offline buffer holds the newest of the saved corrections, and fills up with
\* nothing else before it holds them all.
LEMMA NewestRebuilt ==
  ASSUME NEW p \in Policies, NEW frames \in Seq(Frame), Ascending(frames),
         \A i \in DOMAIN frames : frames[i].state >= 1,
         NEW b, b = InitialOffline(p, frames)
  PROVE  KeepsNewest(b, MarkedStates(frames))
<1> DEFINE found == Marked(frames)
           m == Fewer(OfflineCapacity, Cardinality(found))
           at(n) == NthNewest(found, n)
<1>a. PICK kept, C : /\ kept = {s \in {b.rows[i].state : i \in DOMAIN b.rows} : s > 0}
                     /\ C = {frames[i].state : i \in Marked(frames)}
  OBVIOUS
<1>b. kept = KeptStates(b) /\ C = MarkedStates(frames)
  BY <1>a DEF KeptStates, MarkedStates
<1>1. /\ found \in SUBSET Int /\ IsFiniteSet(found) /\ Cardinality(found) \in Nat
      /\ OfflineCapacity \in Nat \ {0}
  BY MarkedIs, ReplayAssumption
<1>2. /\ Whole(b) /\ m \in Nat /\ m <= Len(b.rows)
      /\ m = OfflineCapacity => Len(b.rows) = OfflineCapacity
      /\ \A n \in 1..m : at(n) \in found /\ FromFrame(b.rows[n], frames, at(n))
      /\ \A n \in DOMAIN b.rows : n > m => FromDemo(b.rows[n], p)
  BY OfflineIs
<1>3. DOMAIN b.rows = 1..Len(b.rows) /\ Len(b.rows) \in Nat
  BY <1>2, LogicalIs
<1>4. /\ m \in 0..Cardinality(found)
      /\ m < Cardinality(found) => m = OfflineCapacity
  BY <1>1 DEF Fewer
<1>5. \A n \in 1..m : /\ at(n) \in DOMAIN frames /\ at(n) \in found /\ at(n) \in Int
                      /\ b.rows[n].state = frames[at(n)].state
                      /\ frames[at(n)].state \in Int /\ frames[at(n)].state > 0
  <2> SUFFICES ASSUME NEW n \in 1..m
               PROVE  /\ at(n) \in DOMAIN frames /\ at(n) \in found /\ at(n) \in Int
                      /\ b.rows[n].state = frames[at(n)].state
                      /\ frames[at(n)].state \in Int /\ frames[at(n)].state > 0
    OBVIOUS
  <2> HIDE DEF m
  <2>1. /\ at(n) \in found /\ b.rows[n].state = frames[at(n)].state
    BY <1>2 DEF FromFrame
  <2>2. at(n) \in DOMAIN frames /\ at(n) \in Int
    BY <1>1, <2>1 DEF Marked
  <2>3. frames[at(n)] \in Frame
    BY <2>2, ElementOfSeq, LenProperties
  <2>4. frames[at(n)].state \in Int /\ frames[at(n)].state >= 1
    BY <2>2, <2>3 DEF Frame
  <2> QED BY <2>1, <2>2, <2>4
<1>6. /\ \A n, k \in 1..m : at(n) = at(k) => n = k
      /\ \A i \in found : \/ \E n \in 1..m : i = at(n)
                          \/ m < Cardinality(found) /\ \A n \in 1..m : i < at(n)
  <2> HIDE DEF m, found
  <2> QED BY <1>1, <1>4, NewestOnes
<1> HIDE DEF m, at
<1>7. kept = {frames[at(n)].state : n \in 1..m}
  <2>1. ASSUME NEW n \in 1..m PROVE frames[at(n)].state \in kept
    <3>1. n \in DOMAIN b.rows
      BY <1>2, <1>3
    <3> QED BY <1>a, <1>5, <3>1
  <2>2. ASSUME NEW s \in kept PROVE \E n \in 1..m : s = frames[at(n)].state
    <3>1. PICK n \in DOMAIN b.rows : s = b.rows[n].state /\ s > 0
      BY <1>a
    <3>2. ~(n > m)
      <4> SUFFICES ASSUME n > m PROVE FALSE
        OBVIOUS
      <4>1. b.rows[n].state \in Int /\ b.rows[n].state < 0
        BY <1>2 DEF FromDemo, Row
      <4> QED BY <3>1, <4>1
    <3>3. n \in 1..m
      BY <1>2, <1>3, <3>2
    <3> QED BY <1>5, <3>1, <3>3
  <2> QED BY <2>1, <2>2
<1>8. kept \subseteq C
  BY <1>a, <1>5, <1>7
<1>9. \A i, j \in DOMAIN frames : i < j => frames[i].state < frames[j].state
  BY DEF Ascending
<1>10. ASSUME NEW s \in C \ kept
       PROVE  m < Cardinality(found) /\ \A t \in kept : s < t
  <2>1. PICK i \in found : s = frames[i].state
    BY <1>a
  <2>2. m < Cardinality(found) /\ \A n \in 1..m : i < at(n)
    BY <1>6, <1>7, <2>1
  <2>3. i \in DOMAIN frames
    BY DEF Marked
  <2> HIDE DEF found
  <2> QED BY <1>5, <1>7, <1>9, <2>1, <2>2, <2>3
<1>11. ASSUME kept # C
       PROVE  Len(b.rows) = Cardinality(kept) /\ Cardinality(kept) = OfflineCapacity
  <2>1. m = OfflineCapacity /\ Len(b.rows) = OfflineCapacity
    <3>1. \E s \in C : s \notin kept
      BY <1>8, <1>11
    <3> QED BY <1>2, <1>4, <1>10, <3>1
  <2> DEFINE g == [n \in 1..m |-> frames[at(n)].state]
  <2>2. g \in [1..m -> kept] /\ \A s \in kept : \E n \in 1..m : g[n] = s
    BY <1>7
  <2>3. \A n, k \in 1..m : g[n] = g[k] => n = k
    <3> SUFFICES ASSUME NEW n \in 1..m, NEW k \in 1..m, g[n] = g[k], at(n) # at(k) PROVE FALSE
      BY <1>6
    <3>1. frames[at(n)].state = frames[at(k)].state
      OBVIOUS
    <3>2. at(n) < at(k) \/ at(k) < at(n)
      BY <1>5
    <3> QED BY <1>5, <1>9, <3>1, <3>2
  <2> HIDE DEF g
  <2>4. g \in Bijection(1..m, kept)
    BY <2>2, <2>3 DEF Bijection, Injection, Surjection, IsInjective
  <2>5. IsFiniteSet(1..m) /\ Cardinality(1..m) = m
    BY <1>2, FS_Interval
  <2>6. Cardinality(kept) = m
    <3>1. ExistsBijection(1..m, kept)
      BY <2>4 DEF ExistsBijection
    <3> QED BY <2>5, <3>1, FS_Bijection
  <2> QED BY <2>1, <2>6
<1> QED BY <1>b, <1>8, <1>10, <1>11 DEF KeepsNewest

\* A restart rebuilds both buffers from the dataset and forgets what came after it.
LEMMA ResumeKeeps ==
  ASSUME ReplayInv, Resume
  PROVE  ReplayInv'
<1>1. /\ policy' = policy /\ saved' = saved /\ observation' = observation + 1
      /\ resumed' = TRUE
      /\ online' = InitialOnline(saved) /\ offline' = InitialOffline(policy, saved)
  BY DEF Resume
<1>2. /\ policy \in Policies /\ saved \in Seq(Frame) /\ Len(saved) <= OnlineCapacity
      /\ observation \in Nat \ {0} /\ observation + 1 \in Nat \ {0}
      /\ observation < observation + 1
  BY DEF ReplayInv, ReplayTypes
<1>3. \A i \in 1..(observation - 1) : i \in 1..((observation + 1) - 1)
  BY <1>2, Later
<1>4. /\ Ascending(saved) /\ NoGap(saved, history.stored)
      /\ \A i \in DOMAIN saved : saved[i].state \in 1..(observation - 1)
      /\ \A i \in 1..(Len(saved) - 1) :
            saved[i].episode # saved[i + 1].episode =>
                saved[i].done \/ saved[i].state \in history.truncated
      /\ history.corrections = {saved[i].state : i \in Marked(saved)}
  BY DEF ReplayInv, SavedOrdered
<1>5. /\ DOMAIN saved = 1..Len(saved) /\ Len(saved) \in Nat
  BY <1>2, LenProperties
<1>6. /\ history'.stored = {s \in history.stored : \E i \in 1..Len(saved) : s <= saved[i].state}
      /\ history'.truncated = history.truncated
      /\ history'.corrections = history.corrections
      /\ history' \in [stored : SUBSET (1..(observation' - 1)), truncated : SUBSET Int,
                       corrections : SUBSET Int]
  <2>1. /\ history = [stored |-> history.stored, truncated |-> history.truncated,
                      corrections |-> history.corrections]
        /\ history.stored \in SUBSET (1..(observation - 1)) /\ history.truncated \in SUBSET Int
        /\ history.corrections \in SUBSET Int
    BY DEF ReplayInv, ReplayTypes
  <2>2. PICK stored :
           /\ history' = [history EXCEPT !.stored = stored]
           /\ stored = {s \in history.stored : \E i \in 1..Len(saved) : s <= saved[i].state}
    BY DEF Resume
  <2>3. history' = [stored |-> stored, truncated |-> history.truncated,
                    corrections |-> history.corrections]
    BY <2>1, <2>2
  <2>4. stored \in SUBSET (1..(observation' - 1))
    BY <1>1, <1>3, <2>1, <2>2
  <2> QED BY <2>1, <2>2, <2>3, <2>4
<1>7. /\ Whole(online') /\ online'.capacity = OnlineCapacity /\ online'.optimized = TRUE
      /\ DOMAIN Logical(online') = DOMAIN saved /\ DOMAIN online'.rows = DOMAIN saved
      /\ \A i \in DOMAIN saved : /\ Logical(online')[i] = online'.rows[i]
                                 /\ FromFrame(online'.rows[i], saved, i)
  BY <1>1, <1>2, OnlineIs
<1>8. Whole(offline')
  <2>1. PICK m : m = Fewer(OfflineCapacity, Cardinality(Marked(saved)))
    OBVIOUS
  <2> QED BY <1>1, <1>2, <2>1, OfflineIs
<1>9. ReplayTypes'
  <2>1. resumed' \in BOOLEAN
    BY <1>1
  <2> QED BY <1>1, <1>2, <1>6, <1>7, <1>8, <2>1 DEF ReplayTypes
<1>10. \A i \in DOMAIN saved : /\ Logical(online')[i].state = saved[i].state
                               /\ online'.rows[i].state = saved[i].state
                               /\ online'.rows[i].intervention = saved[i].intervention
                               /\ ~Logical(online')[i].truncated
  BY <1>7 DEF FromFrame
<1>11. OnlineOrdered'
  <2>1. Ascending(Logical(online'))
    BY <1>4, <1>7, <1>10 DEF Ascending
  <2>2. NoGapFrom(Logical(online'), history'.stored)
    <3> SUFFICES ASSUME NEW s \in history'.stored, NEW i \in DOMAIN saved,
                        Logical(online')[i].state <= s
                 PROVE  \E j \in DOMAIN saved : Logical(online')[j].state = s
      BY <1>7 DEF NoGapFrom
    <3>1. s \in history.stored /\ \E k \in DOMAIN saved : s <= saved[k].state
      BY <1>5, <1>6
    <3>2. saved[i].state <= s
      BY <1>10
    <3>3. \E j \in DOMAIN saved : saved[j].state = s
      BY <1>4, <3>1, <3>2 DEF NoGap
    <3> QED BY <1>10, <3>3
  <2>3. \A i \in DOMAIN Logical(online') :
           /\ Logical(online')[i].state \in 1..(observation' - 1)
           /\ ~Logical(online')[i].truncated
    BY <1>1, <1>3, <1>4, <1>7, <1>10
  <2> QED BY <2>1, <2>2, <2>3 DEF OnlineOrdered
<1>12. SavedOrdered'
  <2>1. NoGap(saved, history'.stored)
    BY <1>4, <1>6 DEF NoGap
  <2>2. \A i \in DOMAIN saved : saved[i].state \in 1..(observation' - 1)
    BY <1>1, <1>3, <1>4
  <2> QED BY <1>1, <1>4, <1>6, <2>1, <2>2 DEF SavedOrdered
<1>13. HoldsSaved'
  <2>1. Marked(online'.rows) = Marked(saved)
    BY <1>7, <1>10 DEF Marked
  <2>2. \A i \in Marked(saved) : online'.rows[i].state = saved[i].state
    BY <1>10 DEF Marked
  <2>3. {online'.rows[i].state : i \in Marked(online'.rows)} = {saved[i].state : i \in Marked(saved)}
    BY <2>1, <2>2
  <2> QED BY <1>4, <1>6, <2>3 DEF HoldsSaved
<1>14. NewestCorrectionsKept'
  <2>1. \A i \in DOMAIN saved : saved[i].state >= 1
    BY <1>2, <1>4
  <2>2. KeepsNewest(offline', MarkedStates(saved))
    BY <1>1, <1>2, <1>4, <2>1, NewestRebuilt
  <2>3. history'.corrections = MarkedStates(saved)
    BY <1>4, <1>6 DEF MarkedStates
  <2>4. KeepsNewest(offline', history'.corrections)
    BY <2>2, <2>3
  <2> QED BY <2>4 DEF NewestCorrectionsKept, KeepsNewest, KeptStates
<1> QED BY <1>9, <1>11, <1>12, <1>13, <1>14 DEF ReplayInv

\* The invariant holds throughout.
THEOREM ReplayInvariant == ReplaySpec => []ReplayInv
<1>1. ReplayInit => ReplayInv
  BY ReplayInitKeeps
<1>2. ReplayInv /\ [ReplayNext]_replayVars => ReplayInv'
  <2> SUFFICES ASSUME ReplayInv, [ReplayNext]_replayVars PROVE ReplayInv'
    OBVIOUS
  <2>1. ASSUME NEW end \in {"no", "done", "truncated"}, NEW intervention \in BOOLEAN,
               NEW has_nan \in BOOLEAN, ProcessTransition(end, intervention, has_nan)
        PROVE  ReplayInv'
    BY <2>1, TransitionKeeps
  <2>2. CASE SaveDataset
    BY <2>2, SaveKeeps
  <2>3. CASE Resume
    BY <2>3, ResumeKeeps
  <2>4. CASE UNCHANGED replayVars
    <3>1. /\ policy' = policy /\ online' = online /\ offline' = offline /\ saved' = saved
          /\ observation' = observation /\ history' = history /\ resumed' = resumed
      BY <2>4 DEF replayVars
    <3>2. ReplayTypes' /\ OnlineOrdered'
      BY <3>1 DEF ReplayInv, ReplayTypes, OnlineOrdered
    <3>3. SavedOrdered' /\ HoldsSaved'
      BY <3>1 DEF ReplayInv, SavedOrdered, HoldsSaved
    <3>4. NewestCorrectionsKept'
      BY <3>1 DEF ReplayInv, NewestCorrectionsKept
    <3> QED BY <3>2, <3>3, <3>4 DEF ReplayInv
  <2> QED BY <2>1, <2>2, <2>3, <2>4 DEF ReplayNext
<1> QED BY <1>1, <1>2, PTL DEF ReplaySpec

-----------------------------------------------------------------------------
(* The theorems                                                            *)

\* However often the learner saved and restarted, the row after one that goes on is the one
\* stored next (initialize_replay_buffers 697-733, process_transitions 659-694).
THEOREM ReplaySuccessorFollows == ReplaySpec => []SuccessorFollows
<1>1. ReplayInv => SuccessorFollows
  <2> SUFFICES ASSUME ReplayInv PROVE SuccessorFollows
    OBVIOUS
  <2> DEFINE rows == Logical(online)
             size == Len(online.rows)
  <2>1. /\ Whole(online) /\ online.optimized = TRUE /\ history.stored \in SUBSET Int
    BY DEF ReplayInv, ReplayTypes
  <2>2. /\ size \in Nat /\ Len(rows) = size /\ DOMAIN rows = 1..size
        /\ \A i \in 1..size : rows[i] \in Row
    BY <2>1, LogicalIs
  <2>3. /\ Ascending(rows) /\ NoGapFrom(rows, history.stored)
    BY DEF ReplayInv, OnlineOrdered
  <2>4. ASSUME NEW i \in 1..(size - 1), rows[i].state + 1 \in history.stored
        PROVE  NextState(online, i) = rows[i].state + 1
    <3> HIDE DEF rows, size
    <3>1. i \in 1..size /\ i + 1 \in 1..size /\ size \in Nat \ {0}
      BY <2>2
    <3>2. rows[i].state \in Int /\ rows[i + 1].state \in Int
      BY <2>2, <3>1 DEF Row
    <3>3. PICK j \in 1..size : rows[j].state = rows[i].state + 1
      BY <2>2, <2>3, <2>4, <3>1, <3>2 DEF NoGapFrom
    <3>4. \A k, l \in 1..size : k < l => rows[k].state < rows[l].state
      BY <2>2, <2>3 DEF Ascending
    <3>5. i < j
      <4> SUFFICES ASSUME j <= i PROVE FALSE
        BY <3>1
      <4>1. j = i \/ rows[j].state < rows[i].state
        BY <3>1, <3>4
      <4> QED BY <3>2, <3>3, <4>1
    <3>6. j = i + 1
      <4> SUFFICES ASSUME j # i + 1 PROVE FALSE
        OBVIOUS
      <4>1. i + 1 < j
        BY <3>1, <3>5
      <4>2. rows[i].state < rows[i + 1].state /\ rows[i + 1].state < rows[j].state
        BY <3>1, <3>4, <4>1
      <4> QED BY <3>2, <3>3, <4>2
    <3>7. i % size = i
      BY <3>1, Remainder
    <3>8. NextState(online, i) = rows[(i % size) + 1].state
      BY <2>1, <2>2 DEF NextState, rows
    <3> QED BY <3>3, <3>6, <3>7, <3>8
  <2> QED BY <2>4 DEF SuccessorFollows
<1> QED BY <1>1, ReplayInvariant, PTL

\* A resumed session keeps the newest of the saved corrections, as many as fit, and no
\* demonstration takes the place of one (883-978).
THEOREM ReplayNewestCorrectionsKept == ReplaySpec => []NewestCorrectionsKept
<1>1. ReplayInv => NewestCorrectionsKept
  BY DEF ReplayInv
<1> QED BY <1>1, ReplayInvariant, PTL

-----------------------------------------------------------------------------
(* The offline rows                                                        *)

\* no demonstrations are streamed into a buffer a critic is updated from
NoStreamedDemos == \A p \in Policies : p.kind = "sac_dagger" => p.demos = 0

\* Without streamed demonstrations, a buffer of a critic keeps next states, and a rebuilt row
\* is a demonstration with its own or a frame of the dataset.
LEMMA OfflineRebuilt ==
  ASSUME NoStreamedDemos, NEW p \in Policies, ~UsesBcUpdates(p), NEW frames \in Seq(Frame),
         NEW b, b = InitialOffline(p, frames)
  PROVE  /\ Whole(b) /\ ~b.optimized
         /\ \A k \in DOMAIN b.rows :
               \/ b.rows[k].done \/ b.rows[k].next = b.rows[k].state + 1
               \/ \E i \in DOMAIN frames : FromFrame(b.rows[k], frames, i)
<1>1. PICK m : m = Fewer(OfflineCapacity, Cardinality(Marked(frames)))
  OBVIOUS
<1>2. /\ Whole(b) /\ m \in Nat /\ m <= Len(b.rows)
      /\ ~IsSacDagger(p) \/ p.demos = 0 => b.optimized = UsesBcUpdates(p)
      /\ \A n \in 1..m : /\ NthNewest(Marked(frames), n) \in Marked(frames)
                         /\ FromFrame(b.rows[n], frames, NthNewest(Marked(frames), n))
      /\ \A n \in DOMAIN b.rows : n > m => FromDemo(b.rows[n], p)
  BY <1>1, OfflineIs
<1>3. ~IsSacDagger(p) \/ p.demos = 0
  BY DEF NoStreamedDemos, IsSacDagger, UsesBcUpdates
<1>4. ~b.optimized
  BY <1>2, <1>3, Zenon
<1>5. DOMAIN b.rows = 1..Len(b.rows) /\ Len(b.rows) \in Nat
  BY <1>2, LogicalIs
<1>6. ASSUME NEW k \in DOMAIN b.rows
      PROVE  \/ b.rows[k].done \/ b.rows[k].next = b.rows[k].state + 1
             \/ \E i \in DOMAIN frames : FromFrame(b.rows[k], frames, i)
  <2>1. CASE k > m
    <3>1. FromDemo(b.rows[k], p)
      BY <1>2, <2>1
    <3>2. ~IsSacDagger(p)
      BY <1>3, <3>1 DEF FromDemo
    <3> QED BY <3>1, <3>2, Zenon DEF FromDemo
  <2>2. CASE ~(k > m)
    <3>1. k \in 1..m
      BY <1>2, <1>5, <2>2
    <3>2. NthNewest(Marked(frames), k) \in DOMAIN frames
      BY <1>2, <3>1 DEF Marked
    <3> QED BY <1>2, <3>1, <3>2
  <2> QED BY <2>1, <2>2
<1> QED BY <1>2, <1>4, <1>6

\* A first session's buffer holds demonstrations only.
LEMMA OfflineInit ==
  ASSUME NoStreamedDemos, ReplayInit
  PROVE  OfflineRowsReal
<1>1. policy \in Policies /\ offline = InitialOffline(policy, <<>>)
  BY DEF ReplayInit
<1>2. PICK frames : frames = <<>>
  OBVIOUS
<1>3. frames \in Seq(Frame) /\ DOMAIN frames = {} /\ offline = InitialOffline(policy, frames)
  BY <1>1, <1>2, EmptySeq
<1>4. ASSUME ~UsesBcUpdates(policy)
      PROVE  /\ ~offline.optimized
             /\ \A k \in DOMAIN offline.rows :
                   offline.rows[k].done \/ offline.rows[k].next = offline.rows[k].state + 1
  BY <1>1, <1>3, <1>4, OfflineRebuilt
<1> QED BY <1>4 DEF OfflineRowsReal, RealNext

\* What is known of a row's next state stays known as transitions are stored.
LEMMA RealStays ==
  ASSUME NEW row \in Row, NEW S, NEW S2, NEW T, NEW T2, NEW m \in Int, NEW n \in Int,
         NEW demos \in Nat, RealNext(row, S, T, m, demos), m < n,
         \A s \in S2 : s \in S \/ s = m, \A t \in T : t \in T2
  PROVE  RealNext(row, S2, T2, n, demos)
<1>1. row.state \in Int
  BY DEF Row
<1>2. CASE row.done
  BY <1>2 DEF RealNext
<1>3. CASE row.state \in T \/ row.next = row.state + 1
  BY <1>3 DEF RealNext
<1>4. CASE row.state + 1 < m /\ row.state + 1 \notin S \cup (-demos)..0
  BY <1>1, <1>4 DEF RealNext
<1> QED BY <1>2, <1>3, <1>4 DEF RealNext

\* The rows a transition, a save or nothing leaves are those that were there and the new one.
LEMMA OfflineSteps ==
  ASSUME ReplayInv, OfflineRowsReal,
         \/ \E end \in {"no", "done", "truncated"}, intervention, has_nan \in BOOLEAN :
               ProcessTransition(end, intervention, has_nan)
         \/ SaveDataset
         \/ UNCHANGED replayVars
  PROVE  OfflineRowsReal'
<1> DEFINE Real(row) == RealNext(row, history.stored, history.truncated, observation, policy.demos)
           RealThen(row) == RealNext(row, history'.stored, history'.truncated, observation',
                                     policy'.demos)
<1>1. SUFFICES ASSUME ~UsesBcUpdates(policy')
               PROVE  ~offline'.optimized /\ \A k \in DOMAIN offline'.rows : RealThen(offline'.rows[k])
  BY DEF OfflineRowsReal
<1>2. policy' = policy
  BY DEF ProcessTransition, SaveDataset, replayVars
<1>3. ~offline.optimized /\ \A k \in DOMAIN offline.rows : Real(offline.rows[k])
  BY <1>1, <1>2 DEF OfflineRowsReal
<1>4. /\ history = [stored |-> history.stored, truncated |-> history.truncated,
                    corrections |-> history.corrections]
      /\ Whole(offline) /\ observation \in Nat \ {0} /\ policy.demos \in Nat
  <2>1. policy \in Policies
    BY DEF ReplayInv, ReplayTypes
  <2>2. policy.demos \in Nat
    BY <2>1, ReplayAssumption
  <2> QED BY <2>2 DEF ReplayInv, ReplayTypes
<1>5. CASE SaveDataset \/ UNCHANGED replayVars
  <2>1. /\ offline' = offline /\ observation' = observation
        /\ history'.stored = history.stored /\ history'.truncated = history.truncated
    <3>1. PICK C : history' = [history EXCEPT !.corrections = C] \/ history' = history
      BY <1>5 DEF SaveDataset, replayVars
    <3>2. history'.stored = history.stored /\ history'.truncated = history.truncated
      BY <1>4, <3>1
    <3> QED BY <1>5, <3>2 DEF SaveDataset, replayVars
  <2> QED BY <1>2, <1>3, <2>1
<1>6. ASSUME NEW end \in {"no", "done", "truncated"}, NEW intervention \in BOOLEAN,
             NEW has_nan \in BOOLEAN, ProcessTransition(end, intervention, has_nan)
      PROVE  ~offline'.optimized /\ \A k \in DOMAIN offline'.rows : RealThen(offline'.rows[k])
  <2> DEFINE row == [state |-> observation, next |-> observation + 1, done |-> end = "done",
                     truncated |-> end = "truncated", intervention |-> intervention]
  <2>1. observation < observation' /\ observation' \in Int /\ observation \in Int
    <3>1. observation' = IF end = "no" THEN observation + 1 ELSE observation + 2
      BY <1>6 DEF ProcessTransition
    <3>2. observation \in Nat \ {0}
      BY <1>4
    <3> HIDE DEF row
    <3> QED BY <3>1, <3>2
  <2>2. offline' = IF has_nan \/ ~intervention THEN offline ELSE Add(offline, row)
    BY <1>6 DEF ProcessTransition
  <2>3. row \in Row /\ row.next = row.state + 1
    BY <2>1 DEF Row
  <2>4. /\ \A s \in history'.stored : s \in history.stored \/ s = observation
        /\ \A s \in history.truncated : s \in history'.truncated
    <3>1. PICK stored, truncated :
             /\ history' = [history EXCEPT !.stored = stored, !.truncated = truncated]
             /\ stored = IF has_nan THEN history.stored ELSE history.stored \cup {observation}
             /\ truncated = IF end = "truncated" THEN history.truncated \cup {observation}
                            ELSE history.truncated
      BY <1>6 DEF ProcessTransition
    <3>2. history'.stored = stored /\ history'.truncated = truncated
      BY <1>4, <3>1
    <3> QED BY <3>1, <3>2
  <2> HIDE DEF row
  <2>5. ASSUME NEW r \in Row, Real(r) PROVE RealThen(r)
    BY <1>2, <1>4, <2>1, <2>4, <2>5, RealStays
  <2>6. RealThen(row)
    BY <2>3 DEF RealNext
  <2> HIDE DEF Real, RealThen
  <2>7. CASE has_nan \/ ~intervention
    <3>1. offline' = offline
      BY <2>2, <2>7
    <3>2. \A k \in DOMAIN offline.rows : offline.rows[k] \in Row
      BY <1>4, ElementOfSeq, LenProperties DEF Whole, Buffer
    <3> QED BY <1>3, <2>5, <3>1, <3>2
  <2>8. CASE ~(has_nan \/ ~intervention)
    <3>1. offline' = Add(offline, row)
      BY <2>2, <2>8
    <3>2. /\ Whole(offline') /\ offline'.optimized = offline.optimized
          /\ \A k \in DOMAIN offline'.rows :
                \/ offline'.rows[k] = row
                \/ k \in DOMAIN offline.rows /\ offline'.rows[k] = offline.rows[k]
      BY <1>4, <2>3, <3>1, AddIs
    <3>3. \A k \in DOMAIN offline.rows : offline.rows[k] \in Row
      BY <1>4, ElementOfSeq, LenProperties DEF Whole, Buffer
    <3>4. \A k \in DOMAIN offline'.rows : RealThen(offline'.rows[k])
      BY <1>3, <2>5, <2>6, <3>2, <3>3
    <3>5. ~offline'.optimized
      BY <1>3, <3>2, Zenon
    <3> QED BY <3>4, <3>5
  <2> QED BY <2>7, <2>8
<1> QED BY <1>5, <1>6

\* A frame's next state is the next frame's wherever that is the transition that followed; the
\* last frame's transition is followed by nothing the rebuilt session knows of.
LEMMA OfflineResumes ==
  ASSUME NoStreamedDemos, ReplayInv, Resume
  PROVE  OfflineRowsReal'
<1> DEFINE RealThen(row) == RealNext(row, history'.stored, history'.truncated, observation',
                                     policy'.demos)
<1>1. SUFFICES ASSUME ~UsesBcUpdates(policy')
               PROVE  ~offline'.optimized /\ \A k \in DOMAIN offline'.rows : RealThen(offline'.rows[k])
  BY DEF OfflineRowsReal
<1>2. /\ policy' = policy /\ offline' = InitialOffline(policy, saved)
      /\ observation' = observation + 1
  BY DEF Resume
<1>3. policy \in Policies /\ saved \in Seq(Frame) /\ observation \in Nat \ {0}
  BY DEF ReplayInv, ReplayTypes
<1>4. policy.demos \in Nat
  BY <1>3, ReplayAssumption
<1>5. DOMAIN saved = 1..Len(saved) /\ Len(saved) \in Nat /\ \A i \in DOMAIN saved : saved[i] \in Frame
  BY <1>3, LenProperties, ElementOfSeq
<1>6. /\ NoGap(saved, history.stored)
      /\ \A i, j \in DOMAIN saved : i < j => saved[i].state < saved[j].state
      /\ \A i \in DOMAIN saved : saved[i].state \in 1..(observation - 1)
      /\ \A i \in 1..(Len(saved) - 1) :
            saved[i].episode # saved[i + 1].episode =>
                saved[i].done \/ saved[i].state \in history.truncated
  BY DEF ReplayInv, SavedOrdered, Ascending
<1>7. /\ history'.truncated = history.truncated
      /\ \A s \in history'.stored : s \in history.stored /\ \E i \in 1..Len(saved) : s <= saved[i].state
  <2>1. /\ history = [stored |-> history.stored, truncated |-> history.truncated,
                      corrections |-> history.corrections]
    BY DEF ReplayInv, ReplayTypes
  <2>2. PICK stored :
           /\ history' = [history EXCEPT !.stored = stored]
           /\ stored = {s \in history.stored : \E i \in 1..Len(saved) : s <= saved[i].state}
    BY DEF Resume
  <2>3. history'.stored = stored /\ history'.truncated = history.truncated
    BY <2>1, <2>2
  <2> QED BY <2>2, <2>3
<1>8. /\ ~offline'.optimized
      /\ \A k \in DOMAIN offline'.rows :
            \/ offline'.rows[k].done \/ offline'.rows[k].next = offline'.rows[k].state + 1
            \/ \E i \in DOMAIN saved : FromFrame(offline'.rows[k], saved, i)
  BY <1>1, <1>2, <1>3, OfflineRebuilt
<1>9. ASSUME NEW row, NEW i \in DOMAIN saved, FromFrame(row, saved, i) PROVE RealThen(row)
  <2>1. /\ row.state = saved[i].state /\ row.done = saved[i].done
        /\ row.next = LoadedNext(saved, i)
    BY <1>9 DEF FromFrame
  <2>2. /\ saved[i].state \in Int /\ saved[i].state >= 1 /\ saved[i].state < observation
        /\ i \in Int
    BY <1>3, <1>5, <1>6
  <2> DEFINE s == saved[i].state + 1
  <2>3. s \in Int /\ s > 1 /\ s < observation' /\ s \notin (-policy.demos)..0
    BY <1>2, <1>3, <1>4, <2>2
  <2>4. CASE saved[i].done
    <3>1. row.done
      BY <2>1, <2>4, Zenon
    <3> QED BY <3>1 DEF RealNext
  <2>5. CASE saved[i].state \in history.truncated
    BY <1>7, <2>1, <2>5 DEF RealNext
  <2>6. CASE i < Len(saved) /\ ~saved[i].done /\ saved[i].state \notin history.truncated
    <3>1. i + 1 \in DOMAIN saved /\ i \in 1..(Len(saved) - 1)
      BY <1>5, <2>2, <2>6
    <3>2. saved[i].episode = saved[i + 1].episode
      BY <1>6, <2>6, <3>1
    <3>3. row.next = saved[i + 1].state
      BY <2>1, <2>6, <3>2 DEF LoadedNext
    <3>4. /\ saved[i + 1].state \in Int /\ saved[i].state < saved[i + 1].state
      BY <1>5, <1>6, <2>2, <3>1 DEF Frame
    <3>5. CASE s \in history'.stored
      <4>1. PICK j \in DOMAIN saved : saved[j].state = s
        <5>1. s \in history.stored /\ saved[i].state <= s /\ s <= saved[i + 1].state
          BY <1>7, <2>2, <3>4, <3>5
        <5> QED BY <1>6, <3>1, <5>1 DEF NoGap
      <4>2. ~(j <= i)
        <5> SUFFICES ASSUME j <= i PROVE FALSE
          OBVIOUS
        <5>1. j = i \/ j < i
          BY <1>5, <2>2
        <5>2. saved[j].state <= saved[i].state
          BY <1>6, <2>2, <5>1
        <5> QED BY <2>2, <4>1, <5>2
      <4>3. ~(j > i + 1)
        <5> SUFFICES ASSUME j > i + 1 PROVE FALSE
          OBVIOUS
        <5>1. saved[i + 1].state < saved[j].state
          BY <1>5, <1>6, <3>1
        <5> QED BY <2>2, <3>4, <4>1, <5>1
      <4>4. j = i + 1
        BY <1>5, <2>2, <4>2, <4>3
      <4> QED BY <2>1, <3>3, <4>1, <4>4 DEF RealNext
    <3>6. CASE s \notin history'.stored
      BY <1>2, <2>1, <2>3, <3>6 DEF RealNext
    <3> QED BY <3>5, <3>6
  <2>7. CASE i = Len(saved)
    <3>1. s \notin history'.stored
      <4> SUFFICES ASSUME s \in history'.stored PROVE FALSE
        OBVIOUS
      <4>1. PICK k \in 1..Len(saved) : s <= saved[k].state
        BY <1>7
      <4>2. k = i \/ k < i
        <5>1. Len(saved) \in Nat
          BY <1>5
        <5> QED BY <2>7, <5>1
      <4>3. saved[k].state <= saved[i].state
        BY <1>5, <1>6, <2>2, <4>1, <4>2
      <4>4. saved[k].state \in Int
        BY <1>5, <1>6
      <4> QED BY <2>2, <4>1, <4>3, <4>4
    <3> QED BY <1>2, <2>1, <2>3, <3>1 DEF RealNext
  <2> QED BY <1>5, <2>2, <2>4, <2>5, <2>6, <2>7
<1> QED BY <1>8, <1>9 DEF RealNext

\* The observation after a truncated transition was received with it and never stored.
TruncatedUnfollowed ==
    \A s \in history.truncated : /\ s \in Nat \ {0} /\ s + 1 < observation
                                 /\ s + 1 \notin history.stored

\* A segment's truncation skips an observation, and nothing skipped is stored later
\* (process_transitions 659-694).
LEMMA TruncatedStays ==
  ASSUME ReplayInv, TruncatedUnfollowed, [ReplayNext]_replayVars
  PROVE  TruncatedUnfollowed'
<1>1. /\ history = [stored |-> history.stored, truncated |-> history.truncated,
                    corrections |-> history.corrections]
      /\ history.stored \in SUBSET (1..(observation - 1)) /\ observation \in Nat \ {0}
  BY DEF ReplayInv, ReplayTypes
<1>2. ASSUME NEW end \in {"no", "done", "truncated"}, NEW intervention \in BOOLEAN,
             NEW has_nan \in BOOLEAN, ProcessTransition(end, intervention, has_nan)
      PROVE  TruncatedUnfollowed'
  <2>1. PICK stored, truncated :
           /\ history' = [history EXCEPT !.stored = stored, !.truncated = truncated]
           /\ stored = IF has_nan THEN history.stored ELSE history.stored \cup {observation}
           /\ truncated = IF end = "truncated" THEN history.truncated \cup {observation}
                          ELSE history.truncated
    BY <1>2 DEF ProcessTransition
  <2>2. history'.stored = stored /\ history'.truncated = truncated
    BY <1>1, <2>1
  <2>3. observation' = IF end = "no" THEN observation + 1 ELSE observation + 2
    BY <1>2 DEF ProcessTransition
  <2>4. ASSUME NEW s \in history'.truncated
        PROVE  s \in Nat \ {0} /\ s + 1 < observation' /\ s + 1 \notin history'.stored
    <3>1. CASE s \in history.truncated
      <4>1. s \in Nat \ {0} /\ s + 1 < observation /\ s + 1 \notin history.stored
        BY <3>1 DEF TruncatedUnfollowed
      <4>2. s + 1 \notin history'.stored
        BY <1>1, <2>1, <2>2, <4>1
      <4> QED BY <1>1, <2>3, <4>1, <4>2
    <3>2. CASE s \notin history.truncated
      <4>1. s = observation /\ end = "truncated"
        BY <2>1, <2>2, <2>4, <3>2
      <4>2. s + 1 \notin history'.stored
        BY <1>1, <2>1, <2>2, <4>1
      <4> QED BY <1>1, <2>3, <4>1, <4>2
    <3> QED BY <3>1, <3>2
  <2> QED BY <2>4 DEF TruncatedUnfollowed
<1>3. CASE SaveDataset \/ UNCHANGED replayVars
  <2>1. observation' = observation
    BY <1>3 DEF SaveDataset, replayVars
  <2>2. PICK C : history' = [history EXCEPT !.corrections = C] \/ history' = history
    BY <1>3 DEF SaveDataset, replayVars
  <2>3. history'.stored = history.stored /\ history'.truncated = history.truncated
    BY <1>1, <2>2
  <2> QED BY <2>1, <2>3 DEF TruncatedUnfollowed
<1>4. CASE Resume
  <2>1. PICK stored :
           /\ history' = [history EXCEPT !.stored = stored]
           /\ stored = {s \in history.stored : \E i \in 1..Len(saved) : s <= saved[i].state}
    BY <1>4 DEF Resume
  <2>2. history'.stored = stored /\ history'.truncated = history.truncated
    BY <1>1, <2>1
  <2>3. observation' = observation + 1
    BY <1>4 DEF Resume
  <2>4. ASSUME NEW s \in history'.truncated
        PROVE  s \in Nat \ {0} /\ s + 1 < observation' /\ s + 1 \notin history'.stored
    <3>1. s \in Nat \ {0} /\ s + 1 < observation /\ s + 1 \notin history.stored
      BY <2>2, <2>4 DEF TruncatedUnfollowed
    <3>2. s + 1 \notin history'.stored
      BY <2>1, <2>2, <3>1
    <3> QED BY <1>1, <2>3, <3>1, <3>2
  <2> QED BY <2>4 DEF TruncatedUnfollowed
<1> QED BY <1>2, <1>3, <1>4 DEF ReplayNext

\* Where a critic is updated from the offline buffer, every row not done whose successor was
\* received or recorded carries it as its next state, unless demonstrations were streamed into
\* the buffer (StreamedDemonstrations.cfg); a truncated row has no such successor
\* (initialize_offline_replay_buffers 851-978, process_transitions 659-694).
THEOREM ReplayOfflineSuccessorFollows ==
  ASSUME NoStreamedDemos
  PROVE  ReplaySpec => []OfflineSuccessorFollows
<1>1. ReplayInit => ReplayInv /\ OfflineRowsReal /\ TruncatedUnfollowed
  <2>1. ASSUME ReplayInit PROVE TruncatedUnfollowed
    BY <2>1 DEF ReplayInit, TruncatedUnfollowed
  <2> QED BY <2>1, ReplayInitKeeps, OfflineInit
<1>2. ReplayInv /\ ReplayInv' /\ OfflineRowsReal /\ TruncatedUnfollowed /\ [ReplayNext]_replayVars
        => OfflineRowsReal' /\ TruncatedUnfollowed'
  <2> SUFFICES ASSUME ReplayInv, OfflineRowsReal, TruncatedUnfollowed, [ReplayNext]_replayVars
               PROVE  OfflineRowsReal' /\ TruncatedUnfollowed'
    OBVIOUS
  <2>1. CASE Resume
    BY <2>1, OfflineResumes, TruncatedStays
  <2>2. CASE ~Resume
    BY <2>2, OfflineSteps, TruncatedStays DEF ReplayNext
  <2> QED BY <2>1, <2>2
<1>3. ReplayInv /\ OfflineRowsReal /\ TruncatedUnfollowed => OfflineSuccessorFollows
  <2> SUFFICES ASSUME ReplayInv, OfflineRowsReal, TruncatedUnfollowed, ~UsesBcUpdates(policy),
                      NEW i \in 1..(Len(offline.rows) - 1),
                      Bootstraps(Logical(offline)[i]),
                      Logical(offline)[i].state + 1 \in history.stored \cup (-policy.demos)..0
               PROVE  NextState(offline, i) = Logical(offline)[i].state + 1
    BY DEF OfflineSuccessorFollows
  <2>1. /\ ~offline.optimized
        /\ \A k \in DOMAIN offline.rows :
              RealNext(offline.rows[k], history.stored, history.truncated, observation, policy.demos)
    BY DEF OfflineRowsReal
  <2>2. Whole(offline)
    BY DEF ReplayInv, ReplayTypes
  <2>3. /\ DOMAIN offline.rows = 1..Len(offline.rows) /\ Len(offline.rows) \in Nat
        /\ \A n \in 1..Len(offline.rows) : /\ Place(offline, n) \in 1..Len(offline.rows)
                                           /\ Logical(offline)[n] = offline.rows[Place(offline, n)]
    BY <2>2, LogicalIs
  <2>4. i \in 1..Len(offline.rows)
    BY <2>3
  <2>5. RealNext(Logical(offline)[i], history.stored, history.truncated, observation, policy.demos)
    BY <2>1, <2>3, <2>4
  <2>6. Logical(offline)[i].state \notin history.truncated
    <3>1. policy.demos \in Nat
      BY ReplayAssumption DEF ReplayInv, ReplayTypes
    <3>2. ASSUME NEW s \in history.truncated PROVE s + 1 \notin history.stored \cup (-policy.demos)..0
      BY <3>1, <3>2 DEF TruncatedUnfollowed
    <3> QED BY <3>2
  <2>7. Logical(offline)[i].next = Logical(offline)[i].state + 1
    BY <2>5, <2>6 DEF RealNext, Bootstraps
  <2> QED BY <2>1, <2>7 DEF NextState
<1> QED BY <1>1, <1>2, <1>3, ReplayInvariant, PTL DEF ReplaySpec
=============================================================================
