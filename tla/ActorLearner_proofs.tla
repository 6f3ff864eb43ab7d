------------------------- MODULE ActorLearner_proofs -------------------------
(***************************************************************************)
(* What holds of every training session, for every set of policies, every  *)
(* environment, schedule, capacity and budget: the four safety properties  *)
(* of ActorLearner.  The first part is about sequences: induction over     *)
(* them, for the model's Select and for FlattenSeq, is stated for sets     *)
(* (SequenceInduction), which the provers can instantiate.                 *)
(***************************************************************************)
EXTENDS ActorLearner, SequenceTheorems, FiniteSetTheorems, WellFoundedInduction, TLAPS

-----------------------------------------------------------------------------
(* Induction, for sets of numbers                                          *)

\* A nonempty set of naturals has a least element.
LEMMA LeastNatural ==
  ASSUME NEW S, S \subseteq Nat, S # {}
  PROVE  \E n \in S : \A m \in S : n <= m
<1>1. \A m, n \in Nat : m < n => <<m, n>> \in OpToRel(<, Nat)
  BY Zenon DEF OpToRel
<1>2. PICK n \in S : \A m \in S : ~ (<<m, n>> \in OpToRel(<, Nat))
  BY WFMin, NatLessThanWellFounded, Zenon
<1>3. \A m \in S : m \in Nat /\ n \in Nat
  OBVIOUS
<1>4. \A m \in S : ~(m < n)
  BY <1>1, <1>2, <1>3, Zenon
<1> QED BY <1>3, <1>4

\* A set of naturals with 0 and with the successor of each of its members has them all.
LEMMA InductiveSet ==
  ASSUME NEW S, 0 \in S, \A n \in Nat : n \in S => n + 1 \in S
  PROVE  \A n \in Nat : n \in S
<1> SUFFICES ASSUME NEW x \in Nat, x \notin S PROVE FALSE
  OBVIOUS
<1>1. PICK n \in Nat \ S : \A m \in Nat \ S : n <= m
  BY LeastNatural
<1>2. n # 0 /\ n - 1 \in Nat
  BY <1>1
<1>3. n - 1 \in S
  BY <1>1, <1>2
<1>4. (n - 1) + 1 \in S
  BY <1>2, <1>3
<1> QED BY <1>1, <1>4

-----------------------------------------------------------------------------
(* Recursion over a sequence                                               *)

\* Select meets its recursive definition.
LEMMA SelectDef ==
  ASSUME NEW seq, Len(seq) \in Nat, NEW S
  PROVE  \E kept :
            /\ kept = [i \in 0..Len(seq) |->
                         IF i = 0 THEN <<>>
                         ELSE IF seq[i] \in S THEN Append(kept[i - 1], seq[i])
                                              ELSE kept[i - 1]]
            /\ Select(seq, S) = kept[Len(seq)]
<1> DEFINE Selects(f, n) == f = [i \in 0..n |->
                                IF i = 0 THEN <<>>
                                ELSE IF seq[i] \in S THEN Append(f[i - 1], seq[i])
                                                     ELSE f[i - 1]]
           Defined == {n \in Nat : \E f : Selects(f, n)}
<1>1. 0 \in Defined
  <2>1. Selects([i \in 0..0 |-> <<>>], 0)
    OBVIOUS
  <2> QED BY <2>1
<1>2. ASSUME NEW n \in Nat, n \in Defined PROVE n + 1 \in Defined
  <2>1. PICK f : Selects(f, n)
    BY <1>2
  <2> DEFINE last == IF seq[n + 1] \in S THEN Append(f[n], seq[n + 1]) ELSE f[n]
             g == [i \in 0..(n + 1) |-> IF i = n + 1 THEN last ELSE f[i]]
  <2>2. g = [i \in 0..(n + 1) |->
               IF i = 0 THEN <<>>
               ELSE IF seq[i] \in S THEN Append(g[i - 1], seq[i]) ELSE g[i - 1]]
    <3> SUFFICES ASSUME NEW i \in 0..(n + 1)
                 PROVE  g[i] = IF i = 0 THEN <<>>
                               ELSE IF seq[i] \in S THEN Append(g[i - 1], seq[i])
                                                    ELSE g[i - 1]
      OBVIOUS
    <3>1. CASE i = n + 1
      <4>1. g[i] = last /\ i # 0 /\ i - 1 = n /\ g[n] = f[n] /\ seq[i] = seq[n + 1]
        BY <3>1
      <4> QED BY <4>1
    <3>2. CASE i # n + 1
      <4>1. i \in 0..n /\ g[i] = f[i] /\ (i # 0 => i - 1 \in 0..n /\ g[i - 1] = f[i - 1])
        BY <3>2
      <4>2. f[i] = IF i = 0 THEN <<>>
                   ELSE IF seq[i] \in S THEN Append(f[i - 1], seq[i]) ELSE f[i - 1]
        BY <2>1, <4>1
      <4> QED BY <4>1, <4>2
    <3> QED BY <3>1, <3>2
  <2> HIDE DEF g
  <2> QED BY <2>2
<1>3. \A n \in Nat : n \in Defined
  <2> HIDE DEF Defined
  <2> QED BY <1>1, <1>2, InductiveSet
<1>4. \E f : Selects(f, Len(seq))
  BY <1>3
<1>5. Selects(CHOOSE f : Selects(f, Len(seq)), Len(seq))
  BY <1>4, Zenon
<1>6. Select(seq, S) = (CHOOSE f : Selects(f, Len(seq)))[Len(seq)]
  BY DEF Select
<1> QED BY <1>5, <1>6

\* A set that has the empty sequence and every extension of its members by an item of A has
\* every sequence of such items.
LEMMA SequenceInduction ==
  ASSUME NEW A, NEW P,
         <<>> \in P,
         \A s \in Seq(A), e \in A : s \in P => Append(s, e) \in P
  PROVE  \A s \in Seq(A) : s \in P
<1> DEFINE Reached == {n \in Nat : \A s \in Seq(A) : Len(s) = n => s \in P}
<1>1. 0 \in Reached
  <2> SUFFICES ASSUME NEW s \in Seq(A), Len(s) = 0 PROVE s \in P
    OBVIOUS
  <2>1. s = <<>>
    BY EmptySeq
  <2> QED BY <2>1
<1>2. ASSUME NEW n \in Nat, n \in Reached PROVE n + 1 \in Reached
  <2> SUFFICES ASSUME NEW s \in Seq(A), Len(s) = n + 1 PROVE s \in P
    OBVIOUS
  <2>1. s # <<>>
    BY EmptySeq
  <2>2. PICK t \in Seq(A), e \in A : s = Append(t, e)
    BY <2>1, SequenceEmptyOrAppend
  <2>3. Len(t) = n
    BY <2>2, AppendProperties, LenProperties
  <2>4. t \in P
    BY <1>2, <2>3
  <2> QED BY <2>2, <2>4
<1>3. \A n \in Nat : n \in Reached
  <2> HIDE DEF Reached
  <2> QED BY <1>1, <1>2, InductiveSet
<1>4. ASSUME NEW s \in Seq(A) PROVE s \in P
  <2>1. Len(s) \in Nat
    BY LenProperties
  <2>2. Len(s) \in Reached
    BY <1>3, <2>1
  <2> QED BY <2>2
<1> QED BY <1>4

-----------------------------------------------------------------------------
(* Select                                                                  *)

\* Nothing is selected from nothing.
LEMMA SelectEmpty == ASSUME NEW S PROVE Select(<<>>, S) = <<>>
<1>1. PICK kept : /\ kept = [i \in 0..Len(<<>>) |->
                               IF i = 0 THEN <<>>
                               ELSE IF <<>>[i] \in S THEN Append(kept[i - 1], <<>>[i])
                                                     ELSE kept[i - 1]]
                  /\ Select(<<>>, S) = kept[Len(<<>>)]
  <2>1. Len(<<>>) \in Nat
    OBVIOUS
  <2> QED BY <2>1, SelectDef
<1>2. Len(<<>>) = 0 /\ 0 \in 0..0
  OBVIOUS
<1> QED BY <1>1, <1>2

\* The last element is selected or not, the others as before.
LEMMA SelectAppend ==
  ASSUME NEW A, NEW seq \in Seq(A), NEW e \in A, NEW S
  PROVE  Select(Append(seq, e), S) = IF e \in S THEN Append(Select(seq, S), e)
                                               ELSE Select(seq, S)
<1> DEFINE longer == Append(seq, e)
           n == Len(seq)
<1>1. /\ n \in Nat /\ longer \in Seq(A) /\ Len(longer) = n + 1 /\ longer[n + 1] = e
      /\ \A i \in 1..n : longer[i] = seq[i]
  BY AppendProperties, LenProperties
<1>2. PICK f : /\ f = [i \in 0..n |->
                         IF i = 0 THEN <<>>
                         ELSE IF seq[i] \in S THEN Append(f[i - 1], seq[i]) ELSE f[i - 1]]
               /\ Select(seq, S) = f[n]
  BY <1>1, SelectDef
<1>3. PICK g : /\ g = [i \in 0..Len(longer) |->
                         IF i = 0 THEN <<>>
                         ELSE IF longer[i] \in S THEN Append(g[i - 1], longer[i])
                                                 ELSE g[i - 1]]
               /\ Select(longer, S) = g[Len(longer)]
  <2>1. Len(longer) \in Nat
    BY <1>1
  <2> HIDE DEF longer, n
  <2> QED BY <2>1, SelectDef
<1> HIDE DEF longer, n
<1> DEFINE Same == {i \in Nat : i <= n => g[i] = f[i]}
<1>4. 0 \in Same
  <2>1. f[0] = <<>>
    BY <1>1, <1>2
  <2>2. g[0] = <<>>
    BY <1>1, <1>3
  <2> QED BY <2>1, <2>2
<1>5. ASSUME NEW i \in Nat, i \in Same PROVE i + 1 \in Same
  <2> SUFFICES ASSUME i + 1 <= n PROVE g[i + 1] = f[i + 1]
    OBVIOUS
  <2>1. g[i] = f[i] /\ i + 1 \in 0..n /\ i + 1 \in 0..Len(longer) /\ (i + 1) - 1 = i
        /\ i + 1 # 0 /\ longer[i + 1] = seq[i + 1]
    BY <1>1, <1>5
  <2>2. f[i + 1] = IF seq[i + 1] \in S THEN Append(f[i], seq[i + 1]) ELSE f[i]
    BY <1>2, <2>1
  <2>3. g[i + 1] = IF longer[i + 1] \in S THEN Append(g[i], longer[i + 1]) ELSE g[i]
    BY <1>3, <2>1
  <2> QED BY <2>1, <2>2, <2>3
<1>6. n \in Same
  <2> HIDE DEF Same
  <2> QED BY <1>1, <1>4, <1>5, InductiveSet
<1>7. g[n] = f[n]
  BY <1>1, <1>6
<1>8. n + 1 \in 0..Len(longer) /\ (n + 1) - 1 = n /\ n + 1 # 0
  BY <1>1
<1>9. g[n + 1] = IF longer[n + 1] \in S THEN Append(g[n], longer[n + 1]) ELSE g[n]
  BY <1>3, <1>8
<1> QED BY <1>1, <1>2, <1>3, <1>7, <1>9 DEF longer

\* A selection holds elements of both sets and is no longer than what it selects from.
LEMMA SelectTyped ==
  ASSUME NEW A, NEW S
  PROVE  \A seq \in Seq(A) : Select(seq, S) \in Seq(A \cap S) /\ Len(Select(seq, S)) <= Len(seq)
<1> DEFINE P == {seq \in Seq(A) : /\ Select(seq, S) \in Seq(A \cap S)
                                  /\ Len(Select(seq, S)) <= Len(seq)}
<1>1. <<>> \in P
  <2>1. <<>> \in Seq(A) /\ <<>> \in Seq(A \cap S) /\ Len(<<>>) <= Len(<<>>)
    BY EmptySeq
  <2> QED BY <2>1, SelectEmpty
<1>2. ASSUME NEW s \in Seq(A), NEW e \in A, s \in P PROVE Append(s, e) \in P
  <2>1. /\ Append(s, e) \in Seq(A) /\ Len(Append(s, e)) = Len(s) + 1
        /\ Len(s) \in Nat /\ Len(Select(s, S)) \in Nat
    BY <1>2, AppendProperties, LenProperties
  <2>2. CASE e \in S
    <3>1. Select(Append(s, e), S) = Append(Select(s, S), e)
      BY <2>2, SelectAppend
    <3>2. e \in A \cap S
      BY <2>2
    <3>3. /\ Append(Select(s, S), e) \in Seq(A \cap S)
          /\ Len(Append(Select(s, S), e)) = Len(Select(s, S)) + 1
      BY <1>2, <3>2, AppendProperties
    <3> QED BY <1>2, <2>1, <3>1, <3>3
  <2>3. CASE e \notin S
    <3>1. Select(Append(s, e), S) = Select(s, S)
      BY <2>3, SelectAppend
    <3> QED BY <1>2, <2>1, <3>1
  <2> QED BY <2>2, <2>3
<1>3. \A s \in Seq(A) : s \in P
  <2> HIDE DEF P
  <2> QED BY <1>1, <1>2, SequenceInduction
<1> QED BY <1>3

\* The selection from two sequences one after the other.
LEMMA SelectConcat ==
  ASSUME NEW A, NEW S, NEW s \in Seq(A)
  PROVE  \A t \in Seq(A) : Select(s \o t, S) = Select(s, S) \o Select(t, S)
<1> DEFINE P == {t \in Seq(A) : Select(s \o t, S) = Select(s, S) \o Select(t, S)}
<1>0. Select(s, S) \in Seq(A)
  <2>1. Select(s, S) \in Seq(A \cap S)
    BY SelectTyped
  <2> QED BY <2>1, SeqMonotonic
<1>1. <<>> \in P
  <2>1. s \o <<>> = s /\ Select(s, S) \o <<>> = Select(s, S)
    BY <1>0, ConcatEmptySeq
  <2> QED BY <2>1, SelectEmpty, EmptySeq
<1>2. ASSUME NEW t \in Seq(A), NEW e \in A, t \in P PROVE Append(t, e) \in P
  <2>1. /\ Append(t, e) \in Seq(A) /\ s \o t \in Seq(A)
    BY AppendProperties, ConcatProperties
  <2>2. s \o Append(t, e) = Append(s \o t, e)
    <3>1. Append(t, e) = t \o <<e>> /\ Append(s \o t, e) = (s \o t) \o <<e>> /\ <<e>> \in Seq(A)
      BY <2>1, AppendIsConcat
    <3> QED BY <3>1, ConcatAssociative
  <2>3. Select(t, S) \in Seq(A)
    <3>1. Select(t, S) \in Seq(A \cap S)
      BY SelectTyped
    <3> QED BY <3>1, SeqMonotonic
  <2>4. CASE e \in S
    <3>1. Select(Append(t, e), S) = Append(Select(t, S), e)
      BY <2>4, SelectAppend
    <3>2. Select(Append(s \o t, e), S) = Append(Select(s \o t, S), e)
      <4> DEFINE u == s \o t
      <4>1. u \in Seq(A)
        BY <2>1
      <4> HIDE DEF u
      <4>2. Select(Append(u, e), S) = Append(Select(u, S), e)
        BY <2>4, <4>1, SelectAppend
      <4> QED BY <4>2 DEF u
    <3>3. Append(Select(s, S) \o Select(t, S), e) = Select(s, S) \o Append(Select(t, S), e)
      <4>1. /\ Append(Select(t, S), e) = Select(t, S) \o <<e>> /\ <<e>> \in Seq(A)
        BY <2>3, AppendIsConcat
      <4>2. Select(s, S) \o Select(t, S) \in Seq(A)
        BY <1>0, <2>3, ConcatProperties
      <4>3. Append(Select(s, S) \o Select(t, S), e) = (Select(s, S) \o Select(t, S)) \o <<e>>
        BY <4>2, AppendIsConcat
      <4> QED BY <1>0, <2>3, <4>1, <4>3, ConcatAssociative
    <3> QED BY <1>2, <2>1, <2>2, <3>1, <3>2, <3>3
  <2>5. CASE e \notin S
    <3>1. Select(Append(t, e), S) = Select(t, S)
      BY <2>5, SelectAppend
    <3>2. Select(Append(s \o t, e), S) = Select(s \o t, S)
      BY <2>1, <2>5, SelectAppend
    <3> QED BY <1>2, <2>1, <2>2, <3>1, <3>2
  <2> QED BY <2>4, <2>5
<1>3. \A t \in Seq(A) : t \in P
  <2> HIDE DEF P
  <2> QED BY <1>1, <1>2, SequenceInduction
<1> QED BY <1>3

-----------------------------------------------------------------------------
(* FlattenSeq                                                              *)

\* The recursive function behind FlattenSeq.
LEMMA FlattenDef ==
  ASSUME NEW seqs, Len(seqs) \in Nat \ {0}
  PROVE  \E flat :
            /\ flat = [i \in 1..Len(seqs) |-> IF i = 1 THEN seqs[i] ELSE flat[i - 1] \o seqs[i]]
            /\ FlattenSeq(seqs) = flat[Len(seqs)]
<1> DEFINE Flat(f, n) == f = [i \in 1..n |-> IF i = 1 THEN seqs[i] ELSE f[i - 1] \o seqs[i]]
           Defined == {n \in Nat : \E f : Flat(f, n)}
<1>1. 0 \in Defined
  <2>1. Flat([i \in 1..0 |-> <<>>], 0)
    OBVIOUS
  <2> QED BY <2>1
<1>2. ASSUME NEW n \in Nat, n \in Defined PROVE n + 1 \in Defined
  <2>1. PICK f : Flat(f, n)
    BY <1>2
  <2> DEFINE last == IF n = 0 THEN seqs[1] ELSE f[n] \o seqs[n + 1]
             g == [i \in 1..(n + 1) |-> IF i = n + 1 THEN last ELSE f[i]]
  <2>2. g = [i \in 1..(n + 1) |-> IF i = 1 THEN seqs[i] ELSE g[i - 1] \o seqs[i]]
    <3> SUFFICES ASSUME NEW i \in 1..(n + 1)
                 PROVE  g[i] = IF i = 1 THEN seqs[i] ELSE g[i - 1] \o seqs[i]
      OBVIOUS
    <3>1. CASE i = n + 1
      <4>1. g[i] = last /\ (n = 0 => i = 1) /\ (n # 0 => i # 1 /\ i - 1 = n /\ g[n] = f[n])
        BY <3>1
      <4>2. CASE n = 0
        BY <4>1, <4>2
      <4>3. CASE n # 0
        <5>1. i # 1 /\ g[i - 1] = f[n] /\ seqs[i] = seqs[n + 1] /\ last = f[n] \o seqs[n + 1]
          BY <3>1, <4>1, <4>3
        <5> HIDE DEF g, last
        <5> QED BY <4>1, <5>1
      <4> QED BY <4>2, <4>3
    <3>2. CASE i # n + 1
      <4>1. i \in 1..n /\ g[i] = f[i] /\ (i # 1 => i - 1 \in 1..n /\ g[i - 1] = f[i - 1])
        BY <3>2
      <4>2. f[i] = IF i = 1 THEN seqs[i] ELSE f[i - 1] \o seqs[i]
        BY <2>1, <4>1
      <4> HIDE DEF g
      <4> QED BY <4>1, <4>2
    <3> QED BY <3>1, <3>2
  <2> HIDE DEF g
  <2>3. Flat(g, n + 1)
    BY <2>2, Zenon
  <2> HIDE DEF Flat
  <2> QED BY <2>3
<1>3. \A n \in Nat : n \in Defined
  <2> HIDE DEF Defined
  <2> QED BY <1>1, <1>2, InductiveSet
<1>4. \E f : Flat(f, Len(seqs))
  BY <1>3
<1>5. Flat(CHOOSE f : Flat(f, Len(seqs)), Len(seqs))
  BY <1>4, Zenon
<1>6. FlattenSeq(seqs) = (CHOOSE f : Flat(f, Len(seqs)))[Len(seqs)]
  BY DEF FlattenSeq
<1> QED BY <1>5, <1>6

\* No batches hold no transition.
LEMMA FlattenEmpty == FlattenSeq(<<>>) = <<>>
<1>1. Len(<<>>) = 0
  OBVIOUS
<1> QED BY <1>1 DEF FlattenSeq

\* A further batch adds its transitions at the end.
LEMMA FlattenAppend ==
  ASSUME NEW A, NEW ss \in Seq(Seq(A)), NEW s \in Seq(A)
  PROVE  FlattenSeq(Append(ss, s)) = FlattenSeq(ss) \o s
<1> DEFINE longer == Append(ss, s)
           n == Len(ss)
<1>1. /\ n \in Nat /\ Len(longer) = n + 1 /\ longer[n + 1] = s
      /\ \A i \in 1..n : longer[i] = ss[i]
  BY AppendProperties, LenProperties
<1>2. PICK g : /\ g = [i \in 1..Len(longer) |->
                         IF i = 1 THEN longer[i] ELSE g[i - 1] \o longer[i]]
               /\ FlattenSeq(longer) = g[Len(longer)]
  <2>1. Len(longer) \in Nat \ {0}
    BY <1>1
  <2> HIDE DEF longer, n
  <2> QED BY <2>1, FlattenDef
<1>3. CASE n = 0
  <2>1. ss = <<>>
    BY <1>3, EmptySeq
  <2>2. FlattenSeq(ss) \o s = s
    BY <2>1, FlattenEmpty, ConcatEmptySeq
  <2>3. g[1] = s
    <3> HIDE DEF longer, n
    <3> QED BY <1>1, <1>2, <1>3
  <2> HIDE DEF n
  <2> QED BY <1>1, <1>2, <1>3, <2>2, <2>3
<1>4. CASE n # 0
  <2>1. PICK f : /\ f = [i \in 1..n |-> IF i = 1 THEN ss[i] ELSE f[i - 1] \o ss[i]]
                 /\ FlattenSeq(ss) = f[n]
    <3>1. Len(ss) \in Nat \ {0}
      BY <1>1, <1>4
    <3> QED BY <3>1, FlattenDef
  <2> HIDE DEF longer, n
  <2> DEFINE Same == {i \in Nat : i \in 1..n => g[i] = f[i]}
  <2>2. 0 \in Same
    OBVIOUS
  <2>3. ASSUME NEW i \in Nat, i \in Same PROVE i + 1 \in Same
    <3> SUFFICES ASSUME i + 1 \in 1..n PROVE g[i + 1] = f[i + 1]
      OBVIOUS
    <3>1. i + 1 \in 1..Len(longer) /\ longer[i + 1] = ss[i + 1] /\ (i + 1) - 1 = i
      BY <1>1
    <3>2. f[i + 1] = IF i + 1 = 1 THEN ss[i + 1] ELSE f[i] \o ss[i + 1]
      BY <2>1, <3>1
    <3>3. g[i + 1] = IF i + 1 = 1 THEN longer[i + 1] ELSE g[i] \o longer[i + 1]
      BY <1>2, <3>1
    <3>4. i + 1 # 1 => g[i] = f[i]
      BY <1>1, <2>3
    <3> HIDE DEF Same
    <3> QED BY <3>1, <3>2, <3>3, <3>4
  <2>4. n \in Same
    <3> HIDE DEF Same
    <3> QED BY <1>1, <2>2, <2>3, InductiveSet
  <2>5. g[n] = f[n]
    BY <1>1, <1>4, <2>4
  <2>6. n + 1 \in 1..Len(longer) /\ n + 1 # 1 /\ (n + 1) - 1 = n
    BY <1>1, <1>4
  <2>7. g[n + 1] = g[n] \o longer[n + 1]
    <3> HIDE DEF Same
    <3> QED BY <1>2, <2>6
  <2> HIDE DEF Same
  <2> QED BY <1>1, <1>2, <2>1, <2>5, <2>7 DEF longer
<1> QED BY <1>3, <1>4

\* Flattened batches of A are a sequence over A.
LEMMA FlattenTyped ==
  ASSUME NEW A
  PROVE  \A ss \in Seq(Seq(A)) : FlattenSeq(ss) \in Seq(A)
<1> DEFINE P == {ss \in Seq(Seq(A)) : FlattenSeq(ss) \in Seq(A)}
<1>1. <<>> \in P
  BY FlattenEmpty, EmptySeq
<1>2. ASSUME NEW ss \in Seq(Seq(A)), NEW s \in Seq(A), ss \in P PROVE Append(ss, s) \in P
  <2>1. Append(ss, s) \in Seq(Seq(A)) /\ FlattenSeq(ss) \o s \in Seq(A)
    BY <1>2, AppendProperties, ConcatProperties
  <2> QED BY <2>1, FlattenAppend
<1>3. \A ss \in Seq(Seq(A)) : ss \in P
  <2> HIDE DEF P
  <2> QED BY <1>1, <1>2, SequenceInduction
<1> QED BY <1>3

\* Batches on two stages of the way hold what each stage holds, in order.
LEMMA FlattenConcat ==
  ASSUME NEW A, NEW ss \in Seq(Seq(A))
  PROVE  \A tt \in Seq(Seq(A)) : FlattenSeq(ss \o tt) = FlattenSeq(ss) \o FlattenSeq(tt)
<1> DEFINE P == {tt \in Seq(Seq(A)) : FlattenSeq(ss \o tt) = FlattenSeq(ss) \o FlattenSeq(tt)}
<1>0. FlattenSeq(ss) \in Seq(A)
  BY FlattenTyped
<1>1. <<>> \in P
  <2>1. ss \o <<>> = ss /\ FlattenSeq(ss) \o <<>> = FlattenSeq(ss) /\ <<>> \in Seq(Seq(A))
    BY <1>0, ConcatEmptySeq, EmptySeq
  <2> QED BY <2>1, FlattenEmpty
<1>2. ASSUME NEW tt \in Seq(Seq(A)), NEW t \in Seq(A), tt \in P PROVE Append(tt, t) \in P
  <2>1. Append(tt, t) \in Seq(Seq(A)) /\ ss \o tt \in Seq(Seq(A)) /\ FlattenSeq(tt) \in Seq(A)
    BY AppendProperties, ConcatProperties, FlattenTyped
  <2>2. ss \o Append(tt, t) = Append(ss \o tt, t)
    <3>1. /\ Append(tt, t) = tt \o <<t>> /\ Append(ss \o tt, t) = (ss \o tt) \o <<t>>
          /\ <<t>> \in Seq(Seq(A))
      BY <2>1, AppendIsConcat
    <3> QED BY <3>1, ConcatAssociative
  <2>3. FlattenSeq(Append(tt, t)) = FlattenSeq(tt) \o t
    BY FlattenAppend
  <2>4. FlattenSeq(Append(ss \o tt, t)) = FlattenSeq(ss \o tt) \o t
    <3> DEFINE uu == ss \o tt
    <3>1. uu \in Seq(Seq(A))
      BY <2>1
    <3> HIDE DEF uu
    <3>2. FlattenSeq(Append(uu, t)) = FlattenSeq(uu) \o t
      BY <3>1, FlattenAppend
    <3> QED BY <3>2 DEF uu
  <2>5. (FlattenSeq(ss) \o FlattenSeq(tt)) \o t = FlattenSeq(ss) \o (FlattenSeq(tt) \o t)
    BY <1>0, <2>1, ConcatAssociative
  <2> QED BY <1>2, <2>1, <2>2, <2>3, <2>4, <2>5
<1>3. \A tt \in Seq(Seq(A)) : tt \in P
  <2> HIDE DEF P
  <2> QED BY <1>1, <1>2, SequenceInduction
<1> QED BY <1>3

-----------------------------------------------------------------------------
(* Other operators of the model                                            *)

\* The maximum of two numbers, as a case distinction for the arithmetic.
LEMMA MaxOfTwo ==
  ASSUME NEW a \in Int, NEW b \in Int
  PROVE  Max({a, b}) = IF a >= b THEN a ELSE b
<1>1. CASE a >= b
  <2>1. a \in {a, b} /\ \A y \in {a, b} : a >= y
    BY <1>1
  <2>2. \A x \in {a, b} : (\A y \in {a, b} : x >= y) => x = a
    BY <1>1
  <2>3. Max({a, b}) = a
    BY <2>1, <2>2 DEF Max
  <2> QED BY <1>1, <2>3
<1>2. CASE ~(a >= b)
  <2>1. b \in {a, b} /\ \A y \in {a, b} : b >= y
    BY <1>2
  <2>2. \A x \in {a, b} : (\A y \in {a, b} : x >= y) => x = b
    BY <1>2
  <2>3. Max({a, b}) = b
    BY <2>1, <2>2 DEF Max
  <2> QED BY <1>2, <2>3
<1> QED BY <1>1, <1>2

\* A finite nonempty set of positions in a sequence has a largest one.
LEMMA LargestPosition ==
  ASSUME NEW n \in Nat, NEW S, S \subseteq 1..n, S # {}
  PROVE  \E i \in S : \A j \in S : j <= i
<1> DEFINE Above == {d \in Nat : \E i \in S : d = n - i}
<1>1. Above \subseteq Nat /\ Above # {}
  <2>1. PICK i \in S : TRUE
    OBVIOUS
  <2>2. n - i \in Nat
    BY <2>1
  <2> QED BY <2>1, <2>2
<1>2. PICK d \in Above : \A m \in Above : d <= m
  <2> HIDE DEF Above
  <2> QED BY <1>1, LeastNatural
<1>3. PICK i \in S : d = n - i
  BY <1>2
<1>4. ASSUME NEW j \in S PROVE j <= i
  <2>1. n - j \in Above
    OBVIOUS
  <2>2. d <= n - j
    BY <1>2, <2>1
  <2> QED BY <1>3, <2>2
<1> QED BY <1>4

\* push_all_actor_policies_to_queue goes through every policy.
LEMMA AllPolicies ==
  /\ Cardinality(Adaptive) \in Nat
  /\ SetToSeq(Adaptive) \in [1..Cardinality(Adaptive) -> Adaptive]
<1>1. /\ Cardinality(Adaptive) \in Nat
      /\ ExistsBijection(1..Cardinality(Adaptive), Adaptive)
  BY LearnerAssumption, FS_CardinalityType DEF LearnerAssumption
<1>2. PICK f \in Bijection(1..Cardinality(Adaptive), Adaptive) : TRUE
  BY <1>1 DEF ExistsBijection
<1>3. f \in [1..Cardinality(Adaptive) -> Adaptive] /\ IsInjective(f)
  BY <1>2 DEF Bijection, Injection
<1>4. \E g \in [1..Cardinality(Adaptive) -> Adaptive] : IsInjective(g)
  BY <1>3
<1>5. (CHOOSE g \in [1..Cardinality(Adaptive) -> Adaptive] : IsInjective(g))
        \in [1..Cardinality(Adaptive) -> Adaptive]
  BY <1>4, Zenon
<1> QED BY <1>1, <1>5 DEF SetToSeq

-----------------------------------------------------------------------------
(* The types, and what a segment has counted and kept                      *)

Transition == [n : Nat, id : Adaptive, is_intervention : BOOLEAN]
Message == [id : Adaptive, step : Nat]
Push == [id : Adaptive, version : Nat]

TransportTypeOK ==
    /\ transitions_queue \in Seq(Seq(Transition)) /\ transition_queue \in Seq(Seq(Transition))
    /\ interactions_queue \in Seq(Message) /\ interaction_message_queue \in Seq(Message)
    /\ parameters_queue \in Seq(Push) /\ pushed \in Seq(Push)
    /\ delivered \in [Adaptive -> Nat]

ActorTypeOK ==
    /\ active_primitive \in Primitives
    /\ collection_counts \in [Adaptive -> Nat]
    /\ total_steps \in Nat /\ env_steps \in Nat
    /\ applied \in [Adaptive -> Nat]
    /\ rerecorded \subseteq Nat

LearnerTypeOK ==
    /\ replay \in [Adaptive -> Seq(Transition)]
    /\ offline \in [Adaptive -> SUBSET Transition]
    /\ optimization_steps \in [Adaptive -> Nat]
    /\ last_messages \in [Adaptive -> Nat]

\* what the open segment may have kept: transitions of its policy, unless that streams
Keepable(p) == {t \in Transition : t.id = p /\ p \notin StreamImmediately}

\* the steps of p that the open segment has counted and a rerecording would take back
OpenSteps(p) == IF active_primitive = p THEN total_steps ELSE 0

SegmentInv ==
    /\ active_primitive \notin Adaptive => total_steps = 0
    /\ pending \in Seq(Keepable(active_primitive))
    /\ Len(pending) <= total_steps
    /\ \A p \in Adaptive : OpenSteps(p) <= collection_counts[p]

SessionTypeOK == TransportTypeOK /\ ActorTypeOK /\ LearnerTypeOK /\ SegmentInv

\* A push is one message of each policy.
LEMMA PushesTyped ==
  ASSUME NEW steps \in [Adaptive -> Nat]
  PROVE  Parameters(steps) \in Seq(Push)
<1>1. \A i \in 1..Cardinality(Adaptive) : SetToSeq(Adaptive)[i] \in Adaptive
  BY AllPolicies
<1>2. \A i \in 1..Cardinality(Adaptive) :
         [id |-> SetToSeq(Adaptive)[i], version |-> steps[SetToSeq(Adaptive)[i]]] \in Push
  BY <1>1 DEF Push
<1>3. Parameters(steps) \in [1..Cardinality(Adaptive) -> Push]
  BY <1>2 DEF Parameters
<1> QED BY <1>3, AllPolicies

\* Taking the newest of p's messages is taking the version that every later one is not.
LEMMA LatestIs ==
  ASSUME TransportTypeOK, NEW p \in Adaptive, Updates(p) # {}
  PROVE  \E i \in Updates(p) : /\ \A j \in Updates(p) : j <= i
                               /\ i \in DOMAIN parameters_queue
                               /\ parameters_queue[i] \in Push
                               /\ parameters_queue[i].id = p
                               /\ Latest(p) = parameters_queue[i]
<1>1. /\ Len(parameters_queue) \in Nat /\ DOMAIN parameters_queue = 1..Len(parameters_queue)
      /\ \A i \in DOMAIN parameters_queue : parameters_queue[i] \in Push
  BY LenProperties DEF TransportTypeOK
<1>2. Updates(p) \subseteq 1..Len(parameters_queue)
  BY <1>1 DEF Updates
<1>3. PICK i \in Updates(p) : \A j \in Updates(p) : j <= i
  BY <1>1, <1>2, LargestPosition
<1>4. \A k \in Updates(p) : (\A j \in Updates(p) : j <= k) => k = i
  BY <1>1, <1>2, <1>3
<1>5. (CHOOSE k \in Updates(p) : \A j \in Updates(p) : j <= k) = i
  BY <1>3, <1>4
<1>6. Latest(p) = parameters_queue[i]
  BY <1>5 DEF Latest
<1> QED BY <1>1, <1>2, <1>3, <1>6 DEF Updates

\* Applying updates keeps the versions in force numbers.
LEMMA AppliedTyped ==
  ASSUME TransportTypeOK, applied \in [Adaptive -> Nat], ApplyUpdates
  PROVE  applied' \in [Adaptive -> Nat] /\ parameters_queue' \in Seq(Push)
<1>1. \A p \in Adaptive : Updates(p) # {} => Latest(p).version \in Nat
  BY LatestIs DEF Push
<1>2. applied' = [p \in Adaptive |-> IF Updates(p) = {} THEN applied[p] ELSE Latest(p).version]
  BY DEF ApplyUpdates
<1>3. parameters_queue' \in Seq(Push)
  BY EmptySeq DEF ApplyUpdates
<1> QED BY <1>1, <1>2, <1>3

-----------------------------------------------------------------------------
(* Types, step by step                                                     *)

\* The steps of the queues and workers keep the types.
LEMMA TransportTypes ==
  ASSUME TransportTypeOK, TransportStep
  PROVE  TransportTypeOK'
<1> USE DEF TransportTypeOK
<1>1. CASE SendTransitions
  <2>1. /\ Tail(transitions_queue) \in Seq(Seq(Transition))
        /\ Head(transitions_queue) \in Seq(Transition)
    BY <1>1, HeadTailProperties DEF SendTransitions
  <2>2. Append(transition_queue, Head(transitions_queue)) \in Seq(Seq(Transition))
    BY <2>1, AppendProperties
  <2> QED BY <1>1, <2>1, <2>2 DEF SendTransitions
<1>2. CASE SendInteractions
  <2>1. Tail(interactions_queue) \in Seq(Message) /\ Head(interactions_queue) \in Message
    BY <1>2, HeadTailProperties DEF SendInteractions
  <2>2. Append(interaction_message_queue, Head(interactions_queue)) \in Seq(Message)
    BY <2>1, AppendProperties
  <2> QED BY <1>2, <2>1, <2>2 DEF SendInteractions
<1>3. CASE ReceiveParameters
  <2>1. PICK i \in DOMAIN pushed :
          /\ pushed' = SubSeq(pushed, i + 1, Len(pushed))
          /\ \/ UNCHANGED <<parameters_queue, delivered>>
             \/ /\ parameters_queue' = Append(parameters_queue, pushed[i])
                /\ delivered' = [delivered EXCEPT ![pushed[i].id] = pushed[i].version]
    BY <1>3 DEF ReceiveParameters
  <2>2. Len(pushed) \in Nat /\ i \in 1..Len(pushed) /\ \A j \in 1..Len(pushed) : pushed[j] \in Push
    BY LenProperties
  <2>3. SubSeq(pushed, i + 1, Len(pushed)) \in Seq(Push)
    BY <2>2, SubSeqProperties
  <2>4. pushed[i] \in Push /\ pushed[i].id \in Adaptive /\ pushed[i].version \in Nat
    BY <2>2 DEF Push
  <2>5. Append(parameters_queue, pushed[i]) \in Seq(Push)
    BY <2>4, AppendProperties
  <2>6. parameters_queue' \in Seq(Push) /\ delivered' \in [Adaptive -> Nat]
    BY <2>1, <2>4, <2>5
  <2> QED BY <1>3, <2>1, <2>3, <2>6 DEF ReceiveParameters
<1>4. CASE SendersEnd
  BY <1>4 DEF SendersEnd, SenderEnds, actor_end, learner_end
<1>5. CASE ReceiverEnds
  BY <1>5 DEF ReceiverEnds, actor_end, learner_end
<1>6. CASE ServerStarts \/ ServerStops
  BY <1>6 DEF ServerStarts, ServerStops, actor_end, learner_end
<1> QED BY <1>1, <1>2, <1>3, <1>4, <1>5, <1>6 DEF TransportStep

\* What a step of a policy records, sends and keeps.
LEMMA PolicyStep ==
  ASSUME SessionTypeOK, PolicyActs
  PROVE  /\ active_primitive \in Adaptive
         /\ Recorded \in Transition
         /\ Recorded.n = env_steps + 1 /\ Recorded.id = active_primitive
         /\ Sent(Recorded) \in Seq(Transition) /\ Len(Sent(Recorded)) <= 1
         /\ Streams => Kept(Recorded) = pending
         /\ ~Streams => Sent(Recorded) = <<>>
         /\ Kept(Recorded) \in Seq(Keepable(active_primitive))
         /\ Kept(Recorded) \in Seq(Transition)
         /\ Len(Kept(Recorded)) \in Nat /\ Len(Kept(Recorded)) <= total_steps + 1
         /\ Batch(Sent(Recorded)) \in Seq(Seq(Transition))
         /\ Batch(Kept(Recorded)) \in Seq(Seq(Transition))
<1> USE DEF SessionTypeOK, ActorTypeOK, SegmentInv
<1>1. active_primitive \in Adaptive
  BY DEF PolicyActs
<1>2. /\ Recorded \in Transition /\ Recorded.n = env_steps + 1
      /\ Recorded.id = active_primitive
  BY <1>1 DEF Recorded, Transition
<1>3. Sent(Recorded) \in Seq(Transition) /\ Len(Sent(Recorded)) <= 1
  BY <1>2 DEF Sent
<1>4. Kept(Recorded) \in Seq(Keepable(active_primitive)) /\ Len(Kept(Recorded)) <= total_steps + 1
  <2>1. CASE Streams
    BY <2>1, LenProperties DEF Kept
  <2>2. CASE ~Streams
    <3>1. Recorded \in Keepable(active_primitive)
      BY <1>2, <2>2 DEF Keepable, Streams
    <3>2. /\ Append(pending, Recorded) \in Seq(Keepable(active_primitive))
          /\ Len(Append(pending, Recorded)) = Len(pending) + 1
      BY <3>1, AppendProperties
    <3> QED BY <2>2, <3>2, LenProperties DEF Kept
  <2> QED BY <2>1, <2>2
<1>5. Kept(Recorded) \in Seq(Transition) /\ Len(Kept(Recorded)) \in Nat
  <2>1. Keepable(active_primitive) \subseteq Transition
    BY DEF Keepable
  <2> QED BY <1>4, <2>1, SeqMonotonic, LenProperties
<1>6. \A s \in Seq(Transition) : Batch(s) \in Seq(Seq(Transition))
  BY DEF Batch
<1> QED BY <1>1, <1>2, <1>3, <1>4, <1>5, <1>6 DEF Sent, Kept

\* The steps of the actor that leave the open segment and its counts alone.
Between == \/ Connect \/ GiveUp \/ WarmupApply \/ WarmupTimeout \/ ActorSignal \/ Join
           \/ Decide \/ LeaveLoop \/ StopRecording

\* The other steps of the actor leave transitions, reports and totals alone.
LEMMA BetweenKeeps ==
  ASSUME SessionTypeOK, Between
  PROVE  /\ UNCHANGED <<transitions_queue, interactions_queue, transition_queue,
                        interaction_message_queue, pushed, delivered, active_primitive,
                        collection_counts, pending, total_steps, rerecorded>>
         /\ env_steps' \in {env_steps, env_steps + 1}
         /\ \/ ApplyUpdates
            \/ UNCHANGED <<parameters_queue, applied>>
<1> USE DEF transport, actor_end, learner_end, wire, actor
<1>1. CASE Connect \/ GiveUp \/ WarmupTimeout \/ ActorSignal \/ Join \/ LeaveLoop
  BY <1>1 DEF Connect, GiveUp, WarmupTimeout, ActorSignal, Join, LeaveLoop
<1>2. CASE WarmupApply \/ Decide
  BY <1>2 DEF WarmupApply, Decide
<1>3. CASE StopRecording
  BY <1>3 DEF StopRecording
<1> QED BY <1>1, <1>2, <1>3 DEF Between

\* Segments keep to their types, and their counts to what they can take back.
LEMMA ActorTypes ==
  ASSUME SessionTypeOK, ActorStep, UNCHANGED learner
  PROVE  SessionTypeOK'
<1> USE DEF SessionTypeOK
<1>0. LearnerTypeOK'
  BY DEF LearnerTypeOK, learner
<1>1. CASE Between
  <2>1. TransportTypeOK' /\ ActorTypeOK'
    <3>1. applied' \in [Adaptive -> Nat] /\ parameters_queue' \in Seq(Push)
      <4>1. CASE ApplyUpdates
        BY <4>1, AppliedTyped DEF ActorTypeOK
      <4>2. CASE UNCHANGED <<parameters_queue, applied>>
        BY <4>2 DEF ActorTypeOK, TransportTypeOK
      <4> QED BY <1>1, <4>1, <4>2, BetweenKeeps
    <3>2. /\ UNCHANGED <<transitions_queue, interactions_queue, transition_queue,
                         interaction_message_queue, pushed, delivered, active_primitive,
                         collection_counts, total_steps, rerecorded>>
          /\ env_steps' \in {env_steps, env_steps + 1}
      BY <1>1, BetweenKeeps
    <3> QED BY <3>1, <3>2 DEF TransportTypeOK, ActorTypeOK
  <2>2. SegmentInv'
    <3>1. UNCHANGED <<active_primitive, collection_counts, pending, total_steps>>
      BY <1>1, BetweenKeeps
    <3> QED BY <3>1 DEF SegmentInv, OpenSteps, Keepable
  <2> QED BY <1>0, <2>1, <2>2
<1>2. CASE Advance
  <2>0. UNCHANGED <<interactions_queue, parameters_queue, transition_queue,
                    interaction_message_queue, pushed, delivered, active_primitive, applied,
                    rerecorded>>
    BY <1>2 DEF Advance, learner_end, wire
  <2>1. CASE PolicyActs
    <3>1. /\ collection_counts' = [collection_counts EXCEPT ![active_primitive] = @ + 1]
          /\ total_steps' = total_steps + 1 /\ env_steps' = env_steps + 1
          /\ transitions_queue' = transitions_queue \o Batch(Sent(Recorded))
          /\ pending' = Kept(Recorded)
      BY <1>2, <2>1 DEF Advance
    <3>2. transitions_queue' \in Seq(Seq(Transition))
      BY <2>1, <3>1, PolicyStep, ConcatProperties DEF TransportTypeOK
    <3>3. TransportTypeOK'
      BY <2>0, <3>2 DEF TransportTypeOK
    <3>4. ActorTypeOK'
      <4>1. active_primitive \in Adaptive
        BY <2>1 DEF PolicyActs
      <4>2. collection_counts' \in [Adaptive -> Nat]
        BY <3>1, <4>1 DEF ActorTypeOK
      <4> QED BY <2>0, <3>1, <4>2 DEF ActorTypeOK
    <3>5. active_primitive \in Adaptive /\ pending' \in Seq(Keepable(active_primitive))
          /\ Len(pending') <= total_steps'
      BY <2>1, <3>1, PolicyStep
    <3>6. \A p \in Adaptive : OpenSteps(p)' <= collection_counts'[p]
      BY <2>0, <3>1, <3>5 DEF OpenSteps, SegmentInv, ActorTypeOK
    <3>7. SegmentInv'
      BY <2>0, <3>5, <3>6 DEF SegmentInv, Keepable
    <3> QED BY <1>0, <3>3, <3>4, <3>7
  <2>2. CASE ~PolicyActs
    <3>1. /\ UNCHANGED <<collection_counts, total_steps, transitions_queue, pending>>
          /\ env_steps' = env_steps + 1
      BY <1>2, <2>2 DEF Advance
    <3>2. TransportTypeOK' /\ ActorTypeOK'
      BY <2>0, <3>1 DEF TransportTypeOK, ActorTypeOK
    <3>3. SegmentInv'
      BY <2>0, <3>1 DEF SegmentInv, OpenSteps, Keepable
    <3> QED BY <1>0, <3>2, <3>3
  <2> QED BY <2>1, <2>2
<1>3. ASSUME NEW target \in Primitives, FinishSegment(target) PROVE SessionTypeOK'
  <2>0. /\ UNCHANGED <<transition_queue, interaction_message_queue, pushed, delivered, rerecorded>>
        /\ active_primitive' = target /\ pending' = <<>> /\ total_steps' = 0
        /\ env_steps' = env_steps + 1
    BY <1>3 DEF FinishSegment, OpenSegment, learner_end, wire
  <2>1. /\ collection_counts' \in [Adaptive -> Nat]
        /\ transitions_queue' \in Seq(Seq(Transition))
        /\ interactions_queue' \in Seq(Message)
        /\ applied' \in [Adaptive -> Nat] /\ parameters_queue' \in Seq(Push)
    <3>1. CASE PolicyActs
      <4>1. /\ collection_counts' =
                  [collection_counts EXCEPT ![active_primitive] =
                     collection_counts[active_primitive] + 1]
            /\ transitions_queue' =
                  transitions_queue \o Batch(Sent(Recorded)) \o Batch(Kept(Recorded))
            /\ interactions_queue' =
                  Append(interactions_queue,
                     [id |-> active_primitive, step |-> collection_counts[active_primitive] + 1])
            /\ ApplyUpdates
        BY <1>3, <3>1 DEF FinishSegment
      <4>2. transitions_queue \o Batch(Sent(Recorded)) \in Seq(Seq(Transition))
        BY <3>1, PolicyStep, ConcatProperties DEF TransportTypeOK
      <4>3. transitions_queue' \in Seq(Seq(Transition))
        BY <3>1, <4>1, <4>2, PolicyStep, ConcatProperties
      <4>4. [id |-> active_primitive, step |-> collection_counts[active_primitive] + 1] \in Message
        BY <3>1, PolicyStep DEF Message, ActorTypeOK
      <4>5. interactions_queue' \in Seq(Message)
        BY <4>1, <4>4, AppendProperties DEF TransportTypeOK
      <4>6. applied' \in [Adaptive -> Nat] /\ parameters_queue' \in Seq(Push)
        BY <4>1, AppliedTyped DEF ActorTypeOK
      <4>7. active_primitive \in Adaptive
        BY <3>1 DEF PolicyActs
      <4>8. collection_counts' \in [Adaptive -> Nat]
        BY <4>1, <4>7 DEF ActorTypeOK
      <4> QED BY <4>3, <4>5, <4>6, <4>8
    <3>2. CASE ~PolicyActs
      BY <1>3, <3>2 DEF FinishSegment, TransportTypeOK, ActorTypeOK
    <3> QED BY <3>1, <3>2
  <2>2. TransportTypeOK' /\ ActorTypeOK'
    BY <2>0, <2>1 DEF TransportTypeOK, ActorTypeOK
  <2>3. \A p \in Adaptive : OpenSteps(p)' <= collection_counts'[p]
    BY <2>0, <2>1 DEF OpenSteps
  <2>4. SegmentInv'
    BY <2>0, <2>3, EmptySeq DEF SegmentInv
  <2> QED BY <1>0, <2>2, <2>4
<1>4. ASSUME NEW target \in Primitives, Rerecord(target) PROVE SessionTypeOK'
  <2>0. /\ UNCHANGED <<interactions_queue, parameters_queue, transition_queue,
                       interaction_message_queue, pushed, delivered, applied>>
        /\ active_primitive' = target /\ pending' = <<>> /\ total_steps' = 0
        /\ env_steps' = env_steps + 1
    BY <1>4 DEF Rerecord, OpenSegment, learner_end, wire
  <2>1. /\ collection_counts' \in [Adaptive -> Nat]
        /\ transitions_queue' \in Seq(Seq(Transition))
        /\ rerecorded' \subseteq Nat
    <3>1. CASE PolicyActs
      <4>1. /\ collection_counts' = [collection_counts EXCEPT ![active_primitive] =
                                        collection_counts[active_primitive] - total_steps]
            /\ rerecorded' = rerecorded \cup {pending[i].n : i \in DOMAIN pending}
                                        \cup {Recorded.n}
            /\ transitions_queue' = transitions_queue \o Batch(Sent(Recorded))
        BY <1>4, <3>1 DEF Rerecord, Uncounted
      <4>2. transitions_queue' \in Seq(Seq(Transition))
        BY <3>1, <4>1, PolicyStep, ConcatProperties DEF TransportTypeOK
      <4>3. collection_counts[active_primitive] - total_steps \in Nat
        BY <3>1, PolicyStep DEF SegmentInv, OpenSteps, ActorTypeOK
      <4>4. \A i \in DOMAIN pending : pending[i].n \in Nat
        BY LenProperties DEF SegmentInv, Keepable, Transition
      <4>5. active_primitive \in Adaptive
        BY <3>1 DEF PolicyActs
      <4>6. collection_counts' \in [Adaptive -> Nat]
        BY <4>1, <4>3, <4>5 DEF ActorTypeOK
      <4>7. Recorded.n \in Nat
        BY <3>1, PolicyStep DEF ActorTypeOK
      <4>8. rerecorded' \subseteq Nat
        BY <4>1, <4>4, <4>7 DEF ActorTypeOK
      <4> QED BY <4>2, <4>6, <4>8
    <3>2. CASE ~PolicyActs
      BY <1>4, <3>2 DEF Rerecord, TransportTypeOK, ActorTypeOK
    <3> QED BY <3>1, <3>2
  <2>2. TransportTypeOK' /\ ActorTypeOK'
    BY <2>0, <2>1 DEF TransportTypeOK, ActorTypeOK
  <2>3. \A p \in Adaptive : OpenSteps(p)' <= collection_counts'[p]
    BY <2>0, <2>1 DEF OpenSteps
  <2>4. SegmentInv'
    BY <2>0, <2>3, EmptySeq DEF SegmentInv
  <2> QED BY <1>0, <2>2, <2>4
<1> QED BY <1>1, <1>2, <1>3, <1>4 DEF ActorStep, Between

\* The items an iteration takes and those it leaves make up the queue.
LEMMA TakenAndLeft ==
  ASSUME NEW A, NEW queue \in Seq(A), NEW k, Takes(queue, k)
  PROVE  /\ k \in Nat /\ k <= Len(queue)
         /\ SubSeq(queue, 1, k) \in Seq(A)
         /\ SubSeq(queue, k + 1, Len(queue)) \in Seq(A)
         /\ queue = SubSeq(queue, 1, k) \o SubSeq(queue, k + 1, Len(queue))
<1>1. Len(queue) \in Nat /\ k \in 0..Len(queue) /\ \A i \in 1..Len(queue) : queue[i] \in A
  BY LenProperties, ElementOfSeq DEF Takes
<1>2. SubSeq(queue, 1, k) \in Seq(A)
  BY <1>1, SubSeqProperties
<1>3. SubSeq(queue, k + 1, Len(queue)) \in Seq(A)
  BY <1>1, SubSeqProperties
<1>4. SubSeq(queue, 1, k) \o SubSeq(queue, k + 1, Len(queue)) = SubSeq(queue, 1, Len(queue))
  <2>1. 1 \in 1..(Len(queue) + 1) /\ k \in (1 - 1)..Len(queue) /\ Len(queue) \in k..Len(queue)
    BY <1>1
  <2> QED BY <2>1, ConcatAdjacentSubSeq
<1>5. SubSeq(queue, 1, Len(queue)) = queue
  BY SubSeqFull
<1>6. k \in Nat /\ k <= Len(queue)
  BY <1>1
<1> QED BY <1>2, <1>3, <1>4, <1>5, <1>6, Zenon

\* A buffer keeps its newest rows, up to its capacity.
LEMMA NewestKeeps ==
  ASSUME NEW A, NEW buffer \in Seq(A)
  PROVE  /\ Newest(buffer) \in Seq(A)
         /\ Len(Newest(buffer)) = IF Len(buffer) <= BufferCapacity THEN Len(buffer)
                                                                   ELSE BufferCapacity
<1> DEFINE first == Max({1, Len(buffer) - BufferCapacity + 1})
<1>1. /\ Len(buffer) \in Nat /\ BufferCapacity \in Nat \ {0}
      /\ \A i \in 1..Len(buffer) : buffer[i] \in A
  BY LenProperties, ElementOfSeq, LearnerAssumption DEF LearnerAssumption
<1>2. first = IF 1 >= Len(buffer) - BufferCapacity + 1 THEN 1 ELSE Len(buffer) - BufferCapacity + 1
  BY <1>1, MaxOfTwo
<1>3. Newest(buffer) = SubSeq(buffer, first, Len(buffer))
  BY DEF Newest
<1> HIDE DEF first
<1>4. first \in Int /\ \A i \in first..Len(buffer) : buffer[i] \in A
  BY <1>1, <1>2
<1>5. /\ Newest(buffer) \in Seq(A)
      /\ Len(Newest(buffer)) = IF first <= Len(buffer) THEN Len(buffer) - first + 1 ELSE 0
  BY <1>1, <1>3, <1>4, SubSeqProperties
<1>6. CASE Len(buffer) <= BufferCapacity
  <2>1. first = 1
    BY <1>1, <1>2, <1>6
  <2> QED BY <1>1, <1>5, <1>6, <2>1
<1>7. CASE ~(Len(buffer) <= BufferCapacity)
  <2>1. first = Len(buffer) - BufferCapacity + 1
    BY <1>1, <1>2, <1>7
  <2>2. first <= Len(buffer) /\ Len(buffer) - first + 1 = BufferCapacity
    BY <1>1, <2>1
  <2> QED BY <1>5, <1>7, <2>2
<1> QED BY <1>6, <1>7

\* What goes into a policy's buffer is part of the batch.
LEMMA OfTyped ==
  ASSUME NEW A, NEW batch \in Seq(A), NEW p
  PROVE  /\ Of(p, batch) \in Seq(A)
         /\ Len(Of(p, batch)) \in Nat
         /\ Len(Of(p, batch)) <= Len(batch)
<1>1. Of(p, batch) \in Seq(A \cap Usable(p)) /\ Len(Of(p, batch)) <= Len(batch)
  BY SelectTyped DEF Of
<1>2. Of(p, batch) \in Seq(A)
  BY <1>1, SeqMonotonic
<1> QED BY <1>1, <1>2, LenProperties

\* The last message of p among some messages.
LEMMA LastReport ==
  ASSUME NEW A, NEW messages \in Seq(A), NEW p, Reports(p, messages) # {}
  PROVE  /\ Max(Reports(p, messages)) \in Reports(p, messages)
         /\ \A j \in Reports(p, messages) : j <= Max(Reports(p, messages))
<1>1. Len(messages) \in Nat /\ Reports(p, messages) \subseteq 1..Len(messages)
  BY LenProperties DEF Reports
<1>2. PICK i \in Reports(p, messages) : \A j \in Reports(p, messages) : j <= i
  BY <1>1, LargestPosition
<1>3. i \in Reports(p, messages) /\ \A j \in Reports(p, messages) : i >= j
  BY <1>1, <1>2
<1>4. \A k \in Reports(p, messages) : (\A j \in Reports(p, messages) : k >= j) => k = i
  BY <1>1, <1>2
<1>5. Max(Reports(p, messages)) = i
  BY <1>3, <1>4 DEF Max
<1> QED BY <1>2, <1>5

\* What the learner's steps do to what an iteration does not push.
LEMMA LearnerTypes ==
  ASSUME SessionTypeOK, LearnerStep, UNCHANGED actor
  PROVE  SessionTypeOK'
<1> USE DEF SessionTypeOK
<1>0. ActorTypeOK' /\ SegmentInv'
  BY DEF ActorTypeOK, SegmentInv, OpenSteps, Keepable, actor
<1>a. /\ optimization_steps \in [Adaptive -> Nat]
      /\ pushed \in Seq(Push)
  BY DEF LearnerTypeOK, TransportTypeOK
<1>b. ASSUME NEW steps \in [Adaptive -> Nat], PushAll(steps) PROVE pushed' \in Seq(Push)
  <2>1. pushed' = pushed \o Parameters(steps)
    BY <1>b DEF PushAll
  <2> QED BY <1>a, <2>1, PushesTyped, ConcatProperties
<1>1. CASE StartTraining
  <2>1. pushed' \in Seq(Push)
    BY <1>1, <1>a, <1>b DEF StartTraining
  <2> QED BY <1>0, <1>1, <2>1
          DEF StartTraining, TransportTypeOK, LearnerTypeOK, actor_end, wire
<1>2. ASSUME NEW k \in 0..Len(transition_queue), ProcessTransitions(k) PROVE SessionTypeOK'
  <2> DEFINE taken == FlattenSeq(SubSeq(transition_queue, 1, k))
  <2>1. /\ Takes(transition_queue, k)
        /\ replay' = [p \in Adaptive |-> Newest(replay[p] \o Of(p, taken))]
        /\ offline' = [p \in Adaptive |->
                         offline[p] \cup {t \in ToSet(Of(p, taken)) : t.is_intervention}]
        /\ transition_queue' = SubSeq(transition_queue, k + 1, Len(transition_queue))
        /\ UNCHANGED <<transitions_queue, interactions_queue, parameters_queue,
                       interaction_message_queue, pushed, delivered, optimization_steps,
                       last_messages>>
    BY <1>2 DEF ProcessTransitions, actor_end, wire
  <2>2. /\ SubSeq(transition_queue, 1, k) \in Seq(Seq(Transition))
        /\ transition_queue' \in Seq(Seq(Transition))
    BY <2>1, TakenAndLeft DEF TransportTypeOK
  <2>3. taken \in Seq(Transition)
    BY <2>2, FlattenTyped
  <2> HIDE DEF taken
  <2>4. ASSUME NEW p \in Adaptive
        PROVE  /\ Newest(replay[p] \o Of(p, taken)) \in Seq(Transition)
               /\ ToSet(Of(p, taken)) \subseteq Transition
    <3>1. Of(p, taken) \in Seq(Transition)
      BY <2>3, OfTyped
    <3>2. replay[p] \o Of(p, taken) \in Seq(Transition)
      BY <3>1, ConcatProperties DEF LearnerTypeOK
    <3>3. ToSet(Of(p, taken)) \subseteq Transition
      BY <3>1, LenProperties DEF ToSet
    <3> QED BY <3>2, <3>3, NewestKeeps
  <2>5. replay' \in [Adaptive -> Seq(Transition)]
    BY <2>1, <2>4
  <2>6. offline' \in [Adaptive -> SUBSET Transition]
    <3>1. \A p \in Adaptive : {t \in ToSet(Of(p, taken)) : t.is_intervention} \subseteq Transition
      BY <2>4
    <3> QED BY <2>1, <3>1 DEF LearnerTypeOK
  <2>7. LearnerTypeOK'
    BY <2>1, <2>5, <2>6 DEF LearnerTypeOK
  <2>8. TransportTypeOK'
    BY <2>1, <2>2 DEF TransportTypeOK
  <2> QED BY <1>0, <2>7, <2>8
<1>3. ASSUME NEW k \in 0..Len(interaction_message_queue), ProcessMessages(k)
      PROVE  SessionTypeOK'
  <2> DEFINE taken == SubSeq(interaction_message_queue, 1, k)
  <2>1. /\ Takes(interaction_message_queue, k)
        /\ last_messages' = [p \in Adaptive |-> IF Reports(p, taken) = {} THEN last_messages[p]
                                                ELSE taken[Max(Reports(p, taken))].step]
        /\ interaction_message_queue' = SubSeq(interaction_message_queue, k + 1,
                                               Len(interaction_message_queue))
        /\ UNCHANGED <<transitions_queue, interactions_queue, parameters_queue,
                       transition_queue, pushed, delivered, replay, offline,
                       optimization_steps>>
    BY <1>3 DEF ProcessMessages, actor_end, wire
  <2>2. taken \in Seq(Message) /\ interaction_message_queue' \in Seq(Message)
    BY <2>1, TakenAndLeft DEF TransportTypeOK
  <2> HIDE DEF taken
  <2>3. ASSUME NEW p \in Adaptive, Reports(p, taken) # {}
        PROVE  taken[Max(Reports(p, taken))].step \in Nat
    <3>1. Max(Reports(p, taken)) \in DOMAIN taken
      BY <2>2, <2>3, LastReport DEF Reports
    <3>2. taken[Max(Reports(p, taken))] \in Message
      BY <2>2, <3>1, LenProperties
    <3> QED BY <3>2 DEF Message
  <2>4. last_messages' \in [Adaptive -> Nat]
    BY <2>1, <2>3 DEF LearnerTypeOK
  <2>5. LearnerTypeOK'
    BY <2>1, <2>4 DEF LearnerTypeOK
  <2>6. TransportTypeOK'
    BY <2>1, <2>2 DEF TransportTypeOK
  <2> QED BY <1>0, <2>5, <2>6
<1>4. CASE OptimizeOnly \/ OptimizeAndPush
  <2>1. /\ Optimize
        /\ pushed' = pushed \/ PushAll(optimization_steps')
    BY <1>4 DEF OptimizeOnly, OptimizeAndPush
  <2>2. optimization_steps' \in [Adaptive -> Nat]
    BY <1>a, <2>1 DEF Optimize
  <2>3. pushed' \in Seq(Push)
    BY <1>a, <1>b, <2>1, <2>2
  <2> QED BY <1>0, <2>1, <2>2, <2>3
          DEF Optimize, TransportTypeOK, LearnerTypeOK, actor_end, wire
<1>5. CASE LearnerSignal
  BY <1>0, <1>5 DEF LearnerSignal, TransportTypeOK, LearnerTypeOK, actor_end, wire, learner
<1> QED BY <1>1, <1>2, <1>3, <1>4, <1>5 DEF LearnerStep, LearnerLoop

\* Types of both programs and of everything on its way between them.
LEMMA SessionTypes == Spec => []SessionTypeOK
<1>1. Init => SessionTypeOK
  <2> SUFFICES ASSUME Init PROVE SessionTypeOK
    OBVIOUS
  <2>1. TransportTypeOK
    BY EmptySeq DEF Init, TransportInit, TransportTypeOK
  <2>2. ActorTypeOK
    BY ActorAssumption DEF Init, ActorInit, ActorTypeOK, ActorAssumption, Primitives
  <2>3. LearnerTypeOK
    BY EmptySeq DEF Init, LearnerInit, LearnerTypeOK
  <2>4. SegmentInv
    BY EmptySeq DEF Init, ActorInit, SegmentInv, OpenSteps
  <2> QED BY <2>1, <2>2, <2>3, <2>4 DEF SessionTypeOK
<1>2. SessionTypeOK /\ [Next]_vars => SessionTypeOK'
  <2> SUFFICES ASSUME SessionTypeOK, [Next]_vars PROVE SessionTypeOK'
    OBVIOUS
  <2>1. CASE ActorAct
    BY <2>1, ActorTypes DEF ActorAct
  <2>2. CASE LearnerAct
    BY <2>2, LearnerTypes DEF LearnerAct
  <2>3. CASE TransportAct
    <3>1. TransportTypeOK'
      BY <2>3, TransportTypes DEF TransportAct, SessionTypeOK
    <3>2. ActorTypeOK' /\ LearnerTypeOK' /\ SegmentInv'
      BY <2>3 DEF TransportAct, SessionTypeOK, ActorTypeOK, LearnerTypeOK, SegmentInv,
                  OpenSteps, Keepable, actor, learner
    <3> QED BY <3>1, <3>2 DEF SessionTypeOK
  <2>4. CASE UNCHANGED vars
    BY <2>4 DEF vars, transport, actor, learner, SessionTypeOK, TransportTypeOK, ActorTypeOK,
                LearnerTypeOK, SegmentInv, OpenSteps, Keepable
  <2> QED BY <2>1, <2>2, <2>3, <2>4 DEF Next
<1> QED BY <1>1, <1>2, PTL DEF Spec

-----------------------------------------------------------------------------
(* The newest parameters are applied or still wait                         *)

\* What keeps NewestApplied: the newest waiting version of each policy is the last one
\* delivered, and with none waiting that version is applied.
NewestInv ==
    \A p \in Adaptive :
        \/ Updates(p) = {} /\ applied[p] = delivered[p]
        \/ \E i \in Updates(p) : /\ \A j \in Updates(p) : j <= i
                                 /\ parameters_queue[i].version = delivered[p]

\* Once the waiting updates are applied, the newest delivered parameters are in force.
LEMMA NewestAfterUpdate ==
  ASSUME SessionTypeOK, NewestInv, ApplyUpdates, UNCHANGED delivered
  PROVE  NewestInv'
<1>1. parameters_queue' = <<>> /\ \A p \in Adaptive : Updates(p)' = {}
  BY DEF ApplyUpdates, Updates
<1>2. ASSUME NEW p \in Adaptive PROVE applied'[p] = delivered[p]
  <2>1. applied'[p] = IF Updates(p) = {} THEN applied[p] ELSE Latest(p).version
    BY DEF ApplyUpdates
  <2>2. CASE Updates(p) = {}
    BY <2>1, <2>2 DEF NewestInv
  <2>3. CASE Updates(p) # {}
    <3>1. PICK i \in Updates(p) : /\ \A j \in Updates(p) : j <= i
                                  /\ i \in DOMAIN parameters_queue
                                  /\ Latest(p) = parameters_queue[i]
      BY <2>3, LatestIs DEF SessionTypeOK
    <3>2. PICK k \in Updates(p) : /\ \A j \in Updates(p) : j <= k
                                  /\ parameters_queue[k].version = delivered[p]
      BY <2>3 DEF NewestInv
    <3>3. Updates(p) \subseteq Nat
      BY LenProperties DEF Updates, SessionTypeOK, TransportTypeOK
    <3>4. i = k
      BY <3>1, <3>2, <3>3
    <3> QED BY <2>1, <2>3, <3>1, <3>2, <3>4
  <2> QED BY <2>2, <2>3
<1> QED BY <1>1, <1>2 DEF NewestInv

\* A delivered push waits behind the others, and is the newest of its policy.
LEMMA NewestAfterDelivery ==
  ASSUME SessionTypeOK, NewestInv, ReceiveParameters, UNCHANGED applied
  PROVE  NewestInv'
<1>1. PICK n \in DOMAIN pushed :
        \/ UNCHANGED <<parameters_queue, delivered>>
        \/ /\ parameters_queue' = Append(parameters_queue, pushed[n])
           /\ delivered' = [delivered EXCEPT ![pushed[n].id] = pushed[n].version]
  BY DEF ReceiveParameters
<1>2. CASE UNCHANGED <<parameters_queue, delivered>>
  BY <1>2 DEF NewestInv, Updates
<1>3. CASE /\ parameters_queue' = Append(parameters_queue, pushed[n])
           /\ delivered' = [delivered EXCEPT ![pushed[n].id] = pushed[n].version]
  <2> DEFINE m == Len(parameters_queue)
  <2>1. pushed[n] \in Push /\ pushed[n].id \in Adaptive
    <3>1. pushed \in Seq(Push)
      BY DEF SessionTypeOK, TransportTypeOK
    <3>2. pushed[n] \in Push
      BY <3>1, LenProperties
    <3> QED BY <3>2 DEF Push
  <2>2. /\ m \in Nat /\ DOMAIN parameters_queue = 1..m
        /\ parameters_queue' \in Seq(Push) /\ DOMAIN parameters_queue' = 1..(m + 1)
        /\ parameters_queue'[m + 1] = pushed[n]
        /\ \A i \in 1..m : parameters_queue'[i] = parameters_queue[i]
    BY <1>3, <2>1, LenProperties, AppendProperties DEF SessionTypeOK, TransportTypeOK
  <2> HIDE DEF m
  <2> SUFFICES ASSUME NEW p \in Adaptive
               PROVE  \/ Updates(p)' = {} /\ applied'[p] = delivered'[p]
                      \/ \E i \in Updates(p)' :
                            /\ \A j \in Updates(p)' : j <= i
                            /\ parameters_queue'[i].version = delivered'[p]
    BY DEF NewestInv
  <2>3. CASE p = pushed[n].id
    <3>1. m + 1 \in Updates(p)' /\ \A j \in Updates(p)' : j <= m + 1
      BY <2>2, <2>3 DEF Updates
    <3>2. delivered'[p] = pushed[n].version
      BY <1>3, <2>3 DEF SessionTypeOK, TransportTypeOK
    <3> QED BY <2>2, <3>1, <3>2
  <2>4. CASE p # pushed[n].id
    <3>1. Updates(p)' = Updates(p) /\ Updates(p) \subseteq 1..m
      BY <2>2, <2>4 DEF Updates
    <3>2. delivered'[p] = delivered[p]
      BY <1>3, <2>4 DEF SessionTypeOK, TransportTypeOK
    <3> QED BY <2>2, <3>1, <3>2 DEF NewestInv
  <2> QED BY <2>3, <2>4
<1> QED BY <1>1, <1>2, <1>3

\* The newest parameters of a policy that have reached the actor are those it acts with or
\* still wait in its queue, whatever the order of the policies in a burst of pushes
\* (runtime.py:372-404).
THEOREM SessionNewestApplied == Spec => []NewestApplied
<1>1. Init => NewestInv
  <2> SUFFICES ASSUME Init, NEW p \in Adaptive
               PROVE  Updates(p) = {} /\ applied[p] = delivered[p]
    BY DEF NewestInv
  <2>1. DOMAIN parameters_queue = {}
    BY DEF Init, TransportInit
  <2> QED BY <2>1 DEF Init, TransportInit, ActorInit, Updates
<1>2. SessionTypeOK /\ NewestInv /\ [Next]_vars => NewestInv'
  <2> SUFFICES ASSUME SessionTypeOK, NewestInv, [Next]_vars PROVE NewestInv'
    OBVIOUS
  <2>a. CASE UNCHANGED <<parameters_queue, delivered, applied>>
    BY <2>a DEF NewestInv, Updates
  <2>1. CASE ActorStep /\ UNCHANGED learner
    <3>1. CASE Between
      BY <2>a, <3>1, BetweenKeeps, NewestAfterUpdate
    <3>2. CASE Advance
      BY <2>a, <3>2 DEF Advance, wire
    <3>3. ASSUME NEW target \in Primitives, FinishSegment(target) \/ Rerecord(target)
          PROVE  NewestInv'
      <4>1. /\ UNCHANGED delivered
            /\ ApplyUpdates \/ UNCHANGED <<parameters_queue, applied>>
        BY <3>3 DEF FinishSegment, Rerecord, wire
      <4> QED BY <2>a, <4>1, NewestAfterUpdate
    <3> QED BY <2>1, <3>1, <3>2, <3>3 DEF ActorStep, Between
  <2>2. CASE LearnerStep /\ UNCHANGED actor
    <3>1. UNCHANGED <<parameters_queue, delivered, applied>>
      BY <2>2 DEF LearnerStep, LearnerLoop, StartTraining, ProcessTransitions, ProcessMessages,
                  OptimizeOnly, OptimizeAndPush, Optimize, LearnerSignal, actor, actor_end, wire
    <3> QED BY <2>a, <3>1
  <2>3. CASE TransportStep /\ UNCHANGED <<actor, learner>>
    <3>1. UNCHANGED applied
      BY <2>3 DEF actor
    <3>2. CASE ReceiveParameters
      BY <3>1, <3>2, NewestAfterDelivery
    <3>3. CASE ~ReceiveParameters
      <4>1. UNCHANGED <<parameters_queue, delivered>>
        BY <2>3, <3>3 DEF TransportStep, SendTransitions, SendInteractions, SendersEnd,
             SenderEnds, ReceiverEnds, ServerStarts, ServerStops, actor_end
      <4> QED BY <2>a, <3>1, <4>1
    <3> QED BY <3>2, <3>3
  <2>4. CASE UNCHANGED vars
    BY <2>a, <2>4 DEF vars, transport, actor
  <2> QED BY <2>1, <2>2, <2>3, <2>4 DEF Next, ActorAct, LearnerAct, TransportAct
<1>3. SessionTypeOK /\ NewestInv => NewestApplied
  <2> SUFFICES ASSUME SessionTypeOK, NewestInv, NEW p \in Adaptive, applied[p] # delivered[p]
               PROVE  \E i \in DOMAIN parameters_queue :
                         parameters_queue[i] = [id |-> p, version |-> delivered[p]]
    BY DEF NewestApplied
  <2>1. PICK i \in Updates(p) : parameters_queue[i].version = delivered[p]
    BY DEF NewestInv
  <2>2. i \in DOMAIN parameters_queue /\ parameters_queue[i].id = p
    BY DEF Updates
  <2>3. parameters_queue[i] \in Push
    BY <2>2, LenProperties DEF SessionTypeOK, TransportTypeOK
  <2> QED BY <2>1, <2>2, <2>3 DEF Push
<1> QED BY <1>1, <1>2, <1>3, SessionTypes, PTL DEF Spec

-----------------------------------------------------------------------------
(* The kinds of steps the remaining invariants tell apart                  *)

\* what those invariants are about
onTheWay == <<transitions_queue, transition_queue, interactions_queue, interaction_message_queue>>
segment == <<active_primitive, collection_counts, pending, total_steps, rerecorded>>
training == <<replay, offline, optimization_steps, last_messages>>

\* a step that touches none of it, but may count an environment step
Quiet == UNCHANGED <<onTheWay, segment, training>> /\ env_steps' \in {env_steps, env_steps + 1}

\* Every step of the session, by what it does to transitions, reports and counts.
LEMMA StepKinds ==
  ASSUME SessionTypeOK, [Next]_vars
  PROVE  \/ Quiet
         \/ Advance /\ UNCHANGED learner
         \/ \E target \in Primitives : FinishSegment(target) /\ UNCHANGED learner
         \/ \E target \in Primitives : Rerecord(target) /\ UNCHANGED learner
         \/ SendTransitions /\ UNCHANGED <<actor, learner>>
         \/ SendInteractions /\ UNCHANGED <<actor, learner>>
         \/ \E k \in 0..Len(transition_queue) : ProcessTransitions(k) /\ UNCHANGED actor
         \/ \E k \in 0..Len(interaction_message_queue) : ProcessMessages(k) /\ UNCHANGED actor
         \/ Optimize /\ UNCHANGED actor
<1> USE DEF onTheWay, segment, training
<1>1. CASE ActorAct
  <2>1. CASE Between
    <3>1. UNCHANGED learner
      BY <1>1 DEF ActorAct
    <3>2. Quiet
      BY <2>1, <3>1, BetweenKeeps DEF Quiet, learner
    <3> QED BY <3>2
  <2> QED BY <1>1, <2>1 DEF ActorAct, ActorStep, Between
<1>2. CASE LearnerAct
  <2>1. CASE StartTraining \/ LearnerSignal
    <3>1. UNCHANGED <<onTheWay, training, actor>>
      BY <1>2, <2>1 DEF LearnerAct, StartTraining, LearnerSignal, actor_end, learner
    <3> QED BY <3>1 DEF Quiet, actor
  <2> QED BY <1>2, <2>1
          DEF LearnerAct, LearnerStep, LearnerLoop, OptimizeOnly, OptimizeAndPush
<1>3. CASE TransportAct
  <2>1. CASE SendTransitions \/ SendInteractions
    BY <1>3, <2>1 DEF TransportAct
  <2>2. CASE ~(SendTransitions \/ SendInteractions)
    <3>1. UNCHANGED <<onTheWay, actor, learner>>
      BY <1>3, <2>2 DEF TransportAct, TransportStep, ReceiveParameters, SendersEnd, SenderEnds,
             ReceiverEnds, ServerStarts, ServerStops, actor_end, learner_end
    <3> QED BY <3>1 DEF Quiet, actor, learner
  <2> QED BY <2>1, <2>2
<1>4. CASE UNCHANGED vars
  BY <1>4 DEF vars, transport, actor, learner, Quiet
<1> QED BY <1>1, <1>2, <1>3, <1>4 DEF Next

\* An item moved from the head of one queue to the end of the queue before it.
LEMMA MovedItem ==
  ASSUME NEW A, NEW s \in Seq(A), NEW t \in Seq(A), t # <<>>
  PROVE  Append(s, Head(t)) \o Tail(t) = s \o t
<1>1. /\ Len(t) \in Nat \ {0} /\ Head(t) \in A /\ Head(t) = t[1]
      /\ Tail(t) \in Seq(A) /\ Tail(t) = SubSeq(t, 2, Len(t))
  BY HeadTailProperties, TailIsSubSeq, EmptySeq
<1>2. <<Head(t)>> \o Tail(t) = t
  <2>1. 1 \in 1..Len(t) /\ Len(t) \in 1..Len(t) /\ 1 + 1 = 2
    BY <1>1
  <2>2. SubSeq(t, 1, Len(t)) = <<t[1]>> \o SubSeq(t, 1 + 1, Len(t))
    BY <2>1, SubSeqRecursiveFirst
  <2> QED BY <1>1, <2>1, <2>2, SubSeqFull
<1>3. Append(s, Head(t)) = s \o <<Head(t)>> /\ <<Head(t)>> \in Seq(A)
  BY <1>1, AppendIsConcat
<1>4. (s \o <<Head(t)>>) \o Tail(t) = s \o (<<Head(t)>> \o Tail(t))
  BY <1>1, <1>3, ConcatAssociative
<1> QED BY <1>2, <1>3, <1>4

-----------------------------------------------------------------------------
(* Updates are backed by counted transitions                               *)

\* the transitions that wait in the learner and then in the actor, in the order of their coming
Waiting == FlattenSeq(transition_queue \o transitions_queue)

Batches == Seq(Transition)

\* Three stages of the way, read from either side.
LEMMA BatchesAssociate ==
  ASSUME NEW s \in Seq(Batches), NEW t \in Seq(Batches), NEW u \in Seq(Batches)
  PROVE  (s \o t) \o u = s \o (t \o u)
  BY ConcatAssociative

\* The usable transitions of two batches add up.
LEMMA OfConcat ==
  ASSUME NEW s \in Seq(Transition), NEW t \in Seq(Transition), NEW p
  PROVE  Len(Of(p, s \o t)) = Len(Of(p, s)) + Len(Of(p, t))
<1>1. Of(p, s \o t) = Of(p, s) \o Of(p, t)
  BY SelectConcat DEF Of
<1>2. Of(p, s) \in Seq(Transition) /\ Of(p, t) \in Seq(Transition)
  BY OfTyped
<1> QED BY <1>1, <1>2, ConcatProperties

\* Transitions of other policies are not counted.
LEMMA OfOthers ==
  ASSUME NEW A, NEW s \in Seq(A), NEW p, \A t \in A : t \in Transition /\ t.id # p
  PROVE  Len(Of(p, s)) = 0
<1>1. Of(p, s) \in Seq(A \cap Usable(p))
  BY SelectTyped DEF Of
<1>2. A \cap Usable(p) = {}
  BY DEF Usable
<1>3. Of(p, s) = <<>>
  <2>1. CASE Of(p, s) # <<>>
    <3>1. Head(Of(p, s)) \in A \cap Usable(p)
      BY <1>1, <2>1, HeadTailProperties
    <3> QED BY <1>2, <3>1
  <2> QED BY <2>1
<1> QED BY <1>3

\* Handing over a segment adds its transitions; an empty one adds no batch.
LEMMA FlattenBatch ==
  ASSUME NEW ss \in Seq(Seq(Transition)), NEW s \in Seq(Transition)
  PROVE  /\ ss \o Batch(s) \in Seq(Seq(Transition))
         /\ FlattenSeq(ss \o Batch(s)) = FlattenSeq(ss) \o s
<1>1. FlattenSeq(ss) \in Seq(Transition)
  BY FlattenTyped
<1>2. CASE s = <<>>
  <2>1. ss \o Batch(s) = ss
    BY <1>2, ConcatEmptySeq DEF Batch
  <2>2. FlattenSeq(ss) \o s = FlattenSeq(ss)
    BY <1>1, <1>2, ConcatEmptySeq
  <2> QED BY <2>1, <2>2
<1>3. CASE s # <<>>
  <2>1. ss \o Batch(s) = Append(ss, s)
    BY <1>3, AppendIsConcat DEF Batch
  <2>2. Append(ss, s) \in Seq(Seq(Transition))
    BY AppendProperties
  <2>3. FlattenSeq(Append(ss, s)) = FlattenSeq(ss) \o s
    BY FlattenAppend
  <2> QED BY <2>1, <2>2, <2>3
<1> QED BY <1>2, <1>3

\* What a step of the actor sends goes to the end of what waits.
LEMMA WaitingGrows ==
  ASSUME TransportTypeOK, UNCHANGED transition_queue,
         NEW a \in Seq(Transition), NEW b \in Seq(Transition),
         transitions_queue' = (transitions_queue \o Batch(a)) \o Batch(b)
  PROVE  \A p : Len(Of(p, Waiting')) = Len(Of(p, Waiting)) + Len(Of(p, a)) + Len(Of(p, b))
<1> DEFINE both == transition_queue \o transitions_queue
<1>1. /\ transition_queue \in Seq(Seq(Transition)) /\ transitions_queue \in Seq(Seq(Transition))
      /\ both \in Seq(Seq(Transition))
      /\ Batch(a) \in Seq(Seq(Transition)) /\ Batch(b) \in Seq(Seq(Transition))
  BY ConcatProperties DEF TransportTypeOK, Batch
<1>2. (transition_queue \o transitions_queue)' = (both \o Batch(a)) \o Batch(b)
  <2>1. transitions_queue \o Batch(a) \in Seq(Seq(Transition))
    BY <1>1, ConcatProperties
  <2>1b. /\ transition_queue \in Seq(Batches) /\ transitions_queue \in Seq(Batches)
        /\ Batch(a) \in Seq(Batches) /\ Batch(b) \in Seq(Batches)
        /\ transitions_queue \o Batch(a) \in Seq(Batches)
    BY <1>1, <2>1 DEF Batches
  <2>2. transition_queue \o ((transitions_queue \o Batch(a)) \o Batch(b))
          = (transition_queue \o (transitions_queue \o Batch(a))) \o Batch(b)
    BY <2>1b, BatchesAssociate
  <2>3. transition_queue \o (transitions_queue \o Batch(a)) = both \o Batch(a)
    BY <2>1b, BatchesAssociate
  <2> QED BY <2>2, <2>3
<1>3. /\ Waiting \in Seq(Transition)
      /\ Waiting' = (Waiting \o a) \o b
  <2>1. both \o Batch(a) \in Seq(Seq(Transition))
    BY <1>1, FlattenBatch
  <2>2. Waiting' = FlattenSeq((both \o Batch(a)) \o Batch(b))
    BY <1>2 DEF Waiting
  <2>3. Waiting = FlattenSeq(both)
    BY DEF Waiting
  <2> HIDE DEF both
  <2>4. FlattenSeq((both \o Batch(a)) \o Batch(b)) = FlattenSeq(both \o Batch(a)) \o b
    BY <2>1, FlattenBatch
  <2>5. FlattenSeq(both \o Batch(a)) = FlattenSeq(both) \o a
    BY <1>1, FlattenBatch
  <2> QED BY <1>1, <2>2, <2>3, <2>4, <2>5, FlattenTyped
<1>4. ASSUME NEW p
      PROVE  Len(Of(p, Waiting')) = Len(Of(p, Waiting)) + Len(Of(p, a)) + Len(Of(p, b))
  <2>1. Waiting \o a \in Seq(Transition)
    BY <1>3, ConcatProperties
  <2>2. Len(Of(p, (Waiting \o a) \o b)) = Len(Of(p, Waiting \o a)) + Len(Of(p, b))
    BY <2>1, OfConcat
  <2>3. Len(Of(p, Waiting \o a)) = Len(Of(p, Waiting)) + Len(Of(p, a))
    BY <1>3, OfConcat
  <2> QED BY <1>3, <2>2, <2>3
<1> QED BY <1>4

\* What the learner takes is the head of what waits.
LEMMA WaitingShrinks ==
  ASSUME TransportTypeOK, UNCHANGED transitions_queue,
         NEW k, Takes(transition_queue, k),
         transition_queue' = SubSeq(transition_queue, k + 1, Len(transition_queue))
  PROVE  /\ FlattenSeq(SubSeq(transition_queue, 1, k)) \in Seq(Transition)
         /\ \A p : Len(Of(p, Waiting)) =
                      Len(Of(p, FlattenSeq(SubSeq(transition_queue, 1, k)))) + Len(Of(p, Waiting'))
<1> DEFINE part == SubSeq(transition_queue, 1, k)
<1>1. /\ transition_queue \in Seq(Seq(Transition)) /\ transitions_queue \in Seq(Seq(Transition))
      /\ part \in Seq(Seq(Transition)) /\ transition_queue' \in Seq(Seq(Transition))
      /\ transition_queue = part \o transition_queue'
  BY TakenAndLeft DEF TransportTypeOK
<1> HIDE DEF part
<1>2. transition_queue \o transitions_queue = part \o (transition_queue' \o transitions_queue)
  <2>1. /\ part \in Seq(Batches) /\ transition_queue' \in Seq(Batches)
        /\ transitions_queue \in Seq(Batches)
    BY <1>1 DEF Batches
  <2>2. (part \o transition_queue') \o transitions_queue
          = part \o (transition_queue' \o transitions_queue)
    BY <2>1, BatchesAssociate
  <2> QED BY <1>1, <2>2
<1>3. transition_queue' \o transitions_queue \in Seq(Seq(Transition))
  BY <1>1, ConcatProperties
<1>4. /\ FlattenSeq(part) \in Seq(Transition) /\ Waiting' \in Seq(Transition)
      /\ Waiting = FlattenSeq(part) \o Waiting'
  <2>1. Waiting' = FlattenSeq(transition_queue' \o transitions_queue)
    BY DEF Waiting
  <2>2. FlattenSeq(part \o (transition_queue' \o transitions_queue))
          = FlattenSeq(part) \o FlattenSeq(transition_queue' \o transitions_queue)
    BY <1>1, <1>3, FlattenConcat
  <2>3. Waiting = FlattenSeq(part \o (transition_queue' \o transitions_queue))
    BY <1>2 DEF Waiting
  <2> QED BY <1>1, <1>3, <2>1, <2>2, <2>3, FlattenTyped
<1>5. \A p : Len(Of(p, Waiting)) = Len(Of(p, FlattenSeq(part))) + Len(Of(p, Waiting'))
  BY <1>4, OfConcat
<1> QED BY <1>4, <1>5 DEF part

\* A batch that is sent stays under way.
LEMMA WaitingMoves ==
  ASSUME TransportTypeOK, SendTransitions
  PROVE  Waiting' = Waiting
<1>1. /\ transition_queue \in Seq(Seq(Transition)) /\ transitions_queue \in Seq(Seq(Transition))
      /\ transitions_queue # <<>>
      /\ transitions_queue' = Tail(transitions_queue)
      /\ transition_queue' = Append(transition_queue, Head(transitions_queue))
  BY DEF TransportTypeOK, SendTransitions
<1>2. transition_queue' \o transitions_queue' = transition_queue \o transitions_queue
  BY <1>1, MovedItem
<1> QED BY <1>2 DEF Waiting

\* What p's buffer holds, what still waits and what the open segment has counted are
\* transitions that the actor counts: only policies that stream may have lost the count.
Backed(p) == Len(replay[p]) + Len(Of(p, Waiting)) + OpenSteps(p) <= collection_counts[p]

BackedInv ==
    \A p \in Adaptive :
        /\ Len(replay[p]) <= BufferCapacity
        /\ p \notin StreamImmediately => Backed(p)
        /\ p \in Limited \ Bc => optimization_steps[p] <= UnlockedUpdates(p)

\* The quantities of the balance are numbers.
LEMMA LengthsTyped ==
  ASSUME SessionTypeOK, NEW p \in Adaptive
  PROVE  /\ Len(replay[p]) \in Nat /\ Len(Of(p, Waiting)) \in Nat /\ OpenSteps(p) \in Nat
         /\ collection_counts[p] \in Nat /\ optimization_steps[p] \in Nat
         /\ BufferCapacity \in Nat \ {0}
<1>1. replay[p] \in Seq(Transition)
  BY DEF SessionTypeOK, LearnerTypeOK
<1>2. transition_queue \o transitions_queue \in Seq(Seq(Transition))
  BY ConcatProperties DEF SessionTypeOK, TransportTypeOK
<1>3. Waiting \in Seq(Transition)
  BY <1>2, FlattenTyped DEF Waiting
<1>4. Len(Of(p, Waiting)) \in Nat
  BY <1>3, OfTyped
<1>5. /\ OpenSteps(p) \in Nat /\ collection_counts[p] \in Nat /\ optimization_steps[p] \in Nat
  BY DEF OpenSteps, SessionTypeOK, ActorTypeOK, LearnerTypeOK
<1>6. BufferCapacity \in Nat \ {0}
  BY LearnerAssumption DEF LearnerAssumption
<1> QED BY <1>1, <1>4, <1>5, <1>6, LenProperties

\* The number of unlocked updates, as a case distinction for the arithmetic.
LEMMA UnlockedIs ==
  ASSUME SessionTypeOK, NEW p \in Adaptive
  PROVE  /\ Max({1, Warmup}) \in Nat \ {0}
         /\ UnlockedUpdates(p) = IF Len(replay[p]) - Max({1, Warmup}) + 1 <= 0 THEN 0
                                 ELSE Len(replay[p]) - Max({1, Warmup}) + 1
<1>1. Max({1, Warmup}) \in Nat \ {0}
  BY LearnerAssumption, MaxOfTwo DEF LearnerAssumption
<1>2. Len(replay[p]) \in Nat
  BY LengthsTyped
<1> DEFINE excess == Len(replay[p]) - Max({1, Warmup}) + 1
<1>3. excess \in Int
  BY <1>1, <1>2
<1>4. UnlockedUpdates(p) = Max({0, excess})
  BY DEF UnlockedUpdates
<1> HIDE DEF excess
<1>5. UnlockedUpdates(p) = IF 0 >= excess THEN 0 ELSE excess
  BY <1>3, <1>4, MaxOfTwo
<1>6. UnlockedUpdates(p) = IF excess <= 0 THEN 0 ELSE excess
  BY <1>3, <1>5
<1> QED BY <1>1, <1>6 DEF excess

\* The balance of a policy: what is held, waits and is open never exceeds what was counted.
LEMMA Balance ==
  ASSUME NEW held \in Nat, NEW waits \in Nat, NEW waits1 \in Nat, NEW a \in Nat, NEW b \in Nat,
         NEW open \in Nat, NEW open1 \in Nat, NEW count \in Nat, NEW count1 \in Nat,
         held + waits + open <= count,
         a + b + open1 + count <= count1 + open,
         waits1 = waits + a + b
  PROVE  held + waits1 + open1 <= count1
OBVIOUS

\* A step of the actor that sends at most what it counted.
LEMMA BackedAfterSending ==
  ASSUME SessionTypeOK, SessionTypeOK', BackedInv,
         UNCHANGED <<replay, optimization_steps, transition_queue>>,
         NEW a \in Seq(Transition), NEW b \in Seq(Transition),
         transitions_queue' = (transitions_queue \o Batch(a)) \o Batch(b),
         \A p \in Adaptive \ StreamImmediately :
            /\ collection_counts'[p] \in Nat
            /\ Len(Of(p, a)) + Len(Of(p, b)) + OpenSteps(p)' + collection_counts[p]
                 <= collection_counts'[p] + OpenSteps(p)
  PROVE  BackedInv'
<1>1. ASSUME NEW p \in Adaptive \ StreamImmediately PROVE Backed(p)'
  <2>1. Len(Of(p, Waiting')) = Len(Of(p, Waiting)) + Len(Of(p, a)) + Len(Of(p, b))
    BY WaitingGrows DEF SessionTypeOK
  <2>2. Len(Of(p, a)) \in Nat /\ Len(Of(p, b)) \in Nat
    BY OfTyped
  <2>3. Len(replay[p]) + Len(Of(p, Waiting)) + OpenSteps(p) <= collection_counts[p]
    BY DEF BackedInv, Backed
  <2>4. OpenSteps(p)' \in Nat
    BY LengthsTyped, ActorTypes DEF OpenSteps, SessionTypeOK, ActorTypeOK
  <2>5. Len(replay[p]) + Len(Of(p, Waiting')) + OpenSteps(p)' <= collection_counts'[p]
    <3>1. /\ Len(replay[p]) \in Nat /\ Len(Of(p, Waiting)) \in Nat /\ OpenSteps(p) \in Nat
          /\ collection_counts[p] \in Nat /\ collection_counts'[p] \in Nat
      BY LengthsTyped
    <3>2. Len(Of(p, a)) + Len(Of(p, b)) + OpenSteps(p)' + collection_counts[p]
            <= collection_counts'[p] + OpenSteps(p)
      OBVIOUS
    <3>3. Len(Of(p, Waiting')) \in Nat
      BY <2>1, <2>2, <3>1
    <3> DEFINE held == Len(replay[p])
               waits == Len(Of(p, Waiting))
               waits1 == Len(Of(p, Waiting'))
               na == Len(Of(p, a))
               nb == Len(Of(p, b))
               open == OpenSteps(p)
               open1 == OpenSteps(p)'
               count == collection_counts[p]
               count1 == collection_counts'[p]
    <3>4. /\ held \in Nat /\ waits \in Nat /\ waits1 \in Nat /\ na \in Nat /\ nb \in Nat
          /\ open \in Nat /\ open1 \in Nat /\ count \in Nat /\ count1 \in Nat
      BY <2>2, <2>4, <3>1, <3>3
    <3>5. held + waits + open <= count /\ waits1 = waits + na + nb
      BY <2>1, <2>3
    <3>6. na + nb + open1 + count <= count1 + open
      BY <3>2
    <3> HIDE DEF held, waits, waits1, na, nb, open, open1, count, count1
    <3>7. held + waits1 + open1 <= count1
      BY <3>4, <3>5, <3>6, Balance
    <3> QED BY <3>7 DEF held, waits1, open1, count1
  <2> QED BY <2>5 DEF Backed
<1>2. ASSUME NEW p \in Adaptive
      PROVE  /\ Len(replay'[p]) <= BufferCapacity
             /\ p \in Limited \ Bc => optimization_steps'[p] <= UnlockedUpdates(p)'
  BY DEF BackedInv, UnlockedUpdates
<1> QED BY <1>1, <1>2 DEF BackedInv

\* Without streaming the actor counts what it keeps, and uncounts only what it never sent.
LEMMA BackedByActor ==
  ASSUME SessionTypeOK, SessionTypeOK', BackedInv, UNCHANGED learner,
         NEW target \in Primitives, Advance \/ FinishSegment(target) \/ Rerecord(target)
  PROVE  BackedInv'
<1>a. UNCHANGED <<replay, optimization_steps, transition_queue>>
  BY DEF learner, Advance, FinishSegment, Rerecord, learner_end
<1>b. /\ collection_counts \in [Adaptive -> Nat] /\ collection_counts' \in [Adaptive -> Nat]
      /\ total_steps \in Nat
  BY DEF SessionTypeOK, ActorTypeOK
<1>c. <<>> \in Seq(Transition) /\ Batch(<<>>) = <<>> /\ \A p : Len(Of(p, <<>>)) = 0
  BY EmptySeq, SelectEmpty DEF Batch, Of
<1>d. \A s \in Seq(Seq(Transition)) : s \o <<>> = s
  BY ConcatEmptySeq
<1>e. transitions_queue \in Seq(Seq(Transition))
  BY DEF SessionTypeOK, TransportTypeOK
<1>1. CASE PolicyActs
  <2> DEFINE t == Recorded
             p0 == active_primitive
  <2>1. /\ p0 \in Adaptive /\ t \in Transition /\ t.id = p0
        /\ Sent(t) \in Seq(Transition) /\ Len(Sent(t)) <= 1
        /\ p0 \notin StreamImmediately => Sent(t) = <<>>
        /\ Kept(t) \in Seq(Keepable(p0)) /\ Kept(t) \in Seq(Transition)
        /\ Len(Kept(t)) \in Nat /\ Len(Kept(t)) <= total_steps + 1
        /\ transitions_queue \o Batch(Sent(t)) \in Seq(Seq(Transition))
    BY <1>1, <1>e, PolicyStep, ConcatProperties DEF Streams
  <2>2. ASSUME NEW p \in Adaptive \ StreamImmediately
        PROVE  /\ Len(Of(p, Sent(t))) = 0
               /\ Len(Of(p, Kept(t))) \in Nat
               /\ p = p0 => Len(Of(p, Kept(t))) <= total_steps + 1
               /\ p # p0 => Len(Of(p, Kept(t))) = 0
    <3>1. Len(Of(p, Sent(t))) = 0
      <4>1. CASE p0 \in StreamImmediately
        <5>1. Sent(t) \in Seq({t})
          <6>1. \A x : <<x>> \in Seq({x}) /\ <<>> \in Seq({x})
            OBVIOUS
          <6>2. Sent(t) = <<t>> \/ Sent(t) = <<>>
            BY DEF Sent
          <6> HIDE DEF t
          <6> QED BY <6>1, <6>2
        <5>2. \A x \in {t} : x \in Transition /\ x.id # p
          BY <2>1, <2>2, <4>1
        <5> QED BY <5>1, <5>2, OfOthers
      <4>2. CASE p0 \notin StreamImmediately
        BY <1>c, <2>1, <4>2
      <4> QED BY <4>1, <4>2
    <3>2. Len(Of(p, Kept(t))) \in Nat /\ Len(Of(p, Kept(t))) <= Len(Kept(t))
      BY <2>1, OfTyped
    <3>3. p # p0 => Len(Of(p, Kept(t))) = 0
      BY <2>1, OfOthers DEF Keepable
    <3> HIDE DEF t, p0
    <3> QED BY <1>b, <2>1, <3>1, <3>2, <3>3
  <2>3. CASE Advance
    <3>1. /\ collection_counts' = [collection_counts EXCEPT ![p0] = @ + 1]
          /\ total_steps' = total_steps + 1
          /\ transitions_queue' = transitions_queue \o Batch(Sent(t))
          /\ UNCHANGED active_primitive
      BY <1>1, <2>3 DEF Advance
    <3>2. transitions_queue' = (transitions_queue \o Batch(Sent(t))) \o Batch(<<>>)
      BY <1>c, <1>d, <2>1, <3>1
    <3>3. ASSUME NEW p \in Adaptive \ StreamImmediately
          PROVE  /\ collection_counts'[p] \in Nat
                 /\ Len(Of(p, Sent(t))) + Len(Of(p, <<>>)) + OpenSteps(p)' + collection_counts[p]
                      <= collection_counts'[p] + OpenSteps(p)
      <4>1. CASE p = p0
        <5>1. OpenSteps(p)' = total_steps + 1 /\ OpenSteps(p) = total_steps
              /\ collection_counts'[p] = collection_counts[p] + 1
          BY <1>b, <3>1, <4>1 DEF OpenSteps
        <5> QED BY <1>b, <1>c, <2>2, <5>1
      <4>2. CASE p # p0
        <5>1. OpenSteps(p)' = 0 /\ OpenSteps(p) = 0
              /\ collection_counts'[p] = collection_counts[p]
          BY <1>b, <3>1, <4>2 DEF OpenSteps
        <5> QED BY <1>b, <1>c, <2>2, <5>1
      <4> QED BY <4>1, <4>2
    <3> HIDE DEF t, p0
    <3> QED BY <1>a, <1>c, <2>1, <3>2, <3>3, BackedAfterSending
  <2>4. CASE FinishSegment(target)
    <3>1. /\ collection_counts' = [collection_counts EXCEPT ![p0] = collection_counts[p0] + 1]
          /\ total_steps' = 0
          /\ transitions_queue' = (transitions_queue \o Batch(Sent(t))) \o Batch(Kept(t))
      BY <1>1, <2>4 DEF FinishSegment, OpenSegment
    <3>2. ASSUME NEW p \in Adaptive \ StreamImmediately
          PROVE  /\ collection_counts'[p] \in Nat
                 /\ Len(Of(p, Sent(t))) + Len(Of(p, Kept(t))) + OpenSteps(p)'
                       + collection_counts[p] <= collection_counts'[p] + OpenSteps(p)
      <4>0. OpenSteps(p)' = 0
        BY <3>1 DEF OpenSteps
      <4>1. CASE p = p0
        <5>1. OpenSteps(p) = total_steps
              /\ collection_counts'[p] = collection_counts[p] + 1
          BY <1>b, <3>1, <4>1 DEF OpenSteps
        <5> HIDE DEF t, p0
        <5> QED BY <1>b, <2>2, <4>0, <4>1, <5>1
      <4>2. CASE p # p0
        <5>1. OpenSteps(p) = 0 /\ collection_counts'[p] = collection_counts[p]
          BY <1>b, <3>1, <4>2 DEF OpenSteps
        <5> HIDE DEF t, p0
        <5> QED BY <1>b, <2>2, <4>0, <4>2, <5>1
      <4> QED BY <4>1, <4>2
    <3> HIDE DEF t, p0
    <3> QED BY <1>a, <2>1, <3>1, <3>2, BackedAfterSending
  <2>5. CASE Rerecord(target)
    <3>1. /\ collection_counts' =
               [collection_counts EXCEPT ![p0] = collection_counts[p0] - total_steps]
          /\ total_steps' = 0
          /\ transitions_queue' = transitions_queue \o Batch(Sent(t))
      BY <1>1, <2>5 DEF Rerecord, OpenSegment, Uncounted
    <3>2. transitions_queue' = (transitions_queue \o Batch(Sent(t))) \o Batch(<<>>)
      BY <1>c, <1>d, <2>1, <3>1
    <3>3. ASSUME NEW p \in Adaptive \ StreamImmediately
          PROVE  /\ collection_counts'[p] \in Nat
                 /\ Len(Of(p, Sent(t))) + Len(Of(p, <<>>)) + OpenSteps(p)' + collection_counts[p]
                      <= collection_counts'[p] + OpenSteps(p)
      <4>0. OpenSteps(p)' = 0
        BY <3>1 DEF OpenSteps
      <4>1. CASE p = p0
        <5>1. OpenSteps(p) = total_steps
              /\ collection_counts'[p] = collection_counts[p] - total_steps
          BY <1>b, <3>1, <4>1 DEF OpenSteps
        <5> QED BY <1>b, <1>c, <2>2, <4>0, <5>1
      <4>2. CASE p # p0
        <5>1. OpenSteps(p) = 0 /\ collection_counts'[p] = collection_counts[p]
          BY <1>b, <3>1, <4>2 DEF OpenSteps
        <5> QED BY <1>b, <1>c, <2>2, <4>0, <5>1
      <4> QED BY <4>1, <4>2
    <3> HIDE DEF t, p0
    <3> QED BY <1>a, <1>c, <2>1, <3>2, <3>3, BackedAfterSending
  <2> QED BY <2>3, <2>4, <2>5
<1>2. CASE ~PolicyActs
  <2>1. /\ UNCHANGED <<collection_counts, transitions_queue>>
        /\ total_steps' = 0 \/ UNCHANGED <<active_primitive, total_steps>>
    BY <1>2 DEF Advance, FinishSegment, Rerecord, OpenSegment
  <2>2. transitions_queue' = (transitions_queue \o Batch(<<>>)) \o Batch(<<>>)
    BY <1>c, <1>d, <1>e, <2>1
  <2>3. ASSUME NEW p \in Adaptive \ StreamImmediately
        PROVE  /\ collection_counts'[p] \in Nat
               /\ Len(Of(p, <<>>)) + Len(Of(p, <<>>)) + OpenSteps(p)' + collection_counts[p]
                    <= collection_counts'[p] + OpenSteps(p)
    <3>1. OpenSteps(p) = 0 /\ OpenSteps(p)' = 0
      BY <1>2, <2>1 DEF OpenSteps, PolicyActs
    <3> QED BY <1>b, <1>c, <2>1, <3>1
  <2> QED BY <1>a, <1>c, <2>2, <2>3, BackedAfterSending
<1> QED BY <1>1, <1>2

\* Transitions taken from the queue are in the buffer, skipped or turned over.
LEMMA BackedByLearner ==
  ASSUME SessionTypeOK, SessionTypeOK', BackedInv, UNCHANGED actor,
         NEW k, ProcessTransitions(k)
  PROVE  BackedInv'
<1> DEFINE taken == FlattenSeq(SubSeq(transition_queue, 1, k))
<1>1. /\ Takes(transition_queue, k)
      /\ replay' = [p \in Adaptive |-> Newest(replay[p] \o Of(p, taken))]
      /\ transition_queue' = SubSeq(transition_queue, k + 1, Len(transition_queue))
      /\ UNCHANGED <<transitions_queue, optimization_steps, active_primitive,
                     collection_counts, total_steps>>
  BY DEF ProcessTransitions, actor_end, actor
<1>2. /\ taken \in Seq(Transition)
      /\ \A p : Len(Of(p, Waiting)) = Len(Of(p, taken)) + Len(Of(p, Waiting'))
  BY <1>1, WaitingShrinks DEF SessionTypeOK
<1> HIDE DEF taken
<1>3. ASSUME NEW p \in Adaptive
      PROVE  /\ Len(replay'[p]) <= BufferCapacity
             /\ Len(replay[p]) <= Len(replay'[p])
             /\ Len(replay'[p]) <= Len(replay[p]) + Len(Of(p, taken))
             /\ Len(Of(p, taken)) \in Nat /\ Len(replay'[p]) \in Nat
  <2>1. /\ replay[p] \in Seq(Transition) /\ Len(replay[p]) \in Nat
        /\ Len(replay[p]) <= BufferCapacity /\ BufferCapacity \in Nat \ {0}
    BY LengthsTyped DEF SessionTypeOK, LearnerTypeOK, BackedInv
  <2>2. Of(p, taken) \in Seq(Transition) /\ Len(Of(p, taken)) \in Nat
    BY <1>2, OfTyped
  <2> DEFINE all == replay[p] \o Of(p, taken)
  <2>3. all \in Seq(Transition) /\ Len(all) = Len(replay[p]) + Len(Of(p, taken))
    BY <2>1, <2>2, ConcatProperties
  <2>4. replay'[p] = Newest(all)
    BY <1>1
  <2> HIDE DEF all
  <2>5. Len(replay'[p]) = IF Len(all) <= BufferCapacity THEN Len(all) ELSE BufferCapacity
    BY <2>3, <2>4, NewestKeeps
  <2> QED BY <2>1, <2>2, <2>3, <2>5
<1>4. ASSUME NEW p \in Adaptive, p \notin StreamImmediately PROVE Backed(p)'
  <2> DEFINE held == Len(replay[p])
             held1 == Len(replay'[p])
             waits == Len(Of(p, Waiting))
             waits1 == Len(Of(p, Waiting'))
             new == Len(Of(p, taken))
             open == OpenSteps(p)
             count == collection_counts[p]
  <2>1. held \in Nat /\ waits \in Nat /\ open \in Nat /\ count \in Nat
    BY LengthsTyped
  <2>2. held1 \in Nat /\ new \in Nat /\ held1 <= held + new
    BY <1>3
  <2>3. waits = new + waits1 /\ waits1 \in Nat
    <3>1. waits = new + waits1
      BY <1>2
    <3>2. Waiting' \in Seq(Transition)
      <4>1. (transition_queue \o transitions_queue)' \in Seq(Seq(Transition))
        BY ConcatProperties DEF SessionTypeOK, TransportTypeOK
      <4> QED BY <4>1, FlattenTyped DEF Waiting
    <3> QED BY <3>1, <3>2, OfTyped
  <2>4. held + waits + open <= count
    BY <1>4 DEF BackedInv, Backed
  <2>5. OpenSteps(p)' = open /\ collection_counts'[p] = count
    BY <1>1 DEF OpenSteps
  <2> HIDE DEF held, held1, waits, waits1, new, open, count
  <2>6. held1 + waits1 + open <= count
    BY <2>1, <2>2, <2>3, <2>4
  <2> QED BY <2>5, <2>6 DEF Backed, held1, waits1
<1>5. ASSUME NEW p \in Adaptive, p \in Limited \ Bc
      PROVE  optimization_steps'[p] <= UnlockedUpdates(p)'
  <2> DEFINE m == Max({1, Warmup})
             held == Len(replay[p])
             held1 == Len(replay'[p])
  <2>1. /\ m \in Nat \ {0}
        /\ UnlockedUpdates(p) = IF held - m + 1 <= 0 THEN 0 ELSE held - m + 1
    BY UnlockedIs
  <2>2. UnlockedUpdates(p)' = IF held1 - m + 1 <= 0 THEN 0 ELSE held1 - m + 1
    <3> DEFINE excess == held1 - m + 1
    <3>1. excess \in Int
      BY <1>3, <2>1
    <3>2. UnlockedUpdates(p)' = Max({0, excess})
      BY DEF UnlockedUpdates
    <3> HIDE DEF excess
    <3>3. UnlockedUpdates(p)' = IF 0 >= excess THEN 0 ELSE excess
      BY <3>1, <3>2, MaxOfTwo
    <3>4. UnlockedUpdates(p)' = IF excess <= 0 THEN 0 ELSE excess
      BY <3>1, <3>3
    <3> QED BY <3>4 DEF excess
  <2>3. held \in Nat /\ held1 \in Nat /\ held <= held1 /\ optimization_steps[p] \in Nat
    BY <1>3, LengthsTyped
  <2>4. optimization_steps[p] <= UnlockedUpdates(p) /\ optimization_steps'[p] = optimization_steps[p]
    BY <1>1, <1>5 DEF BackedInv
  <2> HIDE DEF m, held, held1
  <2> QED BY <2>1, <2>2, <2>3, <2>4
<1> QED BY <1>3, <1>4, <1>5 DEF BackedInv

\* An update is made only where the buffer unlocks it.
LEMMA BackedByOptimizer ==
  ASSUME SessionTypeOK, BackedInv, UNCHANGED actor, Optimize
  PROVE  BackedInv'
<1>1. /\ optimization_steps' = [p \in Adaptive |-> IF Open(p) THEN optimization_steps[p] + 1
                                                              ELSE optimization_steps[p]]
      /\ UNCHANGED <<transitions_queue, transition_queue, replay, active_primitive,
                     collection_counts, total_steps>>
  BY DEF Optimize, actor_end, actor
<1>2. ASSUME NEW p \in Adaptive
      PROVE  /\ Len(replay'[p]) <= BufferCapacity
             /\ p \notin StreamImmediately => Backed(p)'
  BY <1>1 DEF BackedInv, Backed, Waiting, OpenSteps
<1>3. ASSUME NEW p \in Adaptive, p \in Limited \ Bc
      PROVE  optimization_steps'[p] <= UnlockedUpdates(p)'
  <2>1. /\ UnlockedUpdates(p)' = UnlockedUpdates(p)
        /\ optimization_steps[p] <= UnlockedUpdates(p)
    BY <1>1, <1>3 DEF UnlockedUpdates, BackedInv
  <2>2. UnlockedUpdates(p) \in Nat /\ optimization_steps[p] \in Nat
    BY UnlockedIs, LengthsTyped
  <2>3. Open(p) => optimization_steps[p] < UnlockedUpdates(p)
    BY <1>3 DEF Open
  <2>4. optimization_steps'[p] = IF Open(p) THEN optimization_steps[p] + 1
                                            ELSE optimization_steps[p]
    BY <1>1
  <2> HIDE DEF BackedInv
  <2> QED BY <2>1, <2>2, <2>3, <2>4
<1> QED BY <1>2, <1>3 DEF BackedInv

\* "Allow at most one SAC optimizer call per online transition after warmup"
\* (learner_server.py:611), against the transitions the actor counts: it holds across the
\* queues, the rerecorded segments, the skipped NaN transitions and the buffer's turnover.
THEOREM SessionUpdatesBacked == Spec => []UpdatesBacked
<1>1. Init => BackedInv
  <2> SUFFICES ASSUME Init, NEW p \in Adaptive
               PROVE  /\ Len(replay[p]) <= BufferCapacity
                      /\ Backed(p)
                      /\ optimization_steps[p] <= UnlockedUpdates(p)
    BY DEF BackedInv
  <2>1. /\ Len(replay[p]) = 0 /\ OpenSteps(p) = 0 /\ collection_counts[p] = 0
        /\ optimization_steps[p] = 0
    BY DEF Init, ActorInit, LearnerInit, OpenSteps
  <2>2. Len(Of(p, Waiting)) = 0
    <3>1. transition_queue \o transitions_queue = <<>>
      BY DEF Init, TransportInit
    <3> QED BY <3>1, FlattenEmpty, SelectEmpty DEF Waiting, Of
  <2>3. BufferCapacity \in Nat \ {0} /\ Max({1, Warmup}) \in Nat \ {0}
    BY LearnerAssumption, MaxOfTwo DEF LearnerAssumption
  <2>4. UnlockedUpdates(p) = Max({0, 0 - Max({1, Warmup}) + 1})
    BY <2>1 DEF UnlockedUpdates
  <2> DEFINE excess == 0 - Max({1, Warmup}) + 1
  <2>5. excess \in Int /\ 0 >= excess
    BY <2>3
  <2> HIDE DEF excess
  <2>6. Max({0, excess}) = 0
    BY <2>5, MaxOfTwo
  <2> QED BY <2>1, <2>2, <2>3, <2>4, <2>6 DEF Backed, excess
<1>2. SessionTypeOK /\ SessionTypeOK' /\ BackedInv /\ [Next]_vars => BackedInv'
  <2> SUFFICES ASSUME SessionTypeOK, SessionTypeOK', BackedInv, [Next]_vars PROVE BackedInv'
    OBVIOUS
  <2>a. CASE /\ Waiting' = Waiting
             /\ UNCHANGED <<replay, optimization_steps, active_primitive, collection_counts,
                            total_steps>>
    BY <2>a DEF BackedInv, Backed, OpenSteps, UnlockedUpdates
  <2>1. CASE Quiet
    BY <2>a, <2>1 DEF Quiet, onTheWay, segment, training, Waiting
  <2>2. CASE Advance /\ UNCHANGED learner
    <3>1. StartPrimitive \in Primitives
      BY ActorAssumption DEF ActorAssumption, Primitives
    <3> QED BY <2>2, <3>1, BackedByActor
  <2>3. CASE \E target \in Primitives :
               (FinishSegment(target) \/ Rerecord(target)) /\ UNCHANGED learner
    BY <2>3, BackedByActor
  <2>4. CASE SendTransitions /\ UNCHANGED <<actor, learner>>
    BY <2>a, <2>4, WaitingMoves DEF actor, learner, SessionTypeOK
  <2>5. CASE SendInteractions /\ UNCHANGED <<actor, learner>>
    BY <2>a, <2>5 DEF SendInteractions, actor, learner, Waiting
  <2>6. CASE \E k \in 0..Len(transition_queue) : ProcessTransitions(k) /\ UNCHANGED actor
    BY <2>6, BackedByLearner
  <2>7. CASE \E k \in 0..Len(interaction_message_queue) : ProcessMessages(k) /\ UNCHANGED actor
    BY <2>a, <2>7 DEF ProcessMessages, actor, actor_end, Waiting
  <2>8. CASE Optimize /\ UNCHANGED actor
    BY <2>8, BackedByOptimizer
  <2> QED BY <2>1, <2>2, <2>3, <2>4, <2>5, <2>6, <2>7, <2>8, StepKinds
<1>3. SessionTypeOK /\ BackedInv => UpdatesBacked
  <2> SUFFICES ASSUME SessionTypeOK, BackedInv, NEW p \in Limited \ (Bc \cup StreamImmediately)
               PROVE  optimization_steps[p]
                        <= Max({0, collection_counts[p] - Max({1, Warmup}) + 1})
    BY DEF UpdatesBacked
  <2>0. p \in Adaptive
    BY LearnerAssumption DEF LearnerAssumption
  <2> DEFINE m == Max({1, Warmup})
             held == Len(replay[p])
             count == collection_counts[p]
             excess == count - m + 1
  <2>1. /\ m \in Nat \ {0}
        /\ UnlockedUpdates(p) = IF held - m + 1 <= 0 THEN 0 ELSE held - m + 1
    BY <2>0, UnlockedIs
  <2>2. held \in Nat /\ count \in Nat /\ optimization_steps[p] \in Nat
    BY <2>0, LengthsTyped
  <2>3. held <= count
    <3>1. held + Len(Of(p, Waiting)) + OpenSteps(p) <= count
      BY <2>0 DEF BackedInv, Backed
    <3>2. Len(Of(p, Waiting)) \in Nat /\ OpenSteps(p) \in Nat
      BY <2>0, LengthsTyped
    <3> HIDE DEF held, count
    <3> QED BY <2>2, <3>1, <3>2
  <2>4. optimization_steps[p] <= UnlockedUpdates(p)
    BY <2>0 DEF BackedInv
  <2> HIDE DEF m, held, count
  <2>5. Max({0, excess}) = IF 0 >= excess THEN 0 ELSE excess
    <3>1. excess \in Int
      BY <2>1, <2>2
    <3> QED BY <3>1, MaxOfTwo
  <2>6. optimization_steps[p] <= Max({0, excess})
    BY <2>1, <2>2, <2>3, <2>4, <2>5
  <2> QED BY <2>6 DEF m, count
<1> QED BY <1>1, <1>2, <1>3, SessionTypes, PTL DEF Spec

-----------------------------------------------------------------------------
(* A rerecorded segment leaves no trace                                    *)

\* what may travel: no transition of a step to come and, unless its policy streams, none
\* that was rerecorded or that the open segment still keeps
Settled == {t \in Transition :
              /\ t.n <= env_steps
              /\ t.id \notin StreamImmediately =>
                    /\ t.n \notin rerecorded
                    /\ \A i \in DOMAIN pending : pending[i].n # t.n}

TravelInv ==
    /\ transition_queue \in Seq(Seq(Settled)) /\ transitions_queue \in Seq(Seq(Settled))
    /\ \A p \in Adaptive : replay[p] \in Seq(Settled) /\ offline[p] \subseteq Settled

KeptInv ==
    /\ \A i \in DOMAIN pending : pending[i].n <= env_steps /\ pending[i].n \notin rerecorded
    /\ \A n \in rerecorded : n <= env_steps

TraceInv == TravelInv /\ KeptInv

\* Batches of a subset are batches of the set.
LEMMA BatchesMonotonic ==
  ASSUME NEW S, NEW T, S \subseteq T
  PROVE  \A ss \in Seq(Seq(S)) : ss \in Seq(Seq(T))
<1>1. Seq(S) \subseteq Seq(T)
  BY SeqMonotonic
<1> QED BY <1>1, SeqMonotonic

\* A step of the actor whose batches may travel, and after which all that travels still may.
LEMMA TravelGrows ==
  ASSUME TravelInv, UNCHANGED <<transition_queue, replay, offline>>,
         Settled \subseteq Settled',
         NEW a \in Seq(Settled'), NEW b \in Seq(Settled'),
         transitions_queue' = (transitions_queue \o Batch(a)) \o Batch(b)
  PROVE  TravelInv'
<1> DEFINE S1 == Settled'
<1>1. /\ transition_queue \in Seq(Seq(S1)) /\ transitions_queue \in Seq(Seq(S1))
      /\ \A p \in Adaptive : replay[p] \in Seq(S1) /\ offline[p] \subseteq S1
  BY BatchesMonotonic, SeqMonotonic DEF TravelInv
<1>2. Batch(a) \in Seq(Seq(S1)) /\ Batch(b) \in Seq(Seq(S1))
  BY DEF Batch
<1> HIDE DEF S1
<1>3. transitions_queue \o Batch(a) \in Seq(Seq(S1))
  BY <1>1, <1>2, ConcatProperties
<1>4. transitions_queue' \in Seq(Seq(S1))
  BY <1>2, <1>3, ConcatProperties
<1> QED BY <1>1, <1>4 DEF TravelInv, S1

\* Without streaming rerecording drops the open segment, of which nothing was sent.
LEMMA TraceByActor ==
  ASSUME SessionTypeOK, TraceInv, UNCHANGED learner,
         NEW target \in Primitives, Advance \/ FinishSegment(target) \/ Rerecord(target)
  PROVE  TraceInv'
<1>a. UNCHANGED <<replay, offline, transition_queue>> /\ env_steps' = env_steps + 1
  BY DEF learner, Advance, FinishSegment, Rerecord, learner_end
<1>b. env_steps \in Nat /\ rerecorded \subseteq Nat
  BY DEF SessionTypeOK, ActorTypeOK
<1>c. \A S : <<>> \in Seq(S) /\ Batch(<<>>) = <<>>
  BY EmptySeq DEF Batch
<1>d. \A s \in Seq(Seq(Transition)) : s \o <<>> = s
  BY ConcatEmptySeq
<1>e. transitions_queue \in Seq(Seq(Transition))
  BY DEF SessionTypeOK, TransportTypeOK
<1>f. /\ Len(pending) \in Nat /\ DOMAIN pending = 1..Len(pending)
      /\ \A i \in DOMAIN pending : pending[i] \in Transition
  BY LenProperties DEF SessionTypeOK, SegmentInv, Keepable
<1>g. \A t \in Transition : t.n \in Nat
  BY DEF Transition
<1>1. CASE PolicyActs
  <2> DEFINE t == Recorded
  <2>1. /\ t \in Transition /\ t.n = env_steps + 1 /\ t.id = active_primitive
        /\ Sent(t) \in Seq(Transition) /\ Kept(t) \in Seq(Transition)
        /\ Sent(t) = IF active_primitive \in StreamImmediately THEN <<t>> ELSE <<>>
        /\ Kept(t) = IF active_primitive \in StreamImmediately THEN pending
                                                               ELSE Append(pending, t)
        /\ transitions_queue \o Batch(Sent(t)) \in Seq(Seq(Transition))
    BY <1>1, <1>e, PolicyStep, ConcatProperties DEF Sent, Kept, Streams
  <2>2. CASE Advance
    <3>1. /\ transitions_queue' = transitions_queue \o Batch(Sent(t))
          /\ pending' = Kept(t)
          /\ UNCHANGED rerecorded
      BY <1>1, <2>2 DEF Advance
    <3>2. transitions_queue' = (transitions_queue \o Batch(Sent(t))) \o Batch(<<>>)
      BY <1>c, <1>d, <2>1, <3>1
    <3> HIDE DEF t
    <3>3. \A i \in DOMAIN pending' : \/ i \in DOMAIN pending /\ pending'[i] = pending[i]
                                     \/ pending'[i] = t
      <4>1. CASE active_primitive \in StreamImmediately
        BY <2>1, <3>1, <4>1
      <4>2. CASE active_primitive \notin StreamImmediately
        <5>1. pending' = Append(pending, t) /\ pending \in Seq(Transition)
          BY <1>f, <2>1, <3>1, <4>2 DEF SessionTypeOK, SegmentInv
        <5> QED BY <1>f, <2>1, <5>1, AppendProperties, LenProperties
      <4> QED BY <4>1, <4>2
    <3>4. Settled \subseteq Settled'
      <4> SUFFICES ASSUME NEW x \in Settled PROVE x \in Settled'
        OBVIOUS
      <4>1. x \in Transition /\ x.n \in Nat /\ x.n <= env_steps
        BY <1>g DEF Settled
      <4>2. ASSUME x.id \notin StreamImmediately, NEW i \in DOMAIN pending'
            PROVE  pending'[i].n # x.n
        <5>1. \A j \in DOMAIN pending : pending[j].n # x.n
          BY <4>2 DEF Settled
        <5>2. t.n # x.n
          BY <1>b, <2>1, <4>1
        <5> QED BY <3>3, <5>1, <5>2
      <4> QED BY <1>a, <1>b, <3>1, <4>1, <4>2 DEF Settled
    <3>5. Sent(t) \in Seq(Settled')
      <4>1. CASE active_primitive \in StreamImmediately
        <5>1. t \in Settled'
          BY <1>a, <1>b, <2>1, <4>1 DEF Settled
        <5> QED BY <2>1, <4>1, <5>1
      <4>2. CASE active_primitive \notin StreamImmediately
        BY <1>c, <2>1, <4>2
      <4> QED BY <4>1, <4>2
    <3>6. TravelInv'
      BY <1>a, <1>c, <3>2, <3>4, <3>5, TravelGrows DEF TraceInv
    <3>7. KeptInv'
      <4>1. ASSUME NEW i \in DOMAIN pending'
            PROVE  pending'[i].n <= env_steps' /\ pending'[i].n \notin rerecorded'
        <5>1. CASE i \in DOMAIN pending /\ pending'[i] = pending[i]
          BY <1>a, <1>b, <1>f, <1>g, <3>1, <5>1 DEF TraceInv, KeptInv
        <5>2. CASE pending'[i] = t
          <6>1. t.n \notin rerecorded
            BY <1>b, <2>1 DEF TraceInv, KeptInv
          <6> QED BY <1>a, <1>b, <2>1, <3>1, <5>2, <6>1
        <5> QED BY <3>3, <5>1, <5>2
      <4>2. \A n \in rerecorded' : n <= env_steps'
        BY <1>a, <1>b, <3>1 DEF TraceInv, KeptInv
      <4> QED BY <4>1, <4>2 DEF KeptInv
    <3> QED BY <3>6, <3>7 DEF TraceInv
  <2>3. CASE FinishSegment(target)
    <3>1. /\ transitions_queue' = (transitions_queue \o Batch(Sent(t))) \o Batch(Kept(t))
          /\ pending' = <<>>
          /\ UNCHANGED rerecorded
      BY <1>1, <2>3 DEF FinishSegment, OpenSegment
    <3> HIDE DEF t
    <3>2. Settled \subseteq Settled'
      <4> SUFFICES ASSUME NEW x \in Settled PROVE x \in Settled'
        OBVIOUS
      <4>1. x \in Transition /\ x.n \in Nat /\ x.n <= env_steps
        BY <1>g DEF Settled
      <4> QED BY <1>a, <1>b, <3>1, <4>1 DEF Settled
    <3>3. t \in Settled'
      <4>1. t.n \notin rerecorded
        BY <1>b, <2>1 DEF TraceInv, KeptInv
      <4> QED BY <1>a, <1>b, <2>1, <3>1, <4>1 DEF Settled
    <3>4. \A i \in DOMAIN pending : pending[i] \in Settled'
      BY <1>a, <1>b, <1>f, <1>g, <3>1 DEF Settled, TraceInv, KeptInv
    <3> DEFINE S1 == Settled'
    <3>5. pending \in Seq(S1)
      <4> HIDE DEF S1
      <4>1. pending = [i \in 1..Len(pending) |-> pending[i]]
        BY LenProperties DEF SessionTypeOK, SegmentInv
      <4>2. \A i \in 1..Len(pending) : pending[i] \in S1
        BY <1>f, <3>4 DEF S1
      <4> QED BY <1>f, <4>1, <4>2
    <3>6. Sent(t) \in Seq(S1) /\ Kept(t) \in Seq(S1)
      <4>1. t \in S1
        BY <3>3
      <4> HIDE DEF S1
      <4>2. Append(pending, t) \in Seq(S1) /\ <<t>> \in Seq(S1)
        BY <3>5, <4>1, AppendProperties
      <4> QED BY <1>c, <2>1, <3>5, <4>2
    <3>7. TravelInv'
      BY <1>a, <3>1, <3>2, <3>6, TravelGrows DEF TraceInv
    <3>8. KeptInv'
      BY <1>a, <1>b, <3>1 DEF TraceInv, KeptInv
    <3> QED BY <3>7, <3>8 DEF TraceInv
  <2>4. CASE Rerecord(target)
    <3>1. /\ rerecorded' = rerecorded \cup {pending[i].n : i \in DOMAIN pending} \cup {t.n}
          /\ transitions_queue' = transitions_queue \o Batch(Sent(t))
          /\ pending' = <<>>
      BY <1>1, <2>4 DEF Rerecord, OpenSegment
    <3>2. transitions_queue' = (transitions_queue \o Batch(Sent(t))) \o Batch(<<>>)
      BY <1>c, <1>d, <2>1, <3>1
    <3> HIDE DEF t
    <3>3. Settled \subseteq Settled'
      <4> SUFFICES ASSUME NEW x \in Settled PROVE x \in Settled'
        OBVIOUS
      <4>1. x \in Transition /\ x.n \in Nat /\ x.n <= env_steps
        BY <1>g DEF Settled
      <4>2. x.id \notin StreamImmediately => x.n \notin rerecorded'
        BY <1>b, <2>1, <3>1, <4>1 DEF Settled
      <4> QED BY <1>a, <1>b, <3>1, <4>1, <4>2 DEF Settled
    <3>4. Sent(t) \in Seq(Settled')
      <4>1. CASE active_primitive \in StreamImmediately
        <5>1. t \in Settled'
          BY <1>a, <1>b, <2>1, <4>1 DEF Settled
        <5> QED BY <2>1, <4>1, <5>1
      <4>2. CASE active_primitive \notin StreamImmediately
        BY <1>c, <2>1, <4>2
      <4> QED BY <4>1, <4>2
    <3>5. TravelInv'
      BY <1>a, <1>c, <3>2, <3>3, <3>4, TravelGrows DEF TraceInv
    <3>6. KeptInv'
      <4>1. \A n \in rerecorded' : n <= env_steps'
        BY <1>a, <1>b, <1>f, <1>g, <2>1, <3>1 DEF TraceInv, KeptInv
      <4> QED BY <3>1, <4>1 DEF KeptInv
    <3> QED BY <3>5, <3>6 DEF TraceInv
  <2> QED BY <2>2, <2>3, <2>4
<1>2. CASE ~PolicyActs
  <2>1. /\ UNCHANGED <<rerecorded, transitions_queue>>
        /\ pending' = <<>> \/ UNCHANGED pending
    BY <1>2 DEF Advance, FinishSegment, Rerecord, OpenSegment
  <2>2. transitions_queue' = (transitions_queue \o Batch(<<>>)) \o Batch(<<>>)
    BY <1>c, <1>d, <1>e, <2>1
  <2>3. Settled \subseteq Settled'
    <3> SUFFICES ASSUME NEW x \in Settled PROVE x \in Settled'
      OBVIOUS
    <3>1. x \in Transition /\ x.n \in Nat /\ x.n <= env_steps
      BY <1>g DEF Settled
    <3> QED BY <1>a, <1>b, <2>1, <3>1 DEF Settled
  <2>4. TravelInv'
    BY <1>a, <1>c, <2>2, <2>3, TravelGrows DEF TraceInv
  <2>5. KeptInv'
    BY <1>a, <1>b, <1>f, <1>g, <2>1 DEF TraceInv, KeptInv
  <2> QED BY <2>4, <2>5 DEF TraceInv
<1> QED BY <1>1, <1>2

\* The buffers hold nothing but what travelled.
LEMMA TraceByLearner ==
  ASSUME TraceInv, UNCHANGED actor, NEW k, ProcessTransitions(k)
  PROVE  TraceInv'
<1> DEFINE taken == FlattenSeq(SubSeq(transition_queue, 1, k))
           S == Settled
<1>1. /\ Takes(transition_queue, k)
      /\ replay' = [p \in Adaptive |-> Newest(replay[p] \o Of(p, taken))]
      /\ offline' = [p \in Adaptive |->
                       offline[p] \cup {t \in ToSet(Of(p, taken)) : t.is_intervention}]
      /\ transition_queue' = SubSeq(transition_queue, k + 1, Len(transition_queue))
      /\ UNCHANGED <<transitions_queue, pending, env_steps, rerecorded>>
  BY DEF ProcessTransitions, actor_end, actor
<1>2. S' = S /\ KeptInv'
  BY <1>1 DEF Settled, TraceInv, KeptInv
<1>3. /\ transition_queue \in Seq(Seq(S)) /\ transitions_queue \in Seq(Seq(S))
      /\ \A p \in Adaptive : replay[p] \in Seq(S) /\ offline[p] \subseteq S
  BY DEF TraceInv, TravelInv
<1> HIDE DEF S
<1>4. transition_queue' \in Seq(Seq(S)) /\ SubSeq(transition_queue, 1, k) \in Seq(Seq(S))
  BY <1>1, <1>3, TakenAndLeft
<1>5. taken \in Seq(S)
  BY <1>4, FlattenTyped
<1> HIDE DEF taken
<1>6. ASSUME NEW p \in Adaptive
      PROVE  replay'[p] \in Seq(S) /\ offline'[p] \subseteq S
  <2>1. Of(p, taken) \in Seq(S)
    BY <1>5, OfTyped
  <2>2. ToSet(Of(p, taken)) \subseteq S
    BY <2>1, LenProperties DEF ToSet
  <2>3. replay[p] \o Of(p, taken) \in Seq(S)
    BY <1>3, <2>1, ConcatProperties
  <2>4. Newest(replay[p] \o Of(p, taken)) \in Seq(S)
    BY <2>3, NewestKeeps
  <2>5. offline'[p] = offline[p] \cup {t \in ToSet(Of(p, taken)) : t.is_intervention}
    BY <1>1
  <2>6. offline'[p] \subseteq S
    BY <1>3, <2>2, <2>5
  <2> QED BY <1>1, <2>4, <2>6
<1>7. TravelInv'
  BY <1>1, <1>2, <1>3, <1>4, <1>6 DEF TravelInv, S
<1> QED BY <1>2, <1>7 DEF TraceInv

\* A segment the operator rerecords leaves no trace: unless its policy streams, none of its
\* transitions is in a queue or a buffer, then or later (actor_server.py:459-486).
THEOREM SessionRerecordLeavesNoTrace == Spec => []RerecordLeavesNoTrace
<1>1. Init => TraceInv
  <2> SUFFICES ASSUME Init PROVE TraceInv
    OBVIOUS
  <2>1. TravelInv
    BY EmptySeq DEF Init, TransportInit, LearnerInit, TravelInv
  <2>2. KeptInv
    BY DEF Init, ActorInit, KeptInv
  <2> QED BY <2>1, <2>2 DEF TraceInv
<1>2. SessionTypeOK /\ TraceInv /\ [Next]_vars => TraceInv'
  <2> SUFFICES ASSUME SessionTypeOK, TraceInv, [Next]_vars PROVE TraceInv'
    OBVIOUS
  <2>a. CASE UNCHANGED <<transitions_queue, transition_queue, replay, offline, env_steps, pending,
                         rerecorded>>
    BY <2>a DEF TraceInv, TravelInv, KeptInv, Settled
  <2>1. CASE Quiet
    <3>1. /\ UNCHANGED <<transitions_queue, transition_queue, replay, offline, pending, rerecorded>>
          /\ env_steps' \in {env_steps, env_steps + 1}
      BY <2>1 DEF Quiet, onTheWay, segment, training
    <3>2. Settled \subseteq Settled'
      <4> SUFFICES ASSUME NEW x \in Settled PROVE x \in Settled'
        OBVIOUS
      <4>1. x.n \in Nat /\ env_steps \in Nat /\ x.n <= env_steps
        BY DEF Settled, Transition, SessionTypeOK, ActorTypeOK
      <4> QED BY <3>1, <4>1 DEF Settled
    <3>3. TravelInv'
      BY <3>1, <3>2, BatchesMonotonic, SeqMonotonic DEF TraceInv, TravelInv
    <3>4. KeptInv'
      <4>1. \A i \in DOMAIN pending : pending[i].n \in Nat
        BY LenProperties DEF SessionTypeOK, SegmentInv, Keepable, Transition
      <4> QED BY <3>1, <4>1 DEF TraceInv, KeptInv, SessionTypeOK, ActorTypeOK
    <3> QED BY <3>3, <3>4 DEF TraceInv
  <2>2. CASE Advance /\ UNCHANGED learner
    <3>1. StartPrimitive \in Primitives
      BY ActorAssumption DEF ActorAssumption, Primitives
    <3> QED BY <2>2, <3>1, TraceByActor
  <2>3. CASE \E target \in Primitives :
               (FinishSegment(target) \/ Rerecord(target)) /\ UNCHANGED learner
    BY <2>3, TraceByActor
  <2>4. CASE SendTransitions /\ UNCHANGED <<actor, learner>>
    <3> DEFINE S == Settled
    <3>1. S' = S /\ KeptInv' /\ UNCHANGED <<replay, offline>>
      BY <2>4 DEF actor, learner, Settled, TraceInv, KeptInv
    <3>2. /\ transition_queue \in Seq(Seq(S)) /\ transitions_queue \in Seq(Seq(S))
          /\ transitions_queue # <<>>
          /\ transitions_queue' = Tail(transitions_queue)
          /\ transition_queue' = Append(transition_queue, Head(transitions_queue))
      BY <2>4 DEF SendTransitions, TraceInv, TravelInv
    <3> HIDE DEF S
    <3>3. /\ transitions_queue' \in Seq(Seq(S)) /\ Head(transitions_queue) \in Seq(S)
      BY <3>2, HeadTailProperties
    <3>4. transition_queue' \in Seq(Seq(S))
      BY <3>2, <3>3, AppendProperties
    <3>5. TravelInv'
      BY <3>1, <3>3, <3>4 DEF TraceInv, TravelInv, S
    <3> QED BY <3>1, <3>5 DEF TraceInv
  <2>5. CASE SendInteractions /\ UNCHANGED <<actor, learner>>
    BY <2>a, <2>5 DEF SendInteractions, actor, learner
  <2>6. CASE \E k \in 0..Len(transition_queue) : ProcessTransitions(k) /\ UNCHANGED actor
    BY <2>6, TraceByLearner
  <2>7. CASE \E k \in 0..Len(interaction_message_queue) : ProcessMessages(k) /\ UNCHANGED actor
    BY <2>a, <2>7 DEF ProcessMessages, actor, actor_end
  <2>8. CASE Optimize /\ UNCHANGED actor
    BY <2>a, <2>8 DEF Optimize, actor, actor_end
  <2> QED BY <2>1, <2>2, <2>3, <2>4, <2>5, <2>6, <2>7, <2>8, StepKinds
<1>3. TraceInv => RerecordLeavesNoTrace
  <2> SUFFICES ASSUME TraceInv, NEW t \in Travelling PROVE t \in Settled
    BY DEF RerecordLeavesNoTrace, Settled
  <2> DEFINE S == Settled
  <2>1. /\ transition_queue \in Seq(Seq(S)) /\ transitions_queue \in Seq(Seq(S))
        /\ \A p \in Adaptive : replay[p] \in Seq(S) /\ offline[p] \subseteq S
    BY DEF TraceInv, TravelInv
  <2> HIDE DEF S
  <2>2. \A s \in Seq(S) : ToSet(s) \subseteq S
    BY LenProperties DEF ToSet
  <2>3. \A ss \in Seq(Seq(S)) : ToSet(ss) \subseteq Seq(S)
    BY LenProperties DEF ToSet
  <2>4. CASE \E batch \in ToSet(transitions_queue) \cup ToSet(transition_queue) : t \in ToSet(batch)
    BY <2>1, <2>2, <2>3, <2>4 DEF S
  <2>5. CASE \E p \in Adaptive : t \in ToSet(replay[p]) \cup offline[p]
    BY <2>1, <2>2, <2>5 DEF S
  <2>6. \/ t \in UNION {ToSet(batch) : batch \in ToSet(transitions_queue)
                                                \cup ToSet(transition_queue)}
        \/ t \in UNION {ToSet(replay[p]) \cup offline[p] : p \in Adaptive}
    BY DEF Travelling
  <2>7. CASE t \in UNION {ToSet(batch) : batch \in ToSet(transitions_queue)
                                                  \cup ToSet(transition_queue)}
    <3>1. \E batch \in ToSet(transitions_queue) \cup ToSet(transition_queue) : t \in ToSet(batch)
      BY <2>7
    <3> QED BY <2>4, <3>1
  <2>8. CASE t \in UNION {ToSet(replay[p]) \cup offline[p] : p \in Adaptive}
    <3>1. \E p \in Adaptive : t \in ToSet(replay[p]) \cup offline[p]
      BY <2>8
    <3> QED BY <2>5, <3>1
  <2> QED BY <2>6, <2>7, <2>8
<1> QED BY <1>1, <1>2, <1>3, SessionTypes, PTL DEF Spec

-----------------------------------------------------------------------------
(* The reported steps advance                                              *)

\* what is reported of p, or under way, stays below what a rerecording can take p back to
StepsInv ==
    \A p \in Adaptive :
        /\ last_messages[p] + OpenSteps(p) <= collection_counts[p]
        /\ \A i \in Reports(p, UnderWay) :
              /\ last_messages[p] < UnderWay[i].step
              /\ UnderWay[i].step + OpenSteps(p) <= collection_counts[p]
              /\ \A j \in Reports(p, UnderWay) : i < j => UnderWay[i].step < UnderWay[j].step

\* The reports under way are a sequence of messages.
LEMMA UnderWayTyped ==
  ASSUME SessionTypeOK
  PROVE  /\ UnderWay \in Seq(Message)
         /\ Len(UnderWay) \in Nat /\ DOMAIN UnderWay = 1..Len(UnderWay)
         /\ \A i \in DOMAIN UnderWay : /\ UnderWay[i] \in Message
                                       /\ UnderWay[i].step \in Nat
<1>1. UnderWay \in Seq(Message)
  BY ConcatProperties DEF UnderWay, SessionTypeOK, TransportTypeOK
<1>2. \A m \in Message : m.step \in Nat
  BY DEF Message
<1>3. /\ Len(UnderWay) \in Nat /\ DOMAIN UnderWay = 1..Len(UnderWay)
      /\ \A i \in DOMAIN UnderWay : UnderWay[i] \in Message
  BY <1>1, LenProperties
<1> QED BY <1>1, <1>2, <1>3

\* A step of the actor that takes the count and the open segment apart no further.
LEMMA StepsWithoutReport ==
  ASSUME SessionTypeOK, SessionTypeOK', StepsInv,
         UNCHANGED <<interactions_queue, interaction_message_queue, last_messages>>,
         \A p \in Adaptive :
            collection_counts[p] + OpenSteps(p)' <= collection_counts'[p] + OpenSteps(p)
  PROVE  StepsInv'
<1>1. UnderWay' = UnderWay /\ \A p : Reports(p, UnderWay)' = Reports(p, UnderWay)
  BY DEF UnderWay, Reports
<1>2. ASSUME NEW p \in Adaptive, NEW n \in Nat, n + OpenSteps(p) <= collection_counts[p]
      PROVE  n + OpenSteps(p)' <= collection_counts'[p]
  <2> DEFINE o == OpenSteps(p)
             o1 == OpenSteps(p)'
             c == collection_counts[p]
             c1 == collection_counts'[p]
  <2>1. o \in Nat /\ o1 \in Nat /\ c \in Nat /\ c1 \in Nat
    BY DEF OpenSteps, SessionTypeOK, ActorTypeOK
  <2>2. n + o <= c /\ c + o1 <= c1 + o
    BY <1>2
  <2> HIDE DEF o, o1, c, c1
  <2>3. n + o1 <= c1
    BY <2>1, <2>2
  <2> QED BY <2>3 DEF o1, c1
<1>3. \A p \in Adaptive : last_messages[p] \in Nat
  BY DEF SessionTypeOK, LearnerTypeOK
<1>4. \A p \in Adaptive : Reports(p, UnderWay) \subseteq DOMAIN UnderWay
  BY DEF Reports
<1> SUFFICES ASSUME NEW p \in Adaptive
             PROVE  /\ last_messages[p] + OpenSteps(p)' <= collection_counts'[p]
                    /\ \A i \in Reports(p, UnderWay) :
                          /\ last_messages[p] < UnderWay[i].step
                          /\ UnderWay[i].step + OpenSteps(p)' <= collection_counts'[p]
                          /\ \A j \in Reports(p, UnderWay) :
                                i < j => UnderWay[i].step < UnderWay[j].step
  BY <1>1 DEF StepsInv
<1>5. last_messages[p] + OpenSteps(p)' <= collection_counts'[p]
  BY <1>2, <1>3 DEF StepsInv
<1>6. ASSUME NEW i \in Reports(p, UnderWay)
      PROVE  UnderWay[i].step + OpenSteps(p)' <= collection_counts'[p]
  <2>1. UnderWay[i].step \in Nat
    BY <1>4, UnderWayTyped
  <2> QED BY <1>2, <2>1 DEF StepsInv
<1> QED BY <1>5, <1>6 DEF StepsInv

\* The end of a segment: the report that goes out is past all others of its policy.
LEMMA StepsWithReport ==
  ASSUME SessionTypeOK, StepsInv,
         UNCHANGED <<interaction_message_queue, last_messages>>,
         active_primitive \in Adaptive,
         interactions_queue' = Append(interactions_queue,
            [id |-> active_primitive, step |-> collection_counts[active_primitive] + 1]),
         collection_counts' = [collection_counts EXCEPT
            ![active_primitive] = collection_counts[active_primitive] + 1],
         total_steps' = 0
  PROVE  StepsInv'
<1> DEFINE p0 == active_primitive
           message == [id |-> p0, step |-> collection_counts[p0] + 1]
           n == Len(UnderWay)
<1>1. /\ message \in Message /\ message.id = p0 /\ message.step = collection_counts[p0] + 1
      /\ collection_counts \in [Adaptive -> Nat] /\ last_messages \in [Adaptive -> Nat]
  BY DEF Message, SessionTypeOK, ActorTypeOK, LearnerTypeOK
<1>2. UnderWay' = Append(UnderWay, message)
  <2>1. /\ interaction_message_queue \in Seq(Message) /\ interactions_queue \in Seq(Message)
        /\ interactions_queue' = Append(interactions_queue, message)
        /\ interaction_message_queue' = interaction_message_queue
    BY DEF SessionTypeOK, TransportTypeOK
  <2> HIDE DEF message
  <2>2. /\ Append(interactions_queue, message) = interactions_queue \o <<message>>
        /\ <<message>> \in Seq(Message)
    BY <1>1, <2>1, AppendIsConcat
  <2>3. interaction_message_queue \o (interactions_queue \o <<message>>)
          = (interaction_message_queue \o interactions_queue) \o <<message>>
    BY <2>1, <2>2, ConcatAssociative
  <2>4. Append(interaction_message_queue \o interactions_queue, message)
          = (interaction_message_queue \o interactions_queue) \o <<message>>
    BY <1>1, <2>1, ConcatProperties, AppendIsConcat
  <2> QED BY <2>1, <2>2, <2>3, <2>4 DEF UnderWay
<1>3. /\ n \in Nat /\ DOMAIN UnderWay = 1..n
      /\ DOMAIN UnderWay' = 1..(n + 1)
      /\ UnderWay'[n + 1] = message
      /\ \A i \in 1..n : UnderWay'[i] = UnderWay[i] /\ UnderWay[i].step \in Nat
  <2>1. UnderWay \in Seq(Message) /\ Append(UnderWay, message) \in Seq(Message)
    BY <1>1, UnderWayTyped, AppendProperties
  <2> HIDE DEF message
  <2> QED BY <1>1, <1>2, <2>1, UnderWayTyped, AppendProperties, LenProperties
<1> HIDE DEF message, n, p0
<1> SUFFICES ASSUME NEW p \in Adaptive
             PROVE  /\ last_messages[p] + OpenSteps(p)' <= collection_counts'[p]
                    /\ \A i \in Reports(p, UnderWay)' :
                          /\ last_messages[p] < UnderWay'[i].step
                          /\ UnderWay'[i].step + OpenSteps(p)' <= collection_counts'[p]
                          /\ \A j \in Reports(p, UnderWay)' :
                                i < j => UnderWay'[i].step < UnderWay'[j].step
  BY DEF StepsInv
<1>4. OpenSteps(p)' = 0 /\ OpenSteps(p) \in Nat /\ collection_counts[p] \in Nat
  BY DEF OpenSteps, SessionTypeOK, ActorTypeOK
<1>5. /\ last_messages[p] + OpenSteps(p) <= collection_counts[p]
      /\ \A i \in Reports(p, UnderWay) :
            /\ last_messages[p] < UnderWay[i].step
            /\ UnderWay[i].step + OpenSteps(p) <= collection_counts[p]
            /\ \A j \in Reports(p, UnderWay) : i < j => UnderWay[i].step < UnderWay[j].step
  BY DEF StepsInv
<1>6. /\ last_messages[p] \in Nat /\ last_messages[p] <= collection_counts[p]
      /\ \A i \in Reports(p, UnderWay) : UnderWay[i].step <= collection_counts[p]
  <2>1. last_messages[p] \in Nat
    BY <1>1
  <2>2. \A i \in Reports(p, UnderWay) : UnderWay[i].step \in Nat
    BY <1>3 DEF Reports
  <2> QED BY <1>4, <1>5, <2>1, <2>2
<1>7. CASE p = p0
  <2>1. collection_counts'[p] = collection_counts[p] + 1 /\ message.step = collection_counts[p] + 1
    BY <1>1, <1>7 DEF p0
  <2>2. \A i \in Reports(p, UnderWay)' : i = n + 1 \/ (i \in 1..n /\ i \in Reports(p, UnderWay))
    <3>1. ASSUME NEW i \in Reports(p, UnderWay)', i # n + 1
          PROVE  i \in 1..n /\ i \in Reports(p, UnderWay)
      <4>1. i \in 1..(n + 1) /\ UnderWay'[i].id = p
        BY <1>3 DEF Reports
      <4>2. i \in 1..n
        BY <1>3, <3>1, <4>1
      <4> QED BY <1>3, <4>1, <4>2 DEF Reports
    <3> QED BY <3>1
  <2>3. ASSUME NEW i \in Reports(p, UnderWay)'
        PROVE  /\ last_messages[p] < UnderWay'[i].step
               /\ UnderWay'[i].step <= collection_counts'[p]
               /\ \A j \in Reports(p, UnderWay)' : i < j => UnderWay'[i].step < UnderWay'[j].step
    <3>1. CASE i = n + 1
      BY <1>3, <1>4, <1>6, <2>1, <2>2, <3>1
    <3>2. CASE i \in 1..n /\ i \in Reports(p, UnderWay)
      <4>1. UnderWay'[i] = UnderWay[i] /\ UnderWay[i].step \in Nat
            /\ UnderWay[i].step <= collection_counts[p] /\ last_messages[p] < UnderWay[i].step
        BY <1>3, <1>5, <1>6, <3>2
      <4>2. ASSUME NEW j \in Reports(p, UnderWay)', i < j
            PROVE  UnderWay'[i].step < UnderWay'[j].step
        <5>1. CASE j = n + 1
          BY <1>3, <1>4, <2>1, <4>1, <5>1
        <5>2. CASE j \in 1..n /\ j \in Reports(p, UnderWay)
          BY <1>3, <1>5, <3>2, <4>1, <4>2, <5>2
        <5> QED BY <2>2, <5>1, <5>2
      <4> QED BY <1>4, <2>1, <4>1, <4>2
    <3> QED BY <2>2, <3>1, <3>2
  <2>4. \A i \in Reports(p, UnderWay)' : UnderWay'[i].step \in Nat
    BY <1>3, <1>4, <2>1, <2>2
  <2> QED BY <1>4, <1>6, <2>1, <2>3, <2>4
<1>8. CASE p # p0
  <2>1. collection_counts'[p] = collection_counts[p]
    BY <1>1, <1>8 DEF p0
  <2>2. \A i \in Reports(p, UnderWay)' : i \in 1..n /\ i \in Reports(p, UnderWay)
    BY <1>1, <1>3, <1>8 DEF Reports
  <2> QED BY <1>3, <1>4, <1>5, <1>6, <2>1, <2>2
<1> QED BY <1>7, <1>8

\* Reading messages moves the last one read up to what was under way.
LEMMA StepsAfterReading ==
  ASSUME SessionTypeOK, StepsInv, UNCHANGED actor, NEW k, ProcessMessages(k)
  PROVE  StepsInv'
<1> DEFINE taken == SubSeq(interaction_message_queue, 1, k)
           n == Len(UnderWay)
<1>1. /\ Takes(interaction_message_queue, k)
      /\ last_messages' = [p \in Adaptive |-> IF Reports(p, taken) = {} THEN last_messages[p]
                                              ELSE taken[Max(Reports(p, taken))].step]
      /\ interaction_message_queue' = SubSeq(interaction_message_queue, k + 1,
                                             Len(interaction_message_queue))
      /\ UNCHANGED <<interactions_queue, active_primitive, collection_counts, total_steps>>
  BY DEF ProcessMessages, actor_end, actor
<1>2. /\ k \in Nat /\ taken \in Seq(Message) /\ interaction_message_queue' \in Seq(Message)
      /\ k <= Len(interaction_message_queue)
      /\ interaction_message_queue = taken \o interaction_message_queue'
      /\ interaction_message_queue \in Seq(Message) /\ interactions_queue \in Seq(Message)
  BY <1>1, TakenAndLeft DEF SessionTypeOK, TransportTypeOK
<1>3. Len(taken) = k
  <2>1. \A i \in 1..k : interaction_message_queue[i] \in Message
    BY <1>2, LenProperties, ElementOfSeq
  <2>2. 1 \in Int /\ k \in Int
    BY <1>2
  <2>3. Len(taken) = IF 1 <= k THEN k - 1 + 1 ELSE 0
    BY <2>1, <2>2, SubSeqProperties
  <2> QED BY <1>2, <2>3
<1> HIDE DEF taken
<1>4. /\ UnderWay = taken \o UnderWay' /\ UnderWay' \in Seq(Message)
  <2>1. UnderWay' = interaction_message_queue' \o interactions_queue
    BY <1>1 DEF UnderWay
  <2>2. UnderWay' \in Seq(Message)
    BY <1>2, <2>1, ConcatProperties
  <2>3. (taken \o interaction_message_queue') \o interactions_queue
          = taken \o (interaction_message_queue' \o interactions_queue)
    BY <1>2, ConcatAssociative
  <2> QED BY <1>2, <2>1, <2>2, <2>3 DEF UnderWay
<1>5. /\ n \in Nat /\ k <= n /\ DOMAIN UnderWay = 1..n /\ DOMAIN taken = 1..k
      /\ DOMAIN UnderWay' = 1..(n - k)
      /\ \A i \in 1..k : UnderWay[i] = taken[i]
      /\ \A i \in 1..(n - k) : UnderWay'[i] = UnderWay[i + k]
      /\ \A i \in 1..n : UnderWay[i].step \in Nat
  <2>1. Len(UnderWay') \in Nat /\ DOMAIN UnderWay' = 1..Len(UnderWay') /\ DOMAIN taken = 1..k
    BY <1>2, <1>3, <1>4, LenProperties
  <2>2. /\ Len(taken \o UnderWay') = k + Len(UnderWay')
        /\ \A i \in 1..(k + Len(UnderWay')) :
              (taken \o UnderWay')[i] = IF i <= k THEN taken[i] ELSE UnderWay'[i - k]
    BY <1>2, <1>3, <1>4, ConcatProperties
  <2>3. n = k + Len(UnderWay') /\ Len(UnderWay') = n - k /\ n \in Nat /\ k <= n
    BY <1>2, <1>4, <2>1, <2>2
  <2>4. \A i \in 1..n : UnderWay[i] = IF i <= k THEN taken[i] ELSE UnderWay'[i - k]
    BY <1>4, <2>2, <2>3
  <2>5. DOMAIN UnderWay = 1..n /\ \A i \in 1..n : UnderWay[i].step \in Nat
    BY UnderWayTyped
  <2> HIDE DEF n
  <2>6. ASSUME NEW i \in 1..(n - k) PROVE UnderWay'[i] = UnderWay[i + k]
    <3>1. i + k \in 1..n /\ ~(i + k <= k) /\ (i + k) - k = i
      BY <1>2, <2>3
    <3> QED BY <2>4, <3>1
  <2>7. \A i \in 1..k : UnderWay[i] = taken[i]
    <3> SUFFICES ASSUME NEW i \in 1..k PROVE UnderWay[i] = taken[i]
      OBVIOUS
    <3>1. i \in 1..n /\ i <= k
      BY <1>2, <2>3
    <3> QED BY <2>4, <3>1
  <2> QED BY <2>1, <2>3, <2>5, <2>6, <2>7
<1> HIDE DEF n
<1> SUFFICES ASSUME NEW p \in Adaptive
             PROVE  /\ last_messages'[p] + OpenSteps(p)' <= collection_counts'[p]
                    /\ \A i \in Reports(p, UnderWay)' :
                          /\ last_messages'[p] < UnderWay'[i].step
                          /\ UnderWay'[i].step + OpenSteps(p)' <= collection_counts'[p]
                          /\ \A j \in Reports(p, UnderWay)' :
                                i < j => UnderWay'[i].step < UnderWay'[j].step
  BY DEF StepsInv
<1>6. OpenSteps(p)' = OpenSteps(p) /\ collection_counts'[p] = collection_counts[p]
  BY <1>1 DEF OpenSteps
<1>7. /\ last_messages[p] + OpenSteps(p) <= collection_counts[p]
      /\ \A i \in Reports(p, UnderWay) :
            /\ last_messages[p] < UnderWay[i].step
            /\ UnderWay[i].step + OpenSteps(p) <= collection_counts[p]
            /\ \A j \in Reports(p, UnderWay) : i < j => UnderWay[i].step < UnderWay[j].step
  BY DEF StepsInv
<1>8. \A i \in Reports(p, UnderWay)' :
         /\ i \in 1..(n - k) /\ i + k \in Reports(p, UnderWay) /\ k < i + k
         /\ UnderWay'[i].step = UnderWay[i + k].step
  <2> SUFFICES ASSUME NEW i \in Reports(p, UnderWay)'
               PROVE  /\ i \in 1..(n - k) /\ i + k \in Reports(p, UnderWay) /\ k < i + k
                      /\ UnderWay'[i].step = UnderWay[i + k].step
    OBVIOUS
  <2>1. i \in 1..(n - k) /\ UnderWay'[i].id = p
    BY <1>5 DEF Reports
  <2>2. UnderWay'[i] = UnderWay[i + k] /\ i + k \in 1..n /\ k < i + k
    BY <1>2, <1>5, <2>1
  <2> QED BY <1>5, <2>1, <2>2 DEF Reports
<1>9. /\ last_messages'[p] + OpenSteps(p) <= collection_counts[p]
      /\ \A i \in Reports(p, UnderWay)' : last_messages'[p] < UnderWay'[i].step
  <2>1. CASE Reports(p, taken) = {}
    <3>1. last_messages'[p] = last_messages[p]
      BY <1>1, <2>1
    <3> QED BY <1>7, <1>8, <3>1
  <2>2. CASE Reports(p, taken) # {}
    <3> DEFINE m == Max(Reports(p, taken))
    <3>1. m \in Reports(p, taken)
      BY <1>2, <2>2, LastReport
    <3>2. last_messages'[p] = taken[m].step
      BY <1>1, <2>2
    <3> HIDE DEF m
    <3>3. m \in 1..k /\ m \in Reports(p, UnderWay) /\ taken[m].step = UnderWay[m].step
      BY <1>2, <1>5, <3>1 DEF Reports
    <3>4. \A i \in Reports(p, UnderWay)' : m < i + k
      BY <1>2, <1>8, <3>3
    <3> QED BY <1>7, <1>8, <3>2, <3>3, <3>4
  <2> QED BY <2>1, <2>2
<1>10. ASSUME NEW i \in Reports(p, UnderWay)'
       PROVE  /\ UnderWay'[i].step + OpenSteps(p) <= collection_counts[p]
              /\ \A j \in Reports(p, UnderWay)' : i < j => UnderWay'[i].step < UnderWay'[j].step
  <2>1. UnderWay'[i].step + OpenSteps(p) <= collection_counts[p]
    BY <1>7, <1>8
  <2>2. ASSUME NEW j \in Reports(p, UnderWay)', i < j PROVE UnderWay'[i].step < UnderWay'[j].step
    <3>1. i \in 1..(n - k) /\ j \in 1..(n - k)
          /\ i + k \in Reports(p, UnderWay) /\ j + k \in Reports(p, UnderWay)
      BY <1>8
    <3>2. i + k < j + k
      BY <1>2, <1>5, <2>2, <3>1
    <3>3. UnderWay[i + k].step < UnderWay[j + k].step
      BY <1>7, <3>1, <3>2
    <3> QED BY <1>8, <3>3
  <2> QED BY <2>1, <2>2
<1> QED BY <1>6, <1>9, <1>10

\* The interaction step the learner logs and saves advances with every segment and never
\* passes what the actor counts, although the actor's count goes back when a segment is
\* rerecorded (actor_server.py:462, learner_server.py:1297-1303).
THEOREM SessionReportedStepsAdvance == Spec => []ReportedStepsAdvance
<1>1. Init => StepsInv
  <2> SUFFICES ASSUME Init, NEW p \in Adaptive
               PROVE  /\ last_messages[p] + OpenSteps(p) <= collection_counts[p]
                      /\ Reports(p, UnderWay) = {}
    BY DEF StepsInv
  <2>1. UnderWay = <<>>
    BY DEF Init, TransportInit, UnderWay
  <2>2. DOMAIN <<>> = {}
    OBVIOUS
  <2> QED BY <2>1, <2>2 DEF Init, ActorInit, LearnerInit, OpenSteps, Reports
<1>2. SessionTypeOK /\ SessionTypeOK' /\ StepsInv /\ [Next]_vars => StepsInv'
  <2> SUFFICES ASSUME SessionTypeOK, SessionTypeOK', StepsInv, [Next]_vars PROVE StepsInv'
    OBVIOUS
  <2>a. CASE /\ UnderWay' = UnderWay
             /\ UNCHANGED <<last_messages, active_primitive, collection_counts, total_steps>>
    BY <2>a DEF StepsInv, OpenSteps, Reports
  <2>b. ASSUME NEW target \in Primitives, Advance \/ FinishSegment(target) \/ Rerecord(target),
               UNCHANGED learner
        PROVE  StepsInv'
    <3>1. /\ UNCHANGED <<interaction_message_queue, last_messages>>
          /\ collection_counts \in [Adaptive -> Nat] /\ collection_counts' \in [Adaptive -> Nat]
          /\ total_steps \in Nat
      BY <2>b DEF learner, Advance, FinishSegment, Rerecord, learner_end, SessionTypeOK, ActorTypeOK
    <3>2. CASE ~PolicyActs
      <4>1. /\ UNCHANGED <<interactions_queue, collection_counts>>
            /\ total_steps' = 0 \/ UNCHANGED <<active_primitive, total_steps>>
        BY <2>b, <3>2 DEF Advance, FinishSegment, Rerecord, OpenSegment
      <4>2. \A p \in Adaptive : OpenSteps(p) = 0 /\ OpenSteps(p)' = 0
        BY <3>2, <4>1 DEF OpenSteps, PolicyActs
      <4> QED BY <3>1, <4>1, <4>2, StepsWithoutReport
    <3>3. CASE PolicyActs /\ Advance
      <4>1. /\ collection_counts' = [collection_counts EXCEPT ![active_primitive] = @ + 1]
            /\ total_steps' = total_steps + 1
            /\ UNCHANGED <<interactions_queue, active_primitive>>
        BY <3>3 DEF Advance
      <4>2. \A p \in Adaptive :
               collection_counts[p] + OpenSteps(p)' <= collection_counts'[p] + OpenSteps(p)
        BY <3>1, <4>1 DEF OpenSteps
      <4> QED BY <3>1, <4>1, <4>2, StepsWithoutReport
    <3>4. CASE PolicyActs /\ FinishSegment(target)
      <4>1. /\ active_primitive \in Adaptive
            /\ interactions_queue' = Append(interactions_queue,
                  [id |-> active_primitive, step |-> collection_counts[active_primitive] + 1])
            /\ collection_counts' = [collection_counts EXCEPT
                  ![active_primitive] = collection_counts[active_primitive] + 1]
            /\ total_steps' = 0
        BY <3>4 DEF PolicyActs, FinishSegment, OpenSegment
      <4> QED BY <3>1, <4>1, StepsWithReport
    <3>5. CASE PolicyActs /\ Rerecord(target)
      <4>1. /\ collection_counts' = [collection_counts EXCEPT
                  ![active_primitive] = collection_counts[active_primitive] - total_steps]
            /\ total_steps' = 0
            /\ UNCHANGED interactions_queue
        BY <3>5 DEF Rerecord, OpenSegment, Uncounted
      <4>2. ASSUME NEW p \in Adaptive
            PROVE  collection_counts[p] + OpenSteps(p)' <= collection_counts'[p] + OpenSteps(p)
        <5>1. OpenSteps(p)' = 0
          BY <4>1 DEF OpenSteps
        <5>2. CASE p = active_primitive
          <6>1. collection_counts'[p] = collection_counts[p] - total_steps
                /\ OpenSteps(p) = total_steps /\ collection_counts[p] \in Nat
            BY <3>1, <4>1, <5>2 DEF OpenSteps
          <6> QED BY <3>1, <5>1, <6>1
        <5>3. CASE p # active_primitive
          <6>1. collection_counts'[p] = collection_counts[p] /\ OpenSteps(p) = 0
                /\ collection_counts[p] \in Nat
            BY <3>1, <4>1, <5>3 DEF OpenSteps
          <6> QED BY <5>1, <6>1
        <5> QED BY <5>2, <5>3
      <4> QED BY <3>1, <4>1, <4>2, StepsWithoutReport
    <3> QED BY <2>b, <3>2, <3>3, <3>4, <3>5
  <2>1. CASE Quiet
    BY <2>a, <2>1 DEF Quiet, onTheWay, segment, training, UnderWay
  <2>2. CASE Advance /\ UNCHANGED learner
    <3>1. StartPrimitive \in Primitives
      BY ActorAssumption DEF ActorAssumption, Primitives
    <3> QED BY <2>2, <2>b, <3>1
  <2>3. CASE \E target \in Primitives :
               (FinishSegment(target) \/ Rerecord(target)) /\ UNCHANGED learner
    BY <2>3, <2>b
  <2>4. CASE SendTransitions /\ UNCHANGED <<actor, learner>>
    BY <2>a, <2>4 DEF SendTransitions, actor, learner, UnderWay
  <2>5. CASE SendInteractions /\ UNCHANGED <<actor, learner>>
    <3>1. UnderWay' = UnderWay
      BY <2>5, MovedItem DEF SendInteractions, UnderWay, SessionTypeOK, TransportTypeOK
    <3> QED BY <2>a, <2>5, <3>1 DEF actor, learner
  <2>6. CASE \E k \in 0..Len(transition_queue) : ProcessTransitions(k) /\ UNCHANGED actor
    BY <2>a, <2>6 DEF ProcessTransitions, actor, actor_end, UnderWay
  <2>7. CASE \E k \in 0..Len(interaction_message_queue) : ProcessMessages(k) /\ UNCHANGED actor
    BY <2>7, StepsAfterReading
  <2>8. CASE Optimize /\ UNCHANGED actor
    BY <2>a, <2>8 DEF Optimize, actor, actor_end, UnderWay
  <2> QED BY <2>1, <2>2, <2>3, <2>4, <2>5, <2>6, <2>7, <2>8, StepKinds
<1>3. SessionTypeOK /\ StepsInv => ReportedStepsAdvance
  <2> SUFFICES ASSUME SessionTypeOK, StepsInv, NEW p \in Adaptive
               PROVE  /\ last_messages[p] <= collection_counts[p]
                      /\ \A i \in Reports(p, UnderWay) :
                            UnderWay[i].step <= collection_counts[p]
    BY DEF ReportedStepsAdvance, StepsInv
  <2>1. /\ OpenSteps(p) \in Nat /\ last_messages[p] \in Nat /\ collection_counts[p] \in Nat
    BY DEF OpenSteps, SessionTypeOK, ActorTypeOK, LearnerTypeOK
  <2>2. \A i \in Reports(p, UnderWay) : UnderWay[i].step \in Nat
    BY UnderWayTyped DEF Reports
  <2>3. /\ last_messages[p] + OpenSteps(p) <= collection_counts[p]
        /\ \A i \in Reports(p, UnderWay) :
              UnderWay[i].step + OpenSteps(p) <= collection_counts[p]
    BY DEF StepsInv
  <2> QED BY <2>1, <2>2, <2>3
<1> QED BY <1>1, <1>2, <1>3, SessionTypes, PTL DEF Spec
=============================================================================
