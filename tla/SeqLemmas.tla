----------------------------- MODULE SeqLemmas -----------------------------
(* Lemmas about the sequence operators that the models are built from. *)
EXTENDS Integers, Sequences, FiniteSets, SequencesExt, SequenceTheorems, FiniteSetTheorems, TLAPS

\* Inserting into a sequence gives a sequence over the same set.
LEMMA InsertAtType ==
    ASSUME NEW S, NEW s \in Seq(S), NEW i \in 1..(Len(s) + 1), NEW e \in S
    PROVE  InsertAt(s, i, e) \in Seq(S)
<1>1. SubSeq(s, 1, i-1) \in Seq(S)
    <2>1. \A j \in 1..(i-1) : s[j] \in S
        BY ElementOfSeq, LenProperties
    <2> QED BY <2>1, SubSeqProperties
<1>2. SubSeq(s, i, Len(s)) \in Seq(S)
    <2>1. Len(s) \in Int /\ \A j \in i..Len(s) : s[j] \in S
        BY ElementOfSeq, LenProperties
    <2> QED BY <2>1, SubSeqProperties
<1>3. <<e>> \in Seq(S)
    OBVIOUS
<1>4. SubSeq(s, 1, i-1) \o <<e>> \in Seq(S)
    BY <1>1, <1>3, ConcatProperties
<1> QED BY <1>2, <1>4, ConcatProperties DEF InsertAt

\* Removing from a sequence gives a sequence over the same set.
LEMMA RemoveAtType ==
    ASSUME NEW S, NEW s \in Seq(S), NEW i \in 1..Len(s)
    PROVE  RemoveAt(s, i) \in Seq(S)
<1>1. SubSeq(s, 1, i-1) \in Seq(S)
    <2>1. \A j \in 1..(i-1) : s[j] \in S
        BY ElementOfSeq, LenProperties
    <2> QED BY <2>1, SubSeqProperties
<1>2. SubSeq(s, i+1, Len(s)) \in Seq(S)
    <2>1. Len(s) \in Int /\ \A j \in (i+1)..Len(s) : s[j] \in S
        BY ElementOfSeq, LenProperties
    <2> QED BY <2>1, SubSeqProperties
<1> QED BY <1>1, <1>2, ConcatProperties DEF RemoveAt

\* A part of a sequence is a sequence over the same set.
LEMMA SubSeqType ==
    ASSUME NEW S, NEW s \in Seq(S), NEW m \in Nat \ {0}, NEW n \in Nat, n <= Len(s)
    PROVE  /\ SubSeq(s, m, n) \in Seq(S)
           /\ Len(SubSeq(s, m, n)) = IF m <= n THEN n - m + 1 ELSE 0
<1>1. \A j \in m..n : s[j] \in S
    BY ElementOfSeq, LenProperties
<1> QED BY <1>1, SubSeqProperties

\* Where the elements of a sequence are after an insertion.
LEMMA InsertAtIs ==
    ASSUME NEW S, NEW s \in Seq(S), NEW i \in 1..(Len(s) + 1), NEW e \in S
    PROVE  /\ Len(InsertAt(s, i, e)) = Len(s) + 1
           /\ \A j \in 1..(Len(s) + 1) :
                 InsertAt(s, i, e)[j] = IF j < i THEN s[j] ELSE IF j = i THEN e ELSE s[j - 1]
<1> DEFINE a == SubSeq(s, 1, i-1)
           b == SubSeq(s, i, Len(s))
           c == a \o <<e>>
<1>0. Len(s) \in Nat /\ \A j \in 1..Len(s) : s[j] \in S
    BY ElementOfSeq, LenProperties
<1>1. a \in Seq(S) /\ Len(a) = i - 1 /\ \A j \in 1..(i-1) : a[j] = s[j]
    <2>1. \A j \in 1..(i-1) : s[j] \in S
        BY <1>0
    <2> QED BY <1>0, <2>1, SubSeqProperties
<1>2. b \in Seq(S) /\ Len(b) = Len(s) - i + 1 /\ \A j \in 1..(Len(s)-i+1) : b[j] = s[i+j-1]
    <2>1. \A j \in i..Len(s) : s[j] \in S
        BY <1>0
    <2> QED BY <1>0, <2>1, SubSeqProperties
<1>3. <<e>> \in Seq(S) /\ Len(<<e>>) = 1 /\ <<e>>[1] = e
    OBVIOUS
<1> HIDE DEF a, b
<1>4. c \in Seq(S) /\ Len(c) = i /\ \A j \in 1..i : c[j] = IF j < i THEN s[j] ELSE e
    <2>1. /\ c \in Seq(S) /\ Len(c) = Len(a) + Len(<<e>>)
          /\ \A j \in 1..(Len(a) + Len(<<e>>)) : c[j] = IF j <= Len(a) THEN a[j] ELSE <<e>>[j - Len(a)]
        BY <1>1, <1>3, ConcatProperties
    <2>2. Len(c) = i
        BY <1>0, <1>1, <1>3, <2>1
    <2>3. ASSUME NEW j \in 1..i PROVE c[j] = IF j < i THEN s[j] ELSE e
        <3>1. CASE j < i
            BY <1>0, <1>1, <1>3, <2>1, <3>1
        <3>2. CASE j = i
            <4>1. j - Len(a) = 1
                BY <1>0, <1>1, <3>2
            <4> QED BY <1>0, <1>1, <1>3, <2>1, <3>2, <4>1
        <3>3. j < i \/ j = i
            BY <1>0
        <3> QED BY <3>1, <3>2, <3>3
    <2> QED BY <2>1, <2>2, <2>3
<1> HIDE DEF c
<1>5. /\ Len(c \o b) = Len(c) + Len(b)
      /\ \A j \in 1..(Len(c) + Len(b)) : (c \o b)[j] = IF j <= Len(c) THEN c[j] ELSE b[j - Len(c)]
    BY <1>2, <1>4, ConcatProperties
<1>6. InsertAt(s, i, e) = c \o b
    BY DEF InsertAt, a, b, c
<1>7. ASSUME NEW j \in 1..(Len(s) + 1)
      PROVE  (c \o b)[j] = IF j < i THEN s[j] ELSE IF j = i THEN e ELSE s[j - 1]
    <2>1. CASE j <= i
        BY <1>0, <1>2, <1>4, <1>5, <2>1
    <2>2. CASE j > i
        <3>1. b[j - i] = s[i + (j - i) - 1]
            BY <1>0, <1>2, <2>2
        <3>2. i + (j - i) - 1 = j - 1
            BY <1>0
        <3> QED BY <1>0, <1>2, <1>4, <1>5, <2>2, <3>1, <3>2
    <2>3. j <= i \/ j > i
        BY <1>0
    <2> QED BY <2>1, <2>2, <2>3
<1> QED BY <1>0, <1>2, <1>4, <1>5, <1>6, <1>7

\* Where they are after a removal.
LEMMA RemoveAtIs ==
    ASSUME NEW S, NEW s \in Seq(S), NEW i \in 1..Len(s)
    PROVE  /\ Len(RemoveAt(s, i)) = Len(s) - 1
           /\ \A j \in 1..(Len(s) - 1) :
                 RemoveAt(s, i)[j] = IF j < i THEN s[j] ELSE s[j + 1]
<1> DEFINE a == SubSeq(s, 1, i-1)
           b == SubSeq(s, i+1, Len(s))
<1>0. Len(s) \in Nat /\ \A j \in 1..Len(s) : s[j] \in S
    BY ElementOfSeq, LenProperties
<1>1. a \in Seq(S) /\ Len(a) = i - 1 /\ \A j \in 1..(i-1) : a[j] = s[j]
    <2>1. \A j \in 1..(i-1) : s[j] \in S
        BY <1>0
    <2> QED BY <1>0, <2>1, SubSeqProperties
<1>2. b \in Seq(S) /\ Len(b) = Len(s) - i /\ \A j \in 1..(Len(s)-i) : b[j] = s[i+j]
    <2>1. \A j \in (i+1)..Len(s) : s[j] \in S
        BY <1>0
    <2>2. /\ b \in Seq(S) /\ Len(b) = IF i+1 <= Len(s) THEN Len(s)-(i+1)+1 ELSE 0
          /\ \A j \in 1..(Len(s)-(i+1)+1) : b[j] = s[(i+1)+j-1]
        BY <1>0, <2>1, SubSeqProperties
    <2>3. \A j \in 1..(Len(s)-i) : (i+1)+j-1 = i+j
        BY <1>0
    <2> QED BY <1>0, <2>2, <2>3
<1> HIDE DEF a, b
<1>3. /\ Len(a \o b) = Len(a) + Len(b)
      /\ \A j \in 1..(Len(a) + Len(b)) : (a \o b)[j] = IF j <= Len(a) THEN a[j] ELSE b[j - Len(a)]
    BY <1>1, <1>2, ConcatProperties
<1>4. RemoveAt(s, i) = a \o b
    BY DEF RemoveAt, a, b
<1>5. ASSUME NEW j \in 1..(Len(s) - 1)
      PROVE  (a \o b)[j] = IF j < i THEN s[j] ELSE s[j + 1]
    <2>1. CASE j < i
        BY <1>0, <1>1, <1>2, <1>3, <2>1
    <2>2. CASE j >= i
        <3>1. b[j - (i - 1)] = s[i + (j - (i - 1))]
            BY <1>0, <1>2, <2>2
        <3>2. i + (j - (i - 1)) = j + 1
            BY <1>0
        <3> QED BY <1>0, <1>1, <1>2, <1>3, <2>2, <3>1, <3>2
    <2>3. j < i \/ j >= i
        BY <1>0
    <2> QED BY <2>1, <2>2, <2>3
<1> QED BY <1>0, <1>1, <1>2, <1>3, <1>4, <1>5
-----------------------------------------------------------------------------
(* FlattenSeq is a recursive function: what it computes is proved by induction over  *)
(* the prefixes of its argument, as a fact about a set of numbers.                   *)

\* A set of positive integers that is closed downwards and bounded is an interval: with
\* its cardinality as its end.
LEMMA DownClosed ==
    ASSUME NEW n \in Nat, NEW S, S \subseteq 1..n, \A i \in S : \A j \in 1..i : j \in S
    PROVE  \E m \in Nat : S = 1..m
<1>1. IsFiniteSet(1..n)
    BY FS_Interval
<1>2. IsFiniteSet(S)
    BY <1>1, FS_Subset
<1> DEFINE m == Cardinality(S)
<1>3. m \in Nat
    BY <1>2, FS_CardinalityType
<1>4. \A i \in Nat : IsFiniteSet(1..i) /\ Cardinality(1..i) = i
    BY FS_Interval
<1>5. ASSUME NEW i \in S PROVE i \in 1..m
    <2>1. i \in Nat /\ i >= 1 /\ 1..i \in SUBSET S
        OBVIOUS
    <2>2. Cardinality(1..i) <= Cardinality(S)
        BY <1>2, <2>1, FS_Subset
    <2> QED BY <1>3, <1>4, <2>1, <2>2
<1>6. ASSUME NEW i \in 1..m PROVE i \in S
    <2> SUFFICES ASSUME i \notin S PROVE FALSE
        OBVIOUS
    <2> DEFINE b == i - 1
    <2>1. b \in Nat /\ i = b + 1
        BY <1>3
    <2>2. ASSUME NEW j \in S PROVE j \in 1..b
        <3>1. j \in Nat /\ j >= 1 /\ ~(i <= j)
            BY <1>3
        <3> QED BY <2>1, <3>1
    <2>3. S \in SUBSET (1..b) /\ IsFiniteSet(1..b) /\ Cardinality(1..b) = b
        BY <1>4, <2>1, <2>2
    <2> HIDE DEF b
    <2>4. Cardinality(S) <= Cardinality(1..b)
        BY <2>3, FS_Subset
    <2> QED BY <1>3, <2>1, <2>3, <2>4
<1> QED BY <1>3, <1>5, <1>6

\* A set with 0 that is closed under the successor has every number.
LEMMA SetInduction ==
    ASSUME NEW S, 0 \in S, \A n \in Nat : n \in S => n + 1 \in S
    PROVE  \A n \in Nat : n \in S
<1> SUFFICES ASSUME NEW n \in Nat PROVE n \in S
    OBVIOUS
<1> DEFINE T == {i \in 1..(n + 1) : \A j \in 0..(i - 1) : j \in S}
<1>1. \A i \in T : \A j \in 1..i : j \in T
    OBVIOUS
<1>2. PICK m \in Nat : T = 1..m
    <2>1. n + 1 \in Nat /\ T \subseteq 1..(n + 1)
        OBVIOUS
    <2> HIDE DEF T
    <2> QED BY <1>1, <2>1, DownClosed
<1>3. 1 \in T
    OBVIOUS
<1>4. m >= 1 /\ m \in T /\ m <= n + 1
    <2>1. m >= 1
        BY <1>2, <1>3
    <2> QED BY <1>2, <2>1
<1>5. ASSUME m < n + 1 PROVE FALSE
    <2>1. m - 1 \in Nat /\ \A j \in 0..(m - 1) : j \in S
        BY <1>2, <1>4
    <2>2. (m - 1) + 1 \in S
        BY <2>1
    <2>3. m + 1 \in T
        BY <1>4, <1>5, <2>1, <2>2
    <2> HIDE DEF T
    <2>4. m + 1 \in 1..m
        BY <1>2, <2>3
    <2> QED BY <2>4
<1>6. n + 1 \in T
    BY <1>2, <1>4, <1>5
<1> QED BY <1>6

\* Appending to the second of two sequences.
LEMMA ConcatAppend ==
    ASSUME NEW S, NEW s \in Seq(S), NEW t \in Seq(S), NEW e \in S
    PROVE  s \o Append(t, e) = Append(s \o t, e)
<1>1. s \o t \in Seq(S) /\ Append(t, e) = t \o <<e>>
    BY ConcatProperties, AppendIsConcat
<1>2. Append(s \o t, e) = (s \o t) \o <<e>>
    BY <1>1, AppendIsConcat
<1>3. <<e>> \in Seq(S)
    OBVIOUS
<1>4. (s \o t) \o <<e>> = s \o (t \o <<e>>)
    BY <1>3, ConcatAssociative
<1> QED BY <1>1, <1>2, <1>4

\* f[i] is the first i sequences of ss one after another, for i up to n.
IsFlat(f, ss, n) ==
    \A i \in 1..n : f[i] = IF i = 1 THEN ss[i] ELSE f[i - 1] \o ss[i]

\* There is such a function.
LEMMA FlatExists ==
    ASSUME NEW S, NEW ss \in Seq(Seq(S))
    PROVE  \A n \in Nat : n <= Len(ss) => \E f \in [1..n -> Seq(S)] : IsFlat(f, ss, n)
<1> DEFINE Q(n) == n <= Len(ss) => \E f \in [1..n -> Seq(S)] : IsFlat(f, ss, n)
           N == {n \in Nat : Q(n)}
<1>0. Len(ss) \in Nat /\ \A i \in 1..Len(ss) : ss[i] \in Seq(S)
    BY ElementOfSeq, LenProperties
<1>1. 0 \in N
    <2> DEFINE f == [i \in 1..0 |-> <<>>]
    <2>1. f \in [1..0 -> Seq(S)] /\ 1..0 = {}
        OBVIOUS
    <2>2. IsFlat(f, ss, 0)
        BY <2>1 DEF IsFlat
    <2> QED BY <2>1, <2>2
<1>2. ASSUME NEW n \in Nat, n \in N PROVE n + 1 \in N
    <2> SUFFICES ASSUME n + 1 <= Len(ss)
                 PROVE  \E f \in [1..(n + 1) -> Seq(S)] : IsFlat(f, ss, n + 1)
        OBVIOUS
    <2>1. PICK g \in [1..n -> Seq(S)] : IsFlat(g, ss, n)
        BY <1>0, <1>2
    <2>2. \A i \in 1..n : g[i] \in Seq(S) /\ g[i] = IF i = 1 THEN ss[i] ELSE g[i - 1] \o ss[i]
        BY <2>1 DEF IsFlat
    <2> DEFINE last == IF n = 0 THEN ss[n + 1] ELSE g[n] \o ss[n + 1]
               f == [i \in 1..(n + 1) |-> IF i = n + 1 THEN last ELSE g[i]]
    <2>3. last \in Seq(S)
        <3>1. ss[n + 1] \in Seq(S)
            BY <1>0
        <3>2. CASE n = 0
            BY <3>1, <3>2
        <3>3. CASE n # 0
            BY <2>2, <3>1, <3>3, ConcatProperties
        <3> QED BY <3>2, <3>3
    <2> HIDE DEF last
    <2>4. f \in [1..(n + 1) -> Seq(S)]
        BY <2>2, <2>3
    <2>5. ASSUME NEW i \in 1..(n + 1)
          PROVE  f[i] = IF i = 1 THEN ss[i] ELSE f[i - 1] \o ss[i]
        <3>1. CASE i = n + 1
            <4>1. i = 1 <=> n = 0
                BY <3>1
            <4>2. n # 0 => f[i - 1] = g[n]
                BY <3>1
            <4> QED BY <3>1, <4>1, <4>2 DEF last
        <3>2. CASE i # n + 1
            <4>1. i \in 1..n /\ f[i] = g[i] /\ (i # 1 => f[i - 1] = g[i - 1])
                BY <3>2
            <4> QED BY <2>2, <4>1
        <3> QED BY <3>1, <3>2
    <2>6. IsFlat(f, ss, n + 1)
        BY <2>4, <2>5 DEF IsFlat
    <2> QED BY <2>4, <2>6
<1>3. \A n \in Nat : n \in N
    <2> HIDE DEF N
    <2> QED BY <1>1, <1>2, SetInduction
<1> QED BY <1>3

\* And only one, also of sequences that begin alike.
LEMMA FlatUnique ==
    ASSUME NEW n \in Nat, NEW ss, NEW tt, \A i \in 1..n : ss[i] = tt[i],
           NEW f, IsFlat(f, ss, n), NEW g, IsFlat(g, tt, n)
    PROVE  \A i \in 1..n : f[i] = g[i]
<1> DEFINE N == {i \in Nat : i \in 1..n => f[i] = g[i]}
<1>0. \A i \in 1..n : f[i] = IF i = 1 THEN ss[i] ELSE f[i - 1] \o ss[i]
    BY DEF IsFlat
<1>1. \A i \in 1..n : g[i] = IF i = 1 THEN tt[i] ELSE g[i - 1] \o tt[i]
    BY DEF IsFlat
<1>2. 0 \in N
    OBVIOUS
<1>3. ASSUME NEW i \in Nat, i \in N PROVE i + 1 \in N
    <2> SUFFICES ASSUME i + 1 \in 1..n PROVE f[i + 1] = g[i + 1]
        OBVIOUS
    <2>1. i + 1 \in 1..n /\ (i + 1) - 1 = i /\ ss[i + 1] = tt[i + 1]
        OBVIOUS
    <2>2. CASE i = 0
        BY <1>0, <1>1, <2>1, <2>2
    <2>3. CASE i # 0
        <3>1. f[i] = g[i]
            BY <1>3, <2>3
        <3> QED BY <1>0, <1>1, <2>1, <2>3, <3>1
    <2> QED BY <2>2, <2>3
<1>4. \A i \in Nat : i \in N
    <2> HIDE DEF N
    <2> QED BY <1>2, <1>3, SetInduction
<1> QED BY <1>4

\* FlattenSeq is the last value of that function.
LEMMA FlattenIs ==
    ASSUME NEW S, NEW ss \in Seq(Seq(S)), NEW n, n = Len(ss), n > 0
    PROVE  \E f : /\ \A i \in 1..n : f[i] \in Seq(S)
                  /\ IsFlat(f, ss, n)
                  /\ FlattenSeq(ss) = f[n]
<1> DEFINE rec(f) == [i \in 1..n |-> IF i = 1 THEN ss[i] ELSE f[i - 1] \o ss[i]]
           F == CHOOSE f : f = rec(f)
<1>0. n \in Nat
    BY LenProperties
<1>1. PICK f \in [1..n -> Seq(S)] : IsFlat(f, ss, n)
    BY <1>0, FlatExists
<1>2. f = rec(f)
    BY <1>1 DEF IsFlat
<1>3. F = rec(F)
    <2> HIDE DEF rec
    <2> QED BY <1>2
<1>4. IsFlat(F, ss, n)
    <2> HIDE DEF F
    <2> QED BY <1>3 DEF IsFlat
<1>5. FlattenSeq(ss) = F[n]
    BY <1>0 DEF FlattenSeq
<1> HIDE DEF F
<1>6. \A i \in 1..n : F[i] = f[i]
    BY <1>0, <1>1, <1>4, FlatUnique
<1> QED BY <1>1, <1>4, <1>5, <1>6

\* What FlattenSeq gives is a sequence over the same set.
LEMMA FlattenType ==
    ASSUME NEW S, NEW ss \in Seq(Seq(S))
    PROVE  FlattenSeq(ss) \in Seq(S)
<1>1. PICK n : n = Len(ss)
    OBVIOUS
<1>2. n \in Nat
    BY <1>1, LenProperties
<1>3. CASE n = 0
    <2>1. FlattenSeq(ss) = ss /\ ss = <<>>
        BY <1>1, <1>3, EmptySeq DEF FlattenSeq
    <2> QED BY <2>1
<1>4. CASE n > 0
    <2>1. PICK f : (\A i \in 1..n : f[i] \in Seq(S)) /\ FlattenSeq(ss) = f[n]
        BY <1>1, <1>4, FlattenIs
    <2>2. n \in 1..n
        BY <1>2, <1>4
    <2> QED BY <2>1, <2>2
<1> QED BY <1>2, <1>3, <1>4

\* No sequence, and one.
LEMMA FlattenEmpty == FlattenSeq(<<>>) = <<>>
BY DEF FlattenSeq

\* One sequence more.
LEMMA FlattenAppend ==
    ASSUME NEW S, NEW ss \in Seq(Seq(S)), NEW s \in Seq(S)
    PROVE  FlattenSeq(Append(ss, s)) = FlattenSeq(ss) \o s
<1>0. PICK tt, n, m : tt = Append(ss, s) /\ n = Len(ss) /\ m = n + 1
    OBVIOUS
<1>1. /\ n \in Nat /\ m \in Nat /\ n <= m
      /\ tt \in Seq(Seq(S)) /\ Len(tt) = m /\ m > 0 /\ tt[m] = s
      /\ \A i \in 1..n : ss[i] = tt[i]
    BY <1>0, LenProperties, AppendProperties
<1>2. PICK g : IsFlat(g, tt, m) /\ FlattenSeq(tt) = g[m]
    BY <1>1, FlattenIs
<1>3. FlattenSeq(tt) = IF n = 0 THEN s ELSE g[n] \o s
    <2>1. m \in 1..m /\ m - 1 = n /\ (m = 1 <=> n = 0)
        BY <1>0, <1>1
    <2> QED BY <1>1, <1>2, <2>1 DEF IsFlat
<1>4. CASE n = 0
    <2>1. ss = <<>>
        BY <1>0, <1>4, EmptySeq
    <2> QED BY <1>0, <1>3, <1>4, <2>1, FlattenEmpty, ConcatEmptySeq
<1>5. CASE n > 0
    <2>1. PICK f : IsFlat(f, ss, n) /\ FlattenSeq(ss) = f[n]
        BY <1>0, <1>5, FlattenIs
    <2>2. \A i \in 1..n : f[i] = g[i]
        <3>1. n \in Nat /\ \A i \in 1..n : ss[i] = tt[i]
            BY <1>1
        <3>2. IsFlat(g, tt, n)
            <4>1. \A i \in 1..n : i \in 1..m
                BY <1>1
            <4> QED BY <1>2, <4>1, Zenon DEF IsFlat
        <3> QED BY <2>1, <3>1, <3>2, FlatUnique
    <2>3. f[n] = g[n]
        BY <1>1, <1>5, <2>2
    <2> QED BY <1>0, <1>3, <1>5, <2>1, <2>3, SMTT(30)
<1> QED BY <1>1, <1>4, <1>5

\* Some sequences, then some more: a step of the induction, and the whole.
LEMMA FlattenConcatStep ==
    ASSUME NEW S, NEW ss \in Seq(Seq(S)), NEW p \in Seq(Seq(S)), NEW t \in Seq(S),
           FlattenSeq(ss \o p) = FlattenSeq(ss) \o FlattenSeq(p)
    PROVE  FlattenSeq(ss \o Append(p, t)) = FlattenSeq(ss) \o FlattenSeq(Append(p, t))
<1>1. ss \o p \in Seq(Seq(S))
    BY ConcatProperties
<1>2. FlattenSeq(Append(ss \o p, t)) = FlattenSeq(ss \o p) \o t
    BY <1>1, FlattenAppend
<1>3. FlattenSeq(Append(p, t)) = FlattenSeq(p) \o t
    BY FlattenAppend
<1>4. (FlattenSeq(ss) \o FlattenSeq(p)) \o t = FlattenSeq(ss) \o (FlattenSeq(p) \o t)
    BY FlattenType, ConcatAssociative, SMTT(30)
<1>5. ss \o Append(p, t) = Append(ss \o p, t)
    BY ConcatAppend, SMTT(30)
<1> QED BY <1>2, <1>3, <1>4, <1>5

LEMMA FlattenConcat ==
    ASSUME NEW S, NEW ss \in Seq(Seq(S)), NEW tt \in Seq(Seq(S))
    PROVE  FlattenSeq(ss \o tt) = FlattenSeq(ss) \o FlattenSeq(tt)
<1> DEFINE pre(n) == SubSeq(tt, 1, n)
           Q(n) == FlattenSeq(ss \o pre(n)) = FlattenSeq(ss) \o FlattenSeq(pre(n))
           N == {n \in Nat : n <= Len(tt) => Q(n)}
<1>0. /\ Len(tt) \in Nat /\ \A i \in 1..Len(tt) : tt[i] \in Seq(S)
      /\ FlattenSeq(ss) \in Seq(S)
    BY ElementOfSeq, LenProperties, FlattenType
<1>1. 0 \in N
    <2>1. pre(0) = <<>> /\ ss \o pre(0) = ss /\ FlattenSeq(ss) \o <<>> = FlattenSeq(ss)
        BY <1>0, SubSeqEmpty, ConcatEmptySeq
    <2> QED BY <2>1, FlattenEmpty
<1>2. ASSUME NEW n \in Nat, n \in N PROVE n + 1 \in N
    <2> SUFFICES ASSUME n + 1 <= Len(tt) PROVE Q(n + 1)
        OBVIOUS
    <2>1. tt[n + 1] \in Seq(S)
        BY <1>0
    <2>2. pre(n) \in Seq(Seq(S))
        BY <1>0, SubSeqProperties
    <2>3. Q(n)
        BY <1>0, <1>2
    <2>4. pre(n + 1) = pre(n) \o <<tt[n + 1]>>
        <3>1. 1 \in 1..Len(tt) /\ n + 1 \in 1..Len(tt) /\ (n + 1) - 1 = n
            BY <1>0
        <3> QED BY <3>1, SubSeqRecursiveSecond
    <2>5. pre(n + 1) = Append(pre(n), tt[n + 1])
        BY <2>1, <2>2, <2>4, AppendIsConcat
    <2> HIDE DEF pre, N
    <2>6. FlattenSeq(ss \o Append(pre(n), tt[n + 1]))
            = FlattenSeq(ss) \o FlattenSeq(Append(pre(n), tt[n + 1]))
        BY <2>1, <2>2, <2>3, FlattenConcatStep
    <2> QED BY <2>5, <2>6
<1>3. \A n \in Nat : n \in N
    <2> HIDE DEF N
    <2> QED BY <1>1, <1>2, SetInduction
<1>4. pre(Len(tt)) = tt
    BY SubSeqFull
<1>5. Q(Len(tt))
    <2> HIDE DEF Q
    <2> QED BY <1>0, <1>3
<1> HIDE DEF pre
<1> QED BY <1>4, <1>5

\* Without one of them.
LEMMA FlattenRemove ==
    ASSUME NEW S, NEW ss \in Seq(Seq(S)), NEW k \in 1..Len(ss)
    PROVE  Len(FlattenSeq(ss)) = Len(FlattenSeq(RemoveAt(ss, k))) + Len(ss[k])
<1> DEFINE a == SubSeq(ss, 1, k - 1)
           b == SubSeq(ss, k + 1, Len(ss))
           c == ss[k]
<1>0. Len(ss) \in Nat /\ k \in Int /\ \A i \in 1..Len(ss) : ss[i] \in Seq(S)
    BY ElementOfSeq, LenProperties
<1>1. a \in Seq(Seq(S)) /\ b \in Seq(Seq(S)) /\ c \in Seq(S)
    <2>1. \A i \in 1..(k - 1) : ss[i] \in Seq(S)
        BY <1>0
    <2>2. \A i \in (k + 1)..Len(ss) : ss[i] \in Seq(S)
        BY <1>0
    <2> QED BY <1>0, <2>1, <2>2, SubSeqProperties
<1>2. ss = Append(a, c) \o b
    <2>1. SubSeq(ss, 1, k) = a \o <<c>>
        BY <1>0, SubSeqRecursiveSecond
    <2>2. Append(a, c) = a \o <<c>>
        BY <1>1, AppendIsConcat
    <2>3. SubSeq(ss, 1, k) \o b = SubSeq(ss, 1, Len(ss))
        BY <1>0, ConcatAdjacentSubSeq
    <2> QED BY <2>1, <2>2, <2>3, SubSeqFull
<1>3. RemoveAt(ss, k) = a \o b
    BY DEF RemoveAt
<1> HIDE DEF a, b, c
<1>4. FlattenSeq(ss) = (FlattenSeq(a) \o c) \o FlattenSeq(b)
    <2>1. Append(a, c) \in Seq(Seq(S))
        BY <1>1, AppendProperties
    <2>2. FlattenSeq(Append(a, c) \o b) = FlattenSeq(Append(a, c)) \o FlattenSeq(b)
        BY <1>1, <2>1, FlattenConcat
    <2>3. FlattenSeq(Append(a, c)) = FlattenSeq(a) \o c
        BY <1>1, FlattenAppend
    <2> QED BY <1>2, <2>2, <2>3
<1>5. FlattenSeq(RemoveAt(ss, k)) = FlattenSeq(a) \o FlattenSeq(b)
    BY <1>1, <1>3, FlattenConcat
<1>6. FlattenSeq(a) \in Seq(S) /\ FlattenSeq(b) \in Seq(S)
    BY <1>1, FlattenType
<1>7. /\ Len(FlattenSeq(ss)) = Len(FlattenSeq(a)) + Len(c) + Len(FlattenSeq(b))
      /\ Len(FlattenSeq(RemoveAt(ss, k))) = Len(FlattenSeq(a)) + Len(FlattenSeq(b))
    <2>1. FlattenSeq(a) \o c \in Seq(S) /\ Len(FlattenSeq(a) \o c) = Len(FlattenSeq(a)) + Len(c)
        BY <1>1, <1>6, ConcatProperties
    <2> QED BY <1>4, <1>5, <1>6, <2>1, ConcatProperties
<1>8. Len(FlattenSeq(a)) \in Nat /\ Len(FlattenSeq(b)) \in Nat /\ Len(c) \in Nat
    BY <1>1, <1>6, LenProperties
<1>9. Len(FlattenSeq(ss)) = Len(FlattenSeq(RemoveAt(ss, k))) + Len(c)
    BY <1>7, <1>8
<1> QED BY <1>9 DEF c

=============================================================================
