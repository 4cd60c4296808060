------------------------------- MODULE UartProofs -------------------------------
(***************************************************************************)
(* Proofs about UartAsync, for rings, chunks and event queues of any size, *)
(* any number of bytes in either direction and of opens, on one core or    *)
(* two.                                                                    *)
(***************************************************************************)
EXTENDS UartAsync, SequenceTheorems, TLAPS

----------------------------------------------------------------------------
(* Sequences of numbered bytes. *)

Bytes == Seq(Nat)

Sorted(s) == \A i, j \in 1 .. Len(s) : i < j => s[i] < s[j]
Before(s, t) == \A i \in 1 .. Len(s), j \in 1 .. Len(t) : s[i] < t[j]
Above(n, s) == \A i \in 1 .. Len(s) : n < s[i]
UpTo(s, m) == \A i \in 1 .. Len(s) : s[i] <= m

\* What passed on was numbered up to n; a, then b, then c hold later bytes, each
\* once and in order; m is the last number given out.
Chain(n, a, b, c, m) ==
  /\ n \in Nat /\ m \in Nat /\ n <= m
  /\ a \in Bytes /\ b \in Bytes /\ c \in Bytes
  /\ Sorted(a) /\ Sorted(b) /\ Sorted(c)
  /\ Above(n, a) /\ Above(n, b) /\ Above(n, c)
  /\ Before(a, b) /\ Before(a, c) /\ Before(b, c)
  /\ UpTo(a, m) /\ UpTo(b, m) /\ UpTo(c, m)

LEMMA TakeIs ==
  ASSUME NEW s \in Bytes, NEW k \in Nat
  PROVE  /\ Take(s, k) \in Bytes
         /\ Len(Take(s, k)) \in Nat /\ Len(Take(s, k)) <= k
         /\ Len(Take(s, k)) <= Len(s)
         /\ Len(s) <= k => Len(Take(s, k)) = Len(s)
         /\ Len(s) > k => Len(Take(s, k)) = k
         /\ \A i \in 1 .. Len(Take(s, k)) : Take(s, k)[i] = s[i]
<1> DEFINE m == Least(k, Len(s))
<1>1. Len(s) \in Nat /\ \A i \in 1 .. Len(s) : s[i] \in Nat
  BY LenProperties, ElementOfSeq DEF Bytes
<1>2. m \in Nat /\ m <= k /\ m <= Len(s) /\ (Len(s) <= k => m = Len(s)) /\ (Len(s) > k => m = k)
  BY <1>1 DEF Least
<1> HIDE DEF m
<1>3. /\ SubSeq(s, 1, m) \in Seq(Nat)
      /\ Len(SubSeq(s, 1, m)) = m
      /\ \A i \in 1 .. m : SubSeq(s, 1, m)[i] = s[i]
  BY <1>1, <1>2, SubSeqProperties
<1>4. Take(s, k) = SubSeq(s, 1, m)
  BY DEF Take, m
<1> QED
  BY <1>2, <1>3, <1>4 DEF Bytes

LEMMA RestIs ==
  ASSUME NEW s \in Bytes, NEW k \in Nat
  PROVE  /\ Rest(s, k) \in Bytes
         /\ Len(Rest(s, k)) \in Nat
         /\ Len(s) <= k => Rest(s, k) = <<>>
         /\ Len(s) > k => Len(Rest(s, k)) = Len(s) - k
         /\ \A i \in 1 .. Len(Rest(s, k)) : i + k \in 1 .. Len(s) /\ Rest(s, k)[i] = s[i + k]
<1>1. Len(s) \in Nat /\ \A i \in 1 .. Len(s) : s[i] \in Nat
  BY LenProperties, ElementOfSeq DEF Bytes
<1>2. \A i \in k + 1 .. Len(s) : s[i] \in Nat
  BY <1>1
<1>3. /\ SubSeq(s, k + 1, Len(s)) \in Seq(Nat)
      /\ Len(SubSeq(s, k + 1, Len(s))) = IF k + 1 <= Len(s) THEN Len(s) - (k + 1) + 1 ELSE 0
      /\ \A i \in 1 .. Len(s) - (k + 1) + 1 : SubSeq(s, k + 1, Len(s))[i] = s[k + 1 + i - 1]
  BY <1>1, <1>2, SubSeqProperties
<1>4. Len(s) <= k => SubSeq(s, k + 1, Len(s)) = <<>>
  BY <1>1, SubSeqEmpty
<1> DEFINE t == SubSeq(s, k + 1, Len(s))
<1>5. Rest(s, k) = t
  BY DEF Rest
<1> HIDE DEF t
<1>6. /\ t \in Seq(Nat) /\ Len(t) = IF k < Len(s) THEN Len(s) - k ELSE 0
      /\ \A i \in 1 .. Len(s) - k : t[i] = s[i + k]
      /\ Len(s) <= k => t = <<>>
  BY <1>1, <1>3, <1>4 DEF t
<1> QED
  BY <1>1, <1>5, <1>6 DEF Bytes

LEMMA JoinIs ==
  ASSUME NEW s \in Bytes, NEW t \in Bytes
  PROVE  /\ s \o t \in Bytes
         /\ Len(s) \in Nat /\ Len(t) \in Nat /\ Len(s \o t) = Len(s) + Len(t)
         /\ \A i \in 1 .. Len(s) : (s \o t)[i] = s[i]
         /\ \A i \in 1 .. Len(s \o t) :
              i \in 1 .. Len(s) \/ (i - Len(s) \in 1 .. Len(t) /\ (s \o t)[i] = t[i - Len(s)])
<1>1. /\ s \o t \in Seq(Nat)
      /\ Len(s) \in Nat /\ Len(t) \in Nat /\ Len(s \o t) = Len(s) + Len(t)
      /\ \A i \in 1 .. Len(s) + Len(t) :
           (s \o t)[i] = IF i <= Len(s) THEN s[i] ELSE t[i - Len(s)]
  BY ConcatProperties, LenProperties DEF Bytes
<1> QED
  BY <1>1 DEF Bytes

LEMMA EmptyIs == <<>> \in Bytes /\ Len(<<>>) = 0
  BY DEF Bytes

LEMMA BytesAre ==
  ASSUME NEW s \in Bytes
  PROVE  Len(s) \in Nat /\ (\A i \in 1 .. Len(s) : s[i] \in Nat) /\ (s = <<>> <=> Len(s) = 0)
  BY LenProperties, ElementOfSeq, EmptySeq DEF Bytes

\* In place of each sequence, one of elements of it in their order.
LEMMA ChainParts ==
  ASSUME NEW n, NEW a, NEW b, NEW c, NEW m, Chain(n, a, b, c, m),
         NEW k \in Nat
  PROVE  /\ Chain(n, <<>>, b, c, m) /\ Chain(n, a, <<>>, c, m) /\ Chain(n, a, b, <<>>, m)
         /\ Chain(n, a, Take(b, k), c, m)
<1>1. Chain(n, <<>>, b, c, m) /\ Chain(n, a, <<>>, c, m) /\ Chain(n, a, b, <<>>, m)
  BY EmptyIs DEF Chain, Sorted, Before, Above, UpTo
<1> DEFINE t == Take(b, k)
<1>2. /\ t \in Bytes /\ Len(t) \in Nat /\ Len(b) \in Nat /\ Len(t) <= Len(b)
      /\ \A i \in 1 .. Len(t) : t[i] = b[i]
  BY TakeIs, BytesAre DEF Chain
<1> HIDE DEF t
<1>3. \A i \in 1 .. Len(t) : i \in 1 .. Len(b) /\ t[i] = b[i]
  BY <1>2
<1>4. Chain(n, a, t, c, m)
  BY <1>2, <1>3 DEF Chain, Sorted, Before, Above, UpTo
<1> QED
  BY <1>1, <1>4 DEF t

\* The bytes of b follow those of a.
LEMMA ChainPushed ==
  ASSUME NEW n, NEW a, NEW b, NEW c, NEW m, Chain(n, a, b, c, m)
  PROVE  Chain(n, a \o b, <<>>, c, m)
<1> DEFINE t == a \o b
<1>1. /\ t \in Bytes
      /\ Len(a) \in Nat /\ Len(b) \in Nat /\ Len(t) = Len(a) + Len(b)
      /\ \A i \in 1 .. Len(a) : t[i] = a[i]
      /\ \A i \in 1 .. Len(t) :
           i \in 1 .. Len(a) \/ (i - Len(a) \in 1 .. Len(b) /\ t[i] = b[i - Len(a)])
  BY JoinIs DEF Chain
<1> HIDE DEF t
<1>2. ASSUME NEW i \in 1 .. Len(t)
      PROVE  n < t[i] /\ t[i] <= m
  BY <1>1 DEF Chain, Above, UpTo
<1>3. Before(t, c)
  <2> SUFFICES ASSUME NEW i \in 1 .. Len(t), NEW j \in 1 .. Len(c)
               PROVE  t[i] < c[j]
    BY DEF Before
  <2> QED
    BY <1>1 DEF Chain, Before
<1>4. Sorted(t)
  <2> SUFFICES ASSUME NEW i \in 1 .. Len(t), NEW j \in 1 .. Len(t), i < j
               PROVE  t[i] < t[j]
    BY DEF Sorted
  <2>1. CASE j \in 1 .. Len(a)
    <3>1. i \in 1 .. Len(a)
      BY <1>1, <2>1
    <3> QED
      BY <1>1, <2>1, <3>1 DEF Chain, Sorted
  <2>2. CASE j \notin 1 .. Len(a) /\ i \in 1 .. Len(a)
    BY <1>1, <2>2 DEF Chain, Before
  <2>3. CASE j \notin 1 .. Len(a) /\ i \notin 1 .. Len(a)
    <3>1. i - Len(a) < j - Len(a)
      BY <1>1
    <3> QED
      BY <1>1, <2>3, <3>1 DEF Chain, Sorted
  <2> QED
    BY <2>1, <2>2, <2>3
<1>5. Before(t, <<>>) /\ Before(<<>>, c) /\ Above(n, <<>>) /\ UpTo(<<>>, m) /\ Sorted(<<>>)
  BY EmptyIs DEF Before, Above, UpTo, Sorted
<1> QED
  BY <1>1, <1>2, <1>3, <1>4, <1>5, EmptyIs DEF Chain, Above, UpTo, t

\* The first bytes of c are taken to b.
LEMMA ChainTaken ==
  ASSUME NEW n, NEW a, NEW c, NEW m, Chain(n, a, <<>>, c, m), NEW k \in Nat
  PROVE  Chain(n, a, Take(c, k), Rest(c, k), m)
<1> DEFINE t == Take(c, k)
           r == Rest(c, k)
<1>1. /\ t \in Bytes /\ Len(t) \in Nat /\ Len(c) \in Nat /\ Len(t) <= Len(c) /\ Len(t) <= k
      /\ \A i \in 1 .. Len(t) : t[i] = c[i]
      /\ r \in Bytes /\ Len(r) \in Nat
      /\ \A i \in 1 .. Len(r) : i + k \in 1 .. Len(c) /\ r[i] = c[i + k]
  BY TakeIs, RestIs, BytesAre DEF Chain
<1> HIDE DEF t, r
<1>2. /\ \A i \in 1 .. Len(t) : i \in 1 .. Len(c) /\ i <= k /\ t[i] = c[i]
      /\ \A i \in 1 .. Len(r) : i + k \in 1 .. Len(c) /\ i + k > k /\ r[i] = c[i + k]
  BY <1>1
<1>3. Sorted(t)
  BY <1>2 DEF Chain, Sorted
<1>4. Sorted(r)
  <2> SUFFICES ASSUME NEW i \in 1 .. Len(r), NEW j \in 1 .. Len(r), i < j
               PROVE  r[i] < r[j]
    BY DEF Sorted
  <2>1. i + k < j + k
    OBVIOUS
  <2> QED
    BY <1>2, <2>1 DEF Chain, Sorted
<1>5. Before(t, r)
  <2> SUFFICES ASSUME NEW i \in 1 .. Len(t), NEW j \in 1 .. Len(r)
               PROVE  t[i] < r[j]
    BY DEF Before
  <2>1. i < j + k
    BY <1>2
  <2> QED
    BY <1>2, <2>1 DEF Chain, Sorted
<1>6. Before(a, t) /\ Before(a, r) /\ Above(n, t) /\ Above(n, r) /\ UpTo(t, m) /\ UpTo(r, m)
  BY <1>2 DEF Chain, Before, Above, UpTo
<1> QED
  BY <1>1, <1>3, <1>4, <1>5, <1>6 DEF Chain, t, r

\* The first bytes of a are passed on.
LEMMA ChainPassed ==
  ASSUME NEW n, NEW a, NEW b, NEW c, NEW m, Chain(n, a, b, c, m), a # <<>>,
         NEW k \in Nat \ {0}
  PROVE  Chain(Last(Take(a, k)), Rest(a, k), b, c, m)
<1> DEFINE t == Take(a, k)
           r == Rest(a, k)
<1>1. /\ t \in Bytes /\ Len(t) \in Nat \ {0} /\ Len(a) \in Nat /\ Len(t) <= Len(a) /\ Len(t) <= k
      /\ \A i \in 1 .. Len(t) : t[i] = a[i]
      /\ r \in Bytes /\ Len(r) \in Nat
      /\ \A i \in 1 .. Len(r) : i + k \in 1 .. Len(a) /\ r[i] = a[i + k]
  BY TakeIs, RestIs, BytesAre DEF Chain
<1> HIDE DEF t, r
<1> DEFINE l == Len(t)
<1>2. Last(t) = a[l] /\ l \in 1 .. Len(a) /\ l <= k /\ a[l] \in Nat
  BY <1>1, BytesAre DEF Last, Chain
<1> HIDE DEF l
<1>3. \A i \in 1 .. Len(r) : i + k \in 1 .. Len(a) /\ l < i + k /\ r[i] = a[i + k]
  BY <1>1, <1>2
<1>4. Sorted(r)
  <2> SUFFICES ASSUME NEW i \in 1 .. Len(r), NEW j \in 1 .. Len(r), i < j
               PROVE  r[i] < r[j]
    BY DEF Sorted
  <2>1. i + k < j + k
    OBVIOUS
  <2> QED
    BY <1>3, <2>1 DEF Chain, Sorted
<1>5. Above(a[l], r) /\ Above(a[l], b) /\ Above(a[l], c) /\ a[l] <= m
  BY <1>2, <1>3 DEF Chain, Above, Before, Sorted, UpTo
<1>6. Before(r, b) /\ Before(r, c) /\ UpTo(r, m)
  BY <1>3 DEF Chain, Before, UpTo
<1> QED
  BY <1>1, <1>2, <1>4, <1>5, <1>6 DEF Chain, t, r

LEMMA ChainSent ==
  ASSUME NEW n, NEW a, NEW b, NEW c, NEW m, Chain(n, a, b, c, m), a # <<>>
  PROVE  Chain(Head(a), Tail(a), b, c, m)
<1>0. a \in Bytes /\ Len(a) \in Nat \ {0} /\ 1 \in Nat \ {0}
  BY BytesAre DEF Chain
<1> DEFINE t == Take(a, 1)
<1>1. Len(t) = 1 /\ t[1] = a[1]
  <2>1. /\ Len(t) \in Nat /\ Len(t) <= 1
        /\ Len(a) <= 1 => Len(t) = Len(a)
        /\ Len(a) > 1 => Len(t) = 1
        /\ \A i \in 1 .. Len(t) : t[i] = a[i]
    BY <1>0, TakeIs
  <2> HIDE DEF t
  <2>2. Len(t) = 1
    BY <1>0, <2>1
  <2>3. 1 \in 1 .. Len(t)
    BY <2>2
  <2> QED
    BY <2>1, <2>2, <2>3
<1>2. Last(t) = Head(a)
  <2> HIDE DEF t
  <2> QED
    BY <1>0, <1>1 DEF Last, Bytes
<1>4. Chain(Last(t), Rest(a, 1), b, c, m)
  BY <1>0, ChainPassed
<1>3. Tail(a) = Rest(a, 1)
  BY TailIsSubSeq DEF Rest, Chain, Bytes
<1> QED
  BY <1>2, <1>3, <1>4

\* Bytes with the next numbers are added at the end.
LEMMA ChainAdded ==
  ASSUME NEW n, NEW a, NEW b, NEW c, NEW m, Chain(n, a, b, c, m),
         NEW k \in Nat, NEW d \in Bytes, Len(d) = k,
         \A i \in 1 .. k : d[i] = m + i
  PROVE  Chain(n, a, b, c \o d, m + k)
<1> DEFINE t == c \o d
<1>1. /\ t \in Bytes
      /\ Len(c) \in Nat /\ Len(t) = Len(c) + k
      /\ \A i \in 1 .. Len(c) : t[i] = c[i]
      /\ \A i \in 1 .. Len(t) :
           i \in 1 .. Len(c) \/ (i - Len(c) \in 1 .. k /\ t[i] = m + (i - Len(c)))
  <2>0. c \in Bytes
    BY DEF Chain
  <2>1. /\ t \in Bytes /\ Len(c) \in Nat /\ Len(t) = Len(c) + k
        /\ \A i \in 1 .. Len(c) : t[i] = c[i]
        /\ \A i \in 1 .. Len(t) :
             i \in 1 .. Len(c) \/ (i - Len(c) \in 1 .. k /\ t[i] = d[i - Len(c)])
    BY <2>0, JoinIs
  <2> HIDE DEF t
  <2> QED
    BY <2>1
<1> HIDE DEF t
<1>2. m \in Nat /\ n \in Nat /\ n <= m
  BY DEF Chain
<1>3. ASSUME NEW i \in 1 .. Len(t)
      PROVE  n < t[i] /\ t[i] <= m + k
  <2>1. CASE i \in 1 .. Len(c)
    <3>1. n < c[i] /\ c[i] <= m
      BY <2>1 DEF Chain, Above, UpTo
    <3>2. t[i] = c[i] /\ c[i] \in Nat
      <4>1. c \in Bytes
        BY DEF Chain
      <4> QED
        BY <1>1, <2>1, <4>1, BytesAre
    <3> QED
      BY <1>2, <3>1, <3>2
  <2>2. CASE i \notin 1 .. Len(c)
    BY <1>1, <1>2, <2>2
  <2> QED
    BY <2>1, <2>2
<1>4. \A s \in {a, b} : \A i \in 1 .. Len(s) : s[i] \in Nat /\ s[i] <= m
  BY BytesAre DEF Chain, UpTo
<1>5. ASSUME NEW s \in {a, b}, NEW i \in 1 .. Len(s), NEW j \in 1 .. Len(t)
      PROVE  s[i] < t[j]
  <2>1. CASE j \in 1 .. Len(c)
    BY <1>1, <2>1 DEF Chain, Before
  <2>2. CASE j \notin 1 .. Len(c)
    BY <1>1, <1>2, <1>4, <2>2
  <2> QED
    BY <2>1, <2>2
<1>6. Sorted(t)
  <2> SUFFICES ASSUME NEW i \in 1 .. Len(t), NEW j \in 1 .. Len(t), i < j
               PROVE  t[i] < t[j]
    BY DEF Sorted
  <2>0. \A l \in 1 .. Len(c) : c[l] \in Nat /\ c[l] <= m
    BY BytesAre DEF Chain, UpTo
  <2>1. CASE j \in 1 .. Len(c)
    <3>1. i \in 1 .. Len(c)
      BY <1>1, <2>1
    <3> QED
      BY <1>1, <2>1, <3>1 DEF Chain, Sorted
  <2>2. CASE j \notin 1 .. Len(c) /\ i \in 1 .. Len(c)
    <3>1. t[i] = c[i] /\ c[i] \in Nat /\ c[i] <= m
      BY <1>1, <2>0, <2>2
    <3>2. j - Len(c) \in 1 .. k /\ t[j] = m + (j - Len(c))
      BY <1>1, <2>2
    <3> QED
      BY <1>2, <3>1, <3>2
  <2>3. CASE j \notin 1 .. Len(c) /\ i \notin 1 .. Len(c)
    BY <1>1, <1>2, <2>3
  <2> QED
    BY <2>1, <2>2, <2>3
<1>7. Before(a, t) /\ Before(b, t) /\ Above(n, t) /\ UpTo(t, m + k)
  BY <1>3, <1>5 DEF Before, Above, UpTo
<1>8. UpTo(a, m + k) /\ UpTo(b, m + k)
  BY <1>2, <1>4 DEF UpTo
<1> QED
  BY <1>1, <1>2, <1>6, <1>7, <1>8 DEF Chain, t

\* Joined, they are one increasing sequence.
LEMMA ChainIncreases ==
  ASSUME NEW n, NEW a, NEW b, NEW c, NEW m, Chain(n, a, b, c, m)
  PROVE  Increasing(<<n>> \o a \o b \o c)
<1>1. Chain(n, a \o b, <<>>, c, m)
  BY ChainPushed
<1>2. Chain(n, a \o b, c, <<>>, m)
  BY <1>1, EmptyIs DEF Chain, Before, Sorted, Above, UpTo
<1>3. Chain(n, (a \o b) \o c, <<>>, <<>>, m)
  BY <1>2, ChainPushed
<1> DEFINE t == (a \o b) \o c
           s == <<n>> \o t
<1>4. n \in Nat /\ t \in Bytes /\ Sorted(t) /\ Above(n, t)
  BY <1>3 DEF Chain
<1>5. <<n>> \o a \o b \o c = s
  <2>1. <<n>> \in Seq(Nat) /\ a \in Seq(Nat) /\ b \in Seq(Nat) /\ c \in Seq(Nat)
    BY DEF Chain, Bytes
  <2>2. (<<n>> \o a) \o b = <<n>> \o (a \o b)
    BY <2>1, ConcatAssociative
  <2>3. a \o b \in Seq(Nat)
    BY <2>1, ConcatProperties
  <2>4. (<<n>> \o (a \o b)) \o c = s
    BY <2>1, <2>3, ConcatAssociative
  <2> QED
    BY <2>2, <2>4
<1> HIDE DEF t
<1>6. /\ s \in Bytes /\ Len(s) = Len(t) + 1 /\ Len(t) \in Nat /\ s[1] = n
      /\ \A i \in 2 .. Len(s) : s[i] = t[i - 1]
  <2>1. <<n>> \in Bytes /\ Len(<<n>>) = 1 /\ <<n>>[1] = n
    BY <1>4 DEF Bytes
  <2> DEFINE one == <<n>>
  <2> HIDE DEF one
  <2>2. /\ one \in Bytes /\ Len(one) = 1 /\ one[1] = n /\ s = one \o t
    BY <2>1 DEF one
  <2>5. /\ one \o t \in Bytes /\ Len(t) \in Nat /\ Len(one \o t) = Len(one) + Len(t)
        /\ \A i \in 1 .. Len(one) : (one \o t)[i] = one[i]
        /\ \A i \in 1 .. Len(one \o t) :
             \/ i \in 1 .. Len(one)
             \/ i - Len(one) \in 1 .. Len(t) /\ (one \o t)[i] = t[i - Len(one)]
    BY <1>4, <2>2, JoinIs
  <2>6. 1 \in 1 .. Len(one)
    BY <2>2
  <2>3. /\ one \o t \in Bytes /\ Len(t) \in Nat /\ Len(one \o t) = 1 + Len(t)
        /\ (one \o t)[1] = one[1]
        /\ \A i \in 1 .. Len(one \o t) :
             i \in 1 .. 1 \/ (i - 1 \in 1 .. Len(t) /\ (one \o t)[i] = t[i - 1])
    BY <2>2, <2>5, <2>6
  <2> HIDE DEF s
  <2>4. \A i \in 2 .. Len(s) : i \in 1 .. Len(s) /\ i \notin 1 .. 1
    OBVIOUS
  <2> QED
    BY <2>2, <2>3, <2>4
<1> HIDE DEF s
<1>7. ASSUME NEW i \in 1 .. Len(s) - 1
      PROVE  s[i] < s[i + 1]
  <2>1. s[i + 1] = t[i] /\ i \in 1 .. Len(t)
    BY <1>6
  <2>2. CASE i = 1
    BY <1>4, <1>6, <2>1, <2>2 DEF Above
  <2>3. CASE i # 1
    <3>1. s[i] = t[i - 1] /\ i - 1 \in 1 .. Len(t) /\ i - 1 < i
      BY <1>6, <2>1, <2>3
    <3> QED
      BY <1>4, <2>1, <3>1 DEF Sorted
  <2> QED
    BY <2>2, <2>3
<1> QED
  BY <1>5, <1>7 DEF Increasing

----------------------------------------------------------------------------
(* The inductive invariant. *)

Workers == [at : WorkerSteps, bytes : Bytes, flag : BOOLEAN]

\* The worker's buffer is empty but between taking bytes and passing them on.
WorkerHolds ==
  /\ worker \in Workers /\ Len(worker.bytes) <= Chunk
  /\ worker.at \notin {"push", "write"} => worker.bytes = <<>>

PlainTypes ==
  /\ setting \in Settings /\ app \in {"run", "closing"}
  /\ open \in BOOLEAN /\ buffers \in BOOLEAN /\ opens \in 0 .. MaxOpens
  /\ dropped \in 0 .. MaxDropped /\ txActive \in BOOLEAN
  /\ WorkerHolds
  /\ note \subseteq Notes /\ reading \in BOOLEAN /\ waiting \in BOOLEAN
  /\ dataEvents \in Nat /\ errorEvents \in Nat /\ missed \in BOOLEAN
  /\ dataEvents + errorEvents <= EventCapacity
  /\ base \in Nat

\* In either direction the bytes that are somewhere are in the order of their
\* numbers.
Input == Chain(seen, rx, Received, hw, arrived) /\ Len(rx) <= RxCapacity
Output == Chain(sent, driver, Sending, tx, written) /\ Len(tx) <= TxCapacity
          /\ Len(driver) <= DriverCapacity
Ordered == Input /\ Output

\* async_open finds no worker and empty rings, and a worker has its buffers.
OneWorker ==
  /\ open => app = "run"
  /\ app = "run" /\ ~open => worker.at = "none" /\ rx = <<>> /\ tx = <<>>
  /\ worker.at # "none" => buffers

\* Bytes of this session that are in the driver.
Fresh(s) == \E i \in 1 .. Len(s) : s[i] > base

\* Where the worker is once it has taken bytes to send, up to the clearing of the
\* flag.
Serving == {"write", "postTx", "active", "done", "clear"}

\* On one core, with writes of one chunk to an idle stream, the worker empties the
\* ring at once, and nothing is in the ring or on its way while the flag is clear.
FlagCoversBytes ==
  setting.paced =>
    /\ Len(tx) <= Chunk
    /\ worker.at \in Serving => tx = <<>>
    /\ tx # <<>> \/ Fresh(driver) \/ worker.at = "write" => txActive
    /\ worker.at = "clear" => driver = <<>>

UartInv == PlainTypes /\ Ordered /\ OneWorker /\ AllNotified /\ FlagCoversBytes

----------------------------------------------------------------------------
(* What each step of the worker does to it. *)

Worker(at, bytes, flag) ==
  /\ worker' \in Workers
  /\ worker'.at = at /\ worker'.bytes = bytes /\ (worker'.flag <=> flag)

LEMMA WorkerMoves ==
  ASSUME worker \in Workers, NEW step \in WorkerSteps, WorkerGoto(step)
  PROVE  Worker(step, worker.bytes, worker.flag)
  BY DEF WorkerGoto, Worker, Workers

LEMMA WorkerPasses ==
  ASSUME worker \in Workers, NEW step \in WorkerSteps,
         worker' = [worker EXCEPT !.at = step, !.bytes = <<>>]
  PROVE  Worker(step, <<>>, worker.flag)
  BY EmptyIs DEF Worker, Workers

LEMMA WorkerTakes ==
  ASSUME NEW step \in WorkerSteps, NEW b \in Bytes, NEW f \in BOOLEAN,
         worker' = [at |-> step, bytes |-> b, flag |-> f]
  PROVE  Worker(step, b, f)
  BY DEF Worker, Workers

LEMMA AfterPushIs ==
  ASSUME NEW f \in BOOLEAN
  PROVE  AfterPush(f) \in WorkerSteps /\ AfterPush(f) = IF f THEN "read" ELSE "drain"
  BY DEF AfterPush, WorkerSteps

LEMMA TopIs ==
  ASSUME worker \in Workers, WorkerTop
  PROVE  /\ worker.at = "top"
         /\ open => Worker("queue", worker.bytes, worker.flag)
         /\ ~open => Worker("none", <<>>, FALSE)
<1>1. worker.at = "top"
  BY DEF WorkerTop, WorkerAt
<1>2. ASSUME open
      PROVE  Worker("queue", worker.bytes, worker.flag)
  <2>1. WorkerGoto("queue")
    BY <1>2 DEF WorkerTop, WorkerGoto
  <2> QED
    BY <2>1, WorkerMoves DEF WorkerSteps
<1>3. ASSUME ~open
      PROVE  Worker("none", <<>>, FALSE)
  <2>1. worker' = [at |-> "none", bytes |-> <<>>, flag |-> FALSE]
    BY <1>3 DEF WorkerTop, NoWorker
  <2> QED
    BY <2>1, WorkerTakes, EmptyIs DEF WorkerSteps
<1> QED
  BY <1>1, <1>2, <1>3

LEMMA QueueIs ==
  ASSUME worker \in Workers, WorkerQueue
  PROVE  /\ worker.at = "queue"
         /\ \/ /\ dataEvents > 0 /\ dataEvents' = dataEvents - 1
               /\ UNCHANGED errorEvents
               /\ Worker("read", worker.bytes, worker.flag)
            \/ /\ errorEvents > 0 /\ errorEvents' = errorEvents - 1
               /\ UNCHANGED dataEvents
               /\ Worker("postError", worker.bytes, worker.flag)
            \/ /\ dataEvents + errorEvents = 0
               /\ UNCHANGED <<dataEvents, errorEvents>>
               /\ Worker("drain", worker.bytes, worker.flag)
<1>1. /\ WorkerGoto("read") => Worker("read", worker.bytes, worker.flag)
      /\ WorkerGoto("postError") => Worker("postError", worker.bytes, worker.flag)
      /\ WorkerGoto("drain") => Worker("drain", worker.bytes, worker.flag)
  BY WorkerMoves DEF WorkerSteps
<1> QED
  BY <1>1 DEF WorkerQueue, WorkerAt

LEMMA PostErrorIs ==
  ASSUME worker \in Workers, WorkerPostError
  PROVE  /\ worker.at = "postError" /\ note' = note \cup {"error"}
         /\ Worker("drain", worker.bytes, worker.flag)
  BY WorkerMoves DEF WorkerPostError, WorkerAt, Post, WorkerSteps

LEMMA ReadIs ==
  ASSUME worker \in Workers, hw \in Bytes, WorkerRead
  PROVE  /\ worker.at = "read" /\ hw' = Rest(hw, Chunk) /\ missed' = FALSE
         /\ hw = <<>> => Worker("drain", <<>>, FALSE)
         /\ hw # <<>> => Worker("push", Take(hw, Chunk), Len(hw) >= Chunk)
<1>1. worker.at = "read" /\ hw' = Rest(hw, Chunk) /\ missed' = FALSE
  BY DEF WorkerRead, WorkerAt
<1>2. /\ Take(hw, Chunk) \in Bytes /\ (Len(hw) >= Chunk) \in BOOLEAN
      /\ Len(Take(hw, Chunk)) <= Len(hw) /\ Len(Take(hw, Chunk)) \in Nat
  BY TakeIs, UartAssumption
<1>3. ASSUME hw = <<>>
      PROVE  Worker("drain", <<>>, FALSE)
  <2>1. Take(hw, Chunk) = <<>> /\ ~(Len(hw) >= Chunk)
    BY <1>2, <1>3, BytesAre, EmptyIs, UartAssumption
  <2> DEFINE b == Take(hw, Chunk)
             f == Len(hw) >= Chunk
  <2>3. f = FALSE
    BY <2>1
  <2>4. worker' = [at |-> "drain", bytes |-> b, flag |-> f]
    BY <1>3 DEF WorkerRead
  <2>2. worker' = [at |-> "drain", bytes |-> <<>>, flag |-> FALSE]
    <3> HIDE DEF f
    <3> QED
      BY <2>1, <2>3, <2>4
  <2> QED
    BY <2>2, WorkerTakes, EmptyIs DEF WorkerSteps
<1>4. ASSUME hw # <<>>
      PROVE  Worker("push", Take(hw, Chunk), Len(hw) >= Chunk)
  <2> DEFINE b == Take(hw, Chunk)
             f == Len(hw) >= Chunk
  <2>1. worker' = [at |-> "push", bytes |-> b, flag |-> f]
    BY <1>4 DEF WorkerRead
  <2>2. b \in Bytes /\ f \in BOOLEAN
    BY <1>2
  <2> HIDE DEF b, f
  <2>3. Worker("push", b, f)
    BY <2>1, <2>2, WorkerTakes DEF WorkerSteps
  <2> QED
    BY <2>3 DEF b, f
<1> QED
  BY <1>1, <1>3, <1>4

LEMMA PushIs ==
  ASSUME worker \in Workers, WorkerPush
  PROVE  /\ worker.at = "push" /\ rx' = rx \o Take(worker.bytes, RxCapacity - Len(rx))
         /\ rx = <<>> => Worker("postRx", <<>>, worker.flag)
         /\ rx # <<>> => Worker(AfterPush(worker.flag), <<>>, worker.flag)
<1>1. worker.at = "push" /\ rx' = rx \o Take(worker.bytes, RxCapacity - Len(rx))
  BY DEF WorkerPush, WorkerAt
<1> DEFINE step == IF rx = <<>> THEN "postRx" ELSE AfterPush(worker.flag)
<1>2. worker' = [worker EXCEPT !.at = step, !.bytes = <<>>]
  BY DEF WorkerPush
<1>3. worker.flag \in BOOLEAN
  BY DEF Workers
<1>4. step \in WorkerSteps
  BY <1>3, AfterPushIs DEF WorkerSteps
<1> HIDE DEF step
<1>5. Worker(step, <<>>, worker.flag)
  BY <1>2, <1>4, WorkerPasses
<1> QED
  BY <1>1, <1>5 DEF step

LEMMA PostRxIs ==
  ASSUME worker \in Workers, WorkerPostRx
  PROVE  /\ worker.at = "postRx" /\ note' = note \cup {"rx"}
         /\ Worker(AfterPush(worker.flag), worker.bytes, worker.flag)
<1>1. worker.flag \in BOOLEAN
  BY DEF Workers
<1>2. AfterPush(worker.flag) \in WorkerSteps
  BY <1>1, AfterPushIs
<1> QED
  BY <1>2, WorkerMoves DEF WorkerPostRx, WorkerAt, Post

LEMMA DrainIs ==
  ASSUME worker \in Workers, tx \in Bytes, WorkerDrain
  PROVE  /\ worker.at = "drain" /\ tx' = Rest(tx, Chunk)
         /\ tx = <<>> => Worker("active", <<>>, TRUE)
         /\ tx # <<>> => Worker("write", Take(tx, Chunk), Len(tx) <= Chunk)
<1>1. worker.at = "drain" /\ tx' = Rest(tx, Chunk)
  BY DEF WorkerDrain, WorkerAt
<1>2. /\ Take(tx, Chunk) \in Bytes /\ (Len(tx) <= Chunk) \in BOOLEAN
      /\ Len(Take(tx, Chunk)) <= Len(tx) /\ Len(Take(tx, Chunk)) \in Nat
  BY TakeIs, UartAssumption
<1>3. ASSUME tx = <<>>
      PROVE  Worker("active", <<>>, TRUE)
  <2>1. Take(tx, Chunk) = <<>> /\ Len(tx) <= Chunk
    BY <1>2, <1>3, BytesAre, EmptyIs, UartAssumption
  <2>2. worker' = [at |-> "active", bytes |-> <<>>, flag |-> TRUE]
    BY <1>3, <2>1 DEF WorkerDrain
  <2> QED
    BY <2>2, WorkerTakes, EmptyIs DEF WorkerSteps
<1>4. ASSUME tx # <<>>
      PROVE  Worker("write", Take(tx, Chunk), Len(tx) <= Chunk)
  <2> DEFINE b == Take(tx, Chunk)
             f == Len(tx) <= Chunk
  <2>1. worker' = [at |-> "write", bytes |-> b, flag |-> f]
    BY <1>4 DEF WorkerDrain
  <2>2. b \in Bytes /\ f \in BOOLEAN
    BY <1>2
  <2> HIDE DEF b, f
  <2>3. Worker("write", b, f)
    BY <2>1, <2>2, WorkerTakes DEF WorkerSteps
  <2> QED
    BY <2>3 DEF b, f
<1> QED
  BY <1>1, <1>3, <1>4

LEMMA WriteIs ==
  ASSUME worker \in Workers, WorkerWrite
  PROVE  /\ worker.at = "write"
         /\ \/ /\ driver' = driver \o worker.bytes /\ UNCHANGED note /\ Room
               /\ worker.flag => Worker("postTx", <<>>, worker.flag)
               /\ ~worker.flag => Worker("active", <<>>, worker.flag)
            \/ /\ note' = note \cup {"error"} /\ UNCHANGED driver
               /\ Worker("active", <<>>, worker.flag)
<1>1. worker.at = "write"
  BY DEF WorkerWrite, WorkerAt
<1> DEFINE step == IF worker.flag THEN "postTx" ELSE "active"
<1>2. \/ /\ driver' = driver \o worker.bytes /\ UNCHANGED note /\ Room
         /\ worker' = [worker EXCEPT !.at = step, !.bytes = <<>>]
      \/ /\ note' = note \cup {"error"} /\ UNCHANGED driver
         /\ worker' = [worker EXCEPT !.at = "active", !.bytes = <<>>]
  BY DEF WorkerWrite, Post
<1>3. step \in WorkerSteps /\ "active" \in WorkerSteps
  BY DEF WorkerSteps
<1> HIDE DEF step
<1>4. /\ worker' = [worker EXCEPT !.at = step, !.bytes = <<>>] =>
           Worker(step, <<>>, worker.flag)
      /\ worker' = [worker EXCEPT !.at = "active", !.bytes = <<>>] =>
           Worker("active", <<>>, worker.flag)
  BY <1>3, WorkerPasses
<1> QED
  BY <1>1, <1>2, <1>4 DEF step

LEMMA PostTxIs ==
  ASSUME worker \in Workers, WorkerPostTx
  PROVE  /\ worker.at = "postTx" /\ note' = note \cup {"tx"}
         /\ Worker("active", worker.bytes, worker.flag)
  BY WorkerMoves DEF WorkerPostTx, WorkerAt, Post, WorkerSteps

LEMMA ActiveIs ==
  ASSUME worker \in Workers, WorkerActive
  PROVE  /\ worker.at = "active"
         /\ txActive => Worker("done", worker.bytes, worker.flag)
         /\ ~txActive => Worker("top", worker.bytes, worker.flag)
<1>1. /\ WorkerGoto("done") => Worker("done", worker.bytes, worker.flag)
      /\ WorkerGoto("top") => Worker("top", worker.bytes, worker.flag)
  BY WorkerMoves DEF WorkerSteps
<1> QED
  BY <1>1 DEF WorkerActive, WorkerAt

LEMMA DoneIs ==
  ASSUME worker \in Workers, WorkerDone
  PROVE  /\ worker.at = "done"
         /\ driver = <<>> => Worker("clear", worker.bytes, worker.flag)
         /\ driver # <<>> => Worker("top", worker.bytes, worker.flag)
<1>1. /\ WorkerGoto("clear") => Worker("clear", worker.bytes, worker.flag)
      /\ WorkerGoto("top") => Worker("top", worker.bytes, worker.flag)
  BY WorkerMoves DEF WorkerSteps
<1> QED
  BY <1>1 DEF WorkerDone, WorkerAt

LEMMA ClearIs ==
  ASSUME worker \in Workers, WorkerClear
  PROVE  /\ worker.at = "clear" /\ txActive' = FALSE
         /\ Worker("postIdle", worker.bytes, worker.flag)
  BY WorkerMoves DEF WorkerClear, WorkerAt, WorkerSteps

LEMMA PostIdleIs ==
  ASSUME worker \in Workers, WorkerPostIdle
  PROVE  /\ worker.at = "postIdle" /\ note' = note \cup {"tx"}
         /\ Worker("top", worker.bytes, worker.flag)
  BY WorkerMoves DEF WorkerPostIdle, WorkerAt, Post, WorkerSteps

LEMMA OpenIs ==
  ASSUME AsyncOpen
  PROVE  Worker("top", <<>>, FALSE)
<1>1. worker' = [at |-> "top", bytes |-> <<>>, flag |-> FALSE]
  BY DEF AsyncOpen, NoWorker
<1> QED
  BY <1>1, WorkerTakes, EmptyIs DEF WorkerSteps

----------------------------------------------------------------------------
(* The steps. *)

\* The worker holds bytes only where it is about to pass them on.
LEMMA HandsStep ==
  ASSUME WorkerHolds, hw \in Bytes, tx \in Bytes, [Next]_vars
  PROVE  WorkerHolds'
<1>0. /\ worker \in Workers /\ Chunk \in Nat /\ hw \in Bytes /\ tx \in Bytes
      /\ worker.at \notin {"push", "write"} => worker.bytes = <<>>
  BY UartAssumption DEF WorkerHolds
<1>1. CASE Arrive
  BY <1>1 DEF Arrive, WorkerHolds
<1>2. CASE LineError
  BY <1>2 DEF LineError, WorkerHolds
<1>3. CASE Transmit
  BY <1>3 DEF Transmit, WorkerHolds
<1>4. CASE AsyncOpen
  BY <1>0, <1>4, OpenIs, EmptyIs DEF WorkerHolds, Worker
<1>5. CASE AsyncClose
  BY <1>5 DEF AsyncClose, WorkerHolds
<1>6. CASE CloseDone
  BY <1>6 DEF CloseDone, WorkerHolds
<1>7. ASSUME NEW n \in 1 .. RxCapacity, AsyncRead(n)
      PROVE  WorkerHolds'
  BY <1>7 DEF AsyncRead, WorkerHolds
<1>8. ASSUME NEW n \in 1 .. TxCapacity, AsyncWrite(n)
      PROVE  WorkerHolds'
  BY <1>8 DEF AsyncWrite, WorkerHolds
<1>9. ASSUME NEW kind \in Notes, TakeNote(kind)
      PROVE  WorkerHolds'
  BY <1>9 DEF TakeNote, WorkerHolds
<1>10. CASE WorkerTop
  BY <1>0, <1>10, TopIs, EmptyIs DEF WorkerHolds, Worker
<1>11. CASE WorkerQueue
  BY <1>0, <1>11, QueueIs, EmptyIs DEF WorkerHolds, Worker
<1>12. CASE WorkerPostError
  BY <1>0, <1>12, PostErrorIs, EmptyIs DEF WorkerHolds, Worker
<1>13. CASE WorkerRead
  <2>1. Take(hw, Chunk) \in Bytes /\ Len(Take(hw, Chunk)) <= Chunk
    BY <1>0, TakeIs, UartAssumption
  <2> QED
    BY <1>0, <2>1, <1>13, ReadIs, EmptyIs DEF WorkerHolds, Worker
<1>14. CASE WorkerPush
  <2>1. worker.flag \in BOOLEAN
    BY <1>0 DEF Workers
  <2>2. AfterPush(worker.flag) \in {"read", "drain"}
    BY <2>1, AfterPushIs
  <2> QED
    BY <1>0, <2>2, <1>14, PushIs, EmptyIs DEF WorkerHolds, Worker
<1>15. CASE WorkerPostRx
  <2>1. worker.flag \in BOOLEAN
    BY <1>0 DEF Workers
  <2>2. AfterPush(worker.flag) \in {"read", "drain"}
    BY <2>1, AfterPushIs
  <2> QED
    BY <1>0, <2>2, <1>15, PostRxIs, EmptyIs DEF WorkerHolds, Worker
<1>16. CASE WorkerDrain
  <2>1. Take(tx, Chunk) \in Bytes /\ Len(Take(tx, Chunk)) <= Chunk
    BY <1>0, TakeIs, UartAssumption
  <2> QED
    BY <1>0, <2>1, <1>16, DrainIs, EmptyIs DEF WorkerHolds, Worker
<1>17. CASE WorkerWrite
  BY <1>0, <1>17, WriteIs, EmptyIs DEF WorkerHolds, Worker
<1>18. CASE WorkerPostTx
  BY <1>0, <1>18, PostTxIs, EmptyIs DEF WorkerHolds, Worker
<1>19. CASE WorkerActive
  BY <1>0, <1>19, ActiveIs, EmptyIs DEF WorkerHolds, Worker
<1>20. CASE WorkerDone
  BY <1>0, <1>20, DoneIs, EmptyIs DEF WorkerHolds, Worker
<1>21. CASE WorkerClear
  BY <1>0, <1>21, ClearIs, EmptyIs DEF WorkerHolds, Worker
<1>22. CASE WorkerPostIdle
  BY <1>0, <1>22, PostIdleIs, EmptyIs DEF WorkerHolds, Worker
<1>23. CASE UNCHANGED vars
  BY <1>23 DEF vars, WorkerHolds
<1>24. CASE AsyncOpenFails
  BY <1>24 DEF AsyncOpenFails, WorkerHolds
<1>25. CASE CollectEvents
  BY <1>25 DEF CollectEvents, WorkerHolds
<1> QED
  BY <1>1, <1>2, <1>3, <1>4, <1>5, <1>6, <1>7, <1>8, <1>9, <1>10, <1>11, <1>12, <1>13,
     <1>14, <1>15, <1>16, <1>17, <1>18, <1>19, <1>20, <1>21, <1>22, <1>23, <1>24, <1>25
  DEF Next, DriverStep, AppStep, WorkerStep

\* The types are kept.
LEMMA PlainStep ==
  ASSUME PlainTypes, Ordered, [Next]_vars
  PROVE  PlainTypes'
<1>0. /\ PlainTypes /\ WorkerHolds'
      /\ RxCapacity \in Nat /\ TxCapacity \in Nat /\ EventCapacity \in Nat
      /\ MaxDropped \in Nat /\ MaxOpens \in Nat
  BY HandsStep, UartAssumption DEF PlainTypes, Ordered, Input, Output, Chain
<1>1. CASE Arrive
  <2>1. missed' \in BOOLEAN
    BY <1>0, <1>1 DEF Arrive, PlainTypes
  <2>2. dataEvents' \in Nat /\ dataEvents' + errorEvents' <= EventCapacity
    BY <1>0, <1>1 DEF Arrive, PlainTypes
  <2>3. UNCHANGED <<setting, ringVars, appVars, worker, note, errorEvents>>
    BY <1>1 DEF Arrive
  <2> QED
    BY <1>0, <2>1, <2>2, <2>3 DEF PlainTypes, ringVars, appVars
<1>2. CASE LineError
  BY <1>0, <1>2
  DEF LineError, PlainTypes, Notes, ringVars, driverVars, appVars
<1>3. CASE Transmit
  BY <1>0, <1>3
  DEF Transmit, PlainTypes, Notes, ringVars, driverVars, appVars
<1>4. CASE AsyncOpen
  <2>1. opens' \in 0 .. MaxOpens
    BY <1>0, <1>4 DEF AsyncOpen, PlainTypes
  <2>2. dropped' \in 0 .. MaxDropped
    BY <1>0, <1>4 DEF AsyncOpen
  <2>3. base' \in Nat
    BY <1>4 DEF AsyncOpen, Ordered, Input, Output, Chain
  <2>4. note' \subseteq Notes
    BY <1>4 DEF AsyncOpen
  <2>5. /\ open' = TRUE /\ buffers' = TRUE /\ txActive' = FALSE
        /\ reading' = FALSE /\ waiting' = FALSE
        /\ UNCHANGED <<setting, app, dataEvents, errorEvents, missed>>
    BY <1>4 DEF AsyncOpen, driverVars
  <2> QED
    BY <1>0, <2>1, <2>2, <2>3, <2>4, <2>5 DEF PlainTypes
<1>5. CASE AsyncClose
  BY <1>0, <1>5
  DEF AsyncClose, PlainTypes, Notes, ringVars, driverVars, appVars
<1>6. CASE CloseDone
  BY <1>0, <1>6
  DEF CloseDone, PlainTypes, Notes, ringVars, driverVars, appVars
<1>7. ASSUME NEW n \in 1 .. RxCapacity, AsyncRead(n)
      PROVE  PlainTypes'
  BY <1>0, <1>7
  DEF AsyncRead, PlainTypes, Notes, ringVars, driverVars, appVars
<1>8. ASSUME NEW n \in 1 .. TxCapacity, AsyncWrite(n)
      PROVE  PlainTypes'
  BY <1>0, <1>8
  DEF AsyncWrite, PlainTypes, Notes, ringVars, driverVars, appVars
<1>9. ASSUME NEW kind \in Notes, TakeNote(kind)
      PROVE  PlainTypes'
  BY <1>0, <1>9
  DEF TakeNote, PlainTypes, Notes, ringVars, driverVars, appVars
<1>10. CASE WorkerTop
  BY <1>0, <1>10
  DEF WorkerTop, PlainTypes, Notes, ringVars, driverVars, appVars
<1>11. CASE WorkerQueue
  <2>1. /\ dataEvents' \in Nat /\ errorEvents' \in Nat
        /\ dataEvents' + errorEvents' <= EventCapacity
    BY <1>0, <1>11 DEF WorkerQueue, PlainTypes
  <2> QED
    BY <1>0, <2>1, <1>11 DEF WorkerQueue, PlainTypes, ringVars, appVars
<1>12. CASE WorkerPostError
  BY <1>0, <1>12
  DEF WorkerPostError, PlainTypes, Notes, ringVars, driverVars, appVars, Post
<1>13. CASE WorkerRead
  BY <1>0, <1>13
  DEF WorkerRead, PlainTypes, Notes, ringVars, driverVars, appVars
<1>14. CASE WorkerPush
  <2>1. dropped' \in 0 .. MaxDropped
    <3> DEFINE surplus == Len(worker.bytes) - (RxCapacity - Len(rx))
    <3>1. surplus \in Int
      BY <1>0, BytesAre DEF PlainTypes, WorkerHolds, Workers, Ordered, Input, Output, Chain
    <3>2. dropped' = IF surplus > 0 THEN Least(dropped + surplus, MaxDropped) ELSE dropped
      BY <1>14 DEF WorkerPush
    <3>3. dropped \in 0 .. MaxDropped
      BY <1>0 DEF PlainTypes
    <3> HIDE DEF surplus
    <3> QED
      BY <1>0, <3>1, <3>2, <3>3 DEF Least
  <2> QED
    BY <1>0, <2>1, <1>14 DEF WorkerPush, PlainTypes, driverVars, appVars
<1>15. CASE WorkerPostRx
  BY <1>0, <1>15
  DEF WorkerPostRx, PlainTypes, Notes, ringVars, driverVars, appVars, Post
<1>16. CASE WorkerDrain
  BY <1>0, <1>16
  DEF WorkerDrain, PlainTypes, Notes, ringVars, driverVars, appVars
<1>17. CASE WorkerWrite
  BY <1>0, <1>17
  DEF WorkerWrite, PlainTypes, Notes, ringVars, driverVars, appVars, Post
<1>18. CASE WorkerPostTx
  BY <1>0, <1>18
  DEF WorkerPostTx, PlainTypes, Notes, ringVars, driverVars, appVars, Post
<1>19. CASE WorkerActive
  BY <1>0, <1>19
  DEF WorkerActive, PlainTypes, Notes, ringVars, driverVars, appVars
<1>20. CASE WorkerDone
  BY <1>0, <1>20
  DEF WorkerDone, PlainTypes, Notes, ringVars, driverVars, appVars
<1>21. CASE WorkerClear
  BY <1>0, <1>21
  DEF WorkerClear, PlainTypes, Notes, ringVars, driverVars, appVars
<1>22. CASE WorkerPostIdle
  BY <1>0, <1>22
  DEF WorkerPostIdle, PlainTypes, Notes, ringVars, driverVars, appVars, Post
<1>23. CASE UNCHANGED vars
  BY <1>0, <1>23 DEF vars, PlainTypes, ringVars, driverVars, appVars
<1>24. CASE AsyncOpenFails
  <2>1. base' \in Nat
    BY <1>24 DEF AsyncOpenFails, Ordered, Output, Chain
  <2>2. dropped' \in 0 .. MaxDropped
    BY <1>0, <1>24 DEF AsyncOpenFails
  <2>3. /\ txActive' = FALSE
        /\ UNCHANGED <<setting, app, open, buffers, opens, note, reading, waiting,
                       dataEvents, errorEvents, missed>>
    BY <1>24 DEF AsyncOpenFails, driverVars, appVars
  <2> QED
    BY <1>0, <2>1, <2>2, <2>3 DEF PlainTypes
<1>25. CASE CollectEvents
  <2>1. /\ dataEvents' = 0 /\ errorEvents' = 0
        /\ missed' = (missed \/ hw # <<>>)
        /\ UNCHANGED <<setting, ringVars, appVars, worker, note>>
    BY <1>25 DEF CollectEvents
  <2>2. dataEvents' \in Nat /\ errorEvents' \in Nat /\ missed' \in BOOLEAN
        /\ dataEvents' + errorEvents' <= EventCapacity
    BY <1>0, <2>1 DEF PlainTypes
  <2> QED
    BY <1>0, <2>1, <2>2 DEF PlainTypes, ringVars, appVars
<1> QED
  BY <1>1, <1>2, <1>3, <1>4, <1>5, <1>6, <1>7, <1>8, <1>9, <1>10, <1>11, <1>12, <1>13,
     <1>14, <1>15, <1>16, <1>17, <1>18, <1>19, <1>20, <1>21, <1>22, <1>23, <1>24, <1>25
  DEF Next, DriverStep, AppStep, WorkerStep

\* Received bytes keep their order in every step.
LEMMA InputStep ==
  ASSUME WorkerHolds, tx \in Bytes, Input, [Next]_vars
  PROVE  Input'
<1>0. /\ worker \in Workers /\ Chain(seen, rx, Received, hw, arrived) /\ hw \in Bytes /\ tx \in Bytes
      /\ Len(rx) <= RxCapacity /\ RxCapacity \in Nat /\ Chunk \in Nat
  BY UartAssumption DEF WorkerHolds, Input, Chain
<1>1. CASE Arrive
  <2> DEFINE d == <<arrived + 1>>
  <2>1. d \in Bytes /\ Len(d) = 1 /\ \A i \in 1 .. 1 : d[i] = arrived + 1
    BY <1>0 DEF Bytes, Chain
  <2>2. hw' = hw \o d /\ arrived' = arrived + 1
    BY <1>0, <1>1, AppendIsConcat DEF Arrive, Chain, Bytes
  <2> HIDE DEF d
  <2>3. Chain(seen, rx, Received, hw \o d, arrived + 1)
    <3> DEFINE k == 1
    <3>1. k \in Nat /\ Len(d) = k /\ (\A i \in 1 .. k : d[i] = arrived + i)
      BY <2>1
    <3> HIDE DEF k
    <3>2. Chain(seen, rx, Received, hw \o d, arrived + k)
      BY <1>0, <2>1, <3>1, ChainAdded
    <3> QED
      BY <3>2 DEF k
  <2>4. Received' = Received /\ UNCHANGED <<rx, seen>>
    BY <1>1 DEF Arrive, Received, ringVars, appVars
  <2> QED
    BY <1>0, <2>2, <2>3, <2>4 DEF Input
<1>2. CASE LineError
  <2>1. UNCHANGED <<seen, rx, hw, arrived>>
    BY <1>2
    DEF LineError, ringVars, driverVars, appVars
  <2>2. Received' = Received
    BY <1>2 DEF LineError, Received
  <2> QED
    BY <1>0, <2>1, <2>2 DEF Input
<1>3. CASE Transmit
  <2>1. UNCHANGED <<seen, rx, hw, arrived>>
    BY <1>3
    DEF Transmit, ringVars, driverVars, appVars
  <2>2. Received' = Received
    BY <1>3 DEF Transmit, Received
  <2> QED
    BY <1>0, <2>1, <2>2 DEF Input
<1>4. CASE AsyncOpen
  <2>1. UNCHANGED <<seen, hw, arrived>> /\ rx' = <<>> /\ Len(<<>>) = 0
    BY <1>4 DEF AsyncOpen, driverVars
  <2>2. Received' = <<>>
    BY <1>4, OpenIs DEF Received, Worker
  <2>3. Chain(seen, <<>>, <<>>, hw, arrived)
    BY <1>0, ChainParts
  <2> QED
    BY <1>0, <2>1, <2>2, <2>3 DEF Input
<1>5. CASE AsyncClose
  <2>1. UNCHANGED <<seen, rx, hw, arrived>>
    BY <1>5
    DEF AsyncClose, ringVars, driverVars, appVars
  <2>2. Received' = Received
    BY <1>5 DEF AsyncClose, Received
  <2> QED
    BY <1>0, <2>1, <2>2 DEF Input
<1>6. CASE CloseDone
  <2>1. UNCHANGED <<seen, hw, arrived>> /\ rx' = <<>> /\ Len(<<>>) = 0
    BY <1>6 DEF CloseDone, driverVars
  <2>2. Received' = Received
    BY <1>6 DEF CloseDone, Received
  <2>3. Chain(seen, <<>>, Received, hw, arrived)
    BY <1>0, ChainParts
  <2> QED
    BY <1>0, <2>1, <2>2, <2>3 DEF Input
<1>7. ASSUME NEW n \in 1 .. RxCapacity, AsyncRead(n)
      PROVE  Input'
  <2>1. UNCHANGED <<hw, arrived>> /\ rx' = Rest(rx, n)
    BY <1>7 DEF AsyncRead, driverVars
  <2>2. Received' = Received
    BY <1>7 DEF AsyncRead, Received
  <2>3. n \in Nat \ {0} /\ rx \in Bytes
    BY <1>0 DEF Chain
  <2>4. Len(Rest(rx, n)) <= RxCapacity
    <3>1. /\ Len(rx) <= n => Len(Rest(rx, n)) = 0
          /\ Len(rx) > n => Len(Rest(rx, n)) = Len(rx) - n
      BY <2>3, RestIs, EmptyIs
    <3>2. Len(rx) \in Nat
      BY <2>3, BytesAre
    <3> HIDE DEF Rest
    <3> QED
      BY <1>0, <2>3, <3>1, <3>2
  <2>5. CASE rx = <<>>
    <3>1. seen' = seen /\ Rest(rx, n) = <<>>
      BY <2>3, <2>5, <1>7, RestIs, EmptyIs DEF AsyncRead
    <3> QED
      BY <1>0, <2>1, <2>2, <2>4, <2>5, <3>1 DEF Input
  <2>6. CASE rx # <<>>
    <3>1. seen' = Last(Take(rx, n))
      BY <2>6, <1>7 DEF AsyncRead
    <3>2. Chain(Last(Take(rx, n)), Rest(rx, n), Received, hw, arrived)
      BY <1>0, <2>3, <2>6, ChainPassed
    <3> QED
      BY <1>0, <2>1, <2>2, <2>4, <3>1, <3>2 DEF Input
  <2> QED
    BY <2>5, <2>6
<1>8. ASSUME NEW n \in 1 .. TxCapacity, AsyncWrite(n)
      PROVE  Input'
  <2>1. UNCHANGED <<seen, rx, hw, arrived>>
    BY <1>8
    DEF AsyncWrite, ringVars, driverVars, appVars
  <2>2. Received' = Received
    BY <1>8 DEF AsyncWrite, Received
  <2> QED
    BY <1>0, <2>1, <2>2 DEF Input
<1>9. ASSUME NEW kind \in Notes, TakeNote(kind)
      PROVE  Input'
  <2>1. UNCHANGED <<seen, rx, hw, arrived>>
    BY <1>9
    DEF TakeNote, ringVars, driverVars, appVars
  <2>2. Received' = Received
    BY <1>9 DEF TakeNote, Received
  <2> QED
    BY <1>0, <2>1, <2>2 DEF Input
<1>10. CASE WorkerTop
  <2>1. UNCHANGED <<seen, rx, hw, arrived>>
    BY <1>10
    DEF WorkerTop, ringVars, driverVars, appVars
  <2>2. Received' = Received
    BY <1>0, <1>10, TopIs DEF Received, Worker
  <2> QED
    BY <1>0, <2>1, <2>2 DEF Input
<1>11. CASE WorkerQueue
  <2>1. UNCHANGED <<seen, rx, hw, arrived>>
    BY <1>11
    DEF WorkerQueue, ringVars, driverVars, appVars
  <2>2. Received' = Received
    BY <1>0, <1>11, QueueIs DEF Received, Worker
  <2> QED
    BY <1>0, <2>1, <2>2 DEF Input
<1>12. CASE WorkerPostError
  <2>1. UNCHANGED <<seen, rx, hw, arrived>>
    BY <1>12
    DEF WorkerPostError, ringVars, driverVars, appVars
  <2>2. Received' = Received
    BY <1>0, <1>12, PostErrorIs DEF Received, Worker
  <2> QED
    BY <1>0, <2>1, <2>2 DEF Input
<1>13. CASE WorkerRead
  <2>1. UNCHANGED <<seen, rx, arrived>> /\ hw' = Rest(hw, Chunk)
    BY <1>13 DEF WorkerRead, ringVars, appVars
  <2>2. Received = <<>> /\ hw \in Bytes
    BY <1>0, <1>13 DEF WorkerRead, WorkerAt, Received, Chain
  <2>3. Chain(seen, rx, Take(hw, Chunk), Rest(hw, Chunk), arrived)
    BY <1>0, <2>2, ChainTaken
  <2>4. Received' = Take(hw, Chunk)
    <3>1. hw = <<>> => Take(hw, Chunk) = <<>>
      BY <1>0, <2>2, TakeIs, BytesAre, EmptyIs
    <3> QED
      BY <1>0, <2>2, <3>1, <1>13, ReadIs DEF Received, Worker
  <2> QED
    BY <1>0, <2>1, <2>3, <2>4 DEF Input
<1>14. CASE WorkerPush
  <2>1. UNCHANGED <<seen, hw, arrived>>
    BY <1>14 DEF WorkerPush, driverVars, appVars
  <2>2. worker.flag \in BOOLEAN
    BY <1>0 DEF Workers
  <2>3. AfterPush(worker.flag) \in {"read", "drain"}
    BY <2>2, AfterPushIs
  <2>4. worker.at = "push" /\ Received = worker.bytes /\ Received' = <<>>
    BY <1>0, <2>3, <1>14, PushIs DEF Received, Worker
  <2> DEFINE free == RxCapacity - Len(rx)
             t == Take(Received, free)
  <2>5. free \in Nat /\ rx \in Bytes /\ Received \in Bytes
    BY <1>0, BytesAre DEF Chain
  <2>6. rx' = rx \o t
    BY <1>0, <2>4, <1>14, PushIs
  <2> HIDE DEF free
  <2>7. Chain(seen, rx, t, hw, arrived) /\ t \in Bytes /\ Len(t) <= free
    BY <1>0, <2>5, ChainParts, TakeIs
  <2> HIDE DEF t
  <2>8. Chain(seen, rx \o t, <<>>, hw, arrived)
    BY <2>7, ChainPushed
  <2>9. Len(rx \o t) <= RxCapacity
    BY <1>0, <2>5, <2>7, JoinIs DEF free
  <2> QED
    BY <1>0, <2>1, <2>4, <2>6, <2>8, <2>9 DEF Input
<1>15. CASE WorkerPostRx
  <2>1. UNCHANGED <<seen, rx, hw, arrived>>
    BY <1>15
    DEF WorkerPostRx, ringVars, driverVars, appVars
  <2>2. worker.flag \in BOOLEAN
    BY <1>0 DEF Workers
  <2>3. AfterPush(worker.flag) \in {"read", "drain"}
    BY <2>2, AfterPushIs
  <2>4. Received' = Received
    BY <1>0, <2>3, <1>15, PostRxIs DEF Received, Worker
  <2> QED
    BY <1>0, <2>1, <2>4 DEF Input
<1>16. CASE WorkerDrain
  <2>1. UNCHANGED <<seen, rx, hw, arrived>>
    BY <1>16
    DEF WorkerDrain, ringVars, driverVars, appVars
  <2>2. Received' = Received
    BY <1>0, <1>16, DrainIs DEF Received, Worker
  <2> QED
    BY <1>0, <2>1, <2>2 DEF Input
<1>17. CASE WorkerWrite
  <2>1. UNCHANGED <<seen, rx, hw, arrived>>
    BY <1>17
    DEF WorkerWrite, ringVars, driverVars, appVars
  <2>2. Received' = Received
    BY <1>0, <1>17, WriteIs DEF Received, Worker
  <2> QED
    BY <1>0, <2>1, <2>2 DEF Input
<1>18. CASE WorkerPostTx
  <2>1. UNCHANGED <<seen, rx, hw, arrived>>
    BY <1>18
    DEF WorkerPostTx, ringVars, driverVars, appVars
  <2>2. Received' = Received
    BY <1>0, <1>18, PostTxIs DEF Received, Worker
  <2> QED
    BY <1>0, <2>1, <2>2 DEF Input
<1>19. CASE WorkerActive
  <2>1. UNCHANGED <<seen, rx, hw, arrived>>
    BY <1>19
    DEF WorkerActive, ringVars, driverVars, appVars
  <2>2. Received' = Received
    BY <1>0, <1>19, ActiveIs DEF Received, Worker
  <2> QED
    BY <1>0, <2>1, <2>2 DEF Input
<1>20. CASE WorkerDone
  <2>1. UNCHANGED <<seen, rx, hw, arrived>>
    BY <1>20
    DEF WorkerDone, ringVars, driverVars, appVars
  <2>2. Received' = Received
    BY <1>0, <1>20, DoneIs DEF Received, Worker
  <2> QED
    BY <1>0, <2>1, <2>2 DEF Input
<1>21. CASE WorkerClear
  <2>1. UNCHANGED <<seen, rx, hw, arrived>>
    BY <1>21
    DEF WorkerClear, ringVars, driverVars, appVars
  <2>2. Received' = Received
    BY <1>0, <1>21, ClearIs DEF Received, Worker
  <2> QED
    BY <1>0, <2>1, <2>2 DEF Input
<1>22. CASE WorkerPostIdle
  <2>1. UNCHANGED <<seen, rx, hw, arrived>>
    BY <1>22
    DEF WorkerPostIdle, ringVars, driverVars, appVars
  <2>2. Received' = Received
    BY <1>0, <1>22, PostIdleIs DEF Received, Worker
  <2> QED
    BY <1>0, <2>1, <2>2 DEF Input
<1>23. CASE UNCHANGED vars
  <2>1. UNCHANGED <<seen, rx, hw, arrived>> /\ Received' = Received
    BY <1>23 DEF vars, ringVars, driverVars, appVars, Received
  <2> QED
    BY <1>0, <2>1 DEF Input
<1>24. CASE AsyncOpenFails
  <2>1. UNCHANGED <<seen, rx, hw, arrived>>
    BY <1>24 DEF AsyncOpenFails, driverVars, appVars
  <2>2. Received' = Received
    BY <1>24 DEF AsyncOpenFails, Received
  <2> QED
    BY <1>0, <2>1, <2>2 DEF Input
<1>25. CASE CollectEvents
  <2>1. UNCHANGED <<seen, rx, hw, arrived>>
    BY <1>25 DEF CollectEvents, ringVars, appVars
  <2>2. Received' = Received
    BY <1>25 DEF CollectEvents, Received
  <2> QED
    BY <1>0, <2>1, <2>2 DEF Input
<1> QED
  BY <1>1, <1>2, <1>3, <1>4, <1>5, <1>6, <1>7, <1>8, <1>9, <1>10, <1>11, <1>12, <1>13,
     <1>14, <1>15, <1>16, <1>17, <1>18, <1>19, <1>20, <1>21, <1>22, <1>23, <1>24, <1>25
  DEF Next, DriverStep, AppStep, WorkerStep

\* And so do written bytes.
LEMMA OutputStep ==
  ASSUME WorkerHolds, hw \in Bytes, Output, [Next]_vars
  PROVE  Output'
<1>0. /\ worker \in Workers /\ Chain(sent, driver, Sending, tx, written)
      /\ hw \in Bytes /\ tx \in Bytes
      /\ Len(tx) <= TxCapacity /\ TxCapacity \in Nat /\ Chunk \in Nat
      /\ Len(driver) <= DriverCapacity /\ DriverCapacity \in Nat
  BY UartAssumption DEF WorkerHolds, Output, Chain
<1>1. CASE Arrive
  <2>1. UNCHANGED <<sent, driver, tx, written>>
    BY <1>1
    DEF Arrive, ringVars, driverVars, appVars
  <2>2. Sending' = Sending
    BY <1>1 DEF Arrive, Sending
  <2> QED
    BY <1>0, <2>1, <2>2 DEF Output
<1>2. CASE LineError
  <2>1. UNCHANGED <<sent, driver, tx, written>>
    BY <1>2
    DEF LineError, ringVars, driverVars, appVars
  <2>2. Sending' = Sending
    BY <1>2 DEF LineError, Sending
  <2> QED
    BY <1>0, <2>1, <2>2 DEF Output
<1>3. CASE Transmit
  <2>1. UNCHANGED <<tx, written>> /\ Sending' = Sending
    BY <1>3 DEF Transmit, Sending, ringVars, appVars
  <2>2. driver # <<>> /\ sent' = Head(driver) /\ driver' = Tail(driver)
    BY <1>3 DEF Transmit
  <2>3. Chain(Head(driver), Tail(driver), Sending, tx, written)
    BY <1>0, <2>2, ChainSent
  <2>4. Len(Tail(driver)) <= DriverCapacity
    <3>1. driver \in Seq(Nat) /\ Len(driver) \in Nat
      BY <1>0, BytesAre DEF Chain, Bytes
    <3>2. Len(Tail(driver)) = Len(driver) - 1
      BY <2>2, <3>1, HeadTailProperties
    <3> QED
      BY <1>0, <3>1, <3>2
  <2> QED
    BY <1>0, <2>1, <2>2, <2>3, <2>4 DEF Output
<1>4. CASE AsyncOpen
  <2>1. UNCHANGED <<sent, driver, written>> /\ tx' = <<>> /\ Len(<<>>) = 0
    BY <1>4 DEF AsyncOpen, driverVars
  <2>2. Sending' = <<>>
    BY <1>4, OpenIs DEF Sending, Worker
  <2>3. Chain(sent, driver, <<>>, <<>>, written)
    BY <1>0, ChainParts
  <2> QED
    BY <1>0, <2>1, <2>2, <2>3 DEF Output
<1>5. CASE AsyncClose
  <2>1. UNCHANGED <<sent, driver, tx, written>>
    BY <1>5
    DEF AsyncClose, ringVars, driverVars, appVars
  <2>2. Sending' = Sending
    BY <1>5 DEF AsyncClose, Sending
  <2> QED
    BY <1>0, <2>1, <2>2 DEF Output
<1>6. CASE CloseDone
  <2>1. UNCHANGED <<sent, driver, written>> /\ tx' = <<>> /\ Len(<<>>) = 0
    BY <1>6 DEF CloseDone, driverVars
  <2>2. Sending' = Sending
    BY <1>6 DEF CloseDone, Sending
  <2>3. Chain(sent, driver, Sending, <<>>, written)
    BY <1>0, ChainParts
  <2> QED
    BY <1>0, <2>1, <2>2, <2>3 DEF Output
<1>7. ASSUME NEW n \in 1 .. RxCapacity, AsyncRead(n)
      PROVE  Output'
  <2>1. UNCHANGED <<sent, driver, tx, written>>
    BY <1>7
    DEF AsyncRead, ringVars, driverVars, appVars
  <2>2. Sending' = Sending
    BY <1>7 DEF AsyncRead, Sending
  <2> QED
    BY <1>0, <2>1, <2>2 DEF Output
<1>8. ASSUME NEW n \in 1 .. TxCapacity, AsyncWrite(n)
      PROVE  Output'
  <2> DEFINE k == Least(n, TxCapacity - Len(tx))
             d == [i \in 1 .. k |-> written + i]
  <2>1. tx \in Bytes /\ Len(tx) \in Nat /\ written \in Nat
    BY <1>0, BytesAre DEF Chain
  <2>2. k \in Nat /\ k <= TxCapacity - Len(tx)
    BY <1>0, <2>1 DEF Least
  <2>3. tx' = tx \o d /\ written' = written + k
    BY <1>8 DEF AsyncWrite
  <2> HIDE DEF k
  <2>4. d \in Bytes /\ Len(d) = k /\ \A i \in 1 .. k : d[i] = written + i
    <3>1. \A i \in 1 .. k : written + i \in Nat
      BY <2>1, <2>2
    <3>2. d \in [1 .. k -> Nat]
      BY <3>1
    <3> QED
      BY <2>2, <3>2, LenProperties, IsASeq DEF Bytes
  <2> HIDE DEF d
  <2>5. Chain(sent, driver, Sending, tx \o d, written + k)
    BY <1>0, <2>2, <2>4, ChainAdded
  <2>6. Len(tx \o d) <= TxCapacity
    BY <1>0, <2>1, <2>2, <2>4, JoinIs
  <2>7. UNCHANGED <<sent, driver>> /\ Sending' = Sending
    BY <1>8 DEF AsyncWrite, Sending, driverVars
  <2> QED
    BY <2>3, <2>5, <2>6, <2>7 DEF Output
<1>9. ASSUME NEW kind \in Notes, TakeNote(kind)
      PROVE  Output'
  <2>1. UNCHANGED <<sent, driver, tx, written>>
    BY <1>9
    DEF TakeNote, ringVars, driverVars, appVars
  <2>2. Sending' = Sending
    BY <1>9 DEF TakeNote, Sending
  <2> QED
    BY <1>0, <2>1, <2>2 DEF Output
<1>10. CASE WorkerTop
  <2>1. UNCHANGED <<sent, driver, tx, written>>
    BY <1>10
    DEF WorkerTop, ringVars, driverVars, appVars
  <2>2. Sending' = Sending
    BY <1>0, <1>10, TopIs DEF Sending, Worker
  <2> QED
    BY <1>0, <2>1, <2>2 DEF Output
<1>11. CASE WorkerQueue
  <2>1. UNCHANGED <<sent, driver, tx, written>>
    BY <1>11
    DEF WorkerQueue, ringVars, driverVars, appVars
  <2>2. Sending' = Sending
    BY <1>0, <1>11, QueueIs DEF Sending, Worker
  <2> QED
    BY <1>0, <2>1, <2>2 DEF Output
<1>12. CASE WorkerPostError
  <2>1. UNCHANGED <<sent, driver, tx, written>>
    BY <1>12
    DEF WorkerPostError, ringVars, driverVars, appVars
  <2>2. Sending' = Sending
    BY <1>0, <1>12, PostErrorIs DEF Sending, Worker
  <2> QED
    BY <1>0, <2>1, <2>2 DEF Output
<1>13. CASE WorkerRead
  <2>1. UNCHANGED <<sent, driver, tx, written>>
    BY <1>13 DEF WorkerRead, ringVars, appVars
  <2>2. Sending' = Sending
    BY <1>0, <1>13, ReadIs DEF Sending, Worker
  <2> QED
    BY <1>0, <2>1, <2>2 DEF Output
<1>14. CASE WorkerPush
  <2>1. UNCHANGED <<sent, driver, tx, written>>
    BY <1>14
    DEF WorkerPush, ringVars, driverVars, appVars
  <2>2. worker.flag \in BOOLEAN
    BY <1>0 DEF Workers
  <2>3. AfterPush(worker.flag) \in {"read", "drain"}
    BY <2>2, AfterPushIs
  <2>4. Sending' = Sending
    BY <1>0, <2>3, <1>14, PushIs DEF Sending, Worker
  <2> QED
    BY <1>0, <2>1, <2>4 DEF Output
<1>15. CASE WorkerPostRx
  <2>1. UNCHANGED <<sent, driver, tx, written>>
    BY <1>15
    DEF WorkerPostRx, ringVars, driverVars, appVars
  <2>2. worker.flag \in BOOLEAN
    BY <1>0 DEF Workers
  <2>3. AfterPush(worker.flag) \in {"read", "drain"}
    BY <2>2, AfterPushIs
  <2>4. Sending' = Sending
    BY <1>0, <2>3, <1>15, PostRxIs DEF Sending, Worker
  <2> QED
    BY <1>0, <2>1, <2>4 DEF Output
<1>16. CASE WorkerDrain
  <2>1. UNCHANGED <<sent, driver, written>> /\ tx' = Rest(tx, Chunk)
    BY <1>16 DEF WorkerDrain, driverVars, appVars
  <2>2. Sending = <<>>
    BY <1>16 DEF WorkerDrain, WorkerAt, Sending
  <2>3. Chain(sent, driver, Take(tx, Chunk), Rest(tx, Chunk), written)
    BY <1>0, <2>2, ChainTaken
  <2>4. Sending' = Take(tx, Chunk)
    <3>1. tx = <<>> => Take(tx, Chunk) = <<>>
      BY <1>0, TakeIs, BytesAre, EmptyIs
    <3> QED
      BY <1>0, <3>1, <1>16, DrainIs DEF Sending, Worker
  <2>5. Len(Rest(tx, Chunk)) <= TxCapacity
    BY <1>0, RestIs, BytesAre, EmptyIs
  <2> QED
    BY <2>1, <2>3, <2>4, <2>5 DEF Output
<1>17. CASE WorkerWrite
  <2>1. UNCHANGED <<sent, tx, written>>
    BY <1>17 DEF WorkerWrite, ringVars, appVars
  <2>2. Sending = worker.bytes /\ Sending' = <<>>
    BY <1>0, <1>17, WriteIs DEF Sending, Worker
  <2>3. driver' = driver \o Sending \/ driver' = driver
    BY <1>0, <2>2, <1>17, WriteIs
  <2>4. Chain(sent, driver \o Sending, <<>>, tx, written) /\ Chain(sent, driver, <<>>, tx, written)
    BY <1>0, ChainPushed, ChainParts
  <2>5. Len(driver') <= DriverCapacity
    <3>1. CASE driver' = driver \o worker.bytes /\ Room
      <4>1. Len(driver \o worker.bytes) = Len(driver) + Len(worker.bytes)
        BY <1>0, JoinIs DEF Chain, Workers
      <4> QED
        BY <3>1, <4>1 DEF Room
    <3>2. CASE driver' = driver
      BY <1>0, <3>2
    <3> QED
      BY <1>0, <3>1, <3>2, <1>17, WriteIs
  <2> QED
    BY <1>0, <2>1, <2>2, <2>3, <2>4, <2>5 DEF Output
<1>18. CASE WorkerPostTx
  <2>1. UNCHANGED <<sent, driver, tx, written>>
    BY <1>18
    DEF WorkerPostTx, ringVars, driverVars, appVars
  <2>2. Sending' = Sending
    BY <1>0, <1>18, PostTxIs DEF Sending, Worker
  <2> QED
    BY <1>0, <2>1, <2>2 DEF Output
<1>19. CASE WorkerActive
  <2>1. UNCHANGED <<sent, driver, tx, written>>
    BY <1>19
    DEF WorkerActive, ringVars, driverVars, appVars
  <2>2. Sending' = Sending
    BY <1>0, <1>19, ActiveIs DEF Sending, Worker
  <2> QED
    BY <1>0, <2>1, <2>2 DEF Output
<1>20. CASE WorkerDone
  <2>1. UNCHANGED <<sent, driver, tx, written>>
    BY <1>20
    DEF WorkerDone, ringVars, driverVars, appVars
  <2>2. Sending' = Sending
    BY <1>0, <1>20, DoneIs DEF Sending, Worker
  <2> QED
    BY <1>0, <2>1, <2>2 DEF Output
<1>21. CASE WorkerClear
  <2>1. UNCHANGED <<sent, driver, tx, written>>
    BY <1>21
    DEF WorkerClear, ringVars, driverVars, appVars
  <2>2. Sending' = Sending
    BY <1>0, <1>21, ClearIs DEF Sending, Worker
  <2> QED
    BY <1>0, <2>1, <2>2 DEF Output
<1>22. CASE WorkerPostIdle
  <2>1. UNCHANGED <<sent, driver, tx, written>>
    BY <1>22
    DEF WorkerPostIdle, ringVars, driverVars, appVars
  <2>2. Sending' = Sending
    BY <1>0, <1>22, PostIdleIs DEF Sending, Worker
  <2> QED
    BY <1>0, <2>1, <2>2 DEF Output
<1>23. CASE UNCHANGED vars
  <2>1. UNCHANGED <<sent, driver, tx, written>> /\ Sending' = Sending
    BY <1>23 DEF vars, ringVars, driverVars, appVars, Sending
  <2> QED
    BY <1>0, <2>1 DEF Output
<1>24. CASE AsyncOpenFails
  <2>1. UNCHANGED <<sent, driver, tx, written>>
    BY <1>24 DEF AsyncOpenFails, driverVars, appVars
  <2>2. Sending' = Sending
    BY <1>24 DEF AsyncOpenFails, Sending
  <2> QED
    BY <1>0, <2>1, <2>2 DEF Output
<1>25. CASE CollectEvents
  <2>1. UNCHANGED <<sent, driver, tx, written>>
    BY <1>25 DEF CollectEvents, ringVars, appVars
  <2>2. Sending' = Sending
    BY <1>25 DEF CollectEvents, Sending
  <2> QED
    BY <1>0, <2>1, <2>2 DEF Output
<1> QED
  BY <1>1, <1>2, <1>3, <1>4, <1>5, <1>6, <1>7, <1>8, <1>9, <1>10, <1>11, <1>12, <1>13,
     <1>14, <1>15, <1>16, <1>17, <1>18, <1>19, <1>20, <1>21, <1>22, <1>23, <1>24, <1>25
  DEF Next, DriverStep, AppStep, WorkerStep

\* The application opens the stream only after the worker of the last session
\* has left, and frees the rings only then.
LEMMA LifeStep ==
  ASSUME worker \in Workers, hw \in Bytes, tx \in Bytes, OneWorker, [Next]_vars
  PROVE  OneWorker'
<1>0. worker \in Workers /\ hw \in Bytes /\ tx \in Bytes /\ OneWorker
  BY DEF WorkerHolds
<1>1. CASE Arrive
  BY <1>0, <1>1
  DEF Arrive, OneWorker, WorkerAt, ringVars, driverVars, appVars
<1>2. CASE LineError
  BY <1>0, <1>2
  DEF LineError, OneWorker, WorkerAt, ringVars, driverVars, appVars
<1>3. CASE Transmit
  BY <1>0, <1>3
  DEF Transmit, OneWorker, WorkerAt, ringVars, driverVars, appVars
<1>4. CASE AsyncOpen
  BY <1>0, <1>4, OpenIs
  DEF AsyncOpen, OneWorker, Worker, ringVars, driverVars, appVars
<1>5. CASE AsyncClose
  BY <1>0, <1>5
  DEF AsyncClose, OneWorker, WorkerAt, ringVars, driverVars, appVars
<1>6. CASE CloseDone
  BY <1>0, <1>6
  DEF CloseDone, OneWorker, WorkerAt, ringVars, driverVars, appVars
<1>7. ASSUME NEW n \in 1 .. RxCapacity, AsyncRead(n)
      PROVE  OneWorker'
  BY <1>0, <1>7
  DEF AsyncRead, OneWorker, WorkerAt, ringVars, driverVars, appVars
<1>8. ASSUME NEW n \in 1 .. TxCapacity, AsyncWrite(n)
      PROVE  OneWorker'
  BY <1>0, <1>8
  DEF AsyncWrite, OneWorker, WorkerAt, ringVars, driverVars, appVars
<1>9. ASSUME NEW kind \in Notes, TakeNote(kind)
      PROVE  OneWorker'
  BY <1>0, <1>9
  DEF TakeNote, OneWorker, WorkerAt, ringVars, driverVars, appVars
<1>10. CASE WorkerTop
  BY <1>0, <1>10, TopIs
  DEF WorkerTop, OneWorker, Worker, ringVars, driverVars, appVars
<1>11. CASE WorkerQueue
  BY <1>0, <1>11, QueueIs
  DEF WorkerQueue, OneWorker, Worker, ringVars, driverVars, appVars
<1>12. CASE WorkerPostError
  BY <1>0, <1>12, PostErrorIs
  DEF WorkerPostError, OneWorker, Worker, ringVars, driverVars, appVars
<1>13. CASE WorkerRead
  BY <1>0, <1>13, ReadIs
  DEF WorkerRead, OneWorker, Worker, ringVars, driverVars, appVars
<1>14. CASE WorkerPush
  <2>1. worker.flag \in BOOLEAN
    BY <1>0 DEF Workers
  <2>2. AfterPush(worker.flag) \in {"read", "drain"}
    BY <2>1, AfterPushIs
  <2> QED
    BY <1>0, <2>2, <1>14, PushIs DEF WorkerPush, OneWorker, Worker, ringVars, appVars
<1>15. CASE WorkerPostRx
  <2>1. worker.flag \in BOOLEAN
    BY <1>0 DEF Workers
  <2>2. AfterPush(worker.flag) \in {"read", "drain"}
    BY <2>1, AfterPushIs
  <2> QED
    BY <1>0, <2>2, <1>15, PostRxIs DEF WorkerPostRx, OneWorker, Worker, ringVars, appVars
<1>16. CASE WorkerDrain
  BY <1>0, <1>16, DrainIs
  DEF WorkerDrain, OneWorker, Worker, ringVars, driverVars, appVars
<1>17. CASE WorkerWrite
  BY <1>0, <1>17, WriteIs
  DEF WorkerWrite, OneWorker, Worker, ringVars, driverVars, appVars
<1>18. CASE WorkerPostTx
  BY <1>0, <1>18, PostTxIs
  DEF WorkerPostTx, OneWorker, Worker, ringVars, driverVars, appVars
<1>19. CASE WorkerActive
  BY <1>0, <1>19, ActiveIs
  DEF WorkerActive, OneWorker, Worker, ringVars, driverVars, appVars
<1>20. CASE WorkerDone
  BY <1>0, <1>20, DoneIs
  DEF WorkerDone, OneWorker, Worker, ringVars, driverVars, appVars
<1>21. CASE WorkerClear
  BY <1>0, <1>21, ClearIs
  DEF WorkerClear, OneWorker, Worker, ringVars, driverVars, appVars
<1>22. CASE WorkerPostIdle
  BY <1>0, <1>22, PostIdleIs
  DEF WorkerPostIdle, OneWorker, Worker, ringVars, driverVars, appVars
<1>23. CASE UNCHANGED vars
  BY <1>0, <1>23 DEF vars, OneWorker, ringVars, appVars
<1>24. CASE AsyncOpenFails
  BY <1>0, <1>24 DEF AsyncOpenFails, OneWorker, driverVars, appVars
<1>25. CASE CollectEvents
  BY <1>0, <1>25 DEF CollectEvents, OneWorker, ringVars, appVars
<1> QED
  BY <1>1, <1>2, <1>3, <1>4, <1>5, <1>6, <1>7, <1>8, <1>9, <1>10, <1>11, <1>12, <1>13,
     <1>14, <1>15, <1>16, <1>17, <1>18, <1>19, <1>20, <1>21, <1>22, <1>23, <1>24, <1>25
  DEF Next, DriverStep, AppStep, WorkerStep

\* The reader is told.
LEMMA ReaderStep ==
  ASSUME worker \in Workers, hw \in Bytes, tx \in Bytes, rx \in Bytes, ReaderNotified, [Next]_vars
  PROVE  ReaderNotified'
<1>0. worker \in Workers /\ hw \in Bytes /\ tx \in Bytes /\ rx \in Bytes /\ ReaderNotified
  BY DEF WorkerHolds
<1>1. CASE Arrive
  BY <1>0, <1>1
  DEF Arrive, ReaderNotified, ringVars, driverVars, appVars
<1>2. CASE LineError
  BY <1>0, <1>2
  DEF LineError, ReaderNotified, ringVars, driverVars, appVars
<1>3. CASE Transmit
  BY <1>0, <1>3
  DEF Transmit, ReaderNotified, ringVars, driverVars, appVars
<1>4. CASE AsyncOpen
  BY <1>0, <1>4
  DEF AsyncOpen, ReaderNotified, ringVars, driverVars, appVars
<1>5. CASE AsyncClose
  BY <1>0, <1>5
  DEF AsyncClose, ReaderNotified, ringVars, driverVars, appVars
<1>6. CASE CloseDone
  BY <1>0, <1>6
  DEF CloseDone, ReaderNotified, ringVars, driverVars, appVars
<1>7. ASSUME NEW n \in 1 .. RxCapacity, AsyncRead(n)
      PROVE  ReaderNotified'
  <2>1. n \in Nat /\ Len(rx) \in Nat
    BY <1>0, BytesAre, UartAssumption
  <2>2. Rest(rx, n) # <<>> => Len(rx) >= n
    BY <1>0, <2>1, RestIs
  <2> QED
    BY <2>2, <1>7 DEF AsyncRead, ReaderNotified
<1>8. ASSUME NEW n \in 1 .. TxCapacity, AsyncWrite(n)
      PROVE  ReaderNotified'
  BY <1>0, <1>8
  DEF AsyncWrite, ReaderNotified, ringVars, driverVars, appVars
<1>9. ASSUME NEW kind \in Notes, TakeNote(kind)
      PROVE  ReaderNotified'
  BY <1>0, <1>9 DEF TakeNote, ReaderNotified, ringVars, Notes
<1>10. CASE WorkerTop
  BY <1>0, <1>10, TopIs
  DEF WorkerTop, ReaderNotified, Worker, Post, ringVars, driverVars, appVars
<1>11. CASE WorkerQueue
  BY <1>0, <1>11, QueueIs
  DEF WorkerQueue, ReaderNotified, Worker, Post, ringVars, driverVars, appVars
<1>12. CASE WorkerPostError
  BY <1>0, <1>12, PostErrorIs
  DEF WorkerPostError, ReaderNotified, Worker, Post, ringVars, driverVars, appVars
<1>13. CASE WorkerRead
  BY <1>0, <1>13, ReadIs
  DEF WorkerRead, ReaderNotified, Worker, Post, ringVars, driverVars, appVars
<1>14. CASE WorkerPush
  <2>1. worker.flag \in BOOLEAN
    BY <1>0 DEF Workers
  <2>2. AfterPush(worker.flag) \in {"read", "drain"}
    BY <2>1, AfterPushIs
  <2> QED
    BY <1>0, <2>2, <1>14, PushIs DEF WorkerPush, ReaderNotified, Worker, ringVars, appVars
<1>15. CASE WorkerPostRx
  <2>1. worker.flag \in BOOLEAN
    BY <1>0 DEF Workers
  <2>2. AfterPush(worker.flag) \in {"read", "drain"}
    BY <2>1, AfterPushIs
  <2> QED
    BY <1>0, <2>2, <1>15, PostRxIs DEF WorkerPostRx, ReaderNotified, Worker, ringVars, appVars
<1>16. CASE WorkerDrain
  BY <1>0, <1>16, DrainIs
  DEF WorkerDrain, ReaderNotified, Worker, Post, ringVars, driverVars, appVars
<1>17. CASE WorkerWrite
  BY <1>0, <1>17, WriteIs
  DEF WorkerWrite, ReaderNotified, Worker, Post, ringVars, driverVars, appVars
<1>18. CASE WorkerPostTx
  BY <1>0, <1>18, PostTxIs
  DEF WorkerPostTx, ReaderNotified, Worker, Post, ringVars, driverVars, appVars
<1>19. CASE WorkerActive
  BY <1>0, <1>19, ActiveIs
  DEF WorkerActive, ReaderNotified, Worker, Post, ringVars, driverVars, appVars
<1>20. CASE WorkerDone
  BY <1>0, <1>20, DoneIs
  DEF WorkerDone, ReaderNotified, Worker, Post, ringVars, driverVars, appVars
<1>21. CASE WorkerClear
  BY <1>0, <1>21, ClearIs
  DEF WorkerClear, ReaderNotified, Worker, Post, ringVars, driverVars, appVars
<1>22. CASE WorkerPostIdle
  BY <1>0, <1>22, PostIdleIs
  DEF WorkerPostIdle, ReaderNotified, Worker, Post, ringVars, driverVars, appVars
<1>23. CASE UNCHANGED vars
  BY <1>0, <1>23 DEF vars, ReaderNotified, ringVars, appVars
<1>24. CASE AsyncOpenFails
  BY <1>0, <1>24 DEF AsyncOpenFails, ReaderNotified, driverVars, appVars
<1>25. CASE CollectEvents
  BY <1>0, <1>25 DEF CollectEvents, ReaderNotified, ringVars, appVars
<1> QED
  BY <1>1, <1>2, <1>3, <1>4, <1>5, <1>6, <1>7, <1>8, <1>9, <1>10, <1>11, <1>12, <1>13,
     <1>14, <1>15, <1>16, <1>17, <1>18, <1>19, <1>20, <1>21, <1>22, <1>23, <1>24, <1>25
  DEF Next, DriverStep, AppStep, WorkerStep

\* The writer is told.
LEMMA WriterStep ==
  ASSUME worker \in Workers, hw \in Bytes, tx \in Bytes, written \in Nat,
         Len(tx) <= TxCapacity, OneWorker, WriterNotified, [Next]_vars
  PROVE  WriterNotified'
<1>0. /\ worker \in Workers /\ hw \in Bytes /\ tx \in Bytes /\ written \in Nat
      /\ Len(tx) <= TxCapacity /\ OneWorker /\ WriterNotified
  OBVIOUS
<1>1. CASE Arrive
  BY <1>0, <1>1
  DEF Arrive, WriterNotified, ringVars, driverVars, appVars
<1>2. CASE LineError
  BY <1>0, <1>2
  DEF LineError, WriterNotified, ringVars, driverVars, appVars
<1>3. CASE Transmit
  BY <1>0, <1>3
  DEF Transmit, WriterNotified, ringVars, driverVars, appVars
<1>4. CASE AsyncOpen
  BY <1>0, <1>4
  DEF AsyncOpen, WriterNotified, ringVars, driverVars, appVars
<1>5. CASE AsyncClose
  BY <1>0, <1>5
  DEF AsyncClose, WriterNotified, ringVars, driverVars, appVars
<1>6. CASE CloseDone
  BY <1>0, <1>6 DEF CloseDone, WriterNotified, OneWorker
<1>7. ASSUME NEW n \in 1 .. RxCapacity, AsyncRead(n)
      PROVE  WriterNotified'
  BY <1>0, <1>7
  DEF AsyncRead, WriterNotified, ringVars, driverVars, appVars
<1>8. ASSUME NEW n \in 1 .. TxCapacity, AsyncWrite(n)
      PROVE  WriterNotified'
  <2> DEFINE k == Least(n, TxCapacity - Len(tx))
             d == [i \in 1 .. k |-> written + i]
  <2>1. Len(tx) \in Nat /\ written \in Nat /\ TxCapacity \in Nat \ {0, 1}
    BY <1>0, BytesAre, UartAssumption
  <2>2. k \in Nat /\ (k < n => k = TxCapacity - Len(tx))
    BY <1>0, <2>1 DEF Least
  <2>3. tx' = tx \o d /\ waiting' = (k < n) /\ UNCHANGED <<open, worker, note>>
    BY <1>8 DEF AsyncWrite
  <2> HIDE DEF k
  <2>4. d \in Bytes /\ Len(d) = k
    <3>1. \A i \in 1 .. k : written + i \in Nat
      BY <2>1, <2>2
    <3>2. d \in [1 .. k -> Nat]
      BY <3>1
    <3> QED
      BY <2>2, <3>2 DEF Bytes
  <2> HIDE DEF d
  <2>5. tx' \in Bytes /\ Len(tx') = Len(tx) + k
    BY <1>0, <2>3, <2>4, JoinIs
  <2>6. waiting' => tx' # <<>>
    BY <2>1, <2>2, <2>3, <2>5, BytesAre
  <2> QED
    BY <2>6 DEF WriterNotified
<1>9. ASSUME NEW kind \in Notes, TakeNote(kind)
      PROVE  WriterNotified'
  BY <1>0, <1>9 DEF TakeNote, WriterNotified, ringVars, Notes
<1>10. CASE WorkerTop
  BY <1>0, <1>10, TopIs
  DEF WorkerTop, WriterNotified, Worker, Post, ringVars, driverVars, appVars
<1>11. CASE WorkerQueue
  BY <1>0, <1>11, QueueIs
  DEF WorkerQueue, WriterNotified, Worker, Post, ringVars, driverVars, appVars
<1>12. CASE WorkerPostError
  BY <1>0, <1>12, PostErrorIs
  DEF WorkerPostError, WriterNotified, Worker, Post, ringVars, driverVars, appVars
<1>13. CASE WorkerRead
  BY <1>0, <1>13, ReadIs
  DEF WorkerRead, WriterNotified, Worker, Post, ringVars, driverVars, appVars
<1>14. CASE WorkerPush
  <2>1. worker.flag \in BOOLEAN
    BY <1>0 DEF Workers
  <2>2. AfterPush(worker.flag) \in {"read", "drain"}
    BY <2>1, AfterPushIs
  <2> QED
    BY <1>0, <2>2, <1>14, PushIs DEF WorkerPush, WriterNotified, Worker, ringVars, appVars
<1>15. CASE WorkerPostRx
  <2>1. worker.flag \in BOOLEAN
    BY <1>0 DEF Workers
  <2>2. AfterPush(worker.flag) \in {"read", "drain"}
    BY <2>1, AfterPushIs
  <2> QED
    BY <1>0, <2>2, <1>15, PostRxIs DEF WorkerPostRx, WriterNotified, Worker, ringVars, appVars
<1>16. CASE WorkerDrain
  <2>1. Len(tx) \in Nat /\ Chunk \in Nat
    BY <1>0, BytesAre, UartAssumption
  <2>2. Len(tx) > Chunk => Rest(tx, Chunk) # <<>>
    BY <1>0, <2>1, RestIs, EmptyIs
  <2> QED
    BY <1>0, <2>1, <2>2, <1>16, DrainIs DEF WorkerDrain, WriterNotified, Worker, appVars
<1>17. CASE WorkerWrite
  BY <1>0, <1>17, WriteIs
  DEF WorkerWrite, WriterNotified, Worker, Post, ringVars, driverVars, appVars
<1>18. CASE WorkerPostTx
  BY <1>0, <1>18, PostTxIs
  DEF WorkerPostTx, WriterNotified, Worker, Post, ringVars, driverVars, appVars
<1>19. CASE WorkerActive
  BY <1>0, <1>19, ActiveIs
  DEF WorkerActive, WriterNotified, Worker, Post, ringVars, driverVars, appVars
<1>20. CASE WorkerDone
  BY <1>0, <1>20, DoneIs
  DEF WorkerDone, WriterNotified, Worker, Post, ringVars, driverVars, appVars
<1>21. CASE WorkerClear
  BY <1>0, <1>21, ClearIs
  DEF WorkerClear, WriterNotified, Worker, Post, ringVars, driverVars, appVars
<1>22. CASE WorkerPostIdle
  BY <1>0, <1>22, PostIdleIs
  DEF WorkerPostIdle, WriterNotified, Worker, Post, ringVars, driverVars, appVars
<1>23. CASE UNCHANGED vars
  BY <1>0, <1>23 DEF vars, WriterNotified, ringVars, appVars
<1>24. CASE AsyncOpenFails
  BY <1>0, <1>24 DEF AsyncOpenFails, WriterNotified, driverVars, appVars
<1>25. CASE CollectEvents
  BY <1>0, <1>25 DEF CollectEvents, WriterNotified, ringVars, appVars
<1> QED
  BY <1>1, <1>2, <1>3, <1>4, <1>5, <1>6, <1>7, <1>8, <1>9, <1>10, <1>11, <1>12, <1>13,
     <1>14, <1>15, <1>16, <1>17, <1>18, <1>19, <1>20, <1>21, <1>22, <1>23, <1>24, <1>25
  DEF Next, DriverStep, AppStep, WorkerStep

\* The worker is told, unless the queue had no room for the event or the event was
\* collected.
LEMMA AnnounceStep ==
  ASSUME worker \in Workers, hw \in Bytes, tx \in Bytes, PlainTypes, Input,
         OneWorker, InputAnnounced, [Next]_vars
  PROVE  InputAnnounced'
<1>0. /\ worker \in Workers /\ hw \in Bytes /\ tx \in Bytes /\ OneWorker /\ InputAnnounced
      /\ dataEvents \in Nat /\ missed \in BOOLEAN /\ Chain(seen, rx, Received, hw, arrived)
  BY DEF PlainTypes, Input
<1>1. CASE Arrive
  <2>1. dataEvents' > 0 \/ missed'
    <3>1. CASE dataEvents + errorEvents < EventCapacity
      <4>1. dataEvents' = dataEvents + 1
        BY <1>1, <3>1 DEF Arrive
      <4> QED
        BY <1>0, <4>1
    <3>2. CASE ~(dataEvents + errorEvents < EventCapacity)
      <4>1. dataEvents' = dataEvents /\ missed' = (missed \/ dataEvents = 0)
        BY <1>1, <3>2 DEF Arrive
      <4>2. dataEvents = 0 \/ dataEvents > 0
        BY <1>0
      <4> QED
        BY <4>1, <4>2
    <3> QED
      BY <3>1, <3>2
  <2>2. hw' # <<>>
    <3>1. hw \in Seq(Nat) /\ arrived + 1 \in Nat
      BY <1>0 DEF Chain, Bytes
    <3>2. hw' = Append(hw, arrived + 1)
      BY <1>1 DEF Arrive
    <3> QED
      BY <3>1, <3>2
  <2> QED
    BY <2>1, <2>2 DEF InputAnnounced
<1>2. CASE LineError
  BY <1>0, <1>2
  DEF LineError, InputAnnounced, ringVars, driverVars, appVars
<1>3. CASE Transmit
  BY <1>0, <1>3
  DEF Transmit, InputAnnounced, ringVars, driverVars, appVars
<1>4. CASE AsyncOpen
  BY <1>0, <1>4, OpenIs
  DEF AsyncOpen, InputAnnounced, OneWorker, Worker, ringVars, driverVars, appVars
<1>5. CASE AsyncClose
  BY <1>0, <1>5
  DEF AsyncClose, InputAnnounced, ringVars, driverVars, appVars
<1>6. CASE CloseDone
  BY <1>0, <1>6
  DEF CloseDone, InputAnnounced, ringVars, driverVars, appVars
<1>7. ASSUME NEW n \in 1 .. RxCapacity, AsyncRead(n)
      PROVE  InputAnnounced'
  BY <1>0, <1>7
  DEF AsyncRead, InputAnnounced, ringVars, driverVars, appVars
<1>8. ASSUME NEW n \in 1 .. TxCapacity, AsyncWrite(n)
      PROVE  InputAnnounced'
  BY <1>0, <1>8
  DEF AsyncWrite, InputAnnounced, ringVars, driverVars, appVars
<1>9. ASSUME NEW kind \in Notes, TakeNote(kind)
      PROVE  InputAnnounced'
  BY <1>0, <1>9
  DEF TakeNote, InputAnnounced, ringVars, driverVars, appVars
<1>10. CASE WorkerTop
  BY <1>0, <1>10, TopIs
  DEF WorkerTop, InputAnnounced, Worker, ringVars, driverVars, appVars
<1>11. CASE WorkerQueue
  BY <1>0, <1>11, QueueIs
  DEF WorkerQueue, InputAnnounced, Worker, ringVars, driverVars, appVars
<1>12. CASE WorkerPostError
  BY <1>0, <1>12, PostErrorIs
  DEF WorkerPostError, InputAnnounced, Worker, ringVars, driverVars, appVars
<1>13. CASE WorkerRead
  <2>1. Len(hw) \in Nat /\ Chunk \in Nat
    BY <1>0, BytesAre, UartAssumption
  <2>2. Rest(hw, Chunk) # <<>> => Len(hw) >= Chunk /\ hw # <<>>
    BY <1>0, <2>1, RestIs, BytesAre
  <2> QED
    BY <1>0, <2>2, <1>13, ReadIs DEF InputAnnounced, Worker
<1>14. CASE WorkerPush
  <2>1. worker.flag \in BOOLEAN
    BY <1>0 DEF Workers
  <2>2. AfterPush(worker.flag) = IF worker.flag THEN "read" ELSE "drain"
    BY <2>1, AfterPushIs
  <2> QED
    BY <1>0, <2>2, <1>14, PushIs DEF WorkerPush, InputAnnounced, Worker, driverVars
<1>15. CASE WorkerPostRx
  <2>1. worker.flag \in BOOLEAN
    BY <1>0 DEF Workers
  <2>2. AfterPush(worker.flag) = IF worker.flag THEN "read" ELSE "drain"
    BY <2>1, AfterPushIs
  <2> QED
    BY <1>0, <2>2, <1>15, PostRxIs DEF WorkerPostRx, InputAnnounced, Worker, driverVars
<1>16. CASE WorkerDrain
  BY <1>0, <1>16, DrainIs
  DEF WorkerDrain, InputAnnounced, Worker, ringVars, driverVars, appVars
<1>17. CASE WorkerWrite
  BY <1>0, <1>17, WriteIs
  DEF WorkerWrite, InputAnnounced, Worker, ringVars, driverVars, appVars
<1>18. CASE WorkerPostTx
  BY <1>0, <1>18, PostTxIs
  DEF WorkerPostTx, InputAnnounced, Worker, ringVars, driverVars, appVars
<1>19. CASE WorkerActive
  BY <1>0, <1>19, ActiveIs
  DEF WorkerActive, InputAnnounced, Worker, ringVars, driverVars, appVars
<1>20. CASE WorkerDone
  BY <1>0, <1>20, DoneIs
  DEF WorkerDone, InputAnnounced, Worker, ringVars, driverVars, appVars
<1>21. CASE WorkerClear
  BY <1>0, <1>21, ClearIs
  DEF WorkerClear, InputAnnounced, Worker, ringVars, driverVars, appVars
<1>22. CASE WorkerPostIdle
  BY <1>0, <1>22, PostIdleIs
  DEF WorkerPostIdle, InputAnnounced, Worker, ringVars, driverVars, appVars
<1>23. CASE UNCHANGED vars
  BY <1>0, <1>23 DEF vars, InputAnnounced, driverVars
<1>24. CASE AsyncOpenFails
  BY <1>0, <1>24 DEF AsyncOpenFails, InputAnnounced, driverVars, appVars
<1>25. CASE CollectEvents
  <2>1. UNCHANGED hw /\ missed' = (missed \/ hw # <<>>)
    BY <1>25 DEF CollectEvents
  <2> QED
    BY <1>0, <2>1 DEF InputAnnounced
<1> QED
  BY <1>1, <1>2, <1>3, <1>4, <1>5, <1>6, <1>7, <1>8, <1>9, <1>10, <1>11, <1>12, <1>13,
     <1>14, <1>15, <1>16, <1>17, <1>18, <1>19, <1>20, <1>21, <1>22, <1>23, <1>24, <1>25
  DEF Next, DriverStep, AppStep, WorkerStep

\* The flag is clear only when nothing is left to send.
LEMMA IdleStep ==
  ASSUME worker \in Workers, hw \in Bytes, setting \in Settings, Output,
         FlagCoversBytes, OneWorker, [Next]_vars
  PROVE  FlagCoversBytes'
<1>0. /\ worker \in Workers /\ hw \in Bytes /\ tx \in Bytes /\ setting \in Settings
      /\ driver \in Bytes /\ Chain(sent, driver, Sending, tx, written)
      /\ Chunk \in Nat /\ FlagCoversBytes
  BY UartAssumption DEF Output, Chain
<1>1. CASE Arrive
  <2>0. UNCHANGED <<setting, tx, driver, base, txActive>>
    BY <1>1 DEF Arrive, ringVars, driverVars, appVars
  <2>8. UNCHANGED worker
    BY <1>1 DEF Arrive
  <2>9. Fresh(driver)' <=> Fresh(driver)
    BY <2>0 DEF Fresh
  <2> QED
    BY <1>0, <2>0, <2>8, <2>9 DEF FlagCoversBytes
<1>2. CASE LineError
  <2>0. UNCHANGED <<setting, tx, driver, base, txActive>>
    BY <1>2 DEF LineError, ringVars, driverVars, appVars
  <2>8. UNCHANGED worker
    BY <1>2 DEF LineError
  <2>9. Fresh(driver)' <=> Fresh(driver)
    BY <2>0 DEF Fresh
  <2> QED
    BY <1>0, <2>0, <2>8, <2>9 DEF FlagCoversBytes
<1>3. CASE Transmit
  <2>1. UNCHANGED <<setting, tx, worker, base, txActive>> /\ driver' = Tail(driver)
        /\ driver # <<>>
    BY <1>3 DEF Transmit, ringVars, appVars
  <2>2. \A i \in 1 .. Len(Tail(driver)) : i + 1 \in 1 .. Len(driver) /\ Tail(driver)[i] = driver[i + 1]
    <3>1. Tail(driver) = Rest(driver, 1)
      BY <1>0, <2>1, TailIsSubSeq DEF Rest, Bytes
    <3> QED
      BY <1>0, <3>1, RestIs
  <2>3. Fresh(driver)' => Fresh(driver)
    BY <2>1, <2>2 DEF Fresh
  <2> QED
    BY <1>0, <2>1, <2>3 DEF FlagCoversBytes
<1>4. CASE AsyncOpen
  <2>1. UNCHANGED <<setting, driver>> /\ tx' = <<>> /\ base' = written /\ Len(<<>>) = 0
    BY <1>4 DEF AsyncOpen, driverVars
  <2>2. worker'.at = "top"
    BY <1>4, OpenIs DEF Worker
  <2>3. ~Fresh(driver)'
    <3>1. \A i \in 1 .. Len(driver) : driver[i] \in Nat /\ driver[i] <= written
      BY <1>0, BytesAre DEF Chain, UpTo
    <3> QED
      BY <1>0, <2>1, <3>1 DEF Fresh, Chain
  <2> QED
    BY <1>0, <2>1, <2>2, <2>3 DEF FlagCoversBytes, Serving
<1>5. CASE AsyncClose
  <2>0. UNCHANGED <<setting, tx, driver, base, txActive>>
    BY <1>5 DEF AsyncClose, ringVars, driverVars, appVars
  <2>8. UNCHANGED worker
    BY <1>5 DEF AsyncClose
  <2>9. Fresh(driver)' <=> Fresh(driver)
    BY <2>0 DEF Fresh
  <2> QED
    BY <1>0, <2>0, <2>8, <2>9 DEF FlagCoversBytes
<1>6. CASE CloseDone
  <2>1. UNCHANGED <<setting, driver, base, txActive, worker>> /\ tx' = <<>> /\ Len(<<>>) = 0
    BY <1>6 DEF CloseDone, driverVars
  <2>2. Fresh(driver)' <=> Fresh(driver)
    BY <2>1 DEF Fresh
  <2> QED
    BY <1>0, <2>1, <2>2 DEF FlagCoversBytes
<1>7. ASSUME NEW n \in 1 .. RxCapacity, AsyncRead(n)
      PROVE  FlagCoversBytes'
  <2>0. UNCHANGED <<setting, tx, driver, base, txActive>>
    BY <1>7 DEF AsyncRead, ringVars, driverVars, appVars
  <2>8. UNCHANGED worker
    BY <1>7 DEF AsyncRead
  <2>9. Fresh(driver)' <=> Fresh(driver)
    BY <2>0 DEF Fresh
  <2> QED
    BY <1>0, <2>0, <2>8, <2>9 DEF FlagCoversBytes
<1>8. ASSUME NEW n \in 1 .. TxCapacity, AsyncWrite(n)
      PROVE  FlagCoversBytes'
  <2> SUFFICES ASSUME setting.paced'
               PROVE  FlagCoversBytes'
    BY DEF FlagCoversBytes
  <2> DEFINE k == Least(n, TxCapacity - Len(tx))
             d == [i \in 1 .. k |-> written + i]
  <2>1. /\ UNCHANGED <<setting, driver, base, worker>> /\ open /\ AppRuns
        /\ TxIdle /\ n <= Chunk
        /\ tx' = tx \o d /\ txActive' = (txActive \/ k > 0)
    BY <1>8 DEF AsyncWrite, driverVars
  <2>2. setting.paced /\ ~setting.multicore
    BY <1>0, <2>1 DEF Settings
  <2>3. tx = <<>> /\ ~txActive /\ worker.at \in {"none", "queue", "write"}
    BY <2>1, <2>2 DEF TxIdle, AppRuns
  <2>4. worker.at \notin Serving
    BY <1>0, <2>2, <2>3 DEF FlagCoversBytes, Serving
  <2>5. written \in Nat /\ Len(tx) = 0 /\ n \in Nat /\ TxCapacity \in Nat
    BY <1>0, <2>3, EmptyIs, UartAssumption DEF Chain
  <2>6. k \in Nat /\ k <= n
    BY <2>5 DEF Least
  <2> HIDE DEF k
  <2>7. d \in Bytes /\ Len(d) = k
    <3>1. \A i \in 1 .. k : written + i \in Nat
      BY <2>5, <2>6
    <3>2. d \in [1 .. k -> Nat]
      BY <3>1
    <3> QED
      BY <2>6, <3>2 DEF Bytes
  <2> HIDE DEF d
  <2>8. tx' \in Bytes /\ Len(tx') = k
    BY <1>0, <2>1, <2>5, <2>6, <2>7, JoinIs
  <2>9. tx' # <<>> => k > 0
    BY <2>6, <2>8, BytesAre
  <2>10. ~Fresh(driver)'
    BY <1>0, <2>1, <2>2, <2>3 DEF FlagCoversBytes, Fresh
  <2>11. Len(tx)' <= Chunk
    BY <1>0, <2>1, <2>5, <2>6, <2>8
  <2> QED
    BY <2>1, <2>4, <2>9, <2>10, <2>11 DEF FlagCoversBytes, Serving
<1>9. ASSUME NEW kind \in Notes, TakeNote(kind)
      PROVE  FlagCoversBytes'
  <2>0. UNCHANGED <<setting, tx, driver, base, txActive>>
    BY <1>9 DEF TakeNote, ringVars, driverVars, appVars
  <2>8. UNCHANGED worker
    BY <1>9 DEF TakeNote
  <2>9. Fresh(driver)' <=> Fresh(driver)
    BY <2>0 DEF Fresh
  <2> QED
    BY <1>0, <2>0, <2>8, <2>9 DEF FlagCoversBytes
<1>10. CASE WorkerTop
  <2>0. UNCHANGED <<setting, tx, driver, base, txActive>>
    BY <1>10 DEF WorkerTop, ringVars, driverVars, appVars
  <2>8. worker'.at \notin Serving
    BY <1>0, <1>10, TopIs DEF Worker, Serving
  <2>9. Fresh(driver)' <=> Fresh(driver)
    BY <2>0 DEF Fresh
  <2> QED
    BY <1>0, <2>0, <2>8, <2>9 DEF FlagCoversBytes, Serving
<1>11. CASE WorkerQueue
  <2>0. UNCHANGED <<setting, tx, driver, base, txActive>>
    BY <1>11 DEF WorkerQueue, ringVars, driverVars, appVars
  <2>8. worker'.at \notin Serving
    BY <1>0, <1>11, QueueIs DEF Worker, Serving
  <2>9. Fresh(driver)' <=> Fresh(driver)
    BY <2>0 DEF Fresh
  <2> QED
    BY <1>0, <2>0, <2>8, <2>9 DEF FlagCoversBytes, Serving
<1>12. CASE WorkerPostError
  <2>0. UNCHANGED <<setting, tx, driver, base, txActive>>
    BY <1>12 DEF WorkerPostError, ringVars, driverVars, appVars
  <2>8. worker'.at \notin Serving
    BY <1>0, <1>12, PostErrorIs DEF Worker, Serving
  <2>9. Fresh(driver)' <=> Fresh(driver)
    BY <2>0 DEF Fresh
  <2> QED
    BY <1>0, <2>0, <2>8, <2>9 DEF FlagCoversBytes, Serving
<1>13. CASE WorkerRead
  <2>0. UNCHANGED <<setting, tx, driver, base, txActive>>
    BY <1>13 DEF WorkerRead, ringVars, driverVars, appVars
  <2>8. worker'.at \notin Serving
    BY <1>0, <1>13, ReadIs DEF Worker, Serving
  <2>9. Fresh(driver)' <=> Fresh(driver)
    BY <2>0 DEF Fresh
  <2> QED
    BY <1>0, <2>0, <2>8, <2>9 DEF FlagCoversBytes, Serving
<1>14. CASE WorkerPush
  <2>0. UNCHANGED <<setting, tx, driver, base, txActive>>
    BY <1>14 DEF WorkerPush, ringVars, driverVars, appVars
  <2>1. worker.flag \in BOOLEAN
    BY <1>0 DEF Workers
  <2>2. AfterPush(worker.flag) \in {"read", "drain"}
    BY <2>1, AfterPushIs
  <2>8. worker'.at \notin Serving
    BY <1>0, <2>2, <1>14, PushIs DEF Worker, Serving
  <2>9. Fresh(driver)' <=> Fresh(driver)
    BY <2>0 DEF Fresh
  <2> QED
    BY <1>0, <2>0, <2>8, <2>9 DEF FlagCoversBytes, Serving
<1>15. CASE WorkerPostRx
  <2>0. UNCHANGED <<setting, tx, driver, base, txActive>>
    BY <1>15 DEF WorkerPostRx, ringVars, driverVars, appVars
  <2>1. worker.flag \in BOOLEAN
    BY <1>0 DEF Workers
  <2>2. AfterPush(worker.flag) \in {"read", "drain"}
    BY <2>1, AfterPushIs
  <2>8. worker'.at \notin Serving
    BY <1>0, <2>2, <1>15, PostRxIs DEF Worker, Serving
  <2>9. Fresh(driver)' <=> Fresh(driver)
    BY <2>0 DEF Fresh
  <2> QED
    BY <1>0, <2>0, <2>8, <2>9 DEF FlagCoversBytes, Serving
<1>16. CASE WorkerDrain
  <2>1. UNCHANGED <<setting, driver, base, txActive>> /\ tx' = Rest(tx, Chunk)
    BY <1>16 DEF WorkerDrain, driverVars, appVars
  <2>2. /\ worker'.at \in {"active", "write"}
        /\ worker'.at = "write" => tx # <<>>
    BY <1>0, <1>16, DrainIs DEF Worker
  <2>3. setting.paced => tx' = <<>> /\ Len(tx') = 0
    BY <1>0, <2>1, RestIs, EmptyIs DEF FlagCoversBytes
  <2>4. Fresh(driver)' <=> Fresh(driver)
    BY <2>1 DEF Fresh
  <2> QED
    BY <1>0, <2>1, <2>2, <2>3, <2>4 DEF FlagCoversBytes
<1>17. CASE WorkerWrite
  <2>1. UNCHANGED <<setting, tx, base, txActive>>
    BY <1>17 DEF WorkerWrite, ringVars, appVars
  <2>2. worker.at = "write" /\ worker'.at \in {"postTx", "active"}
    BY <1>0, <1>17, WriteIs DEF Worker, Workers
  <2> QED
    BY <1>0, <2>1, <2>2 DEF FlagCoversBytes, Serving
<1>18. CASE WorkerPostTx
  <2>0. UNCHANGED <<setting, tx, driver, base, txActive>>
    BY <1>18 DEF WorkerPostTx, ringVars, driverVars, appVars
  <2>8. worker.at \in Serving /\ worker'.at \notin {"write", "clear"}
    BY <1>0, <1>18, PostTxIs DEF Worker, Serving
  <2>9. Fresh(driver)' <=> Fresh(driver)
    BY <2>0 DEF Fresh
  <2> QED
    BY <1>0, <2>0, <2>8, <2>9 DEF FlagCoversBytes, Serving
<1>19. CASE WorkerActive
  <2>0. UNCHANGED <<setting, tx, driver, base, txActive>>
    BY <1>19 DEF WorkerActive, ringVars, driverVars, appVars
  <2>8. worker.at \in Serving /\ worker'.at \notin {"write", "clear"}
    BY <1>0, <1>19, ActiveIs DEF Worker, Serving
  <2>9. Fresh(driver)' <=> Fresh(driver)
    BY <2>0 DEF Fresh
  <2> QED
    BY <1>0, <2>0, <2>8, <2>9 DEF FlagCoversBytes, Serving
<1>20. CASE WorkerDone
  <2>0. UNCHANGED <<setting, tx, driver, base, txActive>>
    BY <1>20 DEF WorkerDone, ringVars, driverVars, appVars
  <2>8. /\ worker.at \in Serving /\ worker'.at # "write"
        /\ worker'.at = "clear" => driver = <<>>
    BY <1>0, <1>20, DoneIs DEF Worker, Serving
  <2>9. Fresh(driver)' <=> Fresh(driver)
    BY <2>0 DEF Fresh
  <2> QED
    BY <1>0, <2>0, <2>8, <2>9 DEF FlagCoversBytes, Serving
<1>21. CASE WorkerClear
  <2>1. UNCHANGED <<setting, tx, base, driver>>
    BY <1>21 DEF WorkerClear, driverVars, appVars
  <2>2. worker.at = "clear" /\ worker'.at = "postIdle"
    BY <1>0, <1>21, ClearIs DEF Worker
  <2>3. setting.paced => tx = <<>> /\ driver = <<>>
    BY <1>0, <2>2 DEF FlagCoversBytes, Serving
  <2>4. driver = <<>> => ~Fresh(driver)'
    BY <2>1, EmptyIs DEF Fresh
  <2> QED
    BY <1>0, <2>1, <2>2, <2>3, <2>4 DEF FlagCoversBytes, Serving
<1>22. CASE WorkerPostIdle
  <2>0. UNCHANGED <<setting, tx, driver, base, txActive>>
    BY <1>22 DEF WorkerPostIdle, ringVars, driverVars, appVars
  <2>8. worker'.at \notin Serving
    BY <1>0, <1>22, PostIdleIs DEF Worker, Serving
  <2>9. Fresh(driver)' <=> Fresh(driver)
    BY <2>0 DEF Fresh
  <2> QED
    BY <1>0, <2>0, <2>8, <2>9 DEF FlagCoversBytes, Serving
<1>23. CASE UNCHANGED vars
  <2>1. UNCHANGED <<setting, tx, driver, base, txActive, worker>>
    BY <1>23 DEF vars, ringVars, driverVars, appVars
  <2>2. Fresh(driver)' <=> Fresh(driver)
    BY <2>1 DEF Fresh
  <2> QED
    BY <1>0, <2>1, <2>2 DEF FlagCoversBytes
<1>24. CASE AsyncOpenFails
  <2>1. /\ UNCHANGED <<setting, driver, tx, worker>> /\ base' = written
        /\ app = "run" /\ ~open
    BY <1>24 DEF AsyncOpenFails, driverVars
  <2>2. worker.at = "none" /\ tx = <<>> /\ Len(<<>>) = 0
    BY <2>1 DEF OneWorker
  <2>3. ~Fresh(driver)'
    <3>1. \A i \in 1 .. Len(driver) : driver[i] \in Nat /\ driver[i] <= written
      BY <1>0, BytesAre DEF Chain, UpTo
    <3> QED
      BY <1>0, <2>1, <3>1 DEF Fresh, Chain
  <2> QED
    BY <1>0, <2>1, <2>2, <2>3 DEF FlagCoversBytes, Serving
<1>25. CASE CollectEvents
  <2>1. UNCHANGED <<setting, tx, driver, base, txActive, worker>>
    BY <1>25 DEF CollectEvents, ringVars
  <2>2. Fresh(driver)' <=> Fresh(driver)
    BY <2>1 DEF Fresh
  <2> QED
    BY <1>0, <2>1, <2>2 DEF FlagCoversBytes
<1> QED
  BY <1>1, <1>2, <1>3, <1>4, <1>5, <1>6, <1>7, <1>8, <1>9, <1>10, <1>11, <1>12, <1>13,
     <1>14, <1>15, <1>16, <1>17, <1>18, <1>19, <1>20, <1>21, <1>22, <1>23, <1>24, <1>25
  DEF Next, DriverStep, AppStep, WorkerStep

----------------------------------------------------------------------------
(* The theorems. *)

LEMMA UartStarts ==
  ASSUME Init
  PROVE  UartInv
<1>0. <<>> \in Bytes /\ Len(<<>>) = 0
  BY EmptyIs
<1>1. worker \in Workers /\ worker.at = "none" /\ worker.bytes = <<>>
  BY <1>0 DEF Init, NoWorker, Workers, WorkerSteps
<1>2. WorkerHolds
  BY <1>0, <1>1, UartAssumption DEF WorkerHolds
<1>3. PlainTypes
  <2>1. /\ opens \in 0 .. MaxOpens /\ dropped \in 0 .. MaxDropped /\ base \in Nat
        /\ dataEvents \in Nat /\ errorEvents \in Nat
        /\ dataEvents + errorEvents <= EventCapacity
    BY UartAssumption DEF Init
  <2>2. note \subseteq Notes
    BY DEF Init
  <2>3. /\ setting \in Settings /\ app \in {"run", "closing"} /\ open \in BOOLEAN
        /\ buffers \in BOOLEAN /\ txActive \in BOOLEAN
        /\ reading \in BOOLEAN /\ waiting \in BOOLEAN /\ missed \in BOOLEAN
    BY DEF Init
  <2> QED
    BY <1>2, <2>1, <2>2, <2>3 DEF PlainTypes
<1>4. Chain(0, <<>>, <<>>, <<>>, 0)
  BY <1>0 DEF Chain, Sorted, Above, Before, UpTo
<1>5. Received = <<>> /\ Sending = <<>>
  BY <1>1 DEF Received, Sending
<1>6. Ordered
  BY <1>0, <1>4, <1>5, UartAssumption DEF Init, Ordered, Input, Output
<1>7. OneWorker
  BY <1>1 DEF Init, OneWorker
<1>8. AllNotified
  BY DEF Init, AllNotified, ReaderNotified, WriterNotified, InputAnnounced
<1>9. FlagCoversBytes
  BY <1>0, <1>1, UartAssumption DEF Init, FlagCoversBytes, Fresh, Serving
<1> QED
  BY <1>3, <1>6, <1>7, <1>8, <1>9 DEF UartInv

LEMMA UartStep ==
  ASSUME UartInv, [Next]_vars
  PROVE  UartInv'
<1>1. /\ WorkerHolds /\ worker \in Workers /\ setting \in Settings
      /\ PlainTypes /\ Ordered /\ Input /\ Output /\ OneWorker /\ FlagCoversBytes
      /\ ReaderNotified /\ WriterNotified /\ InputAnnounced
  BY DEF UartInv, PlainTypes, WorkerHolds, Ordered, AllNotified
<1>2. /\ rx \in Bytes /\ hw \in Bytes /\ tx \in Bytes /\ written \in Nat
      /\ Len(tx) <= TxCapacity
  BY <1>1 DEF Input, Output, Chain
<1>3. PlainTypes'
  BY <1>1, PlainStep
<1>4. Ordered'
  BY <1>1, <1>2, InputStep, OutputStep DEF Ordered
<1>5. OneWorker'
  BY <1>1, <1>2, LifeStep
<1>6. ReaderNotified'
  BY <1>1, <1>2, ReaderStep
<1>7. WriterNotified'
  BY <1>1, <1>2, WriterStep
<1>8. InputAnnounced'
  BY <1>1, <1>2, AnnounceStep
<1>9. FlagCoversBytes'
  BY <1>1, <1>2, IdleStep
<1> QED
  BY <1>3, <1>4, <1>5, <1>6, <1>7, <1>8, <1>9 DEF UartInv, AllNotified

\* The invariant of the buffered UART.
THEOREM UartAlways == Spec => []UartInv
<1>1. Init => UartInv
  BY UartStarts
<1>2. UartInv /\ [Next]_vars => UartInv'
  BY UartStep
<1> QED
  BY <1>1, <1>2, PTL DEF Spec

\* Both rings stay within the sizes given to async_open, hold only bytes that
\* arrived or that async_write accepted, and with the worker's buffer and the
\* driver they hold each at most once and in order, over every close and reopen.
THEOREM StreamsKeepOrder == Spec => []RingsInOrder
<1>1. ASSUME UartInv
      PROVE  RingsInOrder
  <2>1. /\ PlainTypes /\ Input /\ Output
        /\ worker.at \in WorkerSteps /\ Len(worker.bytes) <= Chunk
    BY <1>1 DEF UartInv, PlainTypes, WorkerHolds, Workers, Ordered
  <2>2. ASSUME NEW s \in Bytes, NEW n \in Nat, NEW m \in Nat, Above(n, s), UpTo(s, m)
        PROVE  s \in Seq(1 .. m)
    <3>1. Len(s) \in Nat /\ \A i \in 1 .. Len(s) : s[i] \in 1 .. m
      BY <2>2, BytesAre DEF Above, UpTo
    <3>2. s = [i \in 1 .. Len(s) |-> s[i]]
      BY LenProperties DEF Bytes
    <3>3. [i \in 1 .. Len(s) |-> s[i]] \in Seq(1 .. m)
      BY <3>1, IsASeq
    <3> QED
      BY <3>2, <3>3
  <2>3. rx \in Seq(1 .. arrived)
    BY <2>1, <2>2 DEF Input, Chain
  <2>4. tx \in Seq(1 .. written)
    BY <2>1, <2>2 DEF Output, Chain
  <2>5. dataEvents + errorEvents \in 0 .. EventCapacity /\ missed \in BOOLEAN
    BY <2>1, UartAssumption DEF PlainTypes
  <2>6. TypeOK
    BY <2>1, <2>3, <2>4, <2>5 DEF TypeOK, PlainTypes, Input, Output
  <2>7. Increasing(<<seen>> \o rx \o Received \o hw)
    BY <2>1, ChainIncreases DEF Input
  <2>8. Increasing(<<sent>> \o driver \o Sending \o tx)
    BY <2>1, ChainIncreases DEF Output
  <2> QED
    BY <2>6, <2>7, <2>8 DEF RingsInOrder, InOrder, Received, Sending
<1> QED
  BY <1>1, UartAlways, PTL

\* async_close frees the ring buffers only after the worker's last access to them,
\* and no open creates a second worker beside one that is still running.
THEOREM WorkerHasBuffers == Spec => [](BuffersOutliveWorker /\ OneWorker)
<1>1. UartInv => BuffersOutliveWorker /\ OneWorker
  BY DEF UartInv, OneWorker, BuffersOutliveWorker
<1> QED
  BY <1>1, UartAlways, PTL

\* Nobody waits for an event that is not on its way: the application for bytes in
\* the receive ring or for room in the transmit ring, the worker for bytes in the
\* driver, although each event is posted only on a change.  Any number of line
\* errors may take the places of the driver's queue: bytes wait unannounced only
\* after their event found it full of errors, or was collected while the stream was
\* closed, and until the next event that finds room.
THEOREM NobodyIsForgotten == Spec => []AllNotified
<1>1. UartInv => AllNotified
  BY DEF UartInv
<1> QED
  BY <1>1, UartAlways, PTL

\* On one core, for a program that writes one chunk at most and only to an idle
\* stream, tx_idle answers true only when every byte of the session is on the
\* wire, however the worker and the driver interleave.
THEOREM IdleStreamsAreSent == Spec => []TxIdleMeansSent
<1>1. ASSUME UartInv
      PROVE  TxIdleMeansSent
  <2> SUFFICES ASSUME open, TxIdle, AppRuns, setting.paced,
                      NEW b \in (base + 1) .. written
               PROVE  b \notin ToSet(driver \o worker.bytes)
    BY DEF TxIdleMeansSent
  <2>1. /\ setting \in Settings /\ FlagCoversBytes /\ driver \in Bytes /\ base \in Nat
        /\ worker.at \notin {"push", "write"} => worker.bytes = <<>>
        /\ written \in Nat
    BY <1>1 DEF UartInv, PlainTypes, WorkerHolds, Ordered, Output, Chain
  <2>2. ~txActive /\ worker.at \in {"none", "queue", "write"}
    BY <2>1 DEF TxIdle, AppRuns, Settings
  <2>3. worker.bytes = <<>> /\ ~Fresh(driver)
    BY <2>1, <2>2 DEF FlagCoversBytes
  <2>4. driver \o worker.bytes = driver
    BY <2>1, <2>3, ConcatEmptySeq DEF Bytes
  <2>5. \A i \in 1 .. Len(driver) : driver[i] # b
    BY <2>1, <2>3, BytesAre DEF Fresh
  <2>6. DOMAIN driver = 1 .. Len(driver)
    BY <2>1, LenProperties DEF Bytes
  <2> QED
    BY <2>4, <2>5, <2>6 DEF ToSet
<1> QED
  BY <1>1, UartAlways, PTL

----------------------------------------------------------------------------
(* Both directions are streams whose bytes are accounted for. *)

LEMMA SameBytes ==
  ASSUME NEW s \in Bytes, NEW t \in Bytes, Len(s) = Len(t),
         \A i \in 1 .. Len(s) : s[i] = t[i]
  PROVE  s = t
  BY SeqEqual DEF Bytes

LEMMA JoinAssociates ==
  ASSUME NEW s \in Bytes, NEW t \in Bytes, NEW u \in Bytes
  PROVE  (s \o t) \o u = s \o (t \o u)
<1> DEFINE l == (s \o t) \o u
           r == s \o (t \o u)
<1>1. s \in Seq(Nat) /\ t \in Seq(Nat) /\ u \in Seq(Nat)
  BY DEF Bytes
<1>2. l \in Seq(Nat) /\ r \in Seq(Nat) /\ Len(l) = Len(r)
  BY <1>1
<1>3. \A i \in 1 .. Len(l) : l[i] = r[i]
  BY <1>1
<1> HIDE DEF l, r
<1>4. l = r
  BY <1>2, <1>3, SeqEqual
<1> QED
  BY <1>4 DEF l, r

\* The same as a predicate, which a prover does not apply to its own outcome.
Regroups(s, t, u) == (s \o t) \o u = s \o (t \o u)

LEMMA JoinRegroups ==
  ASSUME NEW s \in Bytes, NEW t \in Bytes, NEW u \in Bytes
  PROVE  Regroups(s, t, u)
  BY JoinAssociates DEF Regroups

LEMMA JoinNothing ==
  ASSUME NEW s \in Bytes
  PROVE  s \o <<>> = s /\ <<>> \o s = s
  BY ConcatEmptySeq DEF Bytes

\* Cut in two and joined again.
LEMMA TakeAndRest ==
  ASSUME NEW s \in Bytes, NEW k \in Nat
  PROVE  Take(s, k) \o Rest(s, k) = s
<1> DEFINE a == Take(s, k)
           b == Rest(s, k)
<1>1. /\ a \in Bytes /\ Len(a) \in Nat /\ (Len(s) <= k => Len(a) = Len(s))
      /\ (Len(s) > k => Len(a) = k) /\ \A i \in 1 .. Len(a) : a[i] = s[i]
  BY TakeIs
<1>2. /\ b \in Bytes /\ Len(b) \in Nat /\ (Len(s) <= k => b = <<>>)
      /\ (Len(s) > k => Len(b) = Len(s) - k)
      /\ \A i \in 1 .. Len(b) : b[i] = s[i + k]
  BY RestIs
<1>3. Len(s) \in Nat /\ (b = <<>> => Len(b) = 0)
  BY BytesAre, EmptyIs
<1> HIDE DEF a, b
<1>4. /\ a \o b \in Bytes /\ Len(a \o b) = Len(a) + Len(b)
      /\ \A i \in 1 .. Len(a) : (a \o b)[i] = a[i]
      /\ \A i \in 1 .. Len(a \o b) :
           i \in 1 .. Len(a) \/ (i - Len(a) \in 1 .. Len(b) /\ (a \o b)[i] = b[i - Len(a)])
  BY <1>1, <1>2, JoinIs
<1>5. Len(a \o b) = Len(s)
  BY <1>1, <1>2, <1>3, <1>4
<1>6. ASSUME NEW i \in 1 .. Len(a \o b)
      PROVE  (a \o b)[i] = s[i]
  <2>1. CASE i \in 1 .. Len(a)
    BY <1>1, <1>4, <2>1
  <2>2. CASE i \notin 1 .. Len(a)
    <3>1. i - Len(a) \in 1 .. Len(b) /\ (a \o b)[i] = b[i - Len(a)]
      BY <1>4, <2>2
    <3>2. Len(a) = k
      BY <1>1, <1>2, <1>3, <3>1
    <3>3. b[i - Len(a)] = s[i - Len(a) + k] /\ i - Len(a) + k = i
      BY <1>1, <1>2, <3>1, <3>2
    <3> QED
      BY <3>1, <3>3
  <2> QED
    BY <2>1, <2>2
<1> QED
  BY <1>4, <1>5, <1>6, SameBytes DEF a, b

\* A joined sequence, cut within its first part or at its end.
LEMMA CutJoined ==
  ASSUME NEW s \in Bytes, NEW t \in Bytes, NEW k \in Nat, k <= Len(s)
  PROVE  /\ SubSeq(s \o t, 1, Len(s)) = s
         /\ SubSeq(s \o t, k + 1, Len(s \o t)) = Rest(s, k) \o t
<1> DEFINE u == s \o t
           r == Rest(s, k)
           v == Rest(u, k)
           w == Take(u, Len(s))
<1>1. /\ u \in Bytes /\ Len(s) \in Nat /\ Len(t) \in Nat /\ Len(u) = Len(s) + Len(t)
      /\ \A i \in 1 .. Len(s) : u[i] = s[i]
      /\ \A i \in 1 .. Len(u) :
           i \in 1 .. Len(s) \/ (i - Len(s) \in 1 .. Len(t) /\ u[i] = t[i - Len(s)])
  BY JoinIs
<1>2. v = SubSeq(u, k + 1, Len(u))
  BY DEF Rest
<1> HIDE DEF u
<1>3. /\ w \in Bytes /\ Len(w) = Len(s) /\ \A i \in 1 .. Len(w) : w[i] = u[i]
  <2>1. /\ w \in Bytes /\ Len(w) \in Nat /\ (Len(u) <= Len(s) => Len(w) = Len(u))
        /\ (Len(u) > Len(s) => Len(w) = Len(s)) /\ \A i \in 1 .. Len(w) : w[i] = u[i]
    BY <1>1, TakeIs
  <2> HIDE DEF w
  <2> QED
    BY <1>1, <2>1
<1>4. w = s
  <2> HIDE DEF w
  <2> QED
    BY <1>1, <1>3, SameBytes
<1>5. w = SubSeq(u, 1, Len(s))
  BY <1>1 DEF Take, Least
<1>6. r \in Bytes /\ Len(r) = Len(s) - k /\ \A i \in 1 .. Len(r) : r[i] = s[i + k]
  <2>1. /\ r \in Bytes /\ Len(r) \in Nat /\ (Len(s) <= k => r = <<>>)
        /\ (Len(s) > k => Len(r) = Len(s) - k) /\ \A i \in 1 .. Len(r) : r[i] = s[i + k]
    BY RestIs
  <2> HIDE DEF r
  <2>2. Len(r) = Len(s) - k
    <3>1. r = <<>> => Len(r) = 0
      BY EmptyIs
    <3>2. Len(s) \in Nat /\ k \in Nat /\ k <= Len(s)
      BY <1>1
    <3> QED
      BY <2>1, <3>1, <3>2
  <2>3. \A i \in 1 .. Len(r) : r[i] = s[i + k]
    BY <2>1
  <2> QED
    BY <2>1, <2>2, <2>3
<1> HIDE DEF r, w
<1>7. v \in Bytes /\ Len(v) = Len(u) - k /\ \A i \in 1 .. Len(v) : v[i] = u[i + k]
  <2>1. /\ v \in Bytes /\ Len(v) \in Nat /\ (Len(u) <= k => v = <<>>)
        /\ (Len(u) > k => Len(v) = Len(u) - k) /\ \A i \in 1 .. Len(v) : v[i] = u[i + k]
    <3>1. u \in Bytes
      BY <1>1
    <3> QED
      BY <3>1, RestIs
  <2> HIDE DEF v
  <2>2. Len(v) = Len(u) - k
    <3>1. v = <<>> => Len(v) = 0
      BY EmptyIs
    <3>2. Len(u) \in Nat /\ k \in Nat /\ k <= Len(u)
      BY <1>1
    <3> QED
      BY <2>1, <3>1, <3>2
  <2>3. \A i \in 1 .. Len(v) : v[i] = u[i + k]
    BY <2>1
  <2> QED
    BY <2>1, <2>2, <2>3
<1> HIDE DEF v
<1>8. /\ r \o t \in Bytes /\ Len(r \o t) = Len(r) + Len(t)
      /\ \A i \in 1 .. Len(r) : (r \o t)[i] = r[i]
      /\ \A i \in 1 .. Len(r \o t) :
           i \in 1 .. Len(r) \/ (i - Len(r) \in 1 .. Len(t) /\ (r \o t)[i] = t[i - Len(r)])
  BY <1>6, JoinIs
<1>9. ASSUME NEW i \in 1 .. Len(v)
      PROVE  v[i] = (r \o t)[i]
  <2>1. v[i] = u[i + k] /\ i + k \in 1 .. Len(u) /\ i \in 1 .. Len(r \o t)
    BY <1>1, <1>6, <1>7, <1>8
  <2>2. CASE i \in 1 .. Len(r)
    <3>1. i + k \in 1 .. Len(s)
      BY <1>1, <1>6, <2>2
    <3>2. u[i + k] = s[i + k] /\ r[i] = s[i + k] /\ (r \o t)[i] = r[i]
      BY <1>1, <1>6, <1>8, <2>2, <3>1
    <3> QED
      BY <2>1, <3>2
  <2>3. CASE i \notin 1 .. Len(r)
    <3>1. (r \o t)[i] = t[i - Len(r)]
      BY <1>8, <2>1, <2>3
    <3>2. i + k \notin 1 .. Len(s) /\ i + k - Len(s) = i - Len(r)
      BY <1>1, <1>6, <2>3
    <3>3. u[i + k] = t[i + k - Len(s)]
      <4>1. i + k \in 1 .. Len(u) /\ i + k \notin 1 .. Len(s)
        BY <2>1, <3>2
      <4> DEFINE j == i + k
      <4> HIDE DEF j
      <4>2. j \in 1 .. Len(u) /\ j \notin 1 .. Len(s) => u[j] = t[j - Len(s)]
        BY <1>1
      <4> QED
        BY <4>1, <4>2 DEF j
    <3>4. v[i] = u[i + k] /\ i + k - Len(s) = i - Len(r)
      BY <2>1, <3>2
    <3> QED
      BY <3>1, <3>3, <3>4
  <2> QED
    BY <2>2, <2>3
<1>10. v = r \o t
  <2>1. Len(v) = Len(r \o t)
    BY <1>1, <1>6, <1>7, <1>8
  <2> QED
    BY <1>7, <1>8, <1>9, <2>1, SameBytes
<1> QED
  BY <1>2, <1>4, <1>5, <1>10 DEF u, r

\* The bytes that are on their way to the program, and those on their way out.
InQueue == rx \o Received \o hw
OutQueue == driver \o Sending \o tx

\* What the steps below use of the invariant.
InParts ==
  /\ rx \in Bytes /\ Received \in Bytes /\ hw \in Bytes /\ arrived \in Nat
  /\ Len(rx) <= RxCapacity
  /\ worker \in Workers /\ dropped \in Nat /\ OneWorker
  /\ RxCapacity \in Nat /\ Chunk \in Nat /\ MaxDropped \in Nat

LEMMA InPartsHold ==
  ASSUME UartInv
  PROVE  InParts
<1>1. /\ PlainTypes /\ Input /\ OneWorker /\ WorkerHolds /\ dropped \in Nat
  BY DEF UartInv, PlainTypes, Ordered
<1> QED
  BY <1>1, UartAssumption DEF InParts, Input, Chain, WorkerHolds

LEMMA InStutters ==
  ASSUME UNCHANGED <<open, rx, Received, hw, arrived, seen, dropped>>
  PROVE  UNCHANGED Incoming!vars
  BY DEF Incoming!vars

LEMMA ArriveArrives ==
  ASSUME InParts, Arrive
  PROVE  Incoming!Arrive
<1>1. /\ hw' = Append(hw, arrived + 1) /\ arrived' = arrived + 1
      /\ UNCHANGED <<open, rx, worker, seen, dropped>>
  BY DEF Arrive, ringVars, appVars
<1>2. Received' = Received
  BY <1>1 DEF Received
<1> DEFINE x == arrived + 1
           a == rx \o Received
<1>3. x \in Nat /\ hw \in Bytes /\ a \in Bytes
  <2>1. arrived \in Nat /\ hw \in Bytes /\ rx \in Bytes /\ Received \in Bytes
    BY DEF InParts
  <2> QED
    BY <2>1, JoinIs
<1>4. <<x>> \in Bytes
  BY <1>3 DEF Bytes
<1> HIDE DEF x, a
<1>5. a \o hw \in Bytes
  BY <1>3, JoinIs
<1>6. Append(hw, x) = hw \o <<x>> /\ Append(a \o hw, x) = (a \o hw) \o <<x>>
  BY <1>3, <1>5, AppendIsConcat DEF Bytes
<1>7. (a \o hw) \o <<x>> = a \o (hw \o <<x>>)
  BY <1>3, <1>4, JoinAssociates
<1>8. a \o Append(hw, x) = Append(a \o hw, x)
  BY <1>6, <1>7
<1> QED
  BY <1>1, <1>2, <1>8 DEF Incoming!Arrive, a, x

LEMMA OpenOpens ==
  ASSUME InParts, AsyncOpen \/ AsyncOpenFails
  PROVE  Incoming!Open
<1>1. /\ ~open /\ open' \in BOOLEAN /\ dropped' = 0 /\ rx' = rx
      /\ UNCHANGED <<hw, arrived, seen>>
  <2>1. CASE AsyncOpen
    <3>1. rx = <<>>
      BY <2>1 DEF AsyncOpen, InParts, OneWorker
    <3> QED
      BY <2>1, <3>1 DEF AsyncOpen, driverVars
  <2>2. CASE AsyncOpenFails
    <3>1. open' = FALSE
      BY <2>2 DEF AsyncOpenFails
    <3> QED
      BY <2>2, <3>1 DEF AsyncOpenFails, driverVars, appVars
  <2> QED
    BY <2>1, <2>2
<1>2. Received' = Received
  <2>1. worker.at = "none"
    BY DEF AsyncOpen, AsyncOpenFails, InParts, OneWorker
  <2>2. CASE AsyncOpen
    BY <2>1, <2>2, OpenIs DEF Received, Worker
  <2>3. CASE AsyncOpenFails
    BY <2>3 DEF AsyncOpenFails, Received
  <2> QED
    BY <2>2, <2>3
<1> QED
  BY <1>1, <1>2 DEF Incoming!Open

LEMMA CloseCloses ==
  ASSUME AsyncClose
  PROVE  Incoming!Close
<1>1. Received' = Received
  BY DEF AsyncClose, Received
<1> QED
  BY <1>1 DEF AsyncClose, Incoming!Close, driverVars

\* A read takes what there is.
LEMMA ReadReads ==
  ASSUME InParts, NEW n \in 1 .. RxCapacity, AsyncRead(n)
  PROVE  \/ UNCHANGED Incoming!vars
         \/ \E m \in 1 .. Len(InQueue) : Incoming!Read(m)
<1>1. /\ open /\ rx' = Rest(rx, n) /\ seen' = IF rx = <<>> THEN seen ELSE Last(Take(rx, n))
      /\ UNCHANGED <<open, hw, worker, arrived, dropped>>
  BY DEF AsyncRead, driverVars
<1>2. Received' = Received
  BY <1>1 DEF Received
<1>3. n \in Nat \ {0} /\ Len(rx) \in Nat /\ rx \in Bytes
  BY BytesAre DEF InParts
<1>4. CASE rx = <<>>
  <2>1. rx' = <<>>
    BY <1>1, <1>3, <1>4, RestIs, EmptyIs
  <2> QED
    BY <1>1, <1>2, <1>4, <2>1, InStutters
<1>5. CASE rx # <<>>
  <2> DEFINE m == Least(n, Len(rx))
             t == Received \o hw
  <2>1. m \in 1 .. Len(rx) /\ (n <= Len(rx) => m = n) /\ (n > Len(rx) => m = Len(rx))
    BY <1>3, <1>5, BytesAre DEF Least
  <2>2. t \in Bytes /\ InQueue = rx \o t /\ InQueue' = rx' \o t
    <3>1. t \in Bytes
      BY JoinIs DEF InParts
    <3>2. rx' \in Bytes
      BY <1>1, <1>3, RestIs
    <3>3. Received \in Bytes /\ hw \in Bytes
      BY DEF InParts
    <3>4. (rx \o Received) \o hw = rx \o t /\ (rx' \o Received) \o hw = rx' \o t
      <4>1. Regroups(rx, Received, hw) /\ Regroups(rx', Received, hw)
        BY <1>3, <3>2, <3>3, JoinRegroups DEF InParts
      <4> QED
        BY <4>1 DEF Regroups
    <3>5. InQueue = (rx \o Received) \o hw /\ InQueue' = (rx' \o Received) \o hw
      BY <1>1, <1>2 DEF InQueue
    <3> QED
      BY <3>1, <3>4, <3>5
  <2>3. Last(Take(rx, n)) = rx[m]
    <3> DEFINE u == Take(rx, n)
    <3>1. Len(u) = m /\ \A i \in 1 .. m : u[i] = rx[i]
      <4>1. /\ Len(u) \in Nat /\ (Len(rx) <= n => Len(u) = Len(rx))
            /\ (Len(rx) > n => Len(u) = n) /\ \A i \in 1 .. Len(u) : u[i] = rx[i]
        BY <1>3, TakeIs
      <4> HIDE DEF u, m
      <4> QED
        BY <1>3, <2>1, <4>1
    <3> HIDE DEF u, m
    <3> QED
      BY <2>1, <3>1 DEF Last, u
  <2>4. Rest(rx, n) = Rest(rx, m)
    BY <1>3, <2>1, RestIs
  <2> HIDE DEF m, t
  <2>5. /\ Len(rx \o t) \in Nat /\ m <= Len(rx \o t) /\ (rx \o t)[m] = rx[m]
    <3>1. /\ Len(rx \o t) = Len(rx) + Len(t) /\ Len(t) \in Nat
          /\ \A i \in 1 .. Len(rx) : (rx \o t)[i] = rx[i]
      BY <1>3, <2>2, JoinIs
    <3> QED
      BY <1>3, <2>1, <3>1
  <2>6. SubSeq(rx \o t, m + 1, Len(rx \o t)) = Rest(rx, m) \o t
    <3>1. m \in Nat /\ m <= Len(rx)
      BY <1>3, <2>1
    <3> QED
      BY <1>3, <2>2, <3>1, CutJoined
  <2>7. Incoming!Read(m)
    <3>1. seen' = InQueue[m] /\ InQueue' = SubSeq(InQueue, m + 1, Len(InQueue))
      BY <1>1, <1>5, <2>2, <2>3, <2>4, <2>5, <2>6
    <3> QED
      BY <1>1, <3>1 DEF InQueue, Incoming!Read, Incoming!From
  <2>8. m \in 1 .. Len(InQueue)
    BY <2>1, <2>2, <2>5
  <2> QED
    BY <2>7, <2>8
<1> QED
  BY <1>4, <1>5

\* What is freed with the ring.
LEMMA CloseDiscards ==
  ASSUME InParts, CloseDone
  PROVE  \/ UNCHANGED Incoming!vars
         \/ \E m \in 1 .. Len(InQueue) : Incoming!Discard(m)
<1>1. ~open /\ rx' = <<>> /\ UNCHANGED <<open, hw, worker, arrived, seen, dropped>>
  BY DEF CloseDone, InParts, OneWorker, driverVars
<1>2. Received' = Received
  BY <1>1 DEF Received
<1>3. CASE rx = <<>>
  BY <1>1, <1>2, <1>3, InStutters
<1>4. CASE rx # <<>>
  <2> DEFINE m == Len(rx)
             t == Received \o hw
  <2>1. m \in Nat \ {0} /\ rx \in Bytes /\ m <= RxCapacity /\ t \in Bytes
    BY <1>4, BytesAre, JoinIs DEF InParts
  <2>2. InQueue = rx \o t /\ InQueue' = t
    <3>1. (<<>> \o Received) \o hw = <<>> \o t /\ <<>> \o t = t
      BY <2>1, EmptyIs, JoinAssociates, JoinNothing DEF InParts
    <3> HIDE DEF t
    <3>2. (rx \o Received) \o hw = rx \o t
      BY <2>1, JoinAssociates DEF InParts, t
    <3> QED
      BY <1>1, <1>2, <3>1, <3>2 DEF InQueue
  <2> HIDE DEF t
  <2>3. SubSeq(rx \o t, m + 1, Len(rx \o t)) = Rest(rx, m) \o t
    <3>1. m \in Nat /\ m <= Len(rx)
      BY <2>1, BytesAre
    <3> HIDE DEF m
    <3> QED
      BY <2>1, <3>1, CutJoined
  <2>4. Rest(rx, m) \o t = t
    <3>1. Rest(rx, m) = <<>>
      BY <2>1, RestIs
    <3> QED
      BY <2>1, <3>1, JoinNothing
  <2>5. m \in 1 .. Len(rx \o t)
    <3>1. Len(rx \o t) = m + Len(t) /\ Len(t) \in Nat
      BY <2>1, JoinIs
    <3> QED
      BY <2>1, <3>1
  <2> HIDE DEF m
  <2>6. InQueue' = SubSeq(InQueue, m + 1, Len(InQueue))
    BY <2>2, <2>3, <2>4
  <2>7. Incoming!Discard(m)
    BY <1>1, <2>1, <2>6 DEF InQueue, Incoming!Discard, Incoming!From
  <2> QED
    BY <2>2, <2>5, <2>7
<1> QED
  BY <1>3, <1>4

\* The worker takes bytes from the driver.
LEMMA ReadMoves ==
  ASSUME InParts, WorkerRead
  PROVE  UNCHANGED Incoming!vars
<1>1. /\ worker.at = "read" /\ hw' = Rest(hw, Chunk)
      /\ UNCHANGED <<open, rx, arrived, seen, dropped>>
  BY DEF WorkerRead, WorkerAt, ringVars, appVars
<1>2. Received = <<>>
  BY <1>1 DEF Received
<1>3. Received' = Take(hw, Chunk)
  <2>1. CASE hw = <<>>
    <3>1. Take(hw, Chunk) = <<>>
      <4>1. Take(hw, Chunk) \in Bytes /\ Len(Take(hw, Chunk)) \in Nat
            /\ Len(Take(hw, Chunk)) <= 0
        BY <2>1, TakeIs, EmptyIs DEF InParts
      <4> QED
        BY <4>1, BytesAre
    <3> QED
      BY <2>1, <3>1, ReadIs DEF Received, Worker, InParts
  <2>2. CASE hw # <<>>
    BY <2>2, ReadIs DEF Received, Worker, InParts
  <2> QED
    BY <2>1, <2>2
<1>4. InQueue' = InQueue
  <2> DEFINE a == Take(hw, Chunk)
             b == Rest(hw, Chunk)
  <2>1. a \in Bytes /\ b \in Bytes /\ a \o b = hw
    BY TakeIs, RestIs, TakeAndRest DEF InParts
  <2> HIDE DEF a, b
  <2>2. (rx \o a) \o b = rx \o hw /\ rx \o <<>> = rx
    <3>1. Regroups(rx, a, b) /\ rx \o <<>> = rx
      BY <2>1, JoinRegroups, JoinNothing DEF InParts
    <3> QED
      BY <2>1, <3>1 DEF Regroups
  <2> QED
    BY <1>1, <1>2, <1>3, <2>2 DEF InQueue, a, b
<1> QED
  BY <1>1, <1>4 DEF Incoming!vars, InQueue

\* It puts them into the ring, as many as fit; the others are counted.
LEMMA PushOverflows ==
  ASSUME InParts, WorkerPush
  PROVE  \/ UNCHANGED Incoming!vars
         \/ \E m \in 1 .. Len(InQueue) : Incoming!Overflow(m)
<1> DEFINE b == worker.bytes
           free == RxCapacity - Len(rx)
           a == Take(b, free)
           n == Len(b) - free
<1>1. /\ worker.at = "push" /\ rx' = rx \o a
      /\ dropped' = IF n > 0 THEN Least(dropped + n, MaxDropped) ELSE dropped
      /\ UNCHANGED <<open, hw, arrived, seen>>
  BY DEF WorkerPush, WorkerAt, driverVars, appVars
<1>2. Received = b /\ b \in Bytes /\ rx \in Bytes /\ hw \in Bytes
  BY <1>1 DEF Received, InParts
<1>3. Received' = <<>>
  <2>1. worker.flag \in BOOLEAN
    BY DEF InParts, Workers
  <2>2. AfterPush(worker.flag) \in {"read", "drain"}
    BY <2>1, AfterPushIs
  <2>3. worker'.at # "push"
    BY <2>2, PushIs DEF InParts, Worker
  <2> QED
    BY <2>3 DEF Received
<1>4. /\ Len(rx) \in Nat /\ Len(b) \in Nat /\ free \in Nat /\ n \in Int
      /\ dropped \in Nat /\ RxCapacity \in Nat /\ MaxDropped \in Nat
  BY <1>2, BytesAre DEF InParts
<1>5. /\ a \in Bytes /\ Len(a) \in Nat
      /\ (Len(b) <= free => Len(a) = Len(b)) /\ (Len(b) > free => Len(a) = free)
      /\ \A i \in 1 .. Len(a) : a[i] = b[i]
  BY <1>2, <1>4, TakeIs
<1> HIDE DEF a, b
<1>6. rx \o a \in Bytes
  BY <1>2, <1>5, JoinIs
<1>7. InQueue = (rx \o b) \o hw /\ InQueue' = (rx \o a) \o hw
  BY <1>1, <1>2, <1>3, <1>6, JoinNothing DEF InQueue
<1>8. CASE n <= 0
  <2>1. a = b
    <3>1. Len(a) = Len(b)
      BY <1>4, <1>5, <1>8
    <3> QED
      BY <1>2, <1>5, <3>1, SameBytes
  <2> QED
    BY <1>1, <1>4, <1>7, <1>8, <2>1 DEF Incoming!vars, InQueue
<1>9. CASE n > 0
  <2> DEFINE r == Rest(b, free)
  <2>1. r \in Bytes /\ a \o r = b
    BY <1>2, <1>4, RestIs, TakeAndRest DEF a
  <2> HIDE DEF r
  <2>2. r \o hw \in Bytes /\ rx \o b \in Bytes
    BY <1>2, <2>1, JoinIs
  <2>3. Len(rx \o a) = RxCapacity /\ Len(rx \o b) = RxCapacity + n
    <3>1. Len(rx \o a) = Len(rx) + Len(a) /\ Len(rx \o b) = Len(rx) + Len(b)
      BY <1>2, <1>5, JoinIs
    <3> QED
      BY <1>4, <1>5, <1>9, <3>1
  <2>4. InQueue = (rx \o a) \o (r \o hw)
    <3>0. Regroups(rx, a, r) /\ Regroups(rx \o a, r, hw)
      BY <1>2, <1>5, <1>6, <2>1, JoinRegroups
    <3>1. rx \o b = (rx \o a) \o r
      BY <2>1, <3>0 DEF Regroups
    <3>2. ((rx \o a) \o r) \o hw = (rx \o a) \o (r \o hw)
      BY <3>0 DEF Regroups
    <3> QED
      BY <1>7, <3>1, <3>2
  <2>5. SubSeq(InQueue, 1, RxCapacity) = rx \o a
    <3>1. 0 \in Nat /\ 0 <= Len(rx \o a)
      BY <1>4, <2>3
    <3> QED
      BY <1>6, <2>2, <2>3, <2>4, <3>1, CutJoined
  <2>6. SubSeq(InQueue, RxCapacity + n + 1, Len(InQueue)) = hw
    <3> DEFINE k == RxCapacity + n
    <3>1. k \in Nat /\ k <= Len(rx \o b)
      BY <1>4, <1>9, <2>3
    <3>2. SubSeq((rx \o b) \o hw, k + 1, Len((rx \o b) \o hw)) = Rest(rx \o b, k) \o hw
      <4> HIDE DEF k
      <4> QED
        BY <1>2, <2>2, <3>1, CutJoined
    <3>3. Rest(rx \o b, k) = <<>>
      <4>1. Len(rx \o b) <= k
        BY <1>4, <2>3
      <4> HIDE DEF k
      <4> QED
        BY <2>2, <3>1, <4>1, RestIs
    <3>4. <<>> \o hw = hw
      BY <1>2, JoinNothing
    <3> QED
      BY <1>7, <3>2, <3>3, <3>4
  <2>7. RxCapacity + n <= Len(InQueue) /\ n \in 1 .. Len(InQueue)
    <3>1. Len((rx \o b) \o hw) = Len(rx \o b) + Len(hw) /\ Len(hw) \in Nat
      BY <1>2, <2>2, JoinIs
    <3> QED
      BY <1>4, <1>7, <1>9, <2>3, <3>1
  <2>8. dropped' = IF dropped + n < MaxDropped THEN dropped + n ELSE MaxDropped
    BY <1>1, <1>4, <1>9 DEF Least
  <2>9. Incoming!Overflow(n)
    <3> HIDE DEF n
    <3>1. InQueue' = SubSeq(InQueue, 1, RxCapacity)
                       \o SubSeq(InQueue, RxCapacity + n + 1, Len(InQueue))
      BY <1>7, <2>5, <2>6
    <3> QED
      BY <1>1, <2>7, <2>8, <3>1 DEF InQueue, Incoming!Overflow, Incoming!From
  <2> QED
    BY <2>7, <2>9
<1> QED
  BY <1>4, <1>8, <1>9

\* A step of the worker, or of the program, that moves no received byte.
LEMMA InQuiet ==
  ASSUME InParts,
         \/ LineError \/ Transmit \/ WorkerTop \/ WorkerQueue \/ WorkerPostError
         \/ WorkerPostRx \/ WorkerDrain \/ WorkerWrite \/ WorkerPostTx
         \/ WorkerActive \/ WorkerDone \/ WorkerClear \/ WorkerPostIdle
         \/ CollectEvents
         \/ (\E n \in 1 .. TxCapacity : AsyncWrite(n))
         \/ (\E kind \in Notes : TakeNote(kind))
         \/ UNCHANGED vars
  PROVE  UNCHANGED Incoming!vars
<1>1. UNCHANGED <<open, rx, hw, arrived, seen, dropped>>
  BY DEF LineError, Transmit, WorkerTop, WorkerQueue, WorkerPostError, WorkerPostRx,
         WorkerDrain, WorkerWrite, WorkerPostTx, WorkerActive, WorkerDone, WorkerClear,
         WorkerPostIdle, CollectEvents, AsyncWrite, TakeNote, vars, ringVars, driverVars,
         appVars
<1>2. Received' = Received
  <2>1. worker' = worker \/ (worker.at # "push" /\ worker'.at # "push")
    <3>1. worker \in Workers /\ worker.flag \in BOOLEAN
      BY DEF InParts, Workers
    <3>2. AfterPush(worker.flag) \in {"read", "drain"}
      BY <3>1, AfterPushIs
    <3>3. WorkerTop => worker.at # "push" /\ worker'.at # "push"
      BY <3>1, TopIs DEF Worker
    <3>4. WorkerQueue \/ WorkerPostError \/ WorkerPostRx =>
            worker.at # "push" /\ worker'.at # "push"
      BY <3>1, <3>2, QueueIs, PostErrorIs, PostRxIs DEF Worker
    <3>5. WorkerDrain \/ WorkerWrite \/ WorkerPostTx =>
            worker.at # "push" /\ worker'.at # "push"
      <4>1. WorkerDrain => worker.at = "drain" /\ worker'.at \in {"active", "write"}
        BY DEF WorkerDrain, WorkerAt
      <4>2. WorkerWrite => worker.at = "write" /\ worker'.at \in {"active", "postTx"}
        BY <3>1, WriteIs DEF Worker
      <4>3. WorkerPostTx => worker.at = "postTx" /\ worker'.at = "active"
        BY <3>1, PostTxIs DEF Worker
      <4> QED
        BY <4>1, <4>2, <4>3
    <3>6. WorkerActive \/ WorkerDone \/ WorkerClear \/ WorkerPostIdle =>
            worker.at # "push" /\ worker'.at # "push"
      BY <3>1, ActiveIs, DoneIs, ClearIs, PostIdleIs DEF Worker
    <3>7. (\/ LineError \/ Transmit \/ CollectEvents
           \/ (\E n \in 1 .. TxCapacity : AsyncWrite(n))
           \/ (\E kind \in Notes : TakeNote(kind)) \/ UNCHANGED vars)
             => worker' = worker
      BY DEF LineError, Transmit, CollectEvents, AsyncWrite, TakeNote, vars
    <3> QED
      BY <3>3, <3>4, <3>5, <3>6, <3>7
  <2> QED
    BY <2>1 DEF Received
<1> QED
  BY <1>1, <1>2, InStutters

OutParts ==
  /\ driver \in Bytes /\ Sending \in Bytes /\ tx \in Bytes /\ written \in Nat
  /\ Len(tx) <= TxCapacity /\ Len(Sending) <= Chunk
  /\ worker \in Workers /\ OneWorker
  /\ TxCapacity \in Nat /\ Chunk \in Nat

LEMMA OutPartsHold ==
  ASSUME UartInv
  PROVE  OutParts
<1>1. PlainTypes /\ Output /\ OneWorker /\ WorkerHolds
  BY DEF UartInv, PlainTypes, Ordered
<1>2. Len(Sending) <= Chunk
  <2>1. Len(<<>>) <= Chunk
    BY UartAssumption, EmptyIs
  <2> QED
    BY <1>1, <2>1 DEF Sending, WorkerHolds
<1> QED
  BY <1>1, <1>2, UartAssumption DEF OutParts, Output, Chain, WorkerHolds

\* Whatever moves no byte may tell the program of an error.
LEMMA OutTells ==
  ASSUME UNCHANGED <<open, driver, Sending, tx, written, sent>>
  PROVE  Outgoing!Tell
<1>1. ("error" \in note') \in BOOLEAN
  OBVIOUS
<1> QED
  BY <1>1 DEF Outgoing!Tell

LEMMA TransmitSends ==
  ASSUME OutParts, Transmit
  PROVE  Outgoing!Send
<1>1. /\ driver # <<>> /\ sent' = Head(driver) /\ driver' = Tail(driver)
      /\ UNCHANGED <<open, tx, written, worker, note>>
  BY DEF Transmit, ringVars, appVars
<1>2. Sending' = Sending
  BY <1>1 DEF Sending
<1> DEFINE t == Sending \o tx
<1>3. driver \in Bytes /\ t \in Bytes /\ Sending \in Bytes /\ tx \in Bytes
  <2>1. driver \in Bytes /\ Sending \in Bytes /\ tx \in Bytes
    BY DEF OutParts
  <2> QED
    BY <2>1, JoinIs
<1>4. Tail(driver) = Rest(driver, 1) /\ Rest(driver, 1) \in Bytes
  BY <1>1, <1>3, TailIsSubSeq, RestIs DEF Rest, Bytes
<1>5. OutQueue = driver \o t /\ OutQueue' = Rest(driver, 1) \o t
  <2>1. /\ (driver \o Sending) \o tx = driver \o t
        /\ (Rest(driver, 1) \o Sending) \o tx = Rest(driver, 1) \o t
    <3>1. Regroups(driver, Sending, tx) /\ Regroups(Rest(driver, 1), Sending, tx)
      BY <1>3, <1>4, JoinRegroups
    <3> QED
      BY <3>1 DEF Regroups
  <2>2. OutQueue' = (Rest(driver, 1) \o Sending) \o tx
    BY <1>1, <1>2, <1>4 DEF OutQueue
  <2> QED
    BY <2>1, <2>2 DEF OutQueue
<1> HIDE DEF t
<1>6. Len(driver) \in Nat \ {0}
  BY <1>1, <1>3, BytesAre
<1>7. /\ driver \o t \in Bytes /\ driver \o t # <<>>
      /\ Head(driver \o t) = Head(driver)
  <2>1. /\ driver \o t \in Bytes /\ Len(driver \o t) = Len(driver) + Len(t) /\ Len(t) \in Nat
        /\ \A i \in 1 .. Len(driver) : (driver \o t)[i] = driver[i]
    BY <1>3, JoinIs
  <2>2. (driver \o t)[1] = driver[1] /\ Len(driver \o t) # 0
    BY <1>6, <2>1
  <2>3. driver \o t # <<>>
    BY <2>1, <2>2, BytesAre
  <2> QED
    BY <1>1, <1>3, <2>1, <2>2, <2>3 DEF Bytes
<1>8. Tail(driver \o t) = Rest(driver, 1) \o t
  <2>1. Tail(driver \o t) = SubSeq(driver \o t, 2, Len(driver \o t))
    BY <1>7, TailIsSubSeq DEF Bytes
  <2>2. SubSeq(driver \o t, 1 + 1, Len(driver \o t)) = Rest(driver, 1) \o t
    <3>1. 1 \in Nat /\ 1 <= Len(driver)
      BY <1>6
    <3> QED
      BY <1>3, <3>1, CutJoined
  <2> QED
    BY <2>1, <2>2
<1>9. /\ OutQueue # <<>> /\ sent' = Head(OutQueue) /\ OutQueue' = Tail(OutQueue)
  BY <1>1, <1>5, <1>7, <1>8
<1> QED
  BY <1>1, <1>9 DEF OutQueue, Outgoing!Send

LEMMA OpenOpensOut ==
  ASSUME OutParts, AsyncOpen
  PROVE  Outgoing!Open
<1>1. /\ ~open /\ open' = TRUE /\ note' = {} /\ tx' = tx
      /\ UNCHANGED <<driver, written, sent>>
  BY DEF AsyncOpen, OutParts, OneWorker, driverVars
<1>2. Sending' = Sending
  <2>1. worker.at = "none"
    BY DEF AsyncOpen, OutParts, OneWorker
  <2> QED
    BY <2>1, OpenIs DEF Sending, Worker
<1> QED
  BY <1>1, <1>2 DEF Outgoing!Open

LEMMA CloseClosesOut ==
  ASSUME AsyncClose
  PROVE  Outgoing!Close
<1>1. Sending' = Sending
  BY DEF AsyncClose, Sending
<1> QED
  BY <1>1 DEF AsyncClose, Outgoing!Close, driverVars

\* The ring accepts what there is room for.
LEMMA WriteAccepts ==
  ASSUME OutParts, NEW n \in 1 .. TxCapacity, AsyncWrite(n)
  PROVE  \/ Outgoing!Tell
         \/ \E m \in 1 .. TxCapacity : Outgoing!Accept(m)
<1> DEFINE m == Least(n, TxCapacity - Len(tx))
           d == [i \in 1 .. m |-> written + i]
<1>1. /\ open /\ tx' = tx \o d /\ written' = written + m
      /\ UNCHANGED <<open, driver, worker, sent, note>>
  BY DEF AsyncWrite, driverVars
<1>2. Sending' = Sending
  BY <1>1 DEF Sending
<1>3. driver \in Bytes /\ Sending \in Bytes /\ tx \in Bytes /\ written \in Nat
  BY DEF OutParts
<1>4. m \in 0 .. TxCapacity
  <2>1. Len(tx) \in Nat /\ Len(tx) <= TxCapacity /\ TxCapacity \in Nat
    BY <1>3, BytesAre DEF OutParts
  <2> QED
    BY <2>1 DEF Least
<1>5. d \in Bytes /\ Len(d) = m
  <2> HIDE DEF m
  <2>1. \A i \in 1 .. m : written + i \in Nat
    BY <1>3, <1>4
  <2> QED
    BY <1>4, <2>1, IsASeq, LenProperties DEF Bytes
<1> HIDE DEF m
<1>6. CASE m = 0
  <2>1. d = <<>>
    BY <1>5, <1>6, BytesAre
  <2>2. tx' = tx /\ written' = written
    BY <1>1, <1>3, <1>6, <2>1, JoinNothing
  <2> QED
    BY <1>1, <1>2, <2>2, OutTells
<1>7. CASE m # 0
  <2> HIDE DEF d
  <2>1. driver \o Sending \in Bytes
    BY <1>3, JoinIs
  <2>2. (driver \o Sending) \o (tx \o d) = ((driver \o Sending) \o tx) \o d
    <3>1. Regroups(driver \o Sending, tx, d)
      BY <1>3, <1>5, <2>1, JoinRegroups
    <3> QED
      BY <3>1 DEF Regroups
  <2>3. OutQueue' = OutQueue \o d
    BY <1>1, <1>2, <2>2 DEF OutQueue
  <2>4. Outgoing!Accept(m)
    BY <1>1, <2>3 DEF Outgoing!Accept, OutQueue, d
  <2> QED
    BY <1>4, <1>7, <2>4
<1> QED
  BY <1>6, <1>7

\* The worker takes bytes from the ring.
LEMMA DrainMoves ==
  ASSUME OutParts, WorkerDrain
  PROVE  Outgoing!Tell
<1>1. /\ worker.at = "drain" /\ tx' = Rest(tx, Chunk)
      /\ UNCHANGED <<open, driver, written, sent>>
  BY DEF WorkerDrain, WorkerAt, driverVars, appVars
<1>2. Sending = <<>>
  BY <1>1 DEF Sending
<1>3. Sending' = Take(tx, Chunk)
  <2>1. CASE tx = <<>>
    <3>1. Take(tx, Chunk) = <<>>
      <4>1. Take(tx, Chunk) \in Bytes /\ Len(Take(tx, Chunk)) \in Nat
            /\ Len(Take(tx, Chunk)) <= 0
        BY <2>1, TakeIs, EmptyIs DEF OutParts
      <4> QED
        BY <4>1, BytesAre
    <3> QED
      BY <2>1, <3>1, DrainIs DEF Sending, Worker, OutParts
  <2>2. CASE tx # <<>>
    BY <2>2, DrainIs DEF Sending, Worker, OutParts
  <2> QED
    BY <2>1, <2>2
<1>4. OutQueue' = OutQueue
  <2> DEFINE a == Take(tx, Chunk)
             b == Rest(tx, Chunk)
  <2>1. a \in Bytes /\ b \in Bytes /\ a \o b = tx
    BY TakeIs, RestIs, TakeAndRest DEF OutParts
  <2> HIDE DEF a, b
  <2>2. (driver \o a) \o b = driver \o tx /\ driver \o <<>> = driver
    <3>1. Regroups(driver, a, b) /\ driver \o <<>> = driver
      BY <2>1, JoinRegroups, JoinNothing DEF OutParts
    <3> QED
      BY <2>1, <3>1 DEF Regroups
  <2> QED
    BY <1>1, <1>2, <1>3, <2>2 DEF OutQueue, a, b
<1>5. ("error" \in note') \in BOOLEAN
  OBVIOUS
<1> QED
  BY <1>1, <1>4, <1>5 DEF Outgoing!Tell, OutQueue

\* The driver takes them from the worker, or refuses them.
LEMMA WritePasses ==
  ASSUME OutParts, WorkerWrite
  PROVE  \/ Outgoing!Tell
         \/ \E n \in 1 .. Len(OutQueue) :
              \E first \in 0 .. Len(OutQueue) - n : Outgoing!Lose(first, n)
<1> DEFINE b == worker.bytes
<1>1. /\ worker.at = "write"
      /\ UNCHANGED <<open, tx, written, sent>>
      /\ \/ driver' = driver \o b
         \/ note' = note \cup {"error"} /\ driver' = driver
  BY DEF WorkerWrite, WorkerAt, Post, ringVars, appVars
<1>2. Sending = b
  BY <1>1 DEF Sending
<1>3. Sending' = <<>>
  <2>1. worker'.at # "write"
    BY WriteIs DEF OutParts, Worker
  <2> QED
    BY <2>1 DEF Sending
<1>4. driver \in Bytes /\ b \in Bytes /\ tx \in Bytes /\ Len(b) <= Chunk
  BY <1>2 DEF OutParts
<1> HIDE DEF b
<1>5. driver \o b \in Bytes /\ b \o tx \in Bytes
  BY <1>4, JoinIs
<1>6. OutQueue = (driver \o b) \o tx
  BY <1>2 DEF OutQueue
<1>7. CASE driver' = driver \o b
  <2>1. OutQueue' = OutQueue
    BY <1>1, <1>3, <1>5, <1>6, <1>7, JoinNothing DEF OutQueue
  <2>2. ("error" \in note') \in BOOLEAN
    OBVIOUS
  <2> QED
    BY <1>1, <2>1, <2>2 DEF Outgoing!Tell, OutQueue
<1>8. CASE note' = note \cup {"error"} /\ driver' = driver
  <2>0. OutQueue' = driver \o tx
    BY <1>1, <1>3, <1>4, <1>8, JoinNothing DEF OutQueue
  <2>1. CASE b = <<>>
    <3>1. OutQueue' = OutQueue
      BY <1>4, <1>6, <2>0, <2>1, JoinNothing
    <3>2. ("error" \in note') \in BOOLEAN
      OBVIOUS
    <3> QED
      BY <1>1, <3>1, <3>2 DEF Outgoing!Tell, OutQueue
  <2>2. CASE b # <<>>
    <3> DEFINE n == Len(b)
               first == Len(driver)
    <3>1. n \in Nat \ {0} /\ first \in Nat /\ n <= Chunk
      BY <1>4, <2>2, BytesAre
    <3>2. OutQueue = driver \o (b \o tx)
      BY <1>4, <1>6, JoinAssociates
    <3>3. SubSeq(OutQueue, 1, first) = driver
      <4>1. 0 \in Nat /\ 0 <= Len(driver)
        BY <3>1
      <4> QED
        BY <1>4, <1>5, <3>2, <4>1, CutJoined
    <3>4. Len(driver \o b) = first + n
      BY <1>4, JoinIs
    <3>5. SubSeq(OutQueue, first + n + 1, Len(OutQueue)) = tx
      <4> DEFINE k == first + n
      <4>1. k \in Nat /\ k <= Len(driver \o b) /\ Len(driver \o b) <= k
        BY <3>1, <3>4
      <4> HIDE DEF k
      <4>2. SubSeq((driver \o b) \o tx, k + 1, Len((driver \o b) \o tx))
              = Rest(driver \o b, k) \o tx
        BY <1>4, <1>5, <4>1, CutJoined
      <4>3. Rest(driver \o b, k) = <<>>
        BY <1>5, <4>1, RestIs
      <4>4. <<>> \o tx = tx
        BY <1>4, JoinNothing
      <4> QED
        BY <1>6, <4>2, <4>3, <4>4 DEF k
    <3>6. first + n <= Len(OutQueue) /\ Len(OutQueue) \in Nat
      <4>1. Len((driver \o b) \o tx) = Len(driver \o b) + Len(tx) /\ Len(tx) \in Nat
        BY <1>4, <1>5, JoinIs
      <4> QED
        BY <1>6, <3>1, <3>4, <4>1
    <3> HIDE DEF n, first
    <3>7. OutQueue' = SubSeq(OutQueue, 1, first) \o SubSeq(OutQueue, first + n + 1, Len(OutQueue))
      BY <2>0, <3>3, <3>5
    <3>8. ("error" \in note') = TRUE
      BY <1>8
    <3>9. Outgoing!Lose(first, n)
      BY <1>1, <3>1, <3>7, <3>8 DEF Outgoing!Lose, OutQueue
    <3>10. n \in 1 .. Len(OutQueue) /\ first \in 0 .. Len(OutQueue) - n
      BY <3>1, <3>6
    <3> QED
      BY <3>9, <3>10
  <2> QED
    BY <2>1, <2>2
<1> QED
  BY <1>1, <1>7, <1>8

LEMMA CloseDiscardsOut ==
  ASSUME OutParts, CloseDone
  PROVE  \/ Outgoing!Tell
         \/ \E n \in 1 .. Len(OutQueue) : Outgoing!Discard(n)
<1>1. /\ ~open /\ tx' = <<>> /\ worker.at = "none"
      /\ UNCHANGED <<open, driver, worker, written, sent, note>>
  BY DEF CloseDone, OutParts, OneWorker, driverVars, WorkerAt
<1>2. Sending = <<>> /\ Sending' = <<>>
  BY <1>1 DEF Sending
<1>3. driver \in Bytes /\ tx \in Bytes /\ Len(tx) <= TxCapacity
  BY DEF OutParts
<1>4. OutQueue = driver \o tx /\ OutQueue' = driver
  BY <1>1, <1>2, <1>3, JoinNothing DEF OutQueue
<1>5. CASE tx = <<>>
  BY <1>1, <1>2, <1>5, OutTells
<1>6. CASE tx # <<>>
  <2> DEFINE n == Len(tx)
  <2>1. n \in Nat \ {0} /\ n <= TxCapacity
    BY <1>3, <1>6, BytesAre
  <2>2. Len(driver \o tx) = Len(driver) + n /\ Len(driver) \in Nat
    BY <1>3, JoinIs
  <2> HIDE DEF n
  <2>3. SubSeq(driver \o tx, 1, Len(driver)) = driver
    <3>1. 0 \in Nat /\ 0 <= Len(driver)
      BY <2>2
    <3> QED
      BY <1>3, <3>1, CutJoined
  <2>4. OutQueue' = SubSeq(OutQueue, 1, Len(OutQueue) - n)
    <3>1. Len(OutQueue) - n = Len(driver)
      BY <1>4, <2>1, <2>2
    <3> QED
      BY <1>4, <2>3, <3>1
  <2>5. Outgoing!Discard(n)
    BY <1>1, <2>1, <2>4 DEF Outgoing!Discard, OutQueue
  <2>6. n \in 1 .. Len(OutQueue)
    BY <1>4, <2>1, <2>2
  <2> QED
    BY <2>5, <2>6
<1> QED
  BY <1>5, <1>6

LEMMA OutQuiet ==
  ASSUME OutParts,
         \/ Arrive \/ LineError \/ WorkerTop \/ WorkerQueue \/ WorkerPostError
         \/ WorkerRead \/ WorkerPush \/ WorkerPostRx \/ WorkerPostTx
         \/ WorkerActive \/ WorkerDone \/ WorkerClear \/ WorkerPostIdle
         \/ AsyncOpenFails \/ CollectEvents
         \/ (\E n \in 1 .. RxCapacity : AsyncRead(n))
         \/ (\E kind \in Notes : TakeNote(kind))
         \/ UNCHANGED vars
  PROVE  Outgoing!Tell
<1>1. UNCHANGED <<open, driver, tx, written, sent>>
  BY DEF Arrive, LineError, WorkerTop, WorkerQueue, WorkerPostError, WorkerRead, WorkerPush,
         WorkerPostRx, WorkerPostTx, WorkerActive, WorkerDone, WorkerClear, WorkerPostIdle,
         AsyncOpenFails, CollectEvents, AsyncRead, TakeNote, vars, ringVars, driverVars, appVars
<1>2. Sending' = Sending
  <2>1. worker' = worker \/ (worker.at # "write" /\ worker'.at # "write")
    <3>1. worker \in Workers /\ worker.flag \in BOOLEAN
      BY DEF OutParts, Workers
    <3>2. AfterPush(worker.flag) \in {"read", "drain"}
      BY <3>1, AfterPushIs
    <3>3. WorkerTop => worker.at # "write" /\ worker'.at # "write"
      BY <3>1, TopIs DEF Worker
    <3>4. WorkerQueue \/ WorkerPostError \/ WorkerPush \/ WorkerPostRx \/ WorkerPostTx =>
            worker.at # "write" /\ worker'.at # "write"
      BY <3>1, <3>2, QueueIs, PostErrorIs, PushIs, PostRxIs, PostTxIs DEF Worker
    <3>5. WorkerRead => worker.at # "write" /\ worker'.at # "write"
      BY DEF WorkerRead, WorkerAt
    <3>6. WorkerActive \/ WorkerDone \/ WorkerClear \/ WorkerPostIdle =>
            worker.at # "write" /\ worker'.at # "write"
      BY <3>1, ActiveIs, DoneIs, ClearIs, PostIdleIs DEF Worker
    <3>7. (\/ Arrive \/ LineError \/ AsyncOpenFails \/ CollectEvents
           \/ (\E n \in 1 .. RxCapacity : AsyncRead(n))
           \/ (\E kind \in Notes : TakeNote(kind)) \/ UNCHANGED vars)
             => worker' = worker
      BY DEF Arrive, LineError, AsyncOpenFails, CollectEvents, AsyncRead, TakeNote, vars
    <3> QED
      BY <3>3, <3>4, <3>5, <3>6, <3>7
  <2> QED
    BY <2>1 DEF Sending
<1> QED
  BY <1>1, <1>2, OutTells

\* No received byte is lost on its way through the driver, the worker and the ring
\* without being counted, and none is read twice or out of its turn: whatever the
\* sizes, and however worker, program and line interleave, over every open, close
\* and failed open.
THEOREM ReceivedIsAccounted == Spec => InputAccounted
<1>1. Init => Incoming!Init
  <2> SUFFICES ASSUME Init PROVE Incoming!Init
    OBVIOUS
  <2>1. rx = <<>> /\ hw = <<>> /\ Received = <<>>
    BY DEF Init, NoWorker, Received
  <2>2. (<<>> \o <<>>) \o <<>> = <<>>
    BY EmptyIs, JoinNothing
  <2> QED
    BY <2>1, <2>2 DEF Init, Incoming!Init
<1>2. UartInv /\ [Next]_vars => [Incoming!Next]_(Incoming!vars)
  <2> SUFFICES ASSUME UartInv, [Next]_vars
               PROVE  Incoming!Next \/ UNCHANGED Incoming!vars
    OBVIOUS
  <2>1. InParts
    BY InPartsHold
  <2>2. CASE Arrive
    BY <2>1, <2>2, ArriveArrives DEF Incoming!Next
  <2>3. CASE AsyncOpen \/ AsyncOpenFails
    BY <2>1, <2>3, OpenOpens DEF Incoming!Next
  <2>4. CASE AsyncClose
    BY <2>4, CloseCloses DEF Incoming!Next
  <2>5. ASSUME NEW n \in 1 .. RxCapacity, AsyncRead(n)
        PROVE  Incoming!Next \/ UNCHANGED Incoming!vars
    BY <2>1, <2>5, ReadReads DEF Incoming!Next, InQueue
  <2>6. CASE CloseDone
    BY <2>1, <2>6, CloseDiscards DEF Incoming!Next, InQueue
  <2>7. CASE WorkerRead
    BY <2>1, <2>7, ReadMoves
  <2>8. CASE WorkerPush
    BY <2>1, <2>8, PushOverflows DEF Incoming!Next, InQueue
  <2>9. CASE \/ LineError \/ Transmit \/ WorkerTop \/ WorkerQueue \/ WorkerPostError
             \/ WorkerPostRx \/ WorkerDrain \/ WorkerWrite \/ WorkerPostTx
             \/ WorkerActive \/ WorkerDone \/ WorkerClear \/ WorkerPostIdle
             \/ CollectEvents
             \/ (\E n \in 1 .. TxCapacity : AsyncWrite(n))
             \/ (\E kind \in Notes : TakeNote(kind))
             \/ UNCHANGED vars
    BY <2>1, <2>9, InQuiet
  <2> QED
    BY <2>2, <2>3, <2>4, <2>5, <2>6, <2>7, <2>8, <2>9
    DEF Next, DriverStep, AppStep, WorkerStep
<1> QED
  BY <1>1, <1>2, UartAlways, PTL DEF Spec, InputAccounted, Incoming!Spec

\* No accepted byte is lost on its way through the ring, the worker and the driver
\* unless the driver refuses its chunk, and then the program is told; and none goes
\* out twice or out of its turn, with the same generality.
THEOREM AcceptedIsAccounted == Spec => OutputAccounted
<1>1. Init => Outgoing!Init
  <2> SUFFICES ASSUME Init PROVE Outgoing!Init
    OBVIOUS
  <2>1. driver = <<>> /\ tx = <<>> /\ Sending = <<>>
    BY DEF Init, NoWorker, Sending
  <2>2. (<<>> \o <<>>) \o <<>> = <<>>
    BY EmptyIs, JoinNothing
  <2>3. ("error" \in note) = FALSE
    BY DEF Init
  <2> QED
    BY <2>1, <2>2, <2>3 DEF Init, Outgoing!Init
<1>2. UartInv /\ [Next]_vars => [Outgoing!Next]_(Outgoing!vars)
  <2> SUFFICES ASSUME UartInv, [Next]_vars
               PROVE  Outgoing!Next
    OBVIOUS
  <2>1. OutParts
    BY OutPartsHold
  <2>2. CASE Transmit
    BY <2>1, <2>2, TransmitSends DEF Outgoing!Next
  <2>3. CASE AsyncOpen
    BY <2>1, <2>3, OpenOpensOut DEF Outgoing!Next
  <2>4. CASE AsyncClose
    BY <2>4, CloseClosesOut DEF Outgoing!Next
  <2>5. ASSUME NEW n \in 1 .. TxCapacity, AsyncWrite(n)
        PROVE  Outgoing!Next
    BY <2>1, <2>5, WriteAccepts DEF Outgoing!Next
  <2>6. CASE CloseDone
    BY <2>1, <2>6, CloseDiscardsOut DEF Outgoing!Next, OutQueue
  <2>7. CASE WorkerDrain
    BY <2>1, <2>7, DrainMoves DEF Outgoing!Next
  <2>8. CASE WorkerWrite
    BY <2>1, <2>8, WritePasses DEF Outgoing!Next, OutQueue
  <2>9. CASE \/ Arrive \/ LineError \/ WorkerTop \/ WorkerQueue \/ WorkerPostError
             \/ WorkerRead \/ WorkerPush \/ WorkerPostRx \/ WorkerPostTx
             \/ WorkerActive \/ WorkerDone \/ WorkerClear \/ WorkerPostIdle
             \/ AsyncOpenFails \/ CollectEvents
             \/ (\E n \in 1 .. RxCapacity : AsyncRead(n))
             \/ (\E kind \in Notes : TakeNote(kind))
             \/ UNCHANGED vars
    BY <2>1, <2>9, OutQuiet DEF Outgoing!Next
  <2> QED
    BY <2>2, <2>3, <2>4, <2>5, <2>6, <2>7, <2>8, <2>9
    DEF Next, DriverStep, AppStep, WorkerStep
<1> QED
  BY <1>1, <1>2, UartAlways, PTL DEF Spec, OutputAccounted, Outgoing!Spec

=============================================================================
