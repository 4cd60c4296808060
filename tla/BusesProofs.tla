------------------------------ MODULE BusesProofs ------------------------------
(***************************************************************************)
(* Proofs about the devices on the pins, for any wirings, formats, masks,  *)
(* delays and lengths of captures.  Each device has an invariant of its    *)
(* own, that its steps preserve and the others' steps do not touch.        *)
(***************************************************************************)
EXTENDS Buses, SequenceTheorems, WellFoundedInduction, TLAPS

----------------------------------------------------------------------------
(* Induction, and sequences that are put together.  The library's theorems *)
(* about induction take an operator, which no prover here can instantiate; *)
(* in these the numbers that have a property are a set, and the least      *)
(* number that is not in it exists because their order is well-founded.    *)

Below == {p \in Nat \X Nat : p[1] < p[2]}

\* A set of numbers that has a member has a least one.
LEMMA LeastNumber ==
  ASSUME NEW T, T \subseteq Nat, T # {}
  PROVE  \E n \in T : \A m \in T : n <= m
<1>1. IsWellFoundedOn(Below, Nat)
  BY NatLessThanWellFounded DEF OpToRel, Below
<1>2. PICK n \in T : \A m \in T : <<m, n>> \notin Below
  BY <1>1, WFMin
<1>3. ASSUME NEW m \in T
      PROVE  n <= m
  <2>1. m \in Nat /\ n \in Nat /\ <<m, n>> \notin Below
    BY <1>2
  <2>2. ~ (m < n)
    BY <2>1 DEF Below
  <2> QED
    BY <2>1, <2>2
<1> QED
  BY <1>3

\* Induction, over the set of the numbers that have a property.
LEMMA Induction ==
  ASSUME NEW T, 0 \in T, \A n \in Nat : n \in T => n + 1 \in T
  PROVE  Nat \subseteq T
<1> DEFINE Others == {n \in Nat : n \notin T}
<1> SUFFICES ASSUME Others # {} PROVE FALSE
  OBVIOUS
<1>1. Others \subseteq Nat
  OBVIOUS
<1>2. PICK n \in Others : \A m \in Others : n <= m
  <2> HIDE DEF Others
  <2> QED
    BY <1>1, LeastNumber
<1>3. n \in Nat /\ n \notin T /\ n # 0
  BY <1>2
<1>4. n - 1 \in Nat /\ n - 1 + 1 = n /\ ~ (n <= n - 1)
  BY <1>3
<1>5. n - 1 \notin Others
  <2> HIDE DEF Others
  <2> QED
    BY <1>2, <1>4
<1> QED
  BY <1>3, <1>4, <1>5

\* g has the value a at the first number, and at each later one what F gives it
\* there for its value at the one before.
Follows(g, first, last, a, F) ==
  \A i \in first .. last : g[i] = IF i = first THEN a ELSE F[i][g[i - 1]]

\* A function that is defined from each number to the next exists.
LEMMA Recursion ==
  ASSUME NEW first \in Int, NEW last \in Int, first <= last,
         NEW X, NEW a \in X, NEW F,
         \A i \in first .. last : i # first => \A x \in X : F[i][x] \in X
  PROVE  \E g \in [first .. last -> X] : Follows(g, first, last, a, F)
<1> DEFINE Fits(g, n) == \A i \in first .. n : g[i] = IF i = first THEN a ELSE F[i][g[i - 1]]
           Exists(n) == \E g \in [first .. n -> X] : Fits(g, n)
           T == {k \in Nat : first + k <= last => Exists(first + k)}
<1>1. 0 \in T
  <2>1. [i \in first .. first |-> a] \in [first .. first -> X]
    OBVIOUS
  <2>2. Fits([i \in first .. first |-> a], first)
    OBVIOUS
  <2>3. Exists(first)
    BY <2>1, <2>2
  <2> HIDE DEF Exists
  <2> QED
    BY <2>3
<1>2. ASSUME NEW k \in Nat, k \in T
      PROVE  k + 1 \in T
  <2> HIDE DEF Exists
  <2> SUFFICES ASSUME first + (k + 1) <= last PROVE Exists(first + (k + 1))
    OBVIOUS
  <2> USE DEF Exists
  <2> DEFINE n == first + k
  <2>1. n \in Int /\ first <= n /\ n + 1 <= last /\ first + (k + 1) = n + 1
    OBVIOUS
  <2>2. Exists(n)
    <3> HIDE DEF Exists
    <3> QED
      BY <1>2
  <2>3. PICK g \in [first .. n -> X] : Fits(g, n)
    BY <2>2
  <2> HIDE DEF n
  <2>4. g[n] \in X /\ F[n + 1][g[n]] \in X
    <3>1. n \in first .. n /\ n + 1 \in first .. last /\ n + 1 # first
      BY <2>1
    <3>2. g[n] \in X
      BY <3>1
    <3> QED
      BY <3>1, <3>2
  <2> DEFINE h == [i \in first .. n + 1 |-> IF i = n + 1 THEN F[n + 1][g[n]] ELSE g[i]]
  <2>5. \A i \in first .. n + 1 : i = n + 1 \/ i \in first .. n
    BY <2>1
  <2>6. h \in [first .. n + 1 -> X]
    BY <2>4, <2>5
  <2>7. h[n + 1] = F[n + 1][g[n]] /\ \A i \in first .. n : h[i] = g[i]
    BY <2>1
  <2> HIDE DEF h
  <2>8. ASSUME NEW i \in first .. n + 1
        PROVE  h[i] = IF i = first THEN a ELSE F[i][h[i - 1]]
    <3>1. CASE i = n + 1
      BY <2>1, <2>7, <3>1
    <3>2. CASE i \in first .. n
      <4>1. g[i] = IF i = first THEN a ELSE F[i][g[i - 1]]
        BY <2>3, <3>2
      <4>2. i # first => i - 1 \in first .. n
        BY <2>1, <3>2
      <4> QED
        BY <2>7, <3>2, <4>1, <4>2
    <3> QED
      BY <2>5, <3>1, <3>2
  <2>9. Exists(n + 1)
    BY <2>6, <2>8
  <2> HIDE DEF Exists
  <2> QED
    BY <2>1, <2>9
<1>3. last - first \in T
  <2> HIDE DEF T
  <2>1. last - first \in Nat
    OBVIOUS
  <2> QED
    BY <1>1, <1>2, <2>1, Induction
<1>4. Exists(last)
  <2> HIDE DEF Exists
  <2>1. first + (last - first) = last
    OBVIOUS
  <2> QED
    BY <1>3, <2>1
<1> QED
  BY <1>4 DEF Follows

\* FlattenSeq joins one sequence after another to those before it.
Joins(g, s) == \A i \in 1 .. Len(s) : g[i] = IF i = 1 THEN s[i] ELSE g[i - 1] \o s[i]

LEMMA FlattenIs ==
  ASSUME NEW S, NEW s \in Seq(Seq(S)), s # <<>>
  PROVE  /\ Len(s) \in Nat \ {0}
         /\ \E g \in [1 .. Len(s) -> Seq(S)] : Joins(g, s) /\ FlattenSeq(s) = g[Len(s)]
<1> DEFINE n == Len(s)
           Step(g) == [i \in 1 .. n |-> IF i = 1 THEN s[i] ELSE g[i - 1] \o s[i]]
           flatten == CHOOSE g : g = Step(g)
           F == [i \in 2 .. n |-> [x \in Seq(S) |-> x \o s[i]]]
<1>1. n \in Nat /\ n # 0 /\ \A i \in 1 .. n : s[i] \in Seq(S)
  BY EmptySeq, LenProperties, ElementOfSeq
<1>2. FlattenSeq(s) = flatten[n]
  BY <1>1 DEF FlattenSeq
<1>3. \A i \in 1 .. n : i # 1 => \A x \in Seq(S) : F[i][x] \in Seq(S)
  <2>1. \A i \in 1 .. n : \A x \in Seq(S) : x \o s[i] \in Seq(S)
    BY <1>1, ConcatProperties
  <2> HIDE DEF n
  <2> QED
    BY <1>1, <2>1
<1>4. PICK g \in [1 .. n -> Seq(S)] : Follows(g, 1, n, s[1], F)
  <2>1. s[1] \in Seq(S) /\ 1 \in Int /\ n \in Int /\ 1 <= n
    BY <1>1
  <2> HIDE DEF F, n
  <2> QED
    BY <1>3, <2>1, Recursion
<1>5. g = Step(g)
  <2>1. ASSUME NEW i \in 1 .. n
        PROVE  g[i] = IF i = 1 THEN s[i] ELSE g[i - 1] \o s[i]
    <3>1. g[i] = IF i = 1 THEN s[1] ELSE F[i][g[i - 1]]
      BY <1>4 DEF Follows
    <3>2. i # 1 => i \in 2 .. n /\ i - 1 \in 1 .. n
      <4> HIDE DEF n
      <4> QED
        BY <1>1
    <3>3. i # 1 => F[i][g[i - 1]] = g[i - 1] \o s[i]
      <4> HIDE DEF n
      <4> QED
        BY <3>2
    <3> QED
      BY <3>1, <3>3
  <2> QED
    BY <2>1
<1>6. flatten = Step(flatten)
  <2> HIDE DEF Step
  <2> QED
    BY <1>5
<1>7. ASSUME NEW h, h = Step(h)
      PROVE  h \in [1 .. n -> Seq(S)] /\ Joins(h, s)
  <2>1. DOMAIN h = 1 .. n /\ h = [i \in 1 .. n |-> h[i]]
    BY <1>7
  <2>2. Joins(h, s)
    BY <1>7 DEF Joins
  <2> DEFINE T == {k \in Nat : k + 1 <= n => h[k + 1] \in Seq(S)}
  <2>3. 0 \in T
    <3>1. 1 \in 1 .. n /\ s[1] \in Seq(S)
      BY <1>1
    <3>2. h[1] = s[1]
      BY <2>2, <3>1 DEF Joins
    <3>3. 0 + 1 = 1
      OBVIOUS
    <3> QED
      BY <3>1, <3>2, <3>3
  <2>4. ASSUME NEW k \in Nat, k \in T
        PROVE  k + 1 \in T
    <3> SUFFICES ASSUME k + 1 + 1 <= n PROVE h[k + 1 + 1] \in Seq(S)
      OBVIOUS
    <3>1. h[k + 1 + 1] = h[k + 1] \o s[k + 1 + 1]
      <4> DEFINE i == k + 1 + 1
      <4>1. i \in 1 .. n /\ i # 1 /\ i - 1 = k + 1
        BY <1>1
      <4> HIDE DEF i
      <4>2. h[i] = h[i - 1] \o s[i]
        BY <2>2, <4>1 DEF Joins
      <4> QED
        BY <4>1, <4>2 DEF i
    <3>2. h[k + 1] \in Seq(S) /\ s[k + 1 + 1] \in Seq(S)
      BY <1>1, <2>4
    <3> QED
      BY <3>1, <3>2, ConcatProperties
  <2>5. Nat \subseteq T
    <3> HIDE DEF T
    <3> QED
      BY <2>3, <2>4, Induction
  <2>6. ASSUME NEW i \in 1 .. n
        PROVE  h[i] \in Seq(S)
    <3>1. i - 1 \in Nat /\ i - 1 + 1 = i /\ i <= n
      BY <1>1
    <3> QED
      BY <2>5, <3>1
  <2> QED
    BY <2>1, <2>2, <2>6
<1>8. flatten \in [1 .. n -> Seq(S)] /\ Joins(flatten, s)
  <2> HIDE DEF flatten, Step
  <2> QED
    BY <1>6, <1>7
<1> QED
  BY <1>1, <1>2, <1>8

LEMMA FlattenEmpty == FlattenSeq(<<>>) = <<>>
  BY EmptySeq DEF FlattenSeq

Alike(s, t, n) == \A i \in 1 .. n : s[i] = t[i]

\* What is joined up to a place does not depend on what comes after it.
LEMMA JoinsAlike ==
  ASSUME NEW s, NEW t, NEW g, NEW h, Joins(g, s), Joins(h, t),
         NEW n \in Nat, Len(s) \in Nat, Len(t) \in Nat, n <= Len(s), n <= Len(t),
         Alike(s, t, n)
  PROVE  Alike(g, h, n)
<1> DEFINE T == {k \in Nat : k + 1 <= n => g[k + 1] = h[k + 1]}
<1>1. ASSUME NEW i \in 1 .. n
      PROVE  /\ g[i] = IF i = 1 THEN s[i] ELSE g[i - 1] \o s[i]
             /\ h[i] = IF i = 1 THEN s[i] ELSE h[i - 1] \o s[i]
  <2>1. i \in 1 .. Len(s) /\ i \in 1 .. Len(t) /\ s[i] = t[i]
    BY DEF Alike
  <2> QED
    BY <2>1 DEF Joins
<1>2. 0 \in T
  BY <1>1
<1>3. ASSUME NEW k \in Nat, k \in T
      PROVE  k + 1 \in T
  <2> SUFFICES ASSUME k + 1 + 1 <= n PROVE g[k + 1 + 1] = h[k + 1 + 1]
    OBVIOUS
  <2> DEFINE i == k + 1 + 1
  <2>1. i \in 1 .. n /\ i # 1 /\ i - 1 = k + 1
    OBVIOUS
  <2>2. g[k + 1] = h[k + 1]
    BY <1>3
  <2> HIDE DEF i
  <2>3. g[i] = g[i - 1] \o s[i] /\ h[i] = h[i - 1] \o s[i]
    BY <1>1, <2>1
  <2>4. g[i] = h[i]
    BY <2>1, <2>2, <2>3
  <2> QED
    BY <2>4 DEF i
<1>4. Nat \subseteq T
  <2> HIDE DEF T
  <2> QED
    BY <1>2, <1>3, Induction
<1> SUFFICES ASSUME NEW i \in 1 .. n PROVE g[i] = h[i]
  BY DEF Alike
<1>5. i - 1 \in Nat /\ i - 1 + 1 = i /\ i <= n
  OBVIOUS
<1> QED
  BY <1>4, <1>5

LEMMA FlattenType ==
  ASSUME NEW S, NEW s \in Seq(Seq(S))
  PROVE  FlattenSeq(s) \in Seq(S)
<1>1. CASE s = <<>>
  BY <1>1, FlattenEmpty, EmptySeq
<1>2. CASE s # <<>>
  <2>1. PICK g \in [1 .. Len(s) -> Seq(S)] : FlattenSeq(s) = g[Len(s)]
    BY <1>2, FlattenIs
  <2>2. Len(s) \in 1 .. Len(s)
    <3>1. Len(s) \in Nat \ {0}
      BY <1>2, FlattenIs
    <3> QED
      BY <3>1
  <2> QED
    BY <2>1, <2>2
<1> QED
  BY <1>1, <1>2

\* One sequence more is joined at the end.
LEMMA FlattenAppend ==
  ASSUME NEW S, NEW s \in Seq(Seq(S)), NEW x \in Seq(S)
  PROVE  FlattenSeq(Append(s, x)) = FlattenSeq(s) \o x
<1> DEFINE t == Append(s, x)
           n == Len(s)
<1>1. /\ t \in Seq(Seq(S)) /\ t # <<>> /\ n \in Nat /\ Len(t) = n + 1
      /\ \A i \in 1 .. n : t[i] = s[i]
      /\ t[n + 1] = x
  BY AppendProperties, LenProperties
<1> HIDE DEF t
<1>2. PICK h \in [1 .. Len(t) -> Seq(S)] : Joins(h, t) /\ FlattenSeq(t) = h[Len(t)]
  BY <1>1, FlattenIs
<1>3. h[n + 1] = IF n + 1 = 1 THEN x ELSE h[n + 1 - 1] \o x
  <2> DEFINE k == n + 1
  <2>1. k \in 1 .. Len(t) /\ t[k] = x
    BY <1>1
  <2> HIDE DEF k
  <2>2. h[k] = IF k = 1 THEN t[k] ELSE h[k - 1] \o t[k]
    BY <1>2, <2>1 DEF Joins
  <2>3. h[k] = IF k = 1 THEN x ELSE h[k - 1] \o x
    BY <2>1, <2>2
  <2> QED
    BY <2>3 DEF k
<1>4. CASE s = <<>>
  <2>1. n = 0
    BY <1>4, EmptySeq
  <2>2. FlattenSeq(t) = x
    <3> HIDE DEF n
    <3> QED
      BY <1>1, <1>2, <1>3, <2>1
  <2>3. FlattenSeq(s) \o x = x
    BY <1>4, FlattenEmpty, ConcatEmptySeq
  <2> QED
    BY <2>2, <2>3 DEF t
<1>5. CASE s # <<>>
  <2>1. n \in Nat \ {0}
    BY <1>5, FlattenIs
  <2>2. PICK g \in [1 .. n -> Seq(S)] : Joins(g, s) /\ FlattenSeq(s) = g[n]
    BY <1>5, FlattenIs
  <2>3. h[n] = g[n]
    <3>1. Alike(h, g, n)
      <4>1. /\ Joins(h, t) /\ Joins(g, s) /\ Alike(t, s, n)
        BY <1>1, <1>2, <2>2 DEF Alike
      <4>2. n \in Nat /\ Len(s) \in Nat /\ Len(t) \in Nat /\ n <= Len(s) /\ n <= Len(t)
        BY <1>1
      <4> HIDE DEF n
      <4> QED
        BY <4>1, <4>2, JoinsAlike
    <3> HIDE DEF n
    <3> QED
      BY <2>1, <3>1 DEF Alike
  <2>4. n + 1 # 1 /\ n + 1 - 1 = n
    BY <2>1
  <2>5. FlattenSeq(t) = h[n] \o x
    <3> HIDE DEF n
    <3> QED
      BY <1>1, <1>2, <1>3, <2>4
  <2> QED
    BY <2>2, <2>3, <2>5 DEF t
<1> QED
  BY <1>4, <1>5

\* The first n sequences are joined to the nth.
LEMMA FlattenNext ==
  ASSUME NEW S, NEW s \in Seq(Seq(S)), NEW n \in 1 .. Len(s)
  PROVE  /\ SubSeq(s, 1, n - 1) \in Seq(Seq(S)) /\ SubSeq(s, 1, n) \in Seq(Seq(S))
         /\ s[n] \in Seq(S)
         /\ FlattenSeq(SubSeq(s, 1, n)) = FlattenSeq(SubSeq(s, 1, n - 1)) \o s[n]
<1>1. Len(s) \in Nat /\ \A i \in 1 .. Len(s) : s[i] \in Seq(S)
  BY LenProperties, ElementOfSeq
<1>2. 1 \in 1 .. Len(s) /\ n \in 1 .. Len(s) /\ n \in Int /\ n - 1 \in Int /\ 1 \in Int
  BY <1>1
<1>3. \A i \in 1 .. n : s[i] \in Seq(S)
  BY <1>1
<1>4. \A i \in 1 .. n - 1 : s[i] \in Seq(S)
  BY <1>1
<1>5. SubSeq(s, 1, n - 1) \in Seq(Seq(S)) /\ SubSeq(s, 1, n) \in Seq(Seq(S))
  BY <1>2, <1>3, <1>4, SubSeqProperties
<1>6. SubSeq(s, 1, n) = SubSeq(s, 1, n - 1) \o <<s[n]>>
  BY <1>2, SubSeqRecursiveSecond
<1>7. SubSeq(s, 1, n) = Append(SubSeq(s, 1, n - 1), s[n])
  BY <1>3, <1>5, <1>6, AppendIsConcat
<1>8. s[n] \in Seq(S)
  BY <1>1
<1> QED
  BY <1>5, <1>7, <1>8, FlattenAppend

\* None of the sequences is empty.
Full(s) == \A i \in 1 .. Len(s) : s[i] # <<>>

\* w is v with more behind it, and something if more holds.
Longer(S, v, w, more) == \E u \in Seq(S) : w = v \o u /\ (more => u # <<>>)

LEMMA LongerNext ==
  ASSUME NEW S, NEW v \in Seq(S), NEW w \in Seq(S), NEW m \in BOOLEAN, NEW x \in Seq(S),
         Longer(S, v, w, m), x # <<>>
  PROVE  Longer(S, v, w \o x, TRUE)
<1>1. PICK u \in Seq(S) : w = v \o u
  BY DEF Longer
<1>2. w \o x = v \o (u \o x) /\ u \o x \in Seq(S)
  BY <1>1, ConcatAssociative, ConcatProperties, SMTT(30)
<1>3. u \o x # <<>>
  BY ConcatEqualIffEmpty
<1> QED
  BY <1>2, <1>3 DEF Longer

\* Of sequences that are not empty, all are more than the first n.
LEMMA FlattenLonger ==
  ASSUME NEW S, NEW s \in Seq(Seq(S)), Full(s), NEW n \in 0 .. Len(s)
  PROVE  /\ FlattenSeq(SubSeq(s, 1, n)) \in Seq(S) /\ FlattenSeq(s) \in Seq(S)
         /\ Longer(S, FlattenSeq(SubSeq(s, 1, n)), FlattenSeq(s), n < Len(s))
<1> DEFINE Begin(k) == FlattenSeq(SubSeq(s, 1, k))
           T == {k \in Nat : n + k <= Len(s) => Longer(S, Begin(n), Begin(n + k), 0 < k)}
<1>1. Len(s) \in Nat /\ (\A i \in 1 .. Len(s) : s[i] \in Seq(S)) /\ n \in Nat /\ n <= Len(s)
  BY LenProperties, ElementOfSeq
<1>2. ASSUME NEW k \in 0 .. Len(s)
      PROVE  Begin(k) \in Seq(S)
  <2>1. \A i \in 1 .. k : s[i] \in Seq(S)
    BY <1>1
  <2>2. SubSeq(s, 1, k) \in Seq(Seq(S))
    BY <2>1, SubSeqProperties
  <2> QED
    BY <2>2, FlattenType
<1>3. Begin(Len(s)) = FlattenSeq(s)
  BY SubSeqFull
<1>4. \A k \in 1 .. Len(s) : Begin(k) = Begin(k - 1) \o s[k]
  BY FlattenNext
<1> HIDE DEF Begin
<1>5. 0 \in T
  <2>1. Begin(n) = Begin(n) \o <<>> /\ <<>> \in Seq(S)
    BY <1>2, ConcatEmptySeq, EmptySeq
  <2>2. n + 0 = n /\ ~ (0 < 0)
    BY <1>1
  <2>3. Longer(S, Begin(n), Begin(n), 0 < 0)
    BY <2>1, <2>2 DEF Longer
  <2> QED
    BY <2>2, <2>3
<1>6. ASSUME NEW k \in Nat, k \in T
      PROVE  k + 1 \in T
  <2> SUFFICES ASSUME n + (k + 1) <= Len(s)
               PROVE  Longer(S, Begin(n), Begin(n + (k + 1)), 0 < k + 1)
    OBVIOUS
  <2> DEFINE i == n + (k + 1)
             m == 0 < k
  <2>1. /\ i \in 1 .. Len(s) /\ i - 1 = n + k /\ n + k <= Len(s)
        /\ n \in 0 .. Len(s) /\ n + k \in 0 .. Len(s) /\ (0 < k + 1) = TRUE
    BY <1>1
  <2>2. Longer(S, Begin(n), Begin(n + k), m) /\ m \in BOOLEAN
    BY <1>6, <2>1
  <2> HIDE DEF i, m
  <2>3. Begin(i) = Begin(n + k) \o s[i] /\ s[i] \in Seq(S) /\ s[i] # <<>>
    BY <1>1, <1>4, <2>1 DEF Full
  <2>4. Begin(n) \in Seq(S) /\ Begin(n + k) \in Seq(S)
    BY <1>2, <2>1
  <2>5. Longer(S, Begin(n), Begin(n + k) \o s[i], TRUE)
    BY <2>2, <2>3, <2>4, LongerNext
  <2> QED
    BY <2>1, <2>3, <2>5 DEF i
<1>7. Nat \subseteq T
  <2> HIDE DEF T
  <2> QED
    BY <1>5, <1>6, Induction
<1> DEFINE k == Len(s) - n
<1>8. k \in Nat /\ n + k = Len(s)
  BY <1>1
<1> HIDE DEF k
<1>9. Longer(S, Begin(n), Begin(n + k), 0 < k)
  <2>1. k \in T /\ n + k <= Len(s)
    BY <1>1, <1>7, <1>8
  <2> QED
    BY <2>1
<1>10. Longer(S, Begin(n), Begin(Len(s)), n < Len(s))
  <2>1. 0 < k <=> n < Len(s)
    BY <1>1, <1>8
  <2> QED
    BY <1>8, <1>9, <2>1 DEF Longer
<1> QED
  BY <1>2, <1>3, <1>10, FlattenType DEF Begin

\* What is longer has it as its beginning, and is it only if nothing is added.
LEMMA LongerPrefix ==
  ASSUME NEW S, NEW v \in Seq(S), NEW w \in Seq(S), NEW m \in BOOLEAN, Longer(S, v, w, m)
  PROVE  IsPrefix(v, w) /\ (m => v # w)
<1>1. PICK u \in Seq(S) : w = v \o u /\ (m => u # <<>>)
  BY DEF Longer
<1>2. m => v # w
  BY <1>1, ConcatEqualIffEmpty
<1>3. Len(v) \in Nat /\ Len(u) \in Nat /\ Len(w) = Len(v) + Len(u)
  BY <1>1, LenProperties, ConcatProperties
<1>4. SubSeq(w, 1, Len(v)) = SubSeq(v, 1, Len(v))
  <2>1. CASE Len(v) = 0
    BY <2>1, SubSeqEmpty
  <2>2. CASE Len(v) # 0
    <3>1. 1 \in 1 .. Len(v) /\ Len(v) \in 1 .. Len(v)
      BY <1>3, <2>2
    <3> QED
      BY <1>1, <3>1, SubSeqOfConcat1
  <2> QED
    BY <2>1, <2>2
<1> QED
  BY <1>2, <1>3, <1>4 DEF IsPrefix


----------------------------------------------------------------------------
(* The SPI bus. *)

Clocks == [baud : Nat, mode : Nat]
SettingsSeen == [baud : Nat, bits : {0, 8, 16}, mode : Nat]
SpiEntry == [initialized : BOOLEAN, wiring : Wirings \cup {NoWiring},
             device : {0} \cup Slots, settings : SettingsSeen]
BusState == [wiring : Wirings \cup {NoWiring}, devices : [Slots -> Clocks]]
WireState == spiWire.asked \in {0} \cup SpiLengths /\ spiWire.width \in {1, 2}
Outcome == [ok : BOOLEAN, device : {0} \cup Slots, devices : [Slots -> Clocks],
            refused : SUBSET Slots]

SpiInv ==
  /\ spi \in SpiEntry /\ spiBus \in BusState /\ spiRefused \subseteq Slots
  /\ spi.initialized => spi.settings \in Settings
  /\ WireState
  /\ DeviceMatches

\* There are no devices on the bus but the one that is held and those that were
\* refused.
Occupied(n) == \A d \in Slots : n.devices[d] # FreeSlot => d = n.device \/ d \in n.refused

Matches(n, s) ==
  /\ n.device # 0 => n.devices[n.device] = Clocking(s)
  /\ Occupied(n)

SameBus(q, n) == q.device = n.device /\ q.devices = n.devices /\ q.refused = n.refused

LEMMA SettingsClock ==
  /\ Settings \subseteq SettingsSeen /\ FreeSlot \in Clocks
  /\ \A s \in SettingsSeen : Clocking(s) \in Clocks
  /\ \A baud \in Baudrates : DefaultSettings(baud) \in Settings
  /\ \A s \in Settings, baud \in Baudrates : [s EXCEPT !.baud = baud] \in Settings
  /\ \A s \in Settings, f \in SpiFormats : [s EXCEPT !.bits = f.bits, !.mode = f.mode] \in Settings
<1>1. Baudrates \subseteq Nat /\ \A f \in SpiFormats : f.bits \in {8, 16} /\ f.mode \in Nat
  BY SpiAssumption
<1>2. Settings \subseteq SettingsSeen
  <2> SUFFICES ASSUME NEW s \in Settings
               PROVE  s \in SettingsSeen
    OBVIOUS
  <2>1. s.mode = 0 \/ \E f \in SpiFormats : s.mode = f.mode
    BY DEF Settings
  <2>2. s.mode \in Nat
    BY <1>1, <2>1
  <2>3. s.baud \in Nat /\ s.bits \in {0, 8, 16}
    BY <1>1 DEF Settings
  <2>4. s = [baud |-> s.baud, bits |-> s.bits, mode |-> s.mode]
    BY DEF Settings
  <2> QED
    BY <2>2, <2>3, <2>4 DEF SettingsSeen
<1>3. FreeSlot \in Clocks /\ \A s \in SettingsSeen : Clocking(s) \in Clocks
  BY DEF FreeSlot, Clocks, SettingsSeen, Clocking
<1>4. \A baud \in Baudrates : DefaultSettings(baud) \in Settings
  BY DEF DefaultSettings, Settings
<1>5. \A s \in Settings, baud \in Baudrates : [s EXCEPT !.baud = baud] \in Settings
  BY DEF Settings
<1>6. ASSUME NEW s \in Settings, NEW f \in SpiFormats
      PROVE  [s EXCEPT !.bits = f.bits, !.mode = f.mode] \in Settings
  <2> DEFINE b == f.bits  m == f.mode
  <2>1. b \in {8, 16} /\ m \in {0} \cup {g.mode : g \in SpiFormats}
    BY <1>1
  <2> HIDE DEF b, m
  <2>2. [s EXCEPT !.bits = b, !.mode = m] \in Settings
    BY <2>1 DEF Settings
  <2> QED
    BY <2>2 DEF b, m
<1> QED
  BY <1>2, <1>3, <1>4, <1>5, <1>6

LEMMA FailingFields ==
  ASSUME NEW n \in Outcome
  PROVE  Failing(n) \in Outcome /\ ~Failing(n).ok /\ SameBus(Failing(n), n)
BY DEF Outcome, Failing, SameBus

LEMMA RefusedFields ==
  ASSUME NEW n \in Outcome, NEW r \in SUBSET Slots
  PROVE  LET q == Failing([n EXCEPT !.refused = r]) IN
         q \in Outcome /\ ~q.ok /\ q.device = n.device /\ q.devices = n.devices
         /\ q.refused = r
BY DEF Outcome, Failing

\* Adding a device while the handle is free, or that of a device the driver
\* refused to remove.
LEMMA AddedOutcome ==
  ASSUME NEW n \in Outcome, NEW s \in SettingsSeen, Occupied(n),
         n.device = 0 \/ n.device \in n.refused, NEW q \in Added(n, s)
  PROVE  /\ q \in Outcome
         /\ ~q.ok => SameBus(q, n)
         /\ q.ok => Matches(q, s)
<1>1. CASE q = Failing(n)
  BY <1>1, FailingFields
<1>2. ASSUME NEW d \in Slots, n.devices[d] = FreeSlot,
             q = [n EXCEPT !.ok = TRUE, !.device = d, !.devices[d] = Clocking(s),
                           !.refused = @ \ {d}]
      PROVE  q \in Outcome /\ q.ok /\ Matches(q, s)
  <2> DEFINE ds == [n.devices EXCEPT ![d] = Clocking(s)]
             rs == n.refused \ {d}
             p == [n EXCEPT !.ok = TRUE, !.device = d, !.devices = ds, !.refused = rs]
  <2>1. n.devices \in [Slots -> Clocks] /\ n.refused \in SUBSET Slots /\ Clocking(s) \in Clocks
    BY SettingsClock DEF Outcome
  <2>2. ds \in [Slots -> Clocks] /\ rs \in SUBSET Slots
    BY <2>1
  <2>3. ds[d] = Clocking(s) /\ \A e \in Slots : e # d => ds[e] = n.devices[e]
    BY <2>1
  <2>4. q = p
    BY <1>2
  <2> HIDE DEF ds, rs
  <2>5. p \in Outcome /\ p.ok /\ p.device = d /\ p.devices = ds /\ p.refused = rs
    BY <1>2, <2>2 DEF Outcome
  <2> HIDE DEF p
  <2>6. ASSUME NEW e \in Slots, q.devices[e] # FreeSlot, e # d
        PROVE  e \in q.refused
    <3>1. n.devices[e] # FreeSlot
      BY <2>3, <2>4, <2>5, <2>6
    <3>2. e \in n.refused
      BY <3>1 DEF Occupied, Slots
    <3> QED
      BY <2>4, <2>5, <2>6, <3>2 DEF rs
  <2>7. Occupied(q)
    BY <2>4, <2>5, <2>6 DEF Occupied
  <2> QED
    BY <2>3, <2>4, <2>5, <2>7 DEF Matches
<1> QED
  BY <1>1, <1>2 DEF Added

LEMMA RemovedOutcome ==
  ASSUME NEW n \in Outcome, n.ok, Occupied(n), NEW r \in Removed(n)
  PROVE  /\ r \in Outcome
         /\ r.ok => r.device = 0 /\ Occupied(r) /\ r.refused = n.refused
         /\ ~r.ok => /\ r.device = n.device /\ r.devices = n.devices /\ n.device # 0
                     /\ r.refused = n.refused \cup {n.device} /\ Occupied(r)
<1>1. CASE n.device = 0
  BY <1>1 DEF Removed
<1>2. CASE n.device # 0 /\ r = [n EXCEPT !.device = 0, !.devices[n.device] = FreeSlot]
  <2> DEFINE ds == [n.devices EXCEPT ![n.device] = FreeSlot]
             d == 0
             p == [n EXCEPT !.device = d, !.devices = ds]
  <2>1. n.devices \in [Slots -> Clocks] /\ n.device \in Slots /\ FreeSlot \in Clocks
    BY <1>2, SettingsClock DEF Outcome
  <2>2. ds \in [Slots -> Clocks] /\ ds[n.device] = FreeSlot
        /\ \A e \in Slots : e # n.device => ds[e] = n.devices[e]
    BY <2>1
  <2>3. r = p /\ d \in {0} \cup Slots /\ d = 0
    BY <1>2
  <2> HIDE DEF ds, d
  <2>4. /\ p \in Outcome /\ p.ok = n.ok /\ p.device = d /\ p.devices = ds
        /\ p.refused = n.refused
    BY <1>2, <2>2, <2>3 DEF Outcome
  <2> HIDE DEF p
  <2> QED
    BY <2>2, <2>3, <2>4 DEF Occupied
<1>3. CASE n.device # 0 /\ r = Failing([n EXCEPT !.refused = @ \cup {n.device}])
  <2>1. n.refused \cup {n.device} \in SUBSET Slots
    BY <1>3 DEF Outcome
  <2> QED
    BY <1>3, <2>1, RefusedFields DEF Occupied
<1> QED
  BY <1>1, <1>2, <1>3 DEF Removed

Entry(e, initialized, wiring, device, settings) ==
  /\ e \in SpiEntry /\ e.initialized = initialized /\ e.wiring = wiring
  /\ e.device = device /\ e.settings = settings

LEMMA EntryFields ==
  ASSUME spi \in SpiEntry, NEW w \in Wirings \cup {NoWiring}, NEW b \in BOOLEAN,
         NEW d \in {0} \cup Slots, NEW s \in SettingsSeen
  PROVE  /\ Entry([spi EXCEPT !.wiring = w], spi.initialized, w, spi.device, spi.settings)
         /\ Entry([spi EXCEPT !.settings = s], spi.initialized, spi.wiring, spi.device, s)
         /\ Entry([spi EXCEPT !.device = d], spi.initialized, spi.wiring, d, spi.settings)
         /\ Entry([spi EXCEPT !.device = d, !.settings = s], spi.initialized, spi.wiring, d, s)
         /\ Entry([spi EXCEPT !.initialized = b, !.settings = s, !.device = d], b,
                  spi.wiring, d, s)
         /\ Entry([spi EXCEPT !.device = d, !.initialized = b, !.settings = s], b,
                  spi.wiring, d, s)
BY DEF Entry, SpiEntry

LEMMA BusFields ==
  ASSUME spiBus \in BusState, NEW ds \in [Slots -> Clocks], NEW w \in Wirings \cup {NoWiring}
  PROVE  /\ LET b == [spiBus EXCEPT !.devices = ds] IN
            b \in BusState /\ b.wiring = spiBus.wiring /\ b.devices = ds
         /\ LET b == [wiring |-> w, devices |-> ds] IN
            b \in BusState /\ b.wiring = w /\ b.devices = ds
BY DEF BusState

\* A call that leaves the controller initialised, with what became of the device.
LEMMA StaysInitialised ==
  ASSUME SpiInv, spi.initialized, NEW q \in Outcome, NEW s \in Settings, Matches(q, s),
         \/ spi' = [spi EXCEPT !.device = q.device, !.settings = s]
         \/ spi' = [spi EXCEPT !.device = q.device] /\ s = spi.settings,
         spiBus' = [spiBus EXCEPT !.devices = q.devices],
         spiRefused' = q.refused, UNCHANGED spiWire
  PROVE  SpiInv'
<1>1. q.device \in {0} \cup Slots /\ q.devices \in [Slots -> Clocks] /\ q.refused \subseteq Slots
  BY DEF Outcome
<1>2. spi \in SpiEntry /\ spiBus \in BusState /\ s \in SettingsSeen
  BY SettingsClock DEF SpiInv
<1>3. Entry(spi', spi.initialized, spi.wiring, q.device, s)
  BY <1>1, <1>2, EntryFields
<1>4. spiBus' \in BusState /\ spiBus'.wiring = spiBus.wiring /\ spiBus'.devices = q.devices
  BY <1>1, <1>2, BusFields
<1>5. DeviceMatches'
  BY <1>3, <1>4 DEF SpiInv, DeviceMatches, Matches, Occupied, Entry
<1> QED
  BY <1>1, <1>3, <1>4, <1>5 DEF SpiInv, WireState, Entry

LEMMA NowFields ==
  ASSUME SpiInv
  PROVE  /\ Now \in Outcome /\ Now.ok /\ Now.device = spi.device
         /\ Now.devices = spiBus.devices /\ Now.refused = spiRefused
         /\ Matches(Now, spi.settings)
<1>1. /\ spi.device \in {0} \cup Slots /\ spiBus.devices \in [Slots -> Clocks]
      /\ spiRefused \in SUBSET Slots
  BY DEF SpiInv, SpiEntry, BusState
<1>2. /\ Now \in Outcome /\ Now.ok /\ Now.device = spi.device
      /\ Now.devices = spiBus.devices /\ Now.refused = spiRefused
  BY <1>1 DEF Now, Outcome
<1> QED
  BY <1>2 DEF SpiInv, DeviceMatches, Matches, Occupied

\* bmx_esp32_spi_reconfigure, and the device put back when it fails.
LEMMA ChangeKeeps ==
  ASSUME SpiInv, spi.initialized, NEW s \in Settings, Change(s)
  PROVE  SpiInv'
<1> DEFINE old == spi.settings
<1>types. old \in Settings /\ old \in SettingsSeen /\ s \in SettingsSeen
  BY SettingsClock DEF SpiInv
<1>now. Now \in Outcome /\ Now.ok /\ Matches(Now, old) /\ Occupied(Now)
  BY NowFields DEF Matches
<1>1. PICK r \in Reconfigured(Now, s) :
        \E q \in IF r.ok THEN {r} ELSE Added(r, old) :
          /\ spi' = [spi EXCEPT !.device = q.device, !.settings = IF r.ok THEN s ELSE @]
          /\ spiBus' = [spiBus EXCEPT !.devices = q.devices]
          /\ spiRefused' = q.refused
          /\ UNCHANGED spiWire
  BY DEF Change
<1>2. PICK q \in IF r.ok THEN {r} ELSE Added(r, old) :
        /\ spi' = [spi EXCEPT !.device = q.device, !.settings = IF r.ok THEN s ELSE @]
        /\ spiBus' = [spiBus EXCEPT !.devices = q.devices]
        /\ spiRefused' = q.refused
        /\ UNCHANGED spiWire
  BY <1>1
<1>3. PICK gone \in Removed(Now) : r \in IF gone.ok THEN Added(gone, s) ELSE {gone}
  BY <1>1 DEF Reconfigured
<1>4. /\ gone \in Outcome /\ Occupied(gone)
      /\ gone.ok => gone.device = 0
      /\ ~gone.ok => /\ gone.device = Now.device /\ gone.devices = Now.devices
                     /\ gone.device \in gone.refused
  BY <1>now, <1>3, RemovedOutcome
<1>5. CASE r.ok
  <2>1. gone.ok /\ r \in Added(gone, s)
    BY <1>3, <1>5
  <2>2. r \in Outcome /\ Matches(r, s)
    BY <1>types, <1>4, <1>5, <2>1, AddedOutcome
  <2>3. q = r /\ spi' = [spi EXCEPT !.device = q.device, !.settings = s]
    BY <1>2, <1>5
  <2> QED
    BY <1>2, <2>2, <2>3, StaysInitialised
<1>6. CASE ~r.ok
  <2>1. /\ r \in Outcome /\ Matches(r, old) /\ Occupied(r)
        /\ r.device = 0 \/ r.device \in r.refused
    <3>1. CASE gone.ok
      <4>1. r \in Outcome /\ SameBus(r, gone)
        BY <1>types, <1>3, <1>4, <1>6, <3>1, AddedOutcome
      <4> QED
        BY <1>4, <3>1, <4>1 DEF SameBus, Matches, Occupied
    <3>2. CASE ~gone.ok
      BY <1>now, <1>3, <1>4, <3>2 DEF Matches, Occupied
    <3> QED
      BY <3>1, <3>2
  <2>2. q \in Added(r, old)
    BY <1>2, <1>6
  <2>3. q \in Outcome /\ Matches(q, old)
    <3>1. q \in Outcome /\ (~q.ok => SameBus(q, r)) /\ (q.ok => Matches(q, old))
      BY <1>types, <2>1, <2>2, AddedOutcome
    <3> QED
      BY <2>1, <3>1 DEF SameBus, Matches, Occupied
  <2>4. spi' = [spi EXCEPT !.device = q.device, !.settings = old]
    BY <1>2, <1>6
  <2> QED
    BY <1>types, <1>2, <2>3, <2>4, StaysInitialised
<1> QED
  BY <1>5, <1>6

LEMMA SpiStep ==
  ASSUME SpiInv, [SpiNext]_spiVars
  PROVE  SpiInv'
<1>types. /\ spi \in SpiEntry /\ spiBus \in BusState /\ spiRefused \subseteq Slots
          /\ spi.initialized \in BOOLEAN /\ spi.wiring \in Wirings \cup {NoWiring}
          /\ spi.device \in {0} \cup Slots /\ spi.settings \in SettingsSeen
          /\ spiBus.devices \in [Slots -> Clocks]
  BY DEF SpiInv, SpiEntry, BusState
<1>inv. DeviceMatches /\ WireState /\ (spi.initialized => spi.settings \in Settings)
  BY DEF SpiInv
<1>now. /\ Now \in Outcome /\ Now.ok /\ Occupied(Now) /\ Matches(Now, spi.settings)
        /\ Now.device = spi.device /\ Now.devices = spiBus.devices /\ Now.refused = spiRefused
  BY NowFields DEF Matches
<1>1. ASSUME NEW w \in Wirings, SpiConfigurePins(w)
      PROVE  SpiInv'
  <2>1. Entry(spi', spi.initialized, w, spi.device, spi.settings)
    BY <1>1, <1>types, EntryFields DEF SpiConfigurePins
  <2> QED
    BY <1>1, <1>types, <1>inv, <2>1 DEF SpiConfigurePins, Entry, SpiInv, DeviceMatches,
       WireState
<1>2. ASSUME NEW baud \in Baudrates, SpiInitialize(baud)
      PROVE  SpiInv'
  <2> DEFINE s == DefaultSettings(baud)
  <2>1. s \in Settings /\ s \in SettingsSeen
    BY SettingsClock
  <2>2. PICK r \in Added(Now, s) :
          /\ r.ok
          /\ spi' = [spi EXCEPT !.initialized = TRUE, !.settings = s, !.device = r.device]
          /\ spiBus' = [wiring |-> spi.wiring, devices |-> r.devices]
          /\ UNCHANGED <<spiRefused, spiWire>>
    BY <1>2 DEF SpiInitialize
  <2> HIDE DEF s
  <2>3. spi.device = 0 /\ spi.wiring \in Wirings
    BY <1>2, <1>types, <1>inv DEF SpiInitialize, DeviceMatches
  <2>4. r \in Outcome /\ Matches(r, s)
    BY <1>now, <2>1, <2>2, <2>3, AddedOutcome
  <2>5. r.device \in {0} \cup Slots /\ r.devices \in [Slots -> Clocks]
    BY <2>4 DEF Outcome
  <2>6. Entry(spi', TRUE, spi.wiring, r.device, s)
    BY <1>types, <2>1, <2>2, <2>5, EntryFields
  <2>7. spiBus' \in BusState /\ spiBus'.wiring = spi.wiring /\ spiBus'.devices = r.devices
    BY <1>types, <2>2, <2>5, BusFields
  <2>8. \A d \in Slots : r.devices[d] # FreeSlot => d = r.device \/ d \in spiRefused
    <3>1. r.refused \subseteq spiRefused
      <4>1. ASSUME NEW d \in Slots,
                   r = [Now EXCEPT !.ok = TRUE, !.device = d, !.devices[d] = Clocking(s),
                                   !.refused = @ \ {d}]
            PROVE  r.refused = spiRefused \ {d}
        BY <1>now, <4>1 DEF Outcome
      <4>2. r # Failing(Now)
        BY <1>now, <2>2, FailingFields
      <4> QED
        BY <2>2, <4>1, <4>2 DEF Added
    <3> QED
      BY <2>4, <3>1 DEF Matches, Occupied
  <2>9. DeviceMatches'
    BY <1>2, <2>2, <2>3, <2>4, <2>6, <2>7, <2>8, SpiAssumption
       DEF SpiInitialize, DeviceMatches, Matches, Entry
  <2> QED
    BY <1>types, <1>inv, <2>1, <2>2, <2>6, <2>7, <2>9 DEF SpiInv, WireState, Entry
<1>3. ASSUME NEW baud \in Baudrates, SpiInitializeFails(baud)
      PROVE  SpiInv'
  <2>1. DefaultSettings(baud) \in SettingsSeen
    BY SettingsClock
  <2>2. Entry(spi', spi.initialized, spi.wiring, spi.device, DefaultSettings(baud))
    BY <1>3, <1>types, <2>1, EntryFields DEF SpiInitializeFails
  <2> QED
    BY <1>3, <1>types, <1>inv, <2>2
       DEF SpiInitializeFails, Entry, SpiInv, DeviceMatches, WireState
<1>4. ASSUME NEW baud \in Baudrates, SpiSetBaudrate(baud)
      PROVE  SpiInv'
  BY <1>4, <1>inv, SettingsClock, ChangeKeeps DEF SpiSetBaudrate
<1>5. ASSUME NEW f \in SpiFormats, SpiSetFormat(f)
      PROVE  SpiInv'
  BY <1>5, <1>inv, SettingsClock, ChangeKeeps DEF SpiSetFormat
<1>6. CASE SpiDeinitialize
  <2>1. PICK r \in Removed(Now) :
          /\ r.ok /\ r.devices = Nobody
          /\ spi' = [spi EXCEPT !.device = 0, !.initialized = FALSE, !.settings.baud = 0]
          /\ spiBus' = [wiring |-> NoWiring, devices |-> r.devices]
          /\ UNCHANGED <<spiRefused, spiWire>>
    BY <1>6 DEF SpiDeinitialize
  <2> DEFINE s == [spi.settings EXCEPT !.baud = 0]
  <2>2. s \in SettingsSeen /\ spi' = [spi EXCEPT !.device = 0, !.initialized = FALSE, !.settings = s]
    BY <1>types, <2>1 DEF SettingsSeen
  <2> HIDE DEF s
  <2>3. Entry(spi', FALSE, spi.wiring, 0, s)
    BY <1>types, <2>2, EntryFields
  <2>4. r.devices \in [Slots -> Clocks] /\ \A d \in Slots : r.devices[d] = FreeSlot
    BY <1>now, <2>1, RemovedOutcome DEF Outcome, Nobody
  <2>5. spiBus' \in BusState /\ spiBus'.wiring = NoWiring /\ spiBus'.devices = r.devices
    BY <1>types, <2>1, <2>4, BusFields
  <2>6. DeviceMatches'
    BY <2>3, <2>4, <2>5 DEF DeviceMatches, Entry
  <2> QED
    BY <1>types, <1>inv, <2>1, <2>3, <2>5, <2>6 DEF SpiInv, WireState, Entry
<1>7. CASE SpiDeinitializeFails
  <2>1. PICK r \in Removed(Now) :
          /\ spi' = [spi EXCEPT !.device = r.device]
          /\ spiBus' = [spiBus EXCEPT !.devices = r.devices]
          /\ spiRefused' = r.refused /\ UNCHANGED spiWire
    BY <1>7 DEF SpiDeinitializeFails
  <2>2. r \in Outcome /\ Matches(r, spi.settings)
    BY <1>now, RemovedOutcome DEF Matches
  <2> QED
    BY <1>7, <1>inv, <2>1, <2>2, StaysInitialised DEF SpiDeinitializeFails
<1>8. ASSUME NEW length \in SpiLengths, NEW bits \in {8, 16}, NEW repeated \in BOOLEAN,
             SpiTransfer(length, bits, repeated)
      PROVE  SpiInv'
  <2>1. spiWire'.asked = length /\ spiWire'.width = bits \div 8
        /\ UNCHANGED <<spi, spiBus, spiRefused>>
    BY <1>8 DEF SpiTransfer
  <2>2. bits \div 8 \in {1, 2}
    OBVIOUS
  <2> QED
    BY <1>types, <1>inv, <2>1, <2>2 DEF SpiInv, DeviceMatches, WireState
<1>9. CASE UNCHANGED spiVars
  BY <1>9, <1>types, <1>inv DEF spiVars, SpiInv, DeviceMatches, WireState
<1> QED
  BY <1>1, <1>2, <1>3, <1>4, <1>5, <1>6, <1>7, <1>8, <1>9 DEF SpiNext

----------------------------------------------------------------------------
(* What SPI transfers. *)

\* Bytes of the caller's, from the one at a place on.
Stretches == [from : Nat, size : Nat]

\* Where the stretch i of s ends; before there is any, where the first begins.
EndOf(s, first, i) == IF i = 0 THEN first ELSE s[i].from + s[i].size

\* Each begins where the one before it ends.
Touch(s, first) ==
  s \in Seq(Stretches) /\ \A i \in 1 .. Len(s) : s[i].from = EndOf(s, first, i - 1)

\* Each is of whole words, and of no more than most bytes.
Words(s, width, most) == \A i \in 1 .. Len(s) : s[i].size \in 1 .. most /\ s[i].size % width = 0

\* Every byte from first to last is in one of them, in order.
Cover(s, first, last, width, most) ==
  Touch(s, first) /\ Words(s, width, most) /\ EndOf(s, first, Len(s)) = last

\* The number of chunks: all but the last are whole.
LEMMA Division ==
  ASSUME NEW n \in Nat, NEW size \in Nat \ {0}
  PROVE  LET k == (n + size - 1) \div size IN
         /\ k \in Nat /\ (k = 0 <=> n = 0)
         /\ n <= k * size /\ (n # 0 => (k - 1) * size < n)
<1> DEFINE k == (n + size - 1) \div size
           r == (n + size - 1) % size
<1>1. k \in Int /\ r \in 0 .. size - 1 /\ n + size - 1 = k * size + r
  BY SMTT(30)
<1> HIDE DEF k, r
<1>2. k >= 0
  BY <1>1, SMTT(30)
<1>3. n <= k * size
  BY <1>1
<1>4. (k - 1) * size = k * size - size
  BY <1>1
<1>5. n # 0 => (k - 1) * size < n
  BY <1>1, <1>4
<1>6. k = 0 => n = 0
  BY <1>1, <1>3
<1>7. n = 0 => k = 0
  BY <1>1, <1>2, SMTT(30)
<1> QED
  BY <1>1, <1>2, <1>3, <1>5, <1>6, <1>7 DEF k

\* What is left after some chunks is whole words.
LEMMA WholeWords ==
  ASSUME NEW n \in Int, NEW m \in Int, NEW j \in Int, NEW width \in {1, 2},
         n % width = 0, m % width = 0
  PROVE  (n - j * m) % width = 0
<1>1. CASE width = 1
  BY <1>1
<1>2. CASE width = 2
  <2>1. PICK p \in Int : n = 2 * p
    <3>1. n = 2 * (n \div 2) /\ n \div 2 \in Int
      BY <1>2
    <3> QED
      BY <3>1
  <2>2. PICK q \in Int : m = 2 * q
    <3>1. m = 2 * (m \div 2) /\ m \div 2 \in Int
      BY <1>2
    <3> QED
      BY <3>1
  <2> DEFINE d == p - j * q
  <2>3. n - j * m = 2 * d /\ d \in Int
    BY <2>1, <2>2
  <2> HIDE DEF d
  <2>4. (2 * d) % 2 = 0
    BY <2>3
  <2> QED
    BY <1>2, <2>3, <2>4
<1> QED
  BY <1>1, <1>2

\* The loop that moves n bytes moves each of them once.
LEMMA ChunksCover ==
  ASSUME NEW first \in Nat, NEW n \in Nat, NEW size \in Nat \ {0}, NEW width \in {1, 2},
         n % width = 0, size % width = 0
  PROVE  Cover(Chunks(first, n, size), first, first + n, width, size)
<1> DEFINE k == (n + size - 1) \div size
           from(i) == first + (i - 1) * size
           left(i) == n - (i - 1) * size
           s == [i \in 1 .. k |-> [from |-> from(i), size |-> Smaller(size, left(i))]]
<1>1. /\ k \in Nat /\ (k = 0 <=> n = 0)
      /\ n <= k * size /\ (n # 0 => (k - 1) * size < n)
  BY Division
<1> HIDE DEF k
<1>2. ASSUME NEW i \in 1 .. k
      PROVE  /\ from(i) \in Nat /\ left(i) \in Nat \ {0} /\ left(i) % width = 0
             /\ i # k => size < left(i)
             /\ i = k => left(i) <= size
  <2>1. i \in Nat /\ i - 1 \in Nat /\ i >= 1 /\ k - i \in Nat /\ n # 0
    BY <1>1
  <2>2. (i - 1) * size \in Nat /\ (k - i) * size \in Nat
    BY <2>1
  <2>3. (k - 1) * size = (i - 1) * size + (k - i) * size
    BY <1>1, <2>1
  <2>4. k * size = (k - 1) * size + size
    BY <1>1
  <2>5. i # k => (k - i) * size >= size
    <3>1. i # k => k - i - 1 \in Nat
      BY <1>1, <2>1
    <3> DEFINE u == (k - i - 1) * size
    <3>2. i # k => u >= 0
      BY <3>1
    <3>3. (k - i) * size = u + size /\ u \in Int
      BY <1>1, <2>1
    <3> HIDE DEF u
    <3> QED
      BY <3>2, <3>3
  <2>6. left(i) % width = 0
    <3> DEFINE j == i - 1
    <3>1. j \in Int /\ n \in Int /\ size \in Int
      BY <2>1
    <3> HIDE DEF j
    <3>2. (n - j * size) % width = 0
      BY <3>1, WholeWords
    <3> QED
      BY <3>2 DEF j
  <2>7. from(i) \in Nat /\ left(i) \in Nat \ {0}
    BY <1>1, <2>1, <2>2, <2>3
  <2>8. i # k => size < left(i)
    BY <1>1, <2>1, <2>2, <2>3, <2>5
  <2>9. i = k => left(i) <= size
    BY <1>1, <2>1, <2>2, <2>4
  <2> QED
    BY <2>6, <2>7, <2>8, <2>9
<1> HIDE DEF from, left
<1>3. ASSUME NEW i \in 1 .. k
      PROVE  /\ s[i] \in Stretches /\ s[i].from = from(i)
             /\ s[i].size \in 1 .. size /\ s[i].size % width = 0
             /\ i # k => s[i].size = size
             /\ i = k => s[i].size = left(i)
  <2>1. s[i] = [from |-> from(i), size |-> Smaller(size, left(i))]
    BY <1>3
  <2> HIDE DEF s
  <2>2. from(i) \in Nat /\ left(i) \in Nat \ {0} /\ left(i) % width = 0
    BY <1>2
  <2>3. /\ Smaller(size, left(i)) \in 1 .. size /\ Smaller(size, left(i)) % width = 0
        /\ i # k => Smaller(size, left(i)) = size
        /\ i = k => Smaller(size, left(i)) = left(i)
    BY <1>2, <2>2 DEF Smaller
  <2>4. Smaller(size, left(i)) \in Nat
    BY <2>3
  <2> HIDE DEF Smaller
  <2> QED
    BY <2>1, <2>2, <2>3, <2>4 DEF Stretches
<1>4. s \in Seq(Stretches) /\ Len(s) = k
  <2>1. s \in [1 .. k -> Stretches]
    <3>1. s = [i \in 1 .. k |-> s[i]]
      OBVIOUS
    <3> HIDE DEF s
    <3> QED
      BY <1>3, <3>1
  <2> HIDE DEF s
  <2> QED
    BY <1>1, <2>1
<1> HIDE DEF s
<1>5. ASSUME NEW i \in 1 .. k
      PROVE  s[i].from = EndOf(s, first, i - 1)
  <2>1. CASE i = 1
    <3>1. from(i) = first
      BY <2>1 DEF from
    <3> QED
      BY <1>3, <2>1, <3>1 DEF EndOf
  <2>2. CASE i # 1
    <3> DEFINE j == i - 1
    <3>1. j \in 1 .. k /\ j # k /\ j # 0 /\ i = j + 1
      BY <1>1, <2>2
    <3>2. from(i) = from(j) + size
      BY <1>1, <3>1 DEF from
    <3> HIDE DEF j
    <3>3. EndOf(s, first, j) = from(j) + size
      BY <1>3, <3>1 DEF EndOf
    <3> QED
      BY <1>3, <3>2, <3>3 DEF j
  <2> QED
    BY <2>1, <2>2
<1>6. EndOf(s, first, k) = first + n
  <2>1. CASE k = 0
    BY <1>1, <2>1 DEF EndOf
  <2>2. CASE k # 0
    <3>1. k \in 1 .. k
      BY <1>1, <2>2
    <3>2. EndOf(s, first, k) = from(k) + left(k)
      BY <1>3, <2>2, <3>1 DEF EndOf
    <3>3. from(k) + left(k) = first + n
      BY <1>1 DEF from, left
    <3> QED
      BY <3>2, <3>3
  <2> QED
    BY <2>1, <2>2
<1>7. Chunks(first, n, size) = s
  BY DEF Chunks, s, k, from, left
<1> QED
  BY <1>3, <1>4, <1>5, <1>6, <1>7 DEF Cover, Touch, Words

\* A cover that goes on where another ends.
LEMMA CoverNext ==
  ASSUME NEW a, NEW b, NEW c, NEW width, NEW most, NEW s, NEW t,
         Cover(s, a, b, width, most), Cover(t, b, c, width, most)
  PROVE  Cover(s \o t, a, c, width, most)
<1> DEFINE w == s \o t
           m == Len(s)
           n == Len(t)
<1>1. s \in Seq(Stretches) /\ t \in Seq(Stretches) /\ m \in Nat /\ n \in Nat
  BY LenProperties DEF Cover, Touch
<1>2. /\ w \in Seq(Stretches) /\ Len(w) = m + n
      /\ \A i \in 1 .. m + n : w[i] = IF i <= m THEN s[i] ELSE t[i - m]
  BY <1>1, ConcatProperties
<1> HIDE DEF w, m, n
<1>3. ASSUME NEW i \in 0 .. m
      PROVE  EndOf(w, a, i) = EndOf(s, a, i)
  BY <1>1, <1>2 DEF EndOf
<1>4. ASSUME NEW i \in 0 .. n
      PROVE  EndOf(w, a, m + i) = EndOf(t, b, i)
  <2>1. CASE i = 0
    <3>1. m \in 0 .. m /\ m + i = m
      BY <1>1, <2>1
    <3>2. EndOf(s, a, m) = b
      BY DEF Cover, m
    <3> QED
      BY <1>3, <2>1, <3>1, <3>2 DEF EndOf
  <2>2. CASE i # 0
    <3>1. m + i \in 1 .. m + n /\ ~ (m + i <= m) /\ (m + i) - m = i /\ m + i # 0
      BY <1>1, <2>2
    <3>2. w[m + i] = t[i]
      <4> DEFINE j == m + i
      <4>1. j \in 1 .. m + n /\ ~ (j <= m) /\ j - m = i
        BY <3>1
      <4> HIDE DEF j
      <4>2. w[j] = t[j - m]
        BY <1>2, <4>1
      <4> QED
        BY <4>1, <4>2 DEF j
    <3> QED
      BY <2>2, <3>1, <3>2 DEF EndOf
  <2> QED
    BY <2>1, <2>2
<1>5. ASSUME NEW i \in 1 .. m + n
      PROVE  /\ w[i].from = EndOf(w, a, i - 1)
             /\ w[i].size \in 1 .. most /\ w[i].size % width = 0
  <2>1. CASE i <= m
    <3>1. i \in 1 .. m /\ i - 1 \in 0 .. m /\ w[i] = s[i]
      BY <1>1, <1>2, <2>1
    <3>2. /\ s[i].from = EndOf(s, a, i - 1)
          /\ s[i].size \in 1 .. most /\ s[i].size % width = 0
      BY <3>1 DEF Cover, Touch, Words, m
    <3> QED
      BY <1>3, <3>1, <3>2
  <2>2. CASE ~ (i <= m)
    <3> DEFINE j == i - m
    <3>1. j \in 1 .. n /\ j - 1 \in 0 .. n /\ w[i] = t[j] /\ m + (j - 1) = i - 1
      BY <1>1, <1>2, <2>2
    <3> HIDE DEF j
    <3>2. /\ t[j].from = EndOf(t, b, j - 1)
          /\ t[j].size \in 1 .. most /\ t[j].size % width = 0
      BY <3>1 DEF Cover, Touch, Words, n
    <3>3. EndOf(w, a, m + (j - 1)) = EndOf(t, b, j - 1)
      BY <1>4, <3>1
    <3> QED
      BY <3>1, <3>2, <3>3
  <2> QED
    BY <2>1, <2>2
<1>6. EndOf(w, a, m + n) = c
  <2>1. n \in 0 .. n
    BY <1>1
  <2>2. EndOf(w, a, m + n) = EndOf(t, b, n)
    BY <1>4, <2>1
  <2> QED
    BY <2>2 DEF Cover, n
<1> QED
  BY <1>2, <1>5, <1>6 DEF Cover, Touch, Words, w

\* Stretches that touch are covered by the covers of each, one after another.
LEMMA FlattenCover ==
  ASSUME NEW parts, Touch(parts, 0), NEW cuts \in Seq(Seq(Stretches)),
         Len(cuts) = Len(parts), NEW width, NEW most,
         \A i \in 1 .. Len(parts) :
           Cover(cuts[i], parts[i].from, parts[i].from + parts[i].size, width, most)
  PROVE  Cover(FlattenSeq(cuts), 0, EndOf(parts, 0, Len(parts)), width, most)
<1> DEFINE n == Len(parts)
           Done(k) == Cover(FlattenSeq(SubSeq(cuts, 1, k)), 0, EndOf(parts, 0, k), width, most)
           T == {k \in Nat : k <= n => Done(k)}
<1>1. n \in Nat /\ parts \in Seq(Stretches)
  BY LenProperties DEF Touch
<1>2. Done(0)
  <2>1. FlattenSeq(SubSeq(cuts, 1, 0)) = <<>>
    <3>1. SubSeq(cuts, 1, 0) = <<>>
      BY SubSeqEmpty
    <3> QED
      BY <3>1, FlattenEmpty
  <2> DEFINE none == <<>>
  <2>2. none \in Seq(Stretches) /\ Len(none) = 0
    BY EmptySeq
  <2> HIDE DEF none
  <2>3. Cover(none, 0, EndOf(parts, 0, 0), width, most)
    BY <2>2 DEF Cover, Touch, Words, EndOf
  <2> QED
    BY <2>1, <2>3 DEF none
<1>3. ASSUME NEW k \in Nat, k \in T
      PROVE  k + 1 \in T
  <2> HIDE DEF Done
  <2> SUFFICES ASSUME k + 1 <= n PROVE Done(k + 1)
    OBVIOUS
  <2> DEFINE i == k + 1
  <2>1. i \in 1 .. n /\ i - 1 = k /\ k <= n /\ i # 0
    BY <1>1
  <2>2. Done(k)
    BY <1>3, <2>1
  <2> HIDE DEF i
  <2>3. FlattenSeq(SubSeq(cuts, 1, i)) = FlattenSeq(SubSeq(cuts, 1, k)) \o cuts[i]
    BY <2>1, FlattenNext
  <2>4. parts[i].from = EndOf(parts, 0, k) /\ parts[i].from + parts[i].size = EndOf(parts, 0, i)
    BY <2>1 DEF Touch, EndOf
  <2>5. Cover(cuts[i], EndOf(parts, 0, k), EndOf(parts, 0, i), width, most)
    BY <2>1, <2>4
  <2>6. Done(i)
    BY <2>2, <2>3, <2>5, CoverNext DEF Done
  <2> QED
    BY <2>6 DEF i
<1>4. Done(n)
  <2>1. Nat \subseteq T
    <3>1. 0 \in T
      <4> HIDE DEF Done
      <4> QED
        BY <1>2
    <3> HIDE DEF T
    <3> QED
      BY <1>3, <3>1, Induction
  <2> HIDE DEF Done, n
  <2> QED
    BY <1>1, <2>1
<1>5. SubSeq(cuts, 1, n) = cuts
  BY SubSeqFull
<1> QED
  BY <1>4, <1>5

\* The chunks that were sent end before all do, unless they are all.
LEMMA CoverBegun ==
  ASSUME NEW s, NEW last, NEW width, NEW most, Cover(s, 0, last, width, most),
         NEW n \in 0 .. Len(s)
  PROVE  /\ last \in Nat /\ EndOf(s, 0, n) \in Nat /\ EndOf(s, 0, n) <= last
         /\ EndOf(s, 0, n) = last <=> n = Len(s)
         /\ SubSeq(s, 1, n) \in Seq(Stretches) /\ Len(SubSeq(s, 1, n)) = n
         /\ \A i \in 1 .. n : SubSeq(s, 1, n)[i] = s[i]
<1> DEFINE End(k) == EndOf(s, 0, k)
           T == {k \in Nat : n + k <= Len(s) => End(n) + k <= End(n + k)}
<1>1. /\ s \in Seq(Stretches) /\ Len(s) \in Nat /\ n \in Nat /\ n <= Len(s)
      /\ \A i \in 1 .. Len(s) : s[i] \in Stretches /\ s[i].from = End(i - 1)
                                /\ s[i].size \in 1 .. most
      /\ End(Len(s)) = last
  <2>1. s \in Seq(Stretches)
    BY DEF Cover, Touch
  <2>2. Len(s) \in Nat /\ \A i \in 1 .. Len(s) : s[i] \in Stretches
    BY <2>1, LenProperties, ElementOfSeq
  <2> QED
    BY <2>1, <2>2 DEF Cover, Touch, Words
<1> HIDE DEF End
<1>2. ASSUME NEW i \in 0 .. Len(s)
      PROVE  End(i) \in Nat /\ (i # 0 => End(i) >= End(i - 1) + 1)
  <2>1. CASE i = 0
    BY <2>1 DEF End, EndOf
  <2>2. CASE i # 0
    <3>1. i \in 1 .. Len(s)
      BY <1>1, <2>2
    <3>2. s[i].from \in Nat /\ s[i].size \in Nat /\ s[i].size >= 1 /\ s[i].from = End(i - 1)
      <4>1. s[i] \in Stretches /\ s[i].from = End(i - 1) /\ s[i].size \in 1 .. most
        BY <1>1, <3>1
      <4>2. s[i].from \in Nat /\ s[i].size \in Nat
        BY <4>1 DEF Stretches
      <4> QED
        BY <4>1, <4>2
    <3>3. End(i) = s[i].from + s[i].size
      BY <2>2 DEF End, EndOf
    <3> QED
      BY <3>2, <3>3
  <2> QED
    BY <2>1, <2>2
<1>3. 0 \in T
  <2>1. n \in 0 .. Len(s) /\ n + 0 = n
    BY <1>1
  <2>2. End(n) + 0 <= End(n)
    BY <1>2, <2>1
  <2> QED
    BY <2>1, <2>2
<1>4. ASSUME NEW k \in Nat, k \in T
      PROVE  k + 1 \in T
  <2> SUFFICES ASSUME n + (k + 1) <= Len(s) PROVE End(n) + (k + 1) <= End(n + (k + 1))
    OBVIOUS
  <2> DEFINE i == n + (k + 1)
  <2>1. /\ i \in 0 .. Len(s) /\ i # 0 /\ i - 1 = n + k /\ n + k <= Len(s)
        /\ n \in 0 .. Len(s) /\ n + k \in 0 .. Len(s)
    BY <1>1
  <2>2. End(n) + k <= End(n + k)
    BY <1>4, <2>1
  <2> HIDE DEF i
  <2>3. End(i) >= End(n + k) + 1 /\ End(i) \in Nat /\ End(n) \in Nat /\ End(n + k) \in Nat
    BY <1>2, <2>1
  <2>4. End(n) + (k + 1) <= End(i)
    <3> DEFINE x == End(n)
               y == End(n + k)
               z == End(i)
    <3>1. z >= y + 1 /\ x \in Nat /\ y \in Nat /\ z \in Nat /\ x + k <= y
      BY <2>2, <2>3
    <3> HIDE DEF x, y, z
    <3>2. x + (k + 1) <= z
      BY <3>1
    <3> QED
      BY <3>2 DEF x, z
  <2> QED
    BY <2>4 DEF i
<1> DEFINE k == Len(s) - n
<1>5. k \in Nat /\ n + k = Len(s) /\ (k = 0 <=> n = Len(s)) /\ n \in 0 .. Len(s)
      /\ Len(s) \in 0 .. Len(s)
  BY <1>1
<1>6. Nat \subseteq T
  <2> HIDE DEF T
  <2> QED
    BY <1>3, <1>4, Induction
<1> HIDE DEF k
<1>7. End(n) + k <= End(Len(s))
  <2>1. k \in T /\ n + k <= Len(s)
    BY <1>1, <1>5, <1>6
  <2> QED
    BY <1>5, <2>1
<1>8. End(n) \in Nat /\ End(Len(s)) \in Nat
  BY <1>2, <1>5
<1>9. End(n) <= last /\ (End(n) = last <=> n = Len(s))
  BY <1>1, <1>5, <1>7, <1>8
<1>10. /\ SubSeq(s, 1, n) \in Seq(Stretches) /\ Len(SubSeq(s, 1, n)) = n
       /\ \A i \in 1 .. n : SubSeq(s, 1, n)[i] = s[i]
  <2>1. \A i \in 1 .. n : s[i] \in Stretches
    BY <1>1
  <2>2. /\ SubSeq(s, 1, n) \in Seq(Stretches)
        /\ Len(SubSeq(s, 1, n)) = IF 1 <= n THEN n - 1 + 1 ELSE 0
        /\ \A i \in 1 .. n - 1 + 1 : SubSeq(s, 1, n)[i] = s[1 + i - 1]
    <3>1. 1 \in Int /\ n \in Int
      BY <1>1
    <3> QED
      BY <2>1, <3>1, SubSeqProperties
  <2> QED
    BY <1>1, <2>2
<1> QED
  BY <1>1, <1>8, <1>9, <1>10 DEF End

\* What is asked for is covered by the pieces it is cut into.
LEMMA PiecesCover ==
  ASSUME NEW bytes \in Nat, NEW repeated \in BOOLEAN, NEW width \in {1, 2}, bytes % width = 0
  PROVE  Cover(Pieces(bytes, repeated), 0, bytes, width, SpiChunk)
<1> DEFINE one == <<[from |-> 0, size |-> bytes]>>
           parts == IF repeated THEN Chunks(0, bytes, SpiFill) ELSE one
           cuts == [i \in DOMAIN parts |-> Chunks(parts[i].from, parts[i].size, SpiChunk)]
<1>1. /\ SpiChunk \in Nat \ {0} /\ SpiFill \in Nat \ {0}
      /\ SpiChunk % width = 0 /\ SpiFill % width = 0
  <2>1. CASE width = 1
    BY SpiAssumption, <2>1
  <2>2. CASE width = 2
    BY SpiAssumption, <2>2
  <2> QED
    BY <2>1, <2>2
<1>2. /\ Touch(parts, 0) /\ EndOf(parts, 0, Len(parts)) = bytes
      /\ \A i \in 1 .. Len(parts) : parts[i].size % width = 0
  <2>1. CASE repeated
    <3>1. Cover(Chunks(0, bytes, SpiFill), 0, 0 + bytes, width, SpiFill)
      BY <1>1, ChunksCover
    <3>2. parts = Chunks(0, bytes, SpiFill) /\ 0 + bytes = bytes
      BY <2>1
    <3> HIDE DEF parts
    <3> QED
      BY <3>1, <3>2 DEF Cover, Words
  <2>2. CASE ~repeated
    <3>1. parts = one /\ one \in Seq(Stretches) /\ Len(one) = 1
      BY <2>2 DEF Stretches
    <3>2. one[1].from = 0 /\ one[1].size = bytes
      OBVIOUS
    <3> HIDE DEF parts, one
    <3>3. \A i \in 1 .. Len(parts) : i = 1
      BY <3>1
    <3> QED
      BY <3>1, <3>2, <3>3 DEF Touch, EndOf
  <2> QED
    BY <2>1, <2>2
<1> HIDE DEF parts
<1>3. /\ parts \in Seq(Stretches) /\ Len(parts) \in Nat /\ DOMAIN parts = 1 .. Len(parts)
      /\ \A i \in 1 .. Len(parts) : parts[i].from \in Nat /\ parts[i].size \in Nat
  <2>1. parts \in Seq(Stretches)
    BY <1>2 DEF Touch
  <2>2. \A i \in 1 .. Len(parts) : parts[i] \in Stretches
    BY <2>1, ElementOfSeq
  <2> QED
    BY <2>1, <2>2, LenProperties DEF Stretches
<1>4. ASSUME NEW i \in 1 .. Len(parts)
      PROVE  Cover(cuts[i], parts[i].from, parts[i].from + parts[i].size, width, SpiChunk)
  <2>1. cuts[i] = Chunks(parts[i].from, parts[i].size, SpiChunk)
    BY <1>3
  <2>2. parts[i].from \in Nat /\ parts[i].size \in Nat /\ parts[i].size % width = 0
    BY <1>2, <1>3
  <2> HIDE DEF cuts
  <2> QED
    BY <1>1, <2>1, <2>2, ChunksCover
<1>5. cuts \in Seq(Seq(Stretches)) /\ Len(cuts) = Len(parts)
  <2> DEFINE Q == Seq(Stretches)
             n == Len(parts)
  <2>1. cuts \in [1 .. n -> Q]
    <3>1. cuts = [i \in 1 .. n |-> cuts[i]]
      BY <1>3
    <3>2. \A i \in 1 .. n : cuts[i] \in Q
      BY <1>4 DEF Cover, Touch
    <3> HIDE DEF cuts, n, Q
    <3> QED
      BY <3>1, <3>2
  <2>2. n \in Nat
    BY <1>3
  <2> HIDE DEF cuts, n, Q
  <2>3. cuts \in Seq(Q) /\ Len(cuts) = n
    BY <2>1, <2>2
  <2> QED
    BY <2>3 DEF Q, n
<1>6. Pieces(bytes, repeated) = FlattenSeq(cuts)
  BY DEF Pieces, parts
<1> HIDE DEF cuts
<1>7. Cover(FlattenSeq(cuts), 0, EndOf(parts, 0, Len(parts)), width, SpiChunk)
  BY <1>2, <1>4, <1>5, FlattenCover
<1> QED
  BY <1>2, <1>6, <1>7

\* bmx_esp32_spi_transfer, as often as its callers call it.
LEMMA TransferWhole ==
  ASSUME NEW length \in SpiLengths, NEW bits \in {8, 16}, NEW repeated \in BOOLEAN,
         SpiTransfer(length, bits, repeated)
  PROVE  TransfersWhole'
<1> DEFINE width == bits \div 8
           bytes == length * width
           pieces == Pieces(bytes, repeated)
<1>1. width \in {1, 2} /\ length \in Nat /\ bytes \in Nat /\ bytes % width = 0
  <2>1. length \in Nat
    BY SpiAssumption
  <2>2. CASE bits = 8
    <3>1. width = 1
      BY <2>2
    <3> HIDE DEF width
    <3> QED
      BY <2>1, <3>1
  <2>3. CASE bits = 16
    <3>1. width = 2
      BY <2>3
    <3> HIDE DEF width
    <3>2. length * width = 2 * length /\ (2 * length) % 2 = 0
      BY <2>1, <3>1
    <3> QED
      BY <2>1, <3>1, <3>2
  <2> QED
    BY <2>2, <2>3
<1>2. PICK sent \in 0 .. Len(pieces) :
        spiWire' = [asked |-> length, width |-> width, chunks |-> SubSeq(pieces, 1, sent),
                    result |-> IF sent = Len(pieces) THEN length ELSE -1]
  BY DEF SpiTransfer
<1> DEFINE chunks == SubSeq(pieces, 1, sent)
<1> HIDE DEF width
<1>3. Cover(pieces, 0, bytes, width, SpiChunk)
  BY <1>1, PiecesCover
<1> HIDE DEF pieces
<1>4. /\ EndOf(pieces, 0, sent) <= bytes
      /\ EndOf(pieces, 0, sent) = bytes <=> sent = Len(pieces)
      /\ chunks \in Seq(Stretches) /\ Len(chunks) = sent
      /\ \A i \in 1 .. sent : chunks[i] = pieces[i]
  BY <1>3, CoverBegun
<1>5. DOMAIN chunks = 1 .. sent /\ Len(pieces) \in Nat /\ sent \in Nat /\ sent <= Len(pieces)
  <2>1. pieces \in Seq(Stretches)
    BY <1>3 DEF Cover, Touch
  <2>2. Len(pieces) \in Nat
    BY <2>1, LenProperties
  <2>3. DOMAIN chunks = 1 .. Len(chunks)
    BY <1>4, LenProperties
  <2> QED
    BY <1>4, <2>2, <2>3
<1>6. /\ spiWire'.asked = length /\ spiWire'.width = width /\ spiWire'.chunks = chunks
      /\ spiWire'.result = IF sent = Len(pieces) THEN length ELSE -1
  BY <1>2
<1> HIDE DEF chunks, bytes
<1> DEFINE End(i) == IF i = 0 THEN 0 ELSE chunks[i].from + chunks[i].size
<1>7. ASSUME NEW i \in 0 .. sent
      PROVE  End(i) = EndOf(pieces, 0, i)
  <2>1. i # 0 => chunks[i] = pieces[i]
    BY <1>4, <1>5
  <2> QED
    BY <2>1 DEF EndOf
<1> HIDE DEF End
<1>8. ASSUME NEW i \in 1 .. sent
      PROVE  /\ chunks[i].from = End(i - 1)
             /\ chunks[i].size \in 1 .. SpiChunk
             /\ chunks[i].size % width = 0
  <2>1. i \in 1 .. Len(pieces) /\ i - 1 \in 0 .. sent /\ chunks[i] = pieces[i]
    BY <1>4, <1>5
  <2>2. /\ pieces[i].from = EndOf(pieces, 0, i - 1)
        /\ pieces[i].size \in 1 .. SpiChunk /\ pieces[i].size % width = 0
    BY <1>3, <2>1 DEF Cover, Touch, Words
  <2> QED
    BY <1>7, <2>1, <2>2
<1>9. End(sent) <= bytes /\ (End(sent) = bytes <=> sent = Len(pieces))
  <2>1. sent \in 0 .. sent
    BY <1>5
  <2> QED
    BY <1>4, <1>7, <2>1
<1>10. /\ spiWire'.result \in {-1, length}
       /\ spiWire'.result >= 0 <=> sent = Len(pieces)
  BY <1>1, <1>6
<1>11. spiWire'.asked * spiWire'.width = bytes
  BY <1>6 DEF bytes
<1> QED
  BY <1>4, <1>5, <1>6, <1>8, <1>9, <1>10, <1>11 DEF TransfersWhole, End

\* No other step than a transfer touches what was transferred.
LEMMA TransferStep ==
  ASSUME TransfersWhole, [SpiNext]_spiVars
  PROVE  TransfersWhole'
<1>1. CASE UNCHANGED spiWire
  BY <1>1 DEF TransfersWhole
<1>2. ASSUME NEW length \in SpiLengths, NEW bits \in {8, 16}, NEW repeated \in BOOLEAN,
             SpiTransfer(length, bits, repeated)
      PROVE  TransfersWhole'
  BY <1>2, TransferWhole
<1>3. CASE \E w \in Wirings : SpiConfigurePins(w)
  BY <1>1, <1>3 DEF SpiConfigurePins
<1>4. ASSUME NEW baud \in Baudrates,
             SpiInitialize(baud) \/ SpiInitializeFails(baud) \/ SpiSetBaudrate(baud)
      PROVE  TransfersWhole'
  BY <1>1, <1>4 DEF SpiInitialize, SpiInitializeFails, SpiSetBaudrate, Change
<1>5. CASE SpiDeinitialize \/ SpiDeinitializeFails
  BY <1>1, <1>5 DEF SpiDeinitialize, SpiDeinitializeFails
<1>6. CASE \E f \in SpiFormats : SpiSetFormat(f)
  BY <1>1, <1>6 DEF SpiSetFormat, Change
<1>7. CASE UNCHANGED spiVars
  BY <1>1, <1>7 DEF spiVars
<1> QED
  BY <1>2, <1>3, <1>4, <1>5, <1>6, <1>7 DEF SpiNext

----------------------------------------------------------------------------
(* The watchdog. *)

\* While the watchdog is active the flags say what enable found: the task is on
\* it if the system or enable put it there, and did not run if enable started it.
WatchdogBorrowed ==
  /\ wdtHome.timeout = 0 /\ (wdtHome.subscribed => wdtHome.running)
  /\ ~wdtLost /\ wdt.active =>
       /\ wdt.added => ~wdtHome.subscribed
       /\ wdt.initialized \/ wdtHome.running
       /\ twdt.subscribed <=> wdt.added \/ wdtHome.subscribed

WatchdogInv == WatchdogTypeOK /\ WatchdogRestored /\ WatchdogBorrowed

\* twdt is this record, of which the provers see the fields.
Has(state, running, timeout, subscribed) ==
  /\ state \in TwdtState
  /\ state.running = running /\ state.timeout = timeout /\ state.subscribed = subscribed

LEMMA TimedFields ==
  ASSUME twdt \in TwdtState, NEW delay \in Delays \cup {0}
  PROVE  /\ Has(Timed(delay), TRUE, delay, twdt.subscribed)
         /\ Has([Timed(delay) EXCEPT !.subscribed = TRUE], TRUE, delay, TRUE)
BY DEF Has, Timed, TwdtState

LEMMA LeftFields ==
  ASSUME twdt \in TwdtState, wdt.added \in BOOLEAN
  PROVE  /\ Has(Left, twdt.running, twdt.timeout, twdt.subscribed /\ ~wdt.added)
         /\ Has([Left EXCEPT !.timeout = 0], twdt.running, 0, twdt.subscribed /\ ~wdt.added)
BY DEF Has, Left, TwdtState

LEMMA StoppedFields == Has(Stopped, FALSE, 0, FALSE)
BY DEF Has, Stopped, TwdtState

LEMMA SameState ==
  ASSUME NEW r \in TwdtState, NEW s \in TwdtState,
         r.running = s.running, r.timeout = s.timeout, r.subscribed = s.subscribed
  PROVE  r = s
BY DEF TwdtState

LEMMA WatchdogStep ==
  ASSUME WatchdogInv, [WatchdogNext]_wdtVars
  PROVE  WatchdogInv'
<1> DEFINE Flags == [active : BOOLEAN, added : BOOLEAN, initialized : BOOLEAN]
<1>types. /\ wdt \in Flags /\ twdt \in TwdtState /\ wdtHome \in TwdtState
          /\ wdtLost \in BOOLEAN
          /\ wdt.active \in BOOLEAN /\ wdt.added \in BOOLEAN /\ wdt.initialized \in BOOLEAN
          /\ twdt.running \in BOOLEAN /\ twdt.subscribed \in BOOLEAN
          /\ wdtHome.running \in BOOLEAN /\ wdtHome.subscribed \in BOOLEAN
  BY DEF WatchdogInv, WatchdogTypeOK, TwdtState
<1>home. wdtHome.timeout = 0 /\ (wdtHome.subscribed => wdtHome.running)
  BY DEF WatchdogInv, WatchdogBorrowed
<1>stop. twdt.running \/ twdt = Stopped
  BY DEF WatchdogInv, WatchdogTypeOK
<1>off. ~wdtLost /\ ~wdt.active => twdt = wdtHome /\ ~wdt.added /\ ~wdt.initialized
  BY DEF WatchdogInv, WatchdogRestored
<1>on. ~wdtLost /\ wdt.active =>
         /\ twdt.running
         /\ wdt.added => ~wdtHome.subscribed
         /\ wdt.initialized <=> ~wdtHome.running
         /\ twdt.subscribed <=> wdt.added \/ wdtHome.subscribed
  BY <1>types DEF WatchdogInv, WatchdogRestored, WatchdogBorrowed, IsEnabled
<1>done. ASSUME wdt' \in Flags, twdt' \in TwdtState, wdtHome' = wdtHome,
                wdtLost' \in BOOLEAN, wdtLost => wdtLost',
                twdt'.running \/ twdt' = Stopped,
                ~wdtLost' /\ ~wdt'.active => twdt' = wdtHome /\ ~wdt'.added /\ ~wdt'.initialized,
                ~wdtLost' /\ wdt'.active =>
                  /\ twdt'.running
                  /\ wdt'.added => ~wdtHome.subscribed
                  /\ wdt'.initialized <=> ~wdtHome.running
                  /\ twdt'.subscribed <=> wdt'.added \/ wdtHome.subscribed
         PROVE  WatchdogInv'
  <2>1. /\ wdt'.active \in BOOLEAN /\ wdt'.added \in BOOLEAN /\ wdt'.initialized \in BOOLEAN
        /\ twdt'.subscribed \in BOOLEAN
    BY <1>done DEF TwdtState
  <2>2. WatchdogTypeOK'
    BY <1>done, <1>types DEF WatchdogTypeOK
  <2>3. WatchdogRestored'
    BY <1>done, <1>types, <2>1 DEF WatchdogRestored, IsEnabled
  <2>4. WatchdogBorrowed'
    BY <1>done, <1>types, <1>home, <2>1 DEF WatchdogBorrowed
  <2> QED
    BY <2>2, <2>3, <2>4 DEF WatchdogInv
<1>1. ASSUME NEW delay \in Delays, EnableAgain(delay)
      PROVE  WatchdogInv'
  <2>1. Has(twdt', TRUE, delay, twdt.subscribed)
    BY <1>types, <1>1, TimedFields DEF EnableAgain
  <2> QED
    BY <1>types, <1>on, <1>done, <1>1, <2>1 DEF EnableAgain, Has
<1>2. ASSUME NEW delay \in Delays, Enable(delay)
      PROVE  WatchdogInv'
  <2>1. Has(twdt', TRUE, delay, TRUE)
    BY <1>types, <1>2, TimedFields DEF Enable
  <2>2. /\ wdt' \in Flags /\ wdt'.active
        /\ wdt'.added <=> wdt.added \/ ~twdt.subscribed
        /\ wdt'.initialized <=> wdt.initialized \/ ~twdt.running
    BY <1>types, <1>2 DEF Enable
  <2> QED
    BY <1>types, <1>off, <1>done, <1>2, <2>1, <2>2 DEF Enable, Has
<1>3. ASSUME NEW delay \in Delays, EnableFails(delay)
      PROVE  WatchdogInv'
  <2> DEFINE mine == wdt.initialized \/ ~twdt.running
  <2>1. wdt' \in Flags /\ wdt'.active = wdt.active /\ wdt'.added = wdt.added /\ ~wdt'.initialized
    BY <1>types, <1>3 DEF EnableFails
  <2>2. wdtHome' = wdtHome /\ ~wdt.active /\ ~twdt.subscribed /\ wdtLost' \in BOOLEAN
        /\ wdtLost' = (wdtLost \/ twdt' = Timed(delay))
        /\ twdt' \in {Timed(delay), IF mine THEN Stopped ELSE Timed(0)}
    BY <1>types, <1>3 DEF EnableFails
  <2>3. CASE twdt' = Timed(delay)
    <3>1. Has(twdt', TRUE, delay, twdt.subscribed)
      BY <1>types, <2>3, TimedFields
    <3> QED
      BY <1>types, <1>done, <2>1, <2>2, <2>3, <3>1 DEF Has
  <2>4. CASE twdt' # Timed(delay) /\ mine
    <3>1. Has(twdt', FALSE, 0, FALSE) /\ twdt' = Stopped
      BY <2>2, <2>4, StoppedFields
    <3>2. ~wdtLost => twdt' = wdtHome
      <4> HAVE ~wdtLost
      <4>1. ~wdtHome.running /\ ~wdtHome.subscribed
        BY <1>types, <1>off, <1>home, <2>2, <2>4
      <4> QED
        BY <1>types, <1>home, <3>1, <4>1, SameState DEF Has
    <3> QED
      BY <1>types, <1>off, <1>done, <2>1, <2>2, <2>4, <3>1, <3>2 DEF Has
  <2>5. CASE twdt' # Timed(delay) /\ ~mine
    <3>1. Has(twdt', TRUE, 0, twdt.subscribed)
      BY <1>types, <2>2, <2>5, TimedFields
    <3>2. ~wdtLost => twdt' = wdtHome
      BY <1>types, <1>off, <1>home, <2>2, <2>5, <3>1, SameState DEF Has
    <3> QED
      BY <1>types, <1>off, <1>done, <2>1, <2>2, <2>5, <3>1, <3>2 DEF Has
  <2> QED
    BY <2>3, <2>4, <2>5
<1>4. CASE Disable
  <2>1. wdt' \in Flags /\ ~wdt'.active /\ ~wdt'.added /\ ~wdt'.initialized
    BY <1>4 DEF Disable
  <2>2. CASE wdt.initialized
    <3>1. Has(twdt', FALSE, 0, FALSE) /\ twdt' = Stopped
      BY <1>4, <2>2, StoppedFields DEF Disable
    <3>2. ~wdtLost => twdt' = wdtHome
      BY <1>types, <1>on, <1>home, <1>4, <2>2, <3>1, SameState DEF Disable, Has
    <3> QED
      BY <1>types, <1>done, <1>4, <2>1, <3>1, <3>2 DEF Disable, Has
  <2>3. CASE ~wdt.initialized
    <3>1. Has(twdt', twdt.running, 0, twdt.subscribed /\ ~wdt.added)
      BY <1>types, <1>4, <2>3, LeftFields DEF Disable
    <3>2. ~wdtLost => twdt' = wdtHome
      <4> HAVE ~wdtLost
      <4>1. /\ twdt.running /\ wdtHome.running
            /\ wdt.added => ~wdtHome.subscribed
            /\ twdt.subscribed <=> wdt.added \/ wdtHome.subscribed
        BY <1>on, <1>4, <2>3 DEF Disable
      <4>2. /\ twdt' \in TwdtState /\ twdt'.running = wdtHome.running
            /\ twdt'.timeout = wdtHome.timeout /\ twdt'.subscribed = wdtHome.subscribed
        BY <1>types, <1>home, <3>1, <4>1 DEF Has
      <4> QED
        BY <1>types, <4>2, SameState
    <3>3. ~twdt.running => twdt' = Stopped
      <4> SUFFICES ASSUME ~twdt.running PROVE twdt' = Stopped
        OBVIOUS
      <4>1. Has(Stopped, FALSE, 0, FALSE) /\ twdt = Stopped
        BY <1>stop, StoppedFields
      <4>2. twdt.subscribed = FALSE
        BY <4>1 DEF Has
      <4>3. /\ twdt' \in TwdtState /\ twdt'.running = FALSE /\ twdt'.timeout = 0
            /\ twdt'.subscribed = FALSE
        BY <1>types, <3>1, <4>2 DEF Has
      <4> QED
        BY <4>1, <4>3, SameState DEF Has
    <3> QED
      BY <1>types, <1>done, <1>4, <2>1, <3>1, <3>2, <3>3 DEF Disable, Has
  <2> QED
    BY <2>2, <2>3
<1>5. CASE DisableFails
  <2>1. Has(twdt', twdt.running, twdt.timeout, twdt.subscribed /\ ~wdt.added)
    BY <1>types, <1>5, LeftFields DEF DisableFails
  <2>2. /\ wdt' \in Flags /\ wdt'.active = wdt.active /\ ~wdt'.added
        /\ wdt'.initialized = wdt.initialized
    BY <1>types, <1>5 DEF DisableFails
  <2>3. ~twdt.running => twdt' = Stopped
    BY <1>types, <1>stop, <2>1, StoppedFields, SameState DEF Has
  <2> QED
    BY <1>types, <1>on, <1>done, <1>5, <2>1, <2>2, <2>3 DEF DisableFails, Has
<1>6. CASE UNCHANGED wdtVars
  BY <1>6 DEF wdtVars, WatchdogInv, WatchdogTypeOK, WatchdogRestored, WatchdogBorrowed,
     IsEnabled
<1> QED
  BY <1>1, <1>2, <1>3, <1>4, <1>5, <1>6 DEF WatchdogNext

----------------------------------------------------------------------------
(* The UART. *)

UartInv ==
  /\ uart \in Fields /\ uartTorn \in BOOLEAN /\ uartRaised \subseteq UartErrors
  /\ uartQueue \in Seq(UartErrors \cup {"data"})
  /\ BreakReleased /\ ErrorsKept

\* The fields of the controller after an update of it.
Port(u, initialized, pinned, breaking, async, errors) ==
  /\ u \in Fields /\ u.initialized = initialized /\ u.pinned = pinned
  /\ u.breaking = breaking /\ u.async = async /\ u.errors = errors

LEMMA PortFields ==
  ASSUME uart \in Fields, NEW b \in BOOLEAN, NEW e \in SUBSET UartErrors
  PROVE  /\ Port([uart EXCEPT !.pinned = b], uart.initialized, b, uart.breaking,
                 uart.async, uart.errors)
         /\ Port([uart EXCEPT !.breaking = b], uart.initialized, uart.pinned, b,
                 uart.async, uart.errors)
         /\ Port([uart EXCEPT !.async = b], uart.initialized, uart.pinned,
                 uart.breaking, b, uart.errors)
         /\ Port([uart EXCEPT !.crlf = b], uart.initialized, uart.pinned, uart.breaking,
                 uart.async, uart.errors)
         /\ Port([uart EXCEPT !.errors = e], uart.initialized, uart.pinned,
                 uart.breaking, uart.async, e)
         /\ Port([ResetPort EXCEPT !.initialized = b], b, uart.pinned, FALSE, uart.async, {})
BY DEF Port, Fields, ResetPort

LEMMA QueueOfEvents ==
  ASSUME NEW q \in Seq(UartErrors \cup {"data"})
  PROVE  /\ <<>> \in Seq(UartErrors \cup {"data"})
         /\ \A kind \in UartErrors \cup {"data"} :
              /\ Append(q, kind) \in Seq(UartErrors \cup {"data"})
              /\ ToSet(q) \cup {kind} \subseteq ToSet(Append(q, kind))
         /\ q # <<>> => /\ Tail(q) \in Seq(UartErrors \cup {"data"})
                        /\ Head(q) \in UartErrors \cup {"data"}
                        /\ ToSet(q) \subseteq {Head(q)} \cup ToSet(Tail(q))
<1> DEFINE T == UartErrors \cup {"data"}
<1>1. <<>> \in Seq(T)
  OBVIOUS
<1>2. ASSUME NEW kind \in T
      PROVE  Append(q, kind) \in Seq(T) /\ ToSet(q) \cup {kind} \subseteq ToSet(Append(q, kind))
  <2>1. Append(q, kind) \in Seq(T) /\ Len(Append(q, kind)) = Len(q) + 1 /\ Len(q) \in Nat
    OBVIOUS
  <2>2. Append(q, kind)[Len(q) + 1] = kind /\ \A i \in 1 .. Len(q) : Append(q, kind)[i] = q[i]
    OBVIOUS
  <2>3. DOMAIN q = 1 .. Len(q) /\ DOMAIN Append(q, kind) = 1 .. Len(q) + 1
    BY <2>1
  <2> QED
    BY <2>1, <2>2, <2>3 DEF ToSet
<1>3. ASSUME q # <<>>
      PROVE  Tail(q) \in Seq(T) /\ Head(q) \in T /\ ToSet(q) \subseteq {Head(q)} \cup ToSet(Tail(q))
  <2>1. /\ Tail(q) \in Seq(T) /\ Head(q) \in T /\ Head(q) = q[1]
        /\ Len(Tail(q)) = Len(q) - 1 /\ Len(q) \in Nat /\ Len(q) >= 1
    BY <1>3
  <2>2. \A i \in 1 .. Len(q) - 1 : Tail(q)[i] = q[i + 1]
    BY <1>3
  <2>3. DOMAIN q = 1 .. Len(q) /\ DOMAIN Tail(q) = 1 .. Len(q) - 1
    BY <2>1
  <2>4. ASSUME NEW i \in DOMAIN q
        PROVE  q[i] \in {Head(q)} \cup ToSet(Tail(q))
    <3>1. CASE i = 1
      BY <2>1, <3>1
    <3>2. CASE i # 1
      <4>1. i - 1 \in DOMAIN Tail(q) /\ Tail(q)[i - 1] = q[i]
        BY <2>1, <2>2, <2>3, <2>4, <3>2
      <4> QED
        BY <4>1 DEF ToSet
    <3> QED
      BY <3>1, <3>2
  <2> QED
    BY <2>1, <2>4 DEF ToSet
<1> QED
  BY <1>1, <1>2, <1>3

\* A step that leaves the errors and the events alone keeps them.
LEMMA UartStep ==
  ASSUME UartInv, [UartPortNext]_uartVars
  PROVE  UartInv'
<1> DEFINE Q == Seq(UartErrors \cup {"data"})
<1>types. /\ uart \in Fields /\ uartTorn \in BOOLEAN /\ uartRaised \subseteq UartErrors
          /\ uartQueue \in Q /\ <<>> \in Q /\ {} \in SUBSET UartErrors
          /\ uart.errors \in SUBSET UartErrors
          /\ uart.initialized \in BOOLEAN /\ uart.breaking \in BOOLEAN
  BY QueueOfEvents DEF UartInv, Fields
<1>inv. BreakReleased /\ ErrorsKept
  BY DEF UartInv
<1> USE DEF uartEvents
<1>1. CASE UartConfigurePins
  <2>1. Port(uart', uart.initialized, TRUE, uart.breaking, uart.async, uart.errors)
    BY <1>1, <1>types, PortFields DEF UartConfigurePins
  <2> QED
    BY <1>1, <1>inv, <1>types, <2>1 DEF UartConfigurePins, Port, UartInv, BreakReleased,
       ErrorsKept
<1>2. CASE UartInitialize
  <2>1. Port(uart', TRUE, uart.pinned, FALSE, uart.async, {})
    BY <1>2, <1>types, PortFields DEF UartInitialize
  <2> QED
    BY <1>2, <1>inv, <1>types, <2>1 DEF UartInitialize, Port, UartInv, BreakReleased,
       ErrorsKept
<1>3. CASE UartDeinitialize
  <2>1. Port(uart', FALSE, uart.pinned, FALSE, uart.async, {})
    BY <1>3, <1>types, PortFields DEF UartDeinitialize
  <2> QED
    BY <1>3, <1>inv, <1>types, <2>1 DEF UartDeinitialize, Port, UartInv, BreakReleased,
       ErrorsKept
<1>4. CASE UartDeinitializeFails
  <2>1. Port(uart', uart.initialized, uart.pinned, FALSE, uart.async, uart.errors)
    BY <1>4, <1>types, PortFields DEF UartDeinitializeFails
  <2> QED
    BY <1>4, <1>inv, <1>types, <2>1
       DEF UartDeinitializeFails, Port, UartInv, BreakReleased, ErrorsKept
<1>5. CASE AssertBreak
  <2>1. Port(uart', uart.initialized, uart.pinned, TRUE, uart.async, uart.errors)
    BY <1>5, <1>types, PortFields DEF AssertBreak
  <2> QED
    BY <1>5, <1>inv, <1>types, <2>1 DEF AssertBreak, Port, UartInv, BreakReleased, ErrorsKept
<1>6. CASE AssertBreakFails
  BY <1>6, <1>inv, <1>types DEF AssertBreakFails, UartInv, BreakReleased, ErrorsKept
<1>7. CASE EndBreak
  <2>1. Port(uart', uart.initialized, uart.pinned, FALSE, uart.async, uart.errors)
    BY <1>7, <1>types, PortFields DEF EndBreak
  <2> QED
    BY <1>7, <1>inv, <1>types, <2>1 DEF EndBreak, Port, UartInv, BreakReleased, ErrorsKept
<1>8. ASSUME NEW open \in BOOLEAN, UartStream(open)
      PROVE  UartInv'
  <2>1. Port(uart', uart.initialized, uart.pinned, uart.breaking, open, uart.errors)
    BY <1>8, <1>types, PortFields DEF UartStream
  <2> QED
    BY <1>8, <1>inv, <1>types, <2>1 DEF UartStream, Port, UartInv, BreakReleased, ErrorsKept
<1>9. ASSUME NEW kind \in UartErrors \cup {"data"}, UartEvent(kind)
      PROVE  UartInv'
  <2>1. uartQueue' \in Q /\ ToSet(uartQueue) \cup {kind} \subseteq ToSet(uartQueue')
    BY <1>9, <1>types, QueueOfEvents DEF UartEvent
  <2> QED
    BY <1>9, <1>inv, <1>types, <2>1 DEF UartEvent, UartInv, BreakReleased, ErrorsKept
<1>10. CASE CollectEvents
  <2>1. CASE uart.async
    <3>1. Port(uart', uart.initialized, uart.pinned, uart.breaking, uart.async, uart.errors)
      BY <1>10, <1>types, <2>1, PortFields DEF CollectEvents
    <3> QED
      BY <1>10, <1>inv, <1>types, <2>1, <3>1
         DEF CollectEvents, Port, UartInv, BreakReleased, ErrorsKept
  <2>2. CASE ~uart.async
    <3>1. Collected \in SUBSET UartErrors
      BY <1>types DEF Collected
    <3>2. Port(uart', uart.initialized, uart.pinned, uart.breaking, uart.async, Collected)
      BY <1>10, <1>types, <2>2, <3>1, PortFields DEF CollectEvents
    <3> QED
      BY <1>10, <1>inv, <1>types, <2>2, <3>2
         DEF CollectEvents, Collected, Port, UartInv, BreakReleased, ErrorsKept
  <2> QED
    BY <2>1, <2>2
<1>11. CASE WorkerCollects
  <2> DEFINE all == uart.errors \cup ({Head(uartQueue)} \cap UartErrors)
  <2>1. all \in SUBSET UartErrors
    BY <1>types
  <2>2. Port(uart', uart.initialized, uart.pinned, uart.breaking, uart.async, all)
    BY <1>11, <1>types, <2>1, PortFields DEF WorkerCollects
  <2>3. /\ uartQueue' = Tail(uartQueue) /\ uartQueue' \in Q
        /\ ToSet(uartQueue) \subseteq {Head(uartQueue)} \cup ToSet(uartQueue')
    BY <1>11, <1>types, QueueOfEvents DEF WorkerCollects
  <2> QED
    BY <1>11, <1>inv, <1>types, <2>2, <2>3
       DEF WorkerCollects, Port, UartInv, BreakReleased, ErrorsKept
<1>12. CASE ClearErrors
  <2>1. Port(uart', uart.initialized, uart.pinned, uart.breaking, uart.async, {})
    BY <1>12, <1>types, PortFields DEF ClearErrors
  <2> QED
    BY <1>12, <1>inv, <1>types, <2>1 DEF ClearErrors, Port, UartInv, BreakReleased, ErrorsKept
<1>13. ASSUME NEW text \in Texts, WriteBlocking(text)
       PROVE  UartInv'
  <2>1. UNCHANGED <<uart, uartPad, uartTorn, uartQueue, uartRaised>>
    BY <1>13 DEF WriteBlocking
  <2> QED
    BY <1>inv, <1>types, <2>1 DEF UartInv, BreakReleased, ErrorsKept
<1>14. ASSUME NEW crlf \in BOOLEAN, SetTranslate(crlf)
       PROVE  UartInv'
  <2>1. Port(uart', uart.initialized, uart.pinned, uart.breaking, uart.async, uart.errors)
    BY <1>14, <1>types, PortFields DEF SetTranslate
  <2> QED
    BY <1>14, <1>inv, <1>types, <2>1 DEF SetTranslate, Port, UartInv, BreakReleased, ErrorsKept
<1>15. CASE UNCHANGED uartVars
  BY <1>15, <1>inv, <1>types DEF uartVars, UartInv, BreakReleased, ErrorsKept
<1> QED
  BY <1>1, <1>2, <1>3, <1>4, <1>5, <1>6, <1>7, <1>8, <1>9, <1>10, <1>11, <1>12, <1>13,
     <1>14, <1>15
     DEF UartPortNext, GetErrors, ReadAvailable, ReadBlocking, ReadTimeout, FlushInput

\* The event queue never outgrows its room, and the pin is in one of its states.
UartRoom == Len(uartQueue) <= UartQueueLength /\ uartPad \in {"none", "uart", "low", "off"}

LEMMA UartRoomStep ==
  ASSUME UartInv, UartRoom, [UartPortNext]_uartVars
  PROVE  UartRoom'
<1> DEFINE Q == Seq(UartErrors \cup {"data"})
<1>types. /\ uartQueue \in Q /\ Len(uartQueue) \in Nat /\ UartQueueLength \in Nat
          /\ Len(<<>>) = 0
  BY UartPortAssumption DEF UartInv
<1>room. Len(uartQueue) <= UartQueueLength /\ uartPad \in {"none", "uart", "low", "off"}
  BY DEF UartRoom
<1> USE DEF uartEvents, UartRoom
<1>1. CASE UartConfigurePins \/ UartInitialize \/ UartDeinitialize \/ UartDeinitializeFails
  BY <1>1, <1>types, <1>room
     DEF UartConfigurePins, UartInitialize, UartDeinitialize, UartDeinitializeFails
<1>2. CASE AssertBreak \/ AssertBreakFails \/ EndBreak
  BY <1>2, <1>types, <1>room DEF AssertBreak, AssertBreakFails, EndBreak
<1>3. ASSUME NEW open \in BOOLEAN, UartStream(open)
      PROVE  UartRoom'
  BY <1>3, <1>room DEF UartStream
<1>4. ASSUME NEW kind \in UartErrors \cup {"data"}, UartEvent(kind)
      PROVE  UartRoom'
  <2>1. Len(Append(uartQueue, kind)) = Len(uartQueue) + 1
    BY <1>types
  <2> QED
    BY <1>4, <1>types, <1>room, <2>1 DEF UartEvent
<1>5. CASE CollectEvents
  BY <1>5, <1>types, <1>room DEF CollectEvents
<1>6. CASE WorkerCollects
  <2>1. uartQueue # <<>> => Len(Tail(uartQueue)) = Len(uartQueue) - 1
    BY <1>types
  <2> QED
    BY <1>6, <1>types, <1>room, <2>1 DEF WorkerCollects
<1>7. CASE ClearErrors
  BY <1>7, <1>types, <1>room DEF ClearErrors
<1>8. ASSUME NEW text \in Texts, WriteBlocking(text)
      PROVE  UartRoom'
  <2>1. UNCHANGED <<uartPad, uartQueue>>
    BY <1>8 DEF WriteBlocking
  <2> QED
    BY <1>room, <2>1
<1>9. ASSUME NEW crlf \in BOOLEAN, SetTranslate(crlf)
      PROVE  UartRoom'
  BY <1>9, <1>room DEF SetTranslate
<1>10. CASE UNCHANGED uartVars
  BY <1>10, <1>room DEF uartVars
<1> QED
  BY <1>1, <1>2, <1>3, <1>4, <1>5, <1>6, <1>7, <1>8, <1>9, <1>10
     DEF UartPortNext, GetErrors, ReadAvailable, ReadBlocking, ReadTimeout, FlushInput

----------------------------------------------------------------------------
(* What the UART writes. *)

Chars == {"a", "nl", "cr", "lf"}
Written == Seq({"a", "nl"})

\* What is to be sent for each character, and for those up to the character i.
Items(text, crlf) ==
  [i \in DOMAIN text |-> IF crlf /\ text[i] = "nl" THEN LineEnd ELSE <<text[i]>>]
Upto(text, crlf, i) == FlattenSeq(SubSeq(Items(text, crlf), 1, i))
Item(text, crlf, i) == IF crlf /\ text[i] = "nl" THEN LineEnd ELSE <<text[i]>>

\* The characters of a text are among those that can be sent.
LEMMA TextIs ==
  ASSUME NEW text \in Written
  PROVE  /\ text \in Seq(Chars) /\ Len(text) \in Nat /\ DOMAIN text = 1 .. Len(text)
         /\ \A i \in 1 .. Len(text) : text[i] \in {"a", "nl"} /\ text[i] \in Chars
<1>1. text \in Seq(Chars)
  BY SeqMonotonic DEF Written, Chars
<1>2. \A i \in 1 .. Len(text) : text[i] \in {"a", "nl"}
  BY ElementOfSeq DEF Written
<1> QED
  BY <1>1, <1>2, LenProperties DEF Chars

LEMMA OneItem ==
  ASSUME NEW c \in Chars
  PROVE  /\ <<c>> \in Seq(Chars) /\ <<c>> # <<>>
         /\ LineEnd \in Seq(Chars) /\ LineEnd # <<>>
BY DEF LineEnd, Chars

\* What is to be sent grows by one character's at a time, to all of it.
LEMMA UptoIs ==
  ASSUME NEW text \in Written, NEW crlf \in BOOLEAN
  PROVE  /\ Upto(text, crlf, 0) = <<>>
         /\ Upto(text, crlf, Len(text)) = Translated(text, crlf)
         /\ \A i \in 0 .. Len(text) : Upto(text, crlf, i) \in Seq(Chars)
         /\ \A i \in 1 .. Len(text) :
              Upto(text, crlf, i) = Upto(text, crlf, i - 1) \o Item(text, crlf, i)
<1> DEFINE s == Items(text, crlf)
           n == Len(text)
<1>1. n \in Nat /\ DOMAIN text = 1 .. n /\ \A i \in 1 .. n : text[i] \in Chars
  BY TextIs
<1>2. ASSUME NEW i \in 1 .. n
      PROVE  s[i] = Item(text, crlf, i) /\ s[i] \in Seq(Chars)
  BY <1>1, OneItem DEF Items, Item
<1>3. s \in Seq(Seq(Chars)) /\ Len(s) = n
  <2> DEFINE Q == Seq(Chars)
  <2>1. s \in [1 .. n -> Q]
    <3>1. s = [i \in 1 .. n |-> s[i]]
      BY <1>1 DEF Items
    <3>2. \A i \in 1 .. n : s[i] \in Q
      BY <1>2
    <3> HIDE DEF s, n, Q
    <3> QED
      BY <3>1, <3>2
  <2> HIDE DEF s, n, Q
  <2>2. s \in Seq(Q) /\ Len(s) = n
    BY <1>1, <2>1
  <2> QED
    BY <2>2 DEF Q
<1>4. SubSeq(s, 1, 0) = <<>> /\ SubSeq(s, 1, n) = s
  BY <1>3, SubSeqEmpty, SubSeqFull
<1>5. FlattenSeq(s) = Translated(text, crlf)
  BY DEF Items, Translated
<1> HIDE DEF s, n
<1>6. \A i \in 1 .. n : FlattenSeq(SubSeq(s, 1, i)) = FlattenSeq(SubSeq(s, 1, i - 1)) \o s[i]
  BY <1>3, FlattenNext
<1>7. ASSUME NEW i \in 0 .. n
      PROVE  FlattenSeq(SubSeq(s, 1, i)) \in Seq(Chars)
  <2>1. CASE i = 0
    BY <1>4, <2>1, FlattenEmpty, EmptySeq
  <2>2. CASE i # 0
    <3>1. i \in 1 .. n
      BY <1>1, <2>2
    <3> QED
      BY <1>3, <3>1, FlattenNext, FlattenType
  <2> QED
    BY <2>1, <2>2
<1> QED
  BY <1>2, <1>4, <1>5, <1>6, <1>7, FlattenEmpty DEF Upto, s, n

\* A piece that is put out joins what it holds to what was put out before.
LEMMA SpanJoins ==
  ASSUME NEW text \in Seq(Chars), NEW out \in Seq(Seq(Chars)), Full(out),
         NEW first \in 1 .. Len(text) + 1, NEW last \in 0 .. Len(text)
  PROVE  /\ Span(text, first, last) \in Seq(Seq(Chars))
         /\ SubSeq(text, first, last) \in Seq(Chars)
         /\ out \o Span(text, first, last) \in Seq(Seq(Chars))
         /\ Full(out \o Span(text, first, last))
         /\ FlattenSeq(out \o Span(text, first, last))
              = FlattenSeq(out) \o SubSeq(text, first, last)
<1> DEFINE x == SubSeq(text, first, last)
<1>1. Len(text) \in Nat /\ first \in Nat /\ last \in Nat
  BY LenProperties
<1>2. FlattenSeq(out) \in Seq(Chars)
  BY FlattenType
<1>3. CASE first > last
  <2>1. Span(text, first, last) = <<>> /\ x = <<>>
    BY <1>1, <1>3, SubSeqEmpty DEF Span
  <2>2. out \o <<>> = out /\ FlattenSeq(out) \o <<>> = FlattenSeq(out)
    BY <1>2, ConcatEmptySeq
  <2> QED
    BY <2>1, <2>2, EmptySeq
<1>4. CASE ~ (first > last)
  <2>1. Span(text, first, last) = <<x>>
    BY <1>4 DEF Span
  <2>2. \A i \in first .. last : text[i] \in Chars
    <3>1. \A i \in first .. last : i \in 1 .. Len(text)
      BY <1>1
    <3> QED
      BY <3>1, ElementOfSeq
  <2>3. x \in Seq(Chars) /\ Len(x) = last - first + 1
    BY <1>1, <1>4, <2>2, SubSeqProperties
  <2>4. x # <<>>
    <3>1. Len(x) # 0 /\ Len(<<>>) = 0
      BY <1>1, <1>4, <2>3
    <3> QED
      BY <3>1
  <2> HIDE DEF x
  <2>5. <<x>> \in Seq(Seq(Chars))
    BY <2>3
  <2>6. Append(out, x) = out \o <<x>>
    BY <2>3, AppendIsConcat
  <2>7. Append(out, x) \in Seq(Seq(Chars)) /\ Full(Append(out, x))
    <3>1. /\ Append(out, x) \in Seq(Seq(Chars)) /\ Len(Append(out, x)) = Len(out) + 1
          /\ \A i \in 1 .. Len(out) : Append(out, x)[i] = out[i]
          /\ Append(out, x)[Len(out) + 1] = x
      BY <2>3, AppendProperties
    <3>2. Len(out) \in Nat
      BY LenProperties
    <3>3. \A i \in 1 .. Len(out) + 1 : i \in 1 .. Len(out) \/ i = Len(out) + 1
      BY <3>2
    <3> QED
      BY <2>4, <3>1, <3>3 DEF Full
  <2>8. FlattenSeq(Append(out, x)) = FlattenSeq(out) \o x
    BY <2>3, FlattenAppend
  <2> QED
    BY <2>1, <2>3, <2>5, <2>6, <2>7, <2>8 DEF x
<1> QED
  BY <1>3, <1>4

\* So does a line end.
LEMMA LineEndJoins ==
  ASSUME NEW out \in Seq(Seq(Chars)), Full(out)
  PROVE  /\ out \o <<LineEnd>> \in Seq(Seq(Chars)) /\ Full(out \o <<LineEnd>>)
         /\ FlattenSeq(out \o <<LineEnd>>) = FlattenSeq(out) \o LineEnd
<1> DEFINE x == LineEnd
<1>1. x \in Seq(Chars) /\ x # <<>>
  BY DEF LineEnd, Chars
<1> HIDE DEF x
<1>2. Append(out, x) = out \o <<x>>
  BY <1>1, AppendIsConcat
<1>3. FlattenSeq(Append(out, x)) = FlattenSeq(out) \o x
  BY <1>1, FlattenAppend
<1>4. /\ Append(out, x) \in Seq(Seq(Chars)) /\ Len(Append(out, x)) = Len(out) + 1
      /\ \A i \in 1 .. Len(out) : Append(out, x)[i] = out[i]
      /\ Append(out, x)[Len(out) + 1] = x
  BY <1>1, AppendProperties
<1>5. Len(out) \in Nat
  BY LenProperties
<1>6. \A i \in 1 .. Len(out) + 1 : i \in 1 .. Len(out) \/ i = Len(out) + 1
  BY <1>5
<1>7. Full(Append(out, x))
  BY <1>1, <1>4, <1>6 DEF Full
<1> QED
  BY <1>2, <1>3, <1>4, <1>7 DEF x

\* After the character i the loop has put out what is to be sent of the text but
\* for the characters from where the next piece starts.
Loop == [start : Nat \ {0}, out : Seq(Seq(Chars))]
LoopAt(text, i, s) ==
  /\ s \in Loop /\ s.start <= i + 1
  /\ Full(s.out)
  /\ FlattenSeq(s.out) \o SubSeq(text, s.start, i) = Upto(text, TRUE, i)

\* One more character, bmx_esp32_uart_write_blocking's loop body.
LEMMA PieceKeeps ==
  ASSUME NEW text \in Written, NEW i \in 1 .. Len(text), NEW s, LoopAt(text, i - 1, s)
  PROVE  LoopAt(text, i, Piece(s, i, text))
<1>1. /\ text \in Seq(Chars) /\ Len(text) \in Nat /\ i \in Nat /\ i - 1 \in 0 .. Len(text)
      /\ text[i] \in {"a", "nl"} /\ text[i] \in Chars
  BY TextIs
<1>2. /\ s.start \in Nat \ {0} /\ s.start <= i /\ s.out \in Seq(Seq(Chars)) /\ Full(s.out)
      /\ s.start \in 1 .. Len(text) + 1
      /\ s \in Loop
  BY <1>1 DEF LoopAt, Loop
<1> DEFINE a == FlattenSeq(s.out)
           x == SubSeq(text, s.start, i - 1)
<1>3. a \in Seq(Chars) /\ x \in Seq(Chars) /\ a \o x = Upto(text, TRUE, i - 1)
  <2>1. i - 1 + 1 = i
    BY <1>1
  <2> QED
    BY <1>1, <1>2, SpanJoins, FlattenType DEF LoopAt
<1>4. Upto(text, TRUE, i) = Upto(text, TRUE, i - 1) \o Item(text, TRUE, i)
  BY UptoIs
<1>5. CASE text[i] # "nl"
  <2>1. Piece(s, i, text) = s /\ Item(text, TRUE, i) = <<text[i]>>
    BY <1>5 DEF Piece, Item
  <2>2. SubSeq(text, s.start, i) = x \o <<text[i]>>
    <3>1. s.start \in 1 .. Len(text) /\ i \in s.start .. Len(text)
      BY <1>1, <1>2
    <3> QED
      BY <1>1, <3>1, SubSeqRecursiveSecond
  <2>3. a \o (x \o <<text[i]>>) = (a \o x) \o <<text[i]>>
    <3> DEFINE y == <<text[i]>>
    <3>1. y \in Seq(Chars)
      BY <1>1, OneItem
    <3> HIDE DEF a, x, y
    <3>2. ASSUME NEW p \in Seq(Chars), NEW q \in Seq(Chars), NEW v \in Seq(Chars)
          PROVE  (p \o q) \o v = p \o (q \o v)
      BY ConcatAssociative, SMTT(30)
    <3>3. a \o (x \o y) = (a \o x) \o y
      BY <1>3, <3>1, <3>2, Zenon
    <3> QED
      BY <3>3 DEF y
  <2>4. s.start <= i + 1
    BY <1>1, <1>2
  <2> QED
    BY <1>2, <1>3, <1>4, <2>1, <2>2, <2>3, <2>4 DEF LoopAt
<1>6. CASE text[i] = "nl"
  <2> DEFINE put == s.out \o Span(text, s.start, i - 1)
             r == [start |-> i + 1, out |-> put \o <<LineEnd>>]
  <2>1. /\ put \in Seq(Seq(Chars)) /\ Full(put) /\ FlattenSeq(put) = a \o x
    BY <1>1, <1>2, SpanJoins
  <2>2. Piece(s, i, text) = r /\ Item(text, TRUE, i) = LineEnd
    BY <1>6 DEF Piece, Item
  <2> HIDE DEF put
  <2>3. /\ put \o <<LineEnd>> \in Seq(Seq(Chars)) /\ Full(put \o <<LineEnd>>)
        /\ FlattenSeq(put \o <<LineEnd>>) = (a \o x) \o LineEnd
    BY <2>1, LineEndJoins
  <2>4. r \in Loop /\ r.start = i + 1 /\ r.out = put \o <<LineEnd>>
    <3> DEFINE all == put \o <<LineEnd>>
    <3>1. all \in Seq(Seq(Chars)) /\ i + 1 \in Nat \ {0}
      BY <1>1, <2>3
    <3> HIDE DEF all
    <3>2. [start |-> i + 1, out |-> all] \in Loop
      BY <3>1 DEF Loop
    <3> QED
      BY <3>2 DEF all
  <2>5. SubSeq(text, i + 1, i) = <<>>
    BY <1>1, SubSeqEmpty
  <2>6. Upto(text, TRUE, i) \in Seq(Chars)
    <3>1. i \in 0 .. Len(text)
      BY <1>1
    <3> QED
      BY <3>1, UptoIs
  <2> HIDE DEF r
  <2>7. FlattenSeq(r.out) \o SubSeq(text, r.start, i) = Upto(text, TRUE, i)
    <3>1. FlattenSeq(r.out) = Upto(text, TRUE, i)
      BY <1>3, <1>4, <2>2, <2>3, <2>4
    <3>2. SubSeq(text, r.start, i) = <<>>
      BY <2>4, <2>5
    <3> QED
      BY <2>6, <3>1, <3>2, ConcatEmptySeq
  <2>8. r.start <= i + 1 /\ Full(r.out)
    BY <1>1, <2>3, <2>4
  <2> QED
    BY <2>2, <2>4, <2>7, <2>8 DEF LoopAt
<1> QED
  BY <1>5, <1>6

\* The pieces of a text with its line ends translated.
LEMMA PiecedWhole ==
  ASSUME NEW text \in Written
  PROVE  /\ Pieced(text) \in Seq(Seq(Chars)) /\ Full(Pieced(text))
         /\ FlattenSeq(Pieced(text)) = Translated(text, TRUE)
<1> DEFINE n == Len(text)
           Step(g) == [i \in 0 .. n |->
                         IF i = 0 THEN [start |-> 1, out |-> <<>>] ELSE Piece(g[i - 1], i, text)]
           loop == CHOOSE g : g = Step(g)
           none == [start |-> 1, out |-> <<>>]
           F == [i \in 1 .. n |-> [s \in Loop |-> Piece(s, i, text)]]
<1>1. n \in Nat /\ text \in Seq(Chars) /\ 0 \in Int /\ n \in Int /\ 0 <= n
  BY TextIs
<1>2. none \in Loop /\ LoopAt(text, 0, none)
  <2>1. <<>> \in Seq(Seq(Chars)) /\ <<>> \in Seq(Chars) /\ Len(<<>>) = 0
    BY EmptySeq
  <2>2. none \in Loop /\ none.start = 1 /\ none.out = <<>>
    BY <2>1 DEF Loop
  <2>3. SubSeq(text, 1, 0) = <<>> /\ <<>> \o <<>> = <<>>
    BY <2>1, SubSeqEmpty, ConcatEmptySeq
  <2> HIDE DEF none
  <2>4. FlattenSeq(none.out) \o SubSeq(text, none.start, 0) = Upto(text, TRUE, 0)
    BY <2>2, <2>3, FlattenEmpty, UptoIs
  <2>5. Full(none.out) /\ none.start <= 0 + 1
    BY <2>1, <2>2 DEF Full
  <2> QED
    BY <2>2, <2>4, <2>5, Zenon DEF LoopAt
<1> HIDE DEF none
<1>3. ASSUME NEW i \in 1 .. n, NEW s \in Loop
      PROVE  Piece(s, i, text) \in Loop
  <2> DEFINE put == s.out \o Span(text, s.start, i - 1)
  <2>1. s.start \in Nat \ {0} /\ s.out \in Seq(Seq(Chars)) /\ i \in Nat
    BY <1>1 DEF Loop
  <2>2. Span(text, s.start, i - 1) \in Seq(Seq(Chars))
    <3>1. \A j \in s.start .. i - 1 : text[j] \in Chars
      BY <1>1, <2>1, TextIs
    <3>2. SubSeq(text, s.start, i - 1) \in Seq(Chars)
      BY <1>1, <2>1, <3>1, SubSeqProperties
    <3> QED
      BY <3>2 DEF Span
  <2>3. LineEnd \in Seq(Chars)
    BY DEF LineEnd, Chars
  <2>4. put \o <<LineEnd>> \in Seq(Seq(Chars))
    <3>1. <<LineEnd>> \in Seq(Seq(Chars))
      BY <2>3
    <3> QED
      BY <2>1, <2>2, <3>1, ConcatProperties
  <2> HIDE DEF put
  <2>5. [start |-> i + 1, out |-> put \o <<LineEnd>>] \in Loop
    BY <2>1, <2>4 DEF Loop
  <2> QED
    BY <2>5 DEF Piece, put
<1>4. PICK g \in [0 .. n -> Loop] : Follows(g, 0, n, none, F)
  <2>1. \A i \in 0 .. n : i # 0 => \A s \in Loop : F[i][s] \in Loop
    <3> HIDE DEF n
    <3>1. \A i \in 0 .. n : i # 0 => i \in 1 .. n
      BY <1>1
    <3> QED
      BY <1>3, <3>1
  <2> HIDE DEF F, n
  <2> QED
    BY <1>1, <1>2, <2>1, Recursion
<1>5. g = Step(g)
  <2>1. ASSUME NEW i \in 0 .. n
        PROVE  g[i] = IF i = 0 THEN none ELSE Piece(g[i - 1], i, text)
    <3>1. g[i] = IF i = 0 THEN none ELSE F[i][g[i - 1]]
      BY <1>4 DEF Follows
    <3>2. i # 0 => i \in 1 .. n /\ i - 1 \in 0 .. n
      <4> HIDE DEF n
      <4> QED
        BY <1>1
    <3>3. i # 0 => F[i][g[i - 1]] = Piece(g[i - 1], i, text)
      <4> HIDE DEF n
      <4> QED
        BY <1>4, <3>2
    <3> QED
      BY <3>1, <3>3
  <2> QED
    BY <2>1 DEF none
<1>6. loop = Step(loop)
  <2> HIDE DEF Step
  <2> QED
    BY <1>5
<1> HIDE DEF loop
<1>7. \A i \in 0 .. n : loop[i] = IF i = 0 THEN none ELSE Piece(loop[i - 1], i, text)
  BY <1>6 DEF none
<1> HIDE DEF Step
<1> DEFINE T == {k \in Nat : k <= n => LoopAt(text, k, loop[k])}
<1>8. 0 \in T
  <2>1. loop[0] = none
    <3> HIDE DEF n
    <3> QED
      BY <1>1, <1>7
  <2> QED
    BY <1>2, <2>1
<1>9. ASSUME NEW k \in Nat, k \in T
      PROVE  k + 1 \in T
  <2> SUFFICES ASSUME k + 1 <= n PROVE LoopAt(text, k + 1, loop[k + 1])
    OBVIOUS
  <2> DEFINE i == k + 1
  <2>1. i \in 1 .. n /\ i \in 0 .. n /\ i # 0 /\ i - 1 = k
    BY <1>1
  <2>2. LoopAt(text, k, loop[k])
    BY <1>1, <1>9
  <2> HIDE DEF i
  <2>3. loop[i] = Piece(loop[i - 1], i, text)
    BY <1>7, <2>1
  <2>4. LoopAt(text, i, Piece(loop[i - 1], i, text))
    BY <2>1, <2>2, PieceKeeps
  <2> QED
    BY <2>3, <2>4 DEF i
<1>10. LoopAt(text, n, loop[n])
  <2>1. Nat \subseteq T
    <3> HIDE DEF T
    <3> QED
      BY <1>8, <1>9, Induction
  <2> HIDE DEF n
  <2> QED
    BY <1>1, <2>1
<1> DEFINE last == loop[n]
<1>11. Pieced(text) = last.out \o Span(text, last.start, n)
  BY DEF Pieced, loop, Step
<1> HIDE DEF last
<1>12. LoopAt(text, n, last)
  BY <1>10 DEF last
<1>13. /\ last.out \in Seq(Seq(Chars)) /\ Full(last.out) /\ last.start \in 1 .. n + 1
       /\ FlattenSeq(last.out) \o SubSeq(text, last.start, n) = Upto(text, TRUE, n)
  BY <1>1, <1>12 DEF LoopAt, Loop
<1>14. n \in 0 .. n
  BY <1>1
<1>15. /\ last.out \o Span(text, last.start, n) \in Seq(Seq(Chars))
       /\ Full(last.out \o Span(text, last.start, n))
       /\ FlattenSeq(last.out \o Span(text, last.start, n))
            = FlattenSeq(last.out) \o SubSeq(text, last.start, n)
  BY <1>1, <1>13, <1>14, SpanJoins
<1>16. Upto(text, TRUE, n) = Translated(text, TRUE)
  BY UptoIs
<1> QED
  BY <1>11, <1>13, <1>15, <1>16

\* The one piece of a text that is sent as it is.
LEMMA SpanWhole ==
  ASSUME NEW text \in Written
  PROVE  /\ Span(text, 1, Len(text)) \in Seq(Seq(Chars)) /\ Full(Span(text, 1, Len(text)))
         /\ FlattenSeq(Span(text, 1, Len(text))) = Translated(text, FALSE)
<1> DEFINE n == Len(text)
           Same(k) == Upto(text, FALSE, k) = SubSeq(text, 1, k)
           T == {k \in Nat : k <= n => Same(k)}
<1>1. n \in Nat /\ text \in Seq(Chars) /\ 1 \in 1 .. n + 1 /\ n \in 0 .. n
  <2>1. n \in Nat
    BY TextIs
  <2> QED
    BY <2>1, TextIs
<1>2. 0 \in T
  <2>1. SubSeq(text, 1, 0) = <<>>
    BY SubSeqEmpty
  <2>2. Upto(text, FALSE, 0) = <<>>
    BY UptoIs
  <2> QED
    BY <2>1, <2>2
<1>3. ASSUME NEW k \in Nat, k \in T
      PROVE  k + 1 \in T
  <2> HIDE DEF Same
  <2> SUFFICES ASSUME k + 1 <= n PROVE Same(k + 1)
    OBVIOUS
  <2> USE DEF Same
  <2> DEFINE i == k + 1
  <2>1. 1 \in 1 .. n /\ i \in 1 .. n /\ i - 1 = k /\ k <= n
    BY <1>1
  <2>2. Same(k)
    <3> HIDE DEF Same
    <3> QED
      BY <1>3, <2>1
  <2> HIDE DEF i
  <2>3. SubSeq(text, 1, i) = SubSeq(text, 1, i - 1) \o <<text[i]>>
    BY <1>1, <2>1, SubSeqRecursiveSecond
  <2>4. Upto(text, FALSE, i) = Upto(text, FALSE, i - 1) \o <<text[i]>>
    BY <2>1, UptoIs DEF Item
  <2>5. Upto(text, FALSE, i) = SubSeq(text, 1, i)
    BY <2>1, <2>2, <2>3, <2>4
  <2> QED
    BY <2>5 DEF i
<1>4. Same(n)
  <2>1. Nat \subseteq T
    <3> HIDE DEF T
    <3> QED
      BY <1>2, <1>3, Induction
  <2> HIDE DEF n, Same
  <2> QED
    BY <1>1, <2>1
<1>5. Translated(text, FALSE) = SubSeq(text, 1, n)
  BY <1>4, UptoIs
<1> DEFINE none == <<>>
<1>6. none \in Seq(Seq(Chars)) /\ Len(none) = 0 /\ FlattenSeq(none) = <<>>
  BY FlattenEmpty, EmptySeq
<1>7. \A s \in Seq(Seq(Chars)) : none \o s = s
  BY ConcatEmptySeq
<1>8. \A s \in Seq(Chars) : <<>> \o s = s
  BY ConcatEmptySeq
<1> HIDE DEF none
<1>9. Full(none)
  BY <1>6 DEF Full
<1>10. /\ Span(text, 1, n) \in Seq(Seq(Chars)) /\ SubSeq(text, 1, n) \in Seq(Chars)
       /\ Full(none \o Span(text, 1, n))
       /\ FlattenSeq(none \o Span(text, 1, n)) = FlattenSeq(none) \o SubSeq(text, 1, n)
  BY <1>1, <1>6, <1>9, SpanJoins
<1> QED
  BY <1>5, <1>6, <1>7, <1>8, <1>10

\* bmx_esp32_uart_write_blocking
LEMMA WriteTranslates ==
  ASSUME NEW text \in Written, uart.crlf \in BOOLEAN, WriteBlocking(text)
  PROVE  LinesTranslated'
<1> DEFINE pieces == IF uart.crlf THEN Pieced(text) ELSE Span(text, 1, Len(text))
           whole == Translated(text, uart.crlf)
<1>1. pieces \in Seq(Seq(Chars)) /\ Full(pieces) /\ FlattenSeq(pieces) = whole
  <2>1. CASE uart.crlf
    <3>1. uart.crlf = TRUE
      BY <2>1
    <3> QED
      BY <3>1, PiecedWhole
  <2>2. CASE ~uart.crlf
    <3>1. uart.crlf = FALSE
      BY <2>2
    <3> QED
      BY <3>1, SpanWhole
  <2> QED
    BY <2>1, <2>2
<1>2. PICK n \in IF uart.breaking THEN {0} ELSE 0 .. Len(pieces) :
        uartWire' = [text |-> text, crlf |-> uart.crlf,
                     sent |-> FlattenSeq(SubSeq(pieces, 1, n)),
                     result |-> IF n = Len(pieces) THEN Len(text) ELSE -1]
  BY DEF WriteBlocking
<1> DEFINE sent == FlattenSeq(SubSeq(pieces, 1, n))
<1> HIDE DEF pieces, whole
<1>3. Len(pieces) \in Nat /\ Len(text) \in Nat
  BY <1>1, LenProperties, TextIs
<1>4. n \in 0 .. Len(pieces)
  BY <1>2, <1>3
<1>5. sent \in Seq(Chars) /\ whole \in Seq(Chars) /\ Longer(Chars, sent, whole, n < Len(pieces))
  BY <1>1, <1>4, FlattenLonger
<1>6. n = Len(pieces) => sent = whole
  BY <1>1, SubSeqFull
<1>7. IsPrefix(sent, whole) /\ (n < Len(pieces) => sent # whole)
  <2> DEFINE m == n < Len(pieces)
  <2>1. m \in BOOLEAN
    OBVIOUS
  <2> HIDE DEF m, sent
  <2>2. Longer(Chars, sent, whole, m)
    BY <1>5 DEF m
  <2>3. IsPrefix(sent, whole) /\ (m => sent # whole)
    BY <1>5, <2>1, <2>2, LongerPrefix
  <2> QED
    BY <2>3 DEF m
<1>8. /\ uartWire'.text = text /\ uartWire'.crlf = uart.crlf /\ uartWire'.sent = sent
      /\ uartWire'.result = IF n = Len(pieces) THEN Len(text) ELSE -1
  BY <1>2
<1> HIDE DEF sent
<1>9. Translated(uartWire'.text, uartWire'.crlf) = whole
  BY <1>8 DEF whole
<1>10. uartWire'.result \in {-1, Len(text)} /\ (uartWire'.result >= 0 <=> n = Len(pieces))
  BY <1>3, <1>8
<1>11. n = Len(pieces) <=> sent = whole
  BY <1>3, <1>4, <1>6, <1>7
<1> QED
  BY <1>7, <1>8, <1>9, <1>10, <1>11 DEF LinesTranslated

\* Nor any other than a write what was written.
LEMMA WriteStep ==
  ASSUME UartInv, LinesTranslated, [UartPortNext]_uartVars
  PROVE  LinesTranslated'
<1>1. CASE UNCHANGED uartWire
  BY <1>1 DEF LinesTranslated
<1>2. ASSUME NEW text \in Texts, WriteBlocking(text)
      PROVE  LinesTranslated'
  <2>1. text \in Written /\ uart.crlf \in BOOLEAN
    BY UartPortAssumption DEF Written, UartInv, Fields
  <2> QED
    BY <1>2, <2>1, WriteTranslates
<1>3. CASE UartConfigurePins \/ UartInitialize \/ UartDeinitialize \/ UartDeinitializeFails
  BY <1>1, <1>3
     DEF UartConfigurePins, UartInitialize, UartDeinitialize, UartDeinitializeFails
<1>4. CASE AssertBreak \/ AssertBreakFails \/ EndBreak
  BY <1>1, <1>4 DEF AssertBreak, AssertBreakFails, EndBreak
<1>5. CASE \/ \E open \in BOOLEAN : UartStream(open)
           \/ \E crlf \in BOOLEAN : SetTranslate(crlf)
  BY <1>1, <1>5 DEF UartStream, SetTranslate
<1>6. CASE \E kind \in UartErrors \cup {"data"} : UartEvent(kind)
  BY <1>1, <1>6 DEF UartEvent
<1>7. CASE CollectEvents \/ WorkerCollects \/ ClearErrors
  BY <1>1, <1>7 DEF CollectEvents, WorkerCollects, ClearErrors
<1>8. CASE UNCHANGED uartVars
  BY <1>1, <1>8 DEF uartVars
<1> QED
  BY <1>2, <1>3, <1>4, <1>5, <1>6, <1>7, <1>8
     DEF UartPortNext, GetErrors, ReadAvailable, ReadBlocking, ReadTimeout, FlushInput

----------------------------------------------------------------------------
(* RMT. *)

RmtTypes ==
  /\ rmtTx \in BOOLEAN /\ rmtRx \in BOOLEAN
  /\ rmt \in [receiving : BOOLEAN, ready : BOOLEAN, count : 0 .. RmtCapacity]
  /\ rmtCaptured \in {0} \cup RmtLengths

\* The driver and its interrupt work for a receiver, which is not ready until
\* they are done; and the program starts and reads only while they do nothing.
CaptureInOrder ==
  /\ ~rmtRx => rmtApp = "idle" /\ rmtDriver = "idle" /\ rmtIsr = "idle"
  /\ rmtIsr = "counted" =>
       /\ rmtDriver = "done" /\ ~rmt.ready
       /\ rmt.count = Least(rmtCaptured, RmtCapacity)
  /\ rmtDriver = "armed" => ~rmt.ready /\ rmtIsr = "idle"
  /\ rmtApp = "starting" => rmt.receiving /\ ~rmt.ready /\ rmtDriver = "idle"
  /\ rmtApp = "reading" => ~rmt.receiving /\ rmtDriver = "idle"
  /\ rmtApp \in {"idle", "starting", "reading"} /\ rmtIsr \in {"idle", "counted"}
  /\ rmtDriver \in {"idle", "armed", "done"}

RmtInv == RmtTypes /\ NothingLeaks /\ CaptureKept /\ CaptureInOrder

LEMMA MadeOfParts ==
  ASSUME NEW S, NEW parts \in Seq(S), NEW n \in 0 .. Len(parts)
  PROVE  Made(parts, n) \subseteq ToSet(parts)
<1>1. SubSeq(parts, 1, n) \in Seq(S) /\ Len(SubSeq(parts, 1, n)) = n
  OBVIOUS
<1>2. \A i \in 1 .. n : SubSeq(parts, 1, n)[i] = parts[i]
  OBVIOUS
<1>3. DOMAIN SubSeq(parts, 1, n) = 1 .. n /\ 1 .. n \subseteq DOMAIN parts
  BY <1>1
<1> QED
  BY <1>2, <1>3 DEF Made, ToSet

LEMMA SetOfThree ==
  ASSUME NEW a, NEW b, NEW c
  PROVE  <<a, b, c>> \in Seq({a, b, c}) /\ ToSet(<<a, b, c>>) = {a, b, c}
<1>1. <<a, b, c>> \in Seq({a, b, c})
  OBVIOUS
<1>2. DOMAIN <<a, b, c>> = {1, 2, 3}
  OBVIOUS
<1>3. <<a, b, c>>[1] = a /\ <<a, b, c>>[2] = b /\ <<a, b, c>>[3] = c
  OBVIOUS
<1> QED
  BY <1>1, <1>2, <1>3 DEF ToSet

LEMMA SetOfTwo ==
  ASSUME NEW a, NEW b
  PROVE  <<a, b>> \in Seq({a, b}) /\ ToSet(<<a, b>>) = {a, b}
<1>1. <<a, b>> \in Seq({a, b})
  OBVIOUS
<1>2. DOMAIN <<a, b>> = {1, 2}
  OBVIOUS
<1>3. <<a, b>>[1] = a /\ <<a, b>>[2] = b
  OBVIOUS
<1> QED
  BY <1>1, <1>2, <1>3 DEF ToSet

LEMMA SetOfOne ==
  ASSUME NEW a
  PROVE  <<a>> \in Seq({a}) /\ ToSet(<<a>>) = {a} /\ Len(<<a>>) = 1
<1>1. <<a>> \in Seq({a}) /\ Len(<<a>>) = 1
  OBVIOUS
<1>2. DOMAIN <<a>> = {1} /\ <<a>>[1] = a
  OBVIOUS
<1> QED
  BY <1>1, <1>2 DEF ToSet

TxSet == {"txState", "txChannel", "txEncoder"}
RxSet == {"rxState", "rxSymbols", "rxChannel"}

LEMMA Parts ==
  /\ TxParts \in Seq(TxSet) /\ ToSet(TxParts) = TxSet
  /\ RxParts \in Seq(RxSet) /\ ToSet(RxParts) = RxSet
  /\ BytesParts \in Seq({"payload", "bytesEncoder"})
  /\ ToSet(BytesParts) = {"payload", "bytesEncoder"}
  /\ <<"symbols">> \in Seq({"symbols"}) /\ ToSet(<<"symbols">>) = {"symbols"}
  /\ Len(<<"symbols">>) = 1
<1>1. TxParts \in Seq(TxSet) /\ ToSet(TxParts) = TxSet
  BY SetOfThree DEF TxParts, TxSet
<1>2. RxParts \in Seq(RxSet) /\ ToSet(RxParts) = RxSet
  BY SetOfThree DEF RxParts, RxSet
<1>3. /\ BytesParts \in Seq({"payload", "bytesEncoder"})
      /\ ToSet(BytesParts) = {"payload", "bytesEncoder"}
  BY SetOfTwo DEF BytesParts
<1> QED
  BY <1>1, <1>2, <1>3, SetOfOne

\* A step that leaves the capture alone and what the program holds of the
\* receiver too.
LEMMA CaptureUntouched ==
  ASSUME RmtInv, UNCHANGED <<rmtApp, rmtCapture, rmtRx>>, rmtTx' \in BOOLEAN
  PROVE  RmtTypes' /\ CaptureKept' /\ CaptureInOrder'
BY DEF RmtInv, RmtTypes, CaptureKept, CaptureInOrder, rmtCapture

LEMMA RmtStep ==
  ASSUME RmtInv, [RmtNext]_rmtVars
  PROVE  RmtInv'
<1>types. /\ rmtTx \in BOOLEAN /\ rmtRx \in BOOLEAN
          /\ rmt \in [receiving : BOOLEAN, ready : BOOLEAN, count : 0 .. RmtCapacity]
          /\ rmt.receiving \in BOOLEAN /\ rmt.ready \in BOOLEAN
          /\ rmtCaptured \in {0} \cup RmtLengths /\ RmtCapacity \in Nat
  BY RmtAssumption DEF RmtInv, RmtTypes
<1>held. NothingLeaks
  BY DEF RmtInv
<1>1. CASE NewTx
  BY <1>1, <1>held, Parts, CaptureUntouched DEF NewTx, NothingLeaks, TxSet, RxSet, RmtInv
<1>2. CASE DeleteTx
  <2>1. NothingLeaks'
    BY <1>2, <1>held, Parts DEF DeleteTx, NothingLeaks, TxSet, RxSet, rmtCapture
  <2> QED
    BY <1>2, <2>1, CaptureUntouched DEF DeleteTx, RmtInv
<1>3. ASSUME NEW n \in 0 .. Len(TxParts), NewTxFails(n)
      PROVE  RmtInv'
  <2>1. Made(TxParts, n) \subseteq TxSet
    BY Parts, MadeOfParts
  <2>2. NothingLeaks'
    BY <1>3, <1>held, <2>1, Parts DEF NewTxFails, NothingLeaks, TxSet, RxSet
  <2> QED
    BY <1>3, <1>types, <2>2, CaptureUntouched DEF NewTxFails, RmtInv
<1>4. ASSUME NEW n \in 0 .. Len(BytesParts), TransmitBytes(n)
      PROVE  RmtInv'
  <2>1. Made(BytesParts, n) \subseteq {"payload", "bytesEncoder"}
    BY Parts, MadeOfParts
  <2>2. NothingLeaks'
    BY <1>4, <1>held, <2>1, Parts DEF TransmitBytes, NothingLeaks, TxSet, RxSet
  <2> QED
    BY <1>4, <1>types, <2>2, CaptureUntouched DEF TransmitBytes, RmtInv
<1>5. ASSUME NEW n \in 0 .. 1, TransmitSymbols(n)
      PROVE  RmtInv'
  <2>1. Made(<<"symbols">>, n) \subseteq {"symbols"}
    BY Parts, MadeOfParts
  <2>2. NothingLeaks'
    BY <1>5, <1>held, <2>1, Parts DEF TransmitSymbols, NothingLeaks, TxSet, RxSet
  <2> QED
    BY <1>5, <1>types, <2>2, CaptureUntouched DEF TransmitSymbols, RmtInv
<1>6. ASSUME NEW n \in 0 .. Len(RxParts), NewRxFails(n)
      PROVE  RmtInv'
  <2>1. Made(RxParts, n) \subseteq RxSet
    BY Parts, MadeOfParts
  <2>2. NothingLeaks'
    BY <1>6, <1>held, <2>1, Parts DEF NewRxFails, NothingLeaks, TxSet, RxSet
  <2> QED
    BY <1>6, <1>types, <2>2, CaptureUntouched DEF NewRxFails, RmtInv
<1>7. CASE NewRx
  <2>1. NothingLeaks'
    BY <1>7, <1>held, Parts DEF NewRx, NothingLeaks, TxSet, RxSet
  <2>2. rmt' = Fresh /\ UNCHANGED <<rmtTx, rmtApp, rmtIsr, rmtDriver, rmtCaptured>>
        /\ ~rmtRx /\ rmtRx' = TRUE /\ rmtApp = "idle"
    BY <1>7 DEF NewRx
  <2> QED
    BY <1>types, <2>1, <2>2 DEF RmtInv, RmtTypes, CaptureKept, CaptureInOrder, Fresh
<1>8. CASE DeleteRx
  <2>1. NothingLeaks'
    BY <1>8, <1>held, Parts DEF DeleteRx, NothingLeaks, TxSet, RxSet
  <2> QED
    BY <1>8, <1>types, <2>1 DEF DeleteRx, RmtInv, RmtTypes, CaptureKept, CaptureInOrder
<1>9. CASE StartReceive
  BY <1>9, <1>types DEF StartReceive, RmtInv, RmtTypes, NothingLeaks, CaptureKept,
     CaptureInOrder
<1>10. CASE Armed
  BY <1>10, <1>types DEF Armed, RmtInv, RmtTypes, NothingLeaks, CaptureKept, CaptureInOrder
<1>11. CASE ArmFails
  BY <1>11, <1>types DEF ArmFails, RmtInv, RmtTypes, NothingLeaks, CaptureKept,
     CaptureInOrder
<1>12. ASSUME NEW n \in RmtLengths, ReceiveDone(n)
       PROVE  RmtInv'
  <2>1. n \in Nat /\ Least(n, RmtCapacity) \in 0 .. RmtCapacity
    BY <1>types, RmtAssumption DEF Least
  <2> QED
    BY <1>12, <1>types, <2>1 DEF ReceiveDone, RmtInv, RmtTypes, NothingLeaks, CaptureKept,
       CaptureInOrder
<1>13. ASSUME NEW n \in RmtLengths, ReadReceived(n)
       PROVE  RmtInv'
  BY <1>13, <1>types DEF ReadReceived, ReceiveIsReady, RmtInv, RmtTypes, NothingLeaks,
     CaptureKept, CaptureInOrder
<1>14. CASE ReceiveReady
  BY <1>14, <1>types DEF ReceiveReady, RmtInv, RmtTypes, NothingLeaks, CaptureKept,
     CaptureInOrder
<1>15. CASE ReadDone
  BY <1>15, <1>types DEF ReadDone, RmtInv, RmtTypes, NothingLeaks, CaptureKept,
     CaptureInOrder
<1>16. CASE UNCHANGED rmtVars
  BY <1>16, CaptureUntouched DEF rmtVars, rmtCapture, RmtInv, RmtTypes, NothingLeaks
<1> QED
  BY <1>1, <1>2, <1>3, <1>4, <1>5, <1>6, <1>7, <1>8, <1>9, <1>10, <1>11, <1>12, <1>13,
     <1>14, <1>15, <1>16 DEF RmtNext

----------------------------------------------------------------------------
(* GPIO. *)

\* What set_irq_enabled has still to do from a step on.
FromMask(mask) == <<[op |-> "mask", mask |-> mask], [op |-> "handler", mask |-> mask],
                    [op |-> "on", mask |-> mask]>>
FromHandler(mask) == <<[op |-> "handler", mask |-> mask], [op |-> "on", mask |-> mask]>>
FromOn(mask) == <<[op |-> "on", mask |-> mask]>>
FromRemove == <<[op |-> "remove"], [op |-> "clear"]>>
FromClear == <<[op |-> "clear"]>>
Taking == <<[op |-> "take"]>>

\* A mask has its handler, and no interrupts but its own.
Settled == irq.mask # {} => pin.handler /\ pin.kind \in {irq.mask, {}}

\* As far as set_irq_enabled has come, the pin is set up for the mask; on the way
\* to disable it, the mask goes last.
IrqInOrder ==
  \/ task \in {<<>>, Disabling, Taking} /\ Settled
  \/ task \in {FromRemove, FromClear}
  \/ \E mask \in IrqMasks :
       \/ task = Enabling(mask) /\ Settled
       \/ task = FromMask(mask) /\ pin.kind = mask
       \/ task = FromHandler(mask) /\ pin.kind = mask /\ irq.mask = mask
       \/ task = FromOn(mask) /\ pin.kind = mask /\ irq.mask = mask /\ pin.handler

\* Events that were recorded are announced, or were when nobody could be told.
EventsTracked ==
  irq.events # {} =>
    posted \/ unposted \/ Doing("take") \/ (isr.at = "recorded" /\ isr.token)

PadSame == gpioTorn \/ gpio = pad

GpioInv == GpioTypeOK /\ PadSame /\ IrqInOrder /\ EventsTracked

LEMMA TaskShapes ==
  /\ \A mask \in IrqMasks :
       /\ Enabling(mask) # <<>> /\ Head(Enabling(mask)).op = "kind"
       /\ Head(Enabling(mask)).mask = mask /\ Tail(Enabling(mask)) = FromMask(mask)
       /\ FromMask(mask) # <<>> /\ Head(FromMask(mask)).op = "mask"
       /\ Head(FromMask(mask)).mask = mask /\ Tail(FromMask(mask)) = FromHandler(mask)
       /\ FromHandler(mask) # <<>> /\ Head(FromHandler(mask)).op = "handler"
       /\ Tail(FromHandler(mask)) = FromOn(mask)
       /\ FromOn(mask) # <<>> /\ Head(FromOn(mask)).op = "on" /\ Tail(FromOn(mask)) = <<>>
  /\ Disabling # <<>> /\ Head(Disabling).op = "off" /\ Tail(Disabling) = FromRemove
  /\ FromRemove # <<>> /\ Head(FromRemove).op = "remove" /\ Tail(FromRemove) = FromClear
  /\ FromClear # <<>> /\ Head(FromClear).op = "clear" /\ Tail(FromClear) = <<>>
  /\ Taking # <<>> /\ Head(Taking).op = "take"
<1>1. ASSUME NEW a, NEW b, NEW c, NEW d
      PROVE  /\ <<a, b, c, d>> # <<>> /\ Head(<<a, b, c, d>>) = a
             /\ Tail(<<a, b, c, d>>) = <<b, c, d>>
  OBVIOUS
<1>2. ASSUME NEW a, NEW b, NEW c
      PROVE  <<a, b, c>> # <<>> /\ Head(<<a, b, c>>) = a /\ Tail(<<a, b, c>>) = <<b, c>>
  OBVIOUS
<1>3. ASSUME NEW a, NEW b
      PROVE  <<a, b>> # <<>> /\ Head(<<a, b>>) = a /\ Tail(<<a, b>>) = <<b>>
  OBVIOUS
<1>4. ASSUME NEW a
      PROVE  <<a>> # <<>> /\ Head(<<a>>) = a /\ Tail(<<a>>) = <<>>
  OBVIOUS
<1>5. ASSUME NEW mask
      PROVE  /\ Enabling(mask) # <<>> /\ Head(Enabling(mask)).op = "kind"
             /\ Head(Enabling(mask)).mask = mask /\ Tail(Enabling(mask)) = FromMask(mask)
  BY <1>1 DEF Enabling, FromMask
<1>6. ASSUME NEW mask
      PROVE  /\ FromMask(mask) # <<>> /\ Head(FromMask(mask)).op = "mask"
             /\ Head(FromMask(mask)).mask = mask /\ Tail(FromMask(mask)) = FromHandler(mask)
  BY <1>2 DEF FromMask, FromHandler
<1>7. ASSUME NEW mask
      PROVE  /\ FromHandler(mask) # <<>> /\ Head(FromHandler(mask)).op = "handler"
             /\ Tail(FromHandler(mask)) = FromOn(mask)
  BY <1>3 DEF FromHandler, FromOn
<1>8. ASSUME NEW mask
      PROVE  FromOn(mask) # <<>> /\ Head(FromOn(mask)).op = "on" /\ Tail(FromOn(mask)) = <<>>
  BY <1>4 DEF FromOn
<1>9. Disabling # <<>> /\ Head(Disabling).op = "off" /\ Tail(Disabling) = FromRemove
  BY <1>2 DEF Disabling, FromRemove
<1>10. FromRemove # <<>> /\ Head(FromRemove).op = "remove" /\ Tail(FromRemove) = FromClear
  BY <1>3 DEF FromRemove, FromClear
<1>11. /\ FromClear # <<>> /\ Head(FromClear).op = "clear" /\ Tail(FromClear) = <<>>
       /\ Taking # <<>> /\ Head(Taking).op = "take"
  BY <1>4 DEF FromClear, Taking
<1>12. \A mask \in IrqMasks :
         /\ Enabling(mask) # <<>> /\ Head(Enabling(mask)).op = "kind"
         /\ Head(Enabling(mask)).mask = mask /\ Tail(Enabling(mask)) = FromMask(mask)
         /\ FromMask(mask) # <<>> /\ Head(FromMask(mask)).op = "mask"
         /\ Head(FromMask(mask)).mask = mask /\ Tail(FromMask(mask)) = FromHandler(mask)
         /\ FromHandler(mask) # <<>> /\ Head(FromHandler(mask)).op = "handler"
         /\ Tail(FromHandler(mask)) = FromOn(mask)
         /\ FromOn(mask) # <<>> /\ Head(FromOn(mask)).op = "on" /\ Tail(FromOn(mask)) = <<>>
  BY <1>5, <1>6, <1>7, <1>8, Zenon
<1> QED
  BY <1>9, <1>10, <1>11, <1>12, Zenon

\* The step that is to be done tells how far set_irq_enabled has come.
LEMMA WhereTaskIs ==
  ASSUME IrqInOrder
  PROVE  /\ Idle => Settled
         /\ Doing("kind") => Settled /\ \E mask \in IrqMasks : task = Enabling(mask)
         /\ Doing("mask") =>
              \E mask \in IrqMasks : task = FromMask(mask) /\ pin.kind = mask
         /\ Doing("handler") =>
              \E mask \in IrqMasks :
                task = FromHandler(mask) /\ pin.kind = mask /\ irq.mask = mask
         /\ Doing("on") =>
              \E mask \in IrqMasks :
                task = FromOn(mask) /\ pin.kind = mask /\ irq.mask = mask /\ pin.handler
         /\ Doing("off") => Settled /\ task = Disabling
         /\ Doing("remove") => task = FromRemove
         /\ Doing("clear") => task = FromClear
         /\ Doing("take") => Settled /\ task = Taking
<1>1. CASE task \in {<<>>, Disabling, Taking} /\ Settled
  BY <1>1, TaskShapes DEF Idle, Doing
<1>2. CASE task \in {FromRemove, FromClear}
  BY <1>2, TaskShapes DEF Idle, Doing
<1>3. ASSUME NEW mask \in IrqMasks, task = Enabling(mask), Settled
      PROVE  Doing("kind") /\ ~Idle /\ \A op : Doing(op) => op = "kind"
  BY <1>3, TaskShapes DEF Idle, Doing
<1>4. ASSUME NEW mask \in IrqMasks, task = FromMask(mask)
      PROVE  Doing("mask") /\ ~Idle /\ \A op : Doing(op) => op = "mask"
  BY <1>4, TaskShapes DEF Idle, Doing
<1>5. ASSUME NEW mask \in IrqMasks, task = FromHandler(mask)
      PROVE  Doing("handler") /\ ~Idle /\ \A op : Doing(op) => op = "handler"
  BY <1>5, TaskShapes DEF Idle, Doing
<1>6. ASSUME NEW mask \in IrqMasks, task = FromOn(mask)
      PROVE  Doing("on") /\ ~Idle /\ \A op : Doing(op) => op = "on"
  BY <1>6, TaskShapes DEF Idle, Doing
<1> QED
  BY <1>1, <1>2, <1>3, <1>4, <1>5, <1>6 DEF IrqInOrder

Pin(p, kind, on, handler) ==
  /\ p \in [kind : Kinds, on : BOOLEAN, handler : BOOLEAN]
  /\ p.kind = kind /\ p.on = on /\ p.handler = handler

LEMMA PinFields ==
  ASSUME pin \in [kind : Kinds, on : BOOLEAN, handler : BOOLEAN],
         NEW k \in Kinds, NEW b \in BOOLEAN, NEW h \in BOOLEAN
  PROVE  /\ Pin([pin EXCEPT !.on = b, !.kind = k], k, b, pin.handler)
         /\ Pin([pin EXCEPT !.kind = k], k, pin.on, pin.handler)
         /\ Pin([pin EXCEPT !.on = b], pin.kind, b, pin.handler)
         /\ Pin([pin EXCEPT !.handler = h, !.on = b], pin.kind, b, h)
BY DEF Pin

Irq(q, mask, events, token) ==
  /\ q \in [mask : Kinds, events : SUBSET Bits, token : BOOLEAN]
  /\ q.mask = mask /\ q.events = events /\ q.token = token

LEMMA IrqFields ==
  ASSUME irq \in [mask : Kinds, events : SUBSET Bits, token : BOOLEAN],
         NEW k \in Kinds, NEW e \in SUBSET Bits, NEW b \in BOOLEAN
  PROVE  /\ Irq([irq EXCEPT !.mask = k], k, irq.events, irq.token)
         /\ Irq([irq EXCEPT !.events = e], irq.mask, e, irq.token)
         /\ Irq([irq EXCEPT !.token = b], irq.mask, irq.events, b)
BY DEF Irq

IsrStates == [at : {"idle", "read", "recorded"}, events : SUBSET Bits, token : BOOLEAN]

LEMMA IsrFields ==
  ASSUME isr \in IsrStates, NEW e \in SUBSET Bits, NEW b \in BOOLEAN
  PROVE  /\ Asleep \in IsrStates
         /\ [Asleep EXCEPT !.at = "read", !.events = e] \in IsrStates
         /\ LET r == [isr EXCEPT !.at = "recorded", !.token = b] IN
            r \in IsrStates /\ r.at = "recorded" /\ r.token = b
BY DEF IsrStates, Asleep

LEMMA PadFields ==
  ASSUME NEW p \in PadState, NEW d \in {"in", "out", "off"}, NEW v \in {0, 1},
         NEW u \in SUBSET {"up", "down"}
  PROVE  /\ ResetPad \in PadState
         /\ [p EXCEPT !.direction = d] \in PadState
         /\ [p EXCEPT !.output = v] \in PadState
         /\ [p EXCEPT !.pulls = u] \in PadState
         /\ [p EXCEPT !.direction = d, !.pulls = u] \in PadState
BY DEF PadState, ResetPad

\* Every mask but the empty one is asked for, and what comes in is part of it.
LEMMA EventsOfMask ==
  ASSUME NEW mask \in Kinds,
         NEW e \in IF mask = {"fall", "rise"} THEN {{"fall"}, {"rise"}} ELSE {mask}
  PROVE  e \in SUBSET Bits
BY DEF Kinds, Bits

LEMMA GpioStep ==
  ASSUME GpioInv, [GpioNext]_gpioVars
  PROVE  GpioInv'
<1>types. /\ gpio \in PadState /\ pad \in PadState /\ gpioTorn \in BOOLEAN
          /\ irq \in [mask : Kinds, events : SUBSET Bits, token : BOOLEAN]
          /\ pin \in [kind : Kinds, on : BOOLEAN, handler : BOOLEAN]
          /\ isr \in IsrStates /\ posted \in BOOLEAN /\ unposted \in BOOLEAN
          /\ irq.mask \in Kinds /\ irq.events \in SUBSET Bits /\ irq.token \in BOOLEAN
          /\ isr.events \in SUBSET Bits /\ isr.token \in BOOLEAN
          /\ pin.handler \in BOOLEAN /\ pin.kind \in Kinds /\ {} \in Kinds
  BY DEF GpioInv, GpioTypeOK, IsrStates, Kinds
<1>inv. PadSame /\ IrqInOrder /\ EventsTracked
  BY DEF GpioInv
<1> USE DEF padVars, irqVars
<1>pads. ASSUME Idle, UNCHANGED irqVars, gpio' \in PadState, pad' \in PadState,
                gpioTorn' = gpioTorn, gpio = pad => gpio' = pad'
         PROVE  GpioInv'
  BY <1>pads, <1>inv, <1>types DEF GpioInv, GpioTypeOK, PadSame, IrqInOrder, EventsTracked,
     Settled, Doing, IsrStates
<1>irqs. ASSUME UNCHANGED padVars,
                irq' \in [mask : Kinds, events : SUBSET Bits, token : BOOLEAN],
                pin' \in [kind : Kinds, on : BOOLEAN, handler : BOOLEAN],
                isr' \in IsrStates, posted' \in BOOLEAN, unposted' \in BOOLEAN,
                IrqInOrder', EventsTracked'
         PROVE  GpioInv'
  BY <1>irqs, <1>inv, <1>types DEF GpioInv, GpioTypeOK, PadSame, IsrStates
<1>1. CASE GpioInitialize
  <2>1. Pin(pin', {}, FALSE, pin.handler)
    BY <1>1, <1>types, PinFields DEF GpioInitialize
  <2>2. IrqInOrder' /\ EventsTracked'
    BY <1>1, <1>inv, <2>1, WhereTaskIs DEF GpioInitialize, Pin, IrqInOrder, EventsTracked,
       Settled, Idle, Doing
  <2> QED
    BY <1>1, <1>types, <2>1, <2>2, PadFields DEF GpioInitialize, Pin, GpioInv, GpioTypeOK,
       PadSame, IsrStates
<1>2. CASE GpioInitializeFails
  <2>1. Pin(pin', {}, FALSE, pin.handler)
    BY <1>2, <1>types, PinFields DEF GpioInitializeFails
  <2>2. IrqInOrder' /\ EventsTracked'
    BY <1>2, <1>inv, <2>1, WhereTaskIs DEF GpioInitializeFails, Pin, IrqInOrder,
       EventsTracked, Settled, Idle, Doing
  <2>3. pad' \in PadState
    <3>1. /\ [pad EXCEPT !.direction = "off", !.pulls = {"up"}] \in PadState
          /\ [ResetPad EXCEPT !.direction = "off", !.pulls = {"up"}] \in PadState
          /\ [ResetPad EXCEPT !.direction = "off"] \in PadState
      BY <1>types, PadFields
    <3> QED
      BY <1>2, <3>1 DEF GpioInitializeFails
  <2> QED
    BY <1>2, <1>types, <2>1, <2>2, <2>3 DEF GpioInitializeFails, Pin, GpioInv, GpioTypeOK,
       PadSame, IsrStates
<1>3. ASSUME NEW d \in {"in", "out"}, SetDirection(d)
      PROVE  GpioInv'
  BY <1>3, <1>types, <1>pads, PadFields DEF SetDirection
<1>4. ASSUME NEW v \in {0, 1}, Put(v)
      PROVE  GpioInv'
  BY <1>4, <1>types, <1>pads, PadFields DEF Put
<1>5. ASSUME NEW pulls \in Pulls, SetPulls(pulls)
      PROVE  GpioInv'
  BY <1>5, <1>types, <1>pads, PadFields, GpioAssumption DEF SetPulls
<1>6. ASSUME NEW mask \in IrqMasks, EnableIrq(mask)
      PROVE  GpioInv'
  <2>1. IrqInOrder' /\ EventsTracked'
    BY <1>6, <1>inv, WhereTaskIs DEF EnableIrq, IrqInOrder, EventsTracked, Settled, Idle,
       Doing
  <2> QED
    BY <1>6, <1>types, <1>irqs, <2>1 DEF EnableIrq
<1>7. CASE DisableIrq
  <2>1. IrqInOrder' /\ EventsTracked'
    BY <1>7, <1>inv, WhereTaskIs DEF DisableIrq, IrqInOrder, EventsTracked, Settled, Idle,
       Doing
  <2> QED
    BY <1>7, <1>types, <1>irqs, <2>1 DEF DisableIrq
<1>8. CASE SetKind
  <2>1. PICK mask \in IrqMasks : task = Enabling(mask)
    BY <1>8, <1>inv, WhereTaskIs DEF SetKind, DriverStep
  <2>2. task' = FromMask(mask) /\ pin' = [pin EXCEPT !.kind = mask]
    BY <1>8, <2>1, TaskShapes DEF SetKind, DriverStep
  <2>3. Pin(pin', mask, pin.on, pin.handler)
    BY <1>types, <2>2, PinFields DEF Kinds
  <2>4. IrqInOrder' /\ EventsTracked'
    BY <1>8, <1>inv, <2>2, <2>3, TaskShapes DEF SetKind, DriverStep, Pin, IrqInOrder,
       EventsTracked, Doing
  <2> QED
    BY <1>8, <1>types, <1>irqs, <2>3, <2>4 DEF SetKind, DriverStep, Pin
<1>9. CASE AddHandler
  <2>1. PICK mask \in IrqMasks :
          task = FromHandler(mask) /\ pin.kind = mask /\ irq.mask = mask
    BY <1>9, <1>inv, WhereTaskIs DEF AddHandler, DriverStep
  <2>2. task' = FromOn(mask)
    BY <1>9, <2>1, TaskShapes DEF AddHandler, DriverStep
  <2>3. Pin(pin', pin.kind, TRUE, TRUE)
    BY <1>9, <1>types, PinFields DEF AddHandler, DriverStep
  <2>4. IrqInOrder' /\ EventsTracked'
    BY <1>9, <1>inv, <2>1, <2>2, <2>3, TaskShapes DEF AddHandler, DriverStep, Pin,
       IrqInOrder, EventsTracked, Doing
  <2> QED
    BY <1>9, <1>types, <1>irqs, <2>3, <2>4 DEF AddHandler, DriverStep, Pin
<1>10. CASE TurnOn
  <2>1. PICK mask \in IrqMasks :
          task = FromOn(mask) /\ pin.kind = mask /\ irq.mask = mask /\ pin.handler
    BY <1>10, <1>inv, WhereTaskIs DEF TurnOn, DriverStep
  <2>2. task' = <<>>
    BY <1>10, <2>1, TaskShapes DEF TurnOn, DriverStep
  <2>3. Pin(pin', pin.kind, TRUE, pin.handler)
    BY <1>10, <1>types, PinFields DEF TurnOn, DriverStep
  <2>4. IrqInOrder' /\ EventsTracked'
    BY <1>10, <1>inv, <2>1, <2>2, <2>3, TaskShapes DEF TurnOn, DriverStep, Pin, IrqInOrder,
       EventsTracked, Settled, Doing
  <2> QED
    BY <1>10, <1>types, <1>irqs, <2>3, <2>4 DEF TurnOn, DriverStep, Pin
<1>11. CASE TurnOff
  <2>1. task' = FromRemove
    BY <1>11, <1>inv, WhereTaskIs, TaskShapes DEF TurnOff, DriverStep
  <2>2. Pin(pin', pin.kind, FALSE, pin.handler)
    BY <1>11, <1>types, PinFields DEF TurnOff, DriverStep
  <2>3. IrqInOrder' /\ EventsTracked'
    BY <1>11, <1>inv, <2>1, <2>2, TaskShapes DEF TurnOff, DriverStep, Pin, IrqInOrder,
       EventsTracked, Doing
  <2> QED
    BY <1>11, <1>types, <1>irqs, <2>2, <2>3 DEF TurnOff, DriverStep, Pin
<1>12. CASE RemoveHandler
  <2>1. task' = FromClear
    BY <1>12, <1>inv, WhereTaskIs, TaskShapes DEF RemoveHandler, DriverStep
  <2>2. Pin(pin', pin.kind, FALSE, FALSE)
    BY <1>12, <1>types, PinFields DEF RemoveHandler, DriverStep
  <2>3. IrqInOrder' /\ EventsTracked'
    BY <1>12, <1>inv, <2>1, <2>2, TaskShapes DEF RemoveHandler, DriverStep, Pin, IrqInOrder,
       EventsTracked, Doing
  <2> QED
    BY <1>12, <1>types, <1>irqs, <2>2, <2>3 DEF RemoveHandler, DriverStep, Pin
<1>13. CASE DriverFails
  <2>1. /\ ~Doing("take") /\ UNCHANGED <<padVars, irq, pin, isr, posted, unposted>>
        /\ \/ task' = FromClear \/ task' = FromRemove
           \/ task' = <<>> /\ (Doing("kind") \/ Doing("off"))
    <3>1. CASE Doing("handler")
      <4>1. ~Doing("on")
        BY <3>1 DEF Doing
      <4>2. task' = FromClear
        BY <1>13, <3>1, <4>1 DEF DriverFails, FromClear
      <4> QED
        BY <1>13, <3>1, <4>2 DEF DriverFails, Doing
    <3>2. CASE Doing("on")
      <4>1. ~Doing("handler")
        BY <3>2 DEF Doing
      <4>2. task' = FromRemove
        BY <1>13, <3>2, <4>1, TaskShapes DEF DriverFails
      <4> QED
        BY <1>13, <3>2, <4>2 DEF DriverFails, Doing
    <3>3. CASE Doing("kind") \/ Doing("off")
      <4>1. ~Doing("handler") /\ ~Doing("on")
        BY <3>3 DEF Doing
      <4>2. task' = <<>>
        BY <1>13, <3>3, <4>1 DEF DriverFails
      <4> QED
        BY <1>13, <3>3, <4>2 DEF DriverFails, Doing
    <3> QED
      BY <1>13, <3>1, <3>2, <3>3 DEF DriverFails
  <2>2. IrqInOrder'
    BY <1>inv, <2>1, WhereTaskIs DEF IrqInOrder, Settled
  <2>3. EventsTracked'
    BY <1>inv, <2>1, TaskShapes DEF EventsTracked, Doing
  <2> QED
    BY <1>types, <1>irqs, <2>1, <2>2, <2>3
<1>14. CASE SetMask
  <2>1. UNCHANGED <<padVars, pin, isr, posted, unposted>> /\ ~Doing("take")
    BY <1>14 DEF SetMask, Doing
  <2>2. CASE Doing("mask")
    <3>1. PICK mask \in IrqMasks : task = FromMask(mask) /\ pin.kind = mask
      BY <1>inv, <2>2, WhereTaskIs
    <3>2. task' = FromHandler(mask) /\ irq' = [irq EXCEPT !.mask = mask]
      BY <1>14, <2>2, <3>1, TaskShapes DEF SetMask
    <3>3. Irq(irq', mask, irq.events, irq.token)
      BY <1>types, <3>2, IrqFields DEF Kinds
    <3>4. IrqInOrder' /\ EventsTracked'
      BY <1>inv, <2>1, <3>1, <3>2, <3>3, TaskShapes DEF Irq, IrqInOrder, EventsTracked, Doing
    <3> QED
      BY <1>types, <1>irqs, <2>1, <3>3, <3>4 DEF Irq
  <2>3. CASE Doing("clear")
    <3>1. ~Doing("mask")
      BY <2>3 DEF Doing
    <3>2. task' = <<>> /\ irq' = [irq EXCEPT !.mask = {}]
      BY <1>14, <1>inv, <2>3, <3>1, WhereTaskIs, TaskShapes DEF SetMask
    <3>3. Irq(irq', {}, irq.events, irq.token)
      BY <1>types, <3>2, IrqFields
    <3>4. IrqInOrder' /\ EventsTracked'
      BY <1>inv, <2>1, <3>2, <3>3 DEF Irq, IrqInOrder, Settled, EventsTracked, Doing
    <3> QED
      BY <1>types, <1>irqs, <2>1, <3>3, <3>4 DEF Irq
  <2> QED
    BY <1>14, <2>2, <2>3 DEF SetMask
<1>15. CASE InterruptReads
  <2>1. PICK e \in IF irq.mask = {"fall", "rise"} THEN {{"fall"}, {"rise"}} ELSE {irq.mask} :
          isr' = [Asleep EXCEPT !.at = "read", !.events = e]
    BY <1>15 DEF InterruptReads
  <2>2. isr' \in IsrStates
    BY <1>types, <2>1, EventsOfMask, IsrFields
  <2>3. IrqInOrder' /\ EventsTracked'
    BY <1>15, <1>inv DEF InterruptReads, IrqInOrder, EventsTracked, Settled, Doing
  <2> QED
    BY <1>15, <1>types, <1>irqs, <2>2, <2>3 DEF InterruptReads
<1>16. CASE InterruptRecords
  <2>1. irq.events \cup isr.events \in SUBSET Bits
    BY <1>types
  <2>2. Irq(irq', irq.mask, irq.events \cup isr.events, irq.token)
    BY <1>16, <1>types, <2>1, IrqFields DEF InterruptRecords
  <2>3. isr' \in IsrStates /\ isr'.at = "recorded" /\ isr'.token = irq.token
    BY <1>16, <1>types, IsrFields DEF InterruptRecords
  <2>4. IrqInOrder'
    BY <1>16, <1>inv, <2>2 DEF InterruptRecords, Irq, IrqInOrder, Settled
  <2>5. EventsTracked'
    BY <1>16, <1>types, <2>3 DEF InterruptRecords, EventsTracked
  <2> QED
    BY <1>16, <1>types, <1>irqs, <2>2, <2>3, <2>4, <2>5 DEF InterruptRecords, Irq
<1>17. CASE InterruptPosts
  <2>1. isr' \in IsrStates /\ posted' \in BOOLEAN
    BY <1>17, <1>types, IsrFields DEF InterruptPosts
  <2>2. IrqInOrder' /\ EventsTracked'
    BY <1>17, <1>inv DEF InterruptPosts, IrqInOrder, EventsTracked, Settled, Doing
  <2> QED
    BY <1>17, <1>types, <1>irqs, <2>1, <2>2 DEF InterruptPosts
<1>18. ASSUME NEW token \in BOOLEAN, SetEventToken(token)
       PROVE  GpioInv'
  <2>1. Irq(irq', irq.mask, irq.events, token)
    BY <1>18, <1>types, IrqFields DEF SetEventToken
  <2>2. IrqInOrder' /\ EventsTracked'
    BY <1>18, <1>inv, <2>1 DEF SetEventToken, Irq, IrqInOrder, EventsTracked, Settled, Doing
  <2> QED
    BY <1>18, <1>types, <1>irqs, <2>1, <2>2 DEF SetEventToken, Irq
<1>19. CASE TakePosted
  <2>1. task' = Taking /\ UNCHANGED <<irq, pin, isr, unposted, padVars>> /\ ~posted'
    BY <1>19 DEF TakePosted, Taking
  <2>2. IrqInOrder'
    BY <1>19, <1>inv, <2>1, WhereTaskIs DEF TakePosted, IrqInOrder, Settled
  <2>3. EventsTracked'
    BY <2>1, TaskShapes DEF EventsTracked, Doing
  <2> QED
    BY <1>19, <1>types, <1>irqs, <2>1, <2>2, <2>3 DEF TakePosted
<1>20. CASE TakeIrqEvents
  <2>1. Irq(irq', irq.mask, {}, irq.token)
    BY <1>20, <1>types, IrqFields DEF TakeIrqEvents
  <2>2. IrqInOrder' /\ EventsTracked'
    BY <1>20, <1>inv, <2>1, WhereTaskIs DEF TakeIrqEvents, Irq, IrqInOrder, EventsTracked,
       Settled
  <2> QED
    BY <1>20, <1>types, <1>irqs, <2>1, <2>2 DEF TakeIrqEvents, Irq
<1>21. CASE UNCHANGED gpioVars
  BY <1>21, <1>inv, <1>types DEF gpioVars, GpioInv, GpioTypeOK, PadSame, IrqInOrder,
     EventsTracked, Settled, Doing, IsrStates
<1> QED
  BY <1>1, <1>2, <1>3, <1>4, <1>5, <1>6, <1>7, <1>8, <1>9, <1>10, <1>11, <1>12, <1>13,
     <1>14, <1>15, <1>16, <1>17, <1>18, <1>19, <1>20, <1>21 DEF GpioNext

----------------------------------------------------------------------------
(* All of them. *)

BusesInv ==
  /\ used \in {"spi", "uart", "gpio", "rmt", "watchdog"}
  /\ SpiInv /\ UartInv /\ UartRoom /\ GpioInv /\ RmtInv /\ WatchdogInv
  /\ TransfersWhole /\ LinesTranslated

LEMMA SpiStarts ==
  ASSUME SpiInit
  PROVE  SpiInv
<1>1. spi \in SpiEntry /\ ~spi.initialized /\ spi.wiring = NoWiring /\ spi.device = 0
  BY DEF SpiInit, SpiEntry, SettingsSeen
<1>2. Nobody \in [Slots -> Clocks] /\ \A d \in Slots : Nobody[d] = FreeSlot
  BY DEF Nobody, Clocks, FreeSlot
<1>3. spiBus \in BusState /\ spiBus.wiring = NoWiring /\ spiBus.devices = Nobody
  BY <1>2 DEF SpiInit, BusState
<1>4. spiRefused = {} /\ spiWire.asked = 0 /\ spiWire.width = 1
  BY DEF SpiInit
<1> QED
  BY <1>1, <1>2, <1>3, <1>4 DEF SpiInv, WireState, DeviceMatches

\* Nothing was asked for, and nothing was sent.
LEMMA WiresStart ==
  ASSUME SpiInit, UartPortInit
  PROVE  TransfersWhole /\ LinesTranslated
<1> DEFINE none == <<>>
<1>1. Len(none) = 0 /\ DOMAIN none = {}
  OBVIOUS
<1>2. /\ spiWire.asked = 0 /\ spiWire.width = 1 /\ spiWire.chunks = none /\ spiWire.result = 0
      /\ uartWire.text = none /\ uartWire.crlf = FALSE /\ uartWire.sent = none
      /\ uartWire.result = 0
  BY DEF SpiInit, UartPortInit
<1>3. none \in Written
  BY EmptySeq DEF Written
<1>4. Translated(none, FALSE) = none
  <2>1. Upto(none, FALSE, 0) = none /\ Upto(none, FALSE, Len(none)) = Translated(none, FALSE)
    BY <1>3, UptoIs
  <2> QED
    BY <1>1, <2>1
<1> HIDE DEF none
<1>5. IsPrefix(none, none)
  BY <1>1 DEF IsPrefix
<1>6. LinesTranslated
  <2>1. IsPrefix(uartWire.sent, Translated(uartWire.text, uartWire.crlf))
    BY <1>2, <1>4, <1>5
  <2>2. uartWire.sent = Translated(uartWire.text, uartWire.crlf)
    BY <1>2, <1>4
  <2>3. uartWire.result = Len(uartWire.text) /\ uartWire.result >= 0
    BY <1>1, <1>2
  <2> QED
    BY <2>1, <2>2, <2>3 DEF LinesTranslated
<1>7. TransfersWhole
  BY <1>1, <1>2 DEF TransfersWhole
<1> QED
  BY <1>6, <1>7

LEMMA UartStarts ==
  ASSUME UartPortInit
  PROVE  UartInv /\ UartRoom
<1>1. /\ uart \in Fields /\ ~uart.initialized /\ ~uart.pinned /\ ~uart.breaking
      /\ uart.errors = {}
  BY DEF UartPortInit, Fields
<1>2. uartPad = "none" /\ uartTorn = FALSE /\ uartQueue = <<>> /\ uartRaised = {}
  BY DEF UartPortInit
<1>3. <<>> \in Seq(UartErrors \cup {"data"}) /\ Len(<<>>) = 0 /\ UartQueueLength \in Nat
  BY UartPortAssumption
<1>4. uartPad # "low" /\ (uartPad = "none" => uartPad \in {"none", "uart", "low", "off"})
  BY <1>2
<1>5. BreakReleased /\ ErrorsKept
  BY <1>1, <1>2, <1>4 DEF BreakReleased, ErrorsKept
<1>6. uartQueue \in Seq(UartErrors \cup {"data"}) /\ UartRoom
  BY <1>2, <1>3, <1>4 DEF UartRoom
<1> QED
  BY <1>1, <1>2, <1>5, <1>6 DEF UartInv

LEMMA GpioStarts ==
  ASSUME GpioInit
  PROVE  GpioInv
<1>1. ResetPad \in PadState
  BY DEF ResetPad, PadState
<1>2. irq \in [mask : Kinds, events : SUBSET Bits, token : BOOLEAN]
      /\ irq.mask = {} /\ irq.events = {}
  BY DEF GpioInit, Kinds
<1>3. pin \in [kind : Kinds, on : BOOLEAN, handler : BOOLEAN]
  BY DEF GpioInit, Kinds
<1>4. isr \in [at : {"idle", "read", "recorded"}, events : SUBSET Bits, token : BOOLEAN]
  BY DEF GpioInit, Asleep
<1>5. GpioTypeOK
  BY <1>1, <1>2, <1>3, <1>4 DEF GpioInit, GpioTypeOK
<1> QED
  BY <1>2, <1>5 DEF GpioInit, GpioInv, PadSame, IrqInOrder, Settled, EventsTracked

LEMMA RmtStarts ==
  ASSUME RmtInit
  PROVE  RmtInv
<1>1. RmtCapacity \in Nat
  BY RmtAssumption
<1>2. Fresh \in [receiving : BOOLEAN, ready : BOOLEAN, count : 0 .. RmtCapacity]
      /\ ~Fresh.receiving /\ ~Fresh.ready
  BY <1>1 DEF Fresh
<1> QED
  BY <1>2 DEF RmtInit, RmtInv, RmtTypes, NothingLeaks, CaptureKept, CaptureInOrder

LEMMA WatchdogStarts ==
  ASSUME WatchdogInit
  PROVE  WatchdogInv
<1>1. /\ wdtHome \in TwdtState /\ wdtHome.timeout = 0 /\ twdt = wdtHome /\ wdtLost = FALSE
      /\ wdtHome.subscribed => wdtHome.running
      /\ wdtHome.running \in BOOLEAN /\ wdtHome.subscribed \in BOOLEAN
  BY DEF WatchdogInit, TwdtState
<1>2. wdt \in [active : BOOLEAN, added : BOOLEAN, initialized : BOOLEAN]
      /\ ~wdt.active /\ ~wdt.added /\ ~wdt.initialized
  BY DEF WatchdogInit
<1>3. twdt.running \/ twdt = Stopped
  <2> SUFFICES ASSUME ~twdt.running
               PROVE  twdt = Stopped
    OBVIOUS
  <2> QED
    BY <1>1, StoppedFields, SameState DEF Has
<1> QED
  BY <1>1, <1>2, <1>3 DEF WatchdogInv, WatchdogTypeOK, WatchdogRestored, WatchdogBorrowed

LEMMA BusesStep ==
  ASSUME BusesInv, [Next]_vars
  PROVE  BusesInv'
<1>inv. /\ used \in {"spi", "uart", "gpio", "rmt", "watchdog"}
        /\ SpiInv /\ UartInv /\ UartRoom /\ GpioInv /\ RmtInv /\ WatchdogInv
        /\ TransfersWhole /\ LinesTranslated
  BY DEF BusesInv
<1>1. /\ used' = used /\ [SpiNext]_spiVars /\ [UartPortNext]_uartVars /\ [GpioNext]_gpioVars
      /\ [RmtNext]_rmtVars /\ [WatchdogNext]_wdtVars
  BY DEF Next, vars
<1> QED
  BY <1>inv, <1>1, SpiStep, UartStep, UartRoomStep, GpioStep, RmtStep, WatchdogStep,
     TransferStep, WriteStep DEF BusesInv

\* In every reachable state the devices are as their modules keep them: what each
\* has to remember between two calls, an interrupt or a failure of the driver for
\* its promises to last (esp32_spi.c, esp32_uart.c, esp32_gpio.c, esp32_rmt.c and
\* esp32_watchdog.c).
THEOREM BusesAlways == Spec => []BusesInv
<1>1. Init => BusesInv
  BY SpiStarts, UartStarts, GpioStarts, RmtStarts, WatchdogStarts, WiresStart
     DEF Init, BusesInv
<1>2. BusesInv /\ [Next]_vars => BusesInv'
  BY BusesStep
<1> QED
  BY <1>1, <1>2, PTL DEF Spec

----------------------------------------------------------------------------
(* What the invariants say of the properties. *)

\* What the driver reports is of the types the modules declare, for every device
\* and in every state (the tables of esp32_spi.c, esp32_uart.c, esp32_gpio.c and
\* esp32_watchdog.c, and the parts esp32_rmt.c holds).
THEOREM BusesTypes == Spec => []TypeOK
<1>1. ASSUME BusesInv
      PROVE  TypeOK
  <2>1. used \in {"spi", "uart", "gpio", "rmt", "watchdog"}
    BY <1>1 DEF BusesInv
  <2>2. SpiTypeOK
    BY <1>1 DEF BusesInv, SpiInv, SpiTypeOK, SpiEntry, BusState, WireState
  <2>3. UartPortTypeOK
    BY <1>1 DEF BusesInv, UartInv, UartRoom, UartPortTypeOK
  <2>4. GpioTypeOK /\ WatchdogTypeOK
    BY <1>1 DEF BusesInv, GpioInv, WatchdogInv
  <2>5. rmtHeld \subseteq ToSet(TxParts) \cup ToSet(RxParts) \cup ToSet(BytesParts)
    BY <1>1 DEF BusesInv, RmtInv, NothingLeaks
  <2>6. RmtTypeOK
    BY <1>1, <2>5 DEF BusesInv, RmtInv, RmtTypes, CaptureInOrder, RmtTypeOK
  <2> QED
    BY <2>1, <2>2, <2>3, <2>4, <2>6 DEF TypeOK
<1> QED
  BY <1>1, BusesAlways, PTL

\* What each module remembers is what the driver has, whichever call of it failed
\* before: the device on the SPI bus, the UART's pin after a break, the pad and the
\* handler of a pin, the watchdog as the system set it up, and RMT's parts
\* (bmx_esp32_spi_reconfigure, bmx_esp32_uart_set_break, set_irq_enabled,
\* bmx_embedded_watchdog_disable and the unwinding of bmx_esp32_rmt_new_rx).
THEOREM HardwareIsRemembered == Spec => []HardwareMatches
<1>1. ASSUME BusesInv
      PROVE  HardwareMatches
  <2>1. DeviceMatches /\ BreakReleased /\ WatchdogRestored /\ NothingLeaks
    BY <1>1 DEF BusesInv, SpiInv, UartInv, WatchdogInv, RmtInv
  <2>2. PadRemembered
    BY <1>1 DEF BusesInv, GpioInv, PadSame, PadRemembered
  <2>3. MaskHasHandler
    BY <1>1, WhereTaskIs DEF BusesInv, GpioInv, MaskHasHandler, Settled
  <2> QED
    BY <2>1, <2>2, <2>3 DEF HardwareMatches
<1> QED
  BY <1>1, BusesAlways, PTL

\* No capture, interrupt or line error is lost on its way to the program: a
\* receiver that is ready holds the whole capture, recorded interrupts are
\* announced, and errors stay until they are cleared (the callback of RMT,
\* bmx_esp32_gpio_interrupt and bmx_esp32_uart_collect_events).
THEOREM ReportsReachTheProgram == Spec => []ReportsKept
<1>1. ASSUME BusesInv
      PROVE  ReportsKept
  <2>1. CaptureKept /\ ErrorsKept
    BY <1>1 DEF BusesInv, RmtInv, UartInv
  <2>2. InterruptsAnnounced
    BY <1>1 DEF BusesInv, GpioInv, EventsTracked, InterruptsAnnounced
  <2> QED
    BY <2>1, <2>2 DEF ReportsKept
<1> QED
  BY <1>1, BusesAlways, PTL

\* Whatever is asked of SPI and of the UART, and whichever piece the driver fails
\* at, what was sent is the beginning of what is to be sent, each byte once and in
\* order, and the result says whether it is all of it: for transfers of every
\* length, cut into chunks of the driver's longest transfer and of the buffer of
\* repeated data (bmx_esp32_spi_transfer and its callers), and for every text with
\* its line ends translated (bmx_esp32_uart_write_blocking).
THEOREM AllIsSent == Spec => []SentWhole
<1>1. ASSUME BusesInv
      PROVE  SentWhole
  BY <1>1 DEF BusesInv, SentWhole
<1> QED
  BY <1>1, BusesAlways, PTL
=============================================================================
