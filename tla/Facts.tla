------------------------------ MODULE Facts ------------------------------
(***************************************************************************)
(* Arithmetic of the indexes of a ring, for a ring of any size (the provers*)
(* know % only for numbers), induction over numbers, which says what a     *)
(* recursive function is and what two of them have in common, and with it  *)
(* the concatenation of the pieces of a sequence.                          *)
(***************************************************************************)
EXTENDS Integers, SequencesExt, SequenceTheorems, WellFoundedInduction, TLAPS

\* What % and \div are.
LEMMA ModFacts ==
    ASSUME NEW N \in Nat \ {0}, NEW m \in Nat
    PROVE  /\ m % N \in 0 .. N - 1
           /\ m \div N \in Int
           /\ m = N * (m \div N) + (m % N)
OBVIOUS

\* Multiples of N are N apart.
LEMMA MulMono ==
    ASSUME NEW N \in Nat, NEW a \in Int, NEW b \in Int, a + 1 <= b
    PROVE  N * a + N <= N * b
<1>1. N * (b - a - 1) >= 0
    OBVIOUS
<1> QED BY <1>1

\* The remainder is the only number below N that differs from m by a multiple of N.
LEMMA ModUnique ==
    ASSUME NEW N \in Nat \ {0}, NEW m \in Nat, NEW q \in Int,
           NEW s \in 0 .. N - 1, m = N * q + s
    PROVE  m % N = s
<1> DEFINE p == m \div N
           r == m % N
<1>1. r \in 0 .. N - 1 /\ p \in Int /\ m = N * p + r
    BY ModFacts
<1> HIDE DEF p, r
<1>2. CASE p = q
    BY <1>1, <1>2 DEF r
<1>3. CASE p + 1 <= q
    BY <1>1, <1>3, MulMono, N * p + N <= N * q
<1>4. CASE q + 1 <= p
    BY <1>1, <1>4, MulMono, N * q + N <= N * p
<1> QED BY <1>1, <1>2, <1>3, <1>4

\* A number below N is its own remainder.
LEMMA ModSmall ==
    ASSUME NEW N \in Nat \ {0}, NEW m \in 0 .. N - 1
    PROVE  m % N = m
BY ModUnique, m = N * 0 + m

\* N more does not change the remainder.
LEMMA ModPeriod ==
    ASSUME NEW N \in Nat \ {0}, NEW m \in Nat
    PROVE  (m + N) % N = m % N
<1> DEFINE q == m \div N
           r == m % N
<1>1. r \in 0 .. N - 1 /\ q \in Int /\ m = N * q + r
    BY ModFacts
<1> HIDE DEF q, r
<1>2. m + N = N * (q + 1) + r
    BY <1>1
<1>3. (m + N) % N = r
    BY <1>1, <1>2, ModUnique
<1> QED BY <1>3 DEF r

\* It does not matter whether the remainder is taken before adding, too.
LEMMA ModAdd ==
    ASSUME NEW N \in Nat \ {0}, NEW m \in Nat, NEW k \in Nat
    PROVE  ((m % N) + k) % N = (m + k) % N
<1> DEFINE q == m \div N
           r == m % N
           p == (r + k) \div N
           t == (r + k) % N
<1>1. r \in 0 .. N - 1 /\ q \in Int /\ m = N * q + r
    BY ModFacts
<1> HIDE DEF q, r
<1>2. t \in 0 .. N - 1 /\ p \in Int /\ r + k = N * p + t
  <2> DEFINE n == r + k
  <2>1. n \in Nat
      BY <1>1
  <2> HIDE DEF n
  <2>2. n % N \in 0 .. N - 1 /\ n \div N \in Int /\ n = N * (n \div N) + (n % N)
      BY <2>1, ModFacts
  <2> QED BY <2>2 DEF n
<1> HIDE DEF p, t
<1>3. m + k = N * (q + p) + t
    BY <1>1, <1>2
<1>4. (m + k) % N = t
  <2>1. m + k \in Nat /\ q + p \in Int
      BY <1>1, <1>2
  <2> QED BY <1>2, <1>3, <2>1, ModUnique
<1> QED BY <1>4 DEF t, r

\* Numbers less than N apart have remainders as far apart, around the ring.
LEMMA ModDiff ==
    ASSUME NEW N \in Nat \ {0}, NEW a \in Nat, NEW d \in 0 .. N - 1
    PROVE  (((a + d) % N) + N - (a % N)) % N = d
<1> DEFINE q == a \div N
           r == a % N
           p == (a + d) \div N
           t == (a + d) % N
<1>1. r \in 0 .. N - 1 /\ q \in Int /\ a = N * q + r
    BY ModFacts
<1>2. t \in 0 .. N - 1 /\ p \in Int /\ a + d = N * p + t
    BY ModFacts
<1> HIDE DEF q, r, p, t
<1>3. t + N - r = N * (q - p + 1) + d
    BY <1>1, <1>2
<1>4. (t + N - r) % N = d
    BY <1>1, <1>2, <1>3, ModUnique
<1> QED BY <1>4 DEF t, r

\* So two of them that differ have different ones.
LEMMA ModDistinct ==
    ASSUME NEW N \in Nat \ {0}, NEW a \in Nat, NEW d \in 1 .. N - 1
    PROVE  (a + d) % N # a % N
<1>1. CASE (a + d) % N = a % N
  <2>1. a % N \in 0 .. N - 1
      BY ModFacts
  <2>2. ((a + d) % N) + N - (a % N) = N
      BY <1>1, <2>1
  <2>3. N % N = d
    <3>1. d \in 0 .. N - 1
        OBVIOUS
    <3>2. (((a + d) % N) + N - (a % N)) % N = d
        BY <3>1, ModDiff
    <3> QED BY <2>2, <3>2
  <2>4. N % N = 0
      BY ModUnique, N = N * 1 + 0
  <2> QED BY <2>3, <2>4
<1> QED BY <1>1


-----------------------------------------------------------------------------
\* A set of numbers has a least one: what an induction rests on.
LEMMA LeastNat ==
    ASSUME NEW S, S \subseteq Nat, S # {}
    PROVE  \E n \in S : n = 0 \/ (n - 1 \in Nat /\ n - 1 \notin S)
<1> DEFINE R == OpToRel(<, Nat)
<1>1. IsWellFoundedOn(R, Nat)
    BY NatLessThanWellFounded
<1> HIDE DEF R
<1>2. PICK n \in S : \A m \in S : ~(<<m, n>> \in R)
    BY <1>1, WFMin
<1>3. n # 0 => n - 1 \in Nat /\ <<n - 1, n>> \in R
    BY <1>2 DEF R, OpToRel
<1> QED BY <1>2, <1>3

\* Induction up to n, over a set in place of a formula.
LEMMA UpTo ==
    ASSUME NEW n \in Nat, NEW T, 0 \in T, \A k \in 1 .. n : k - 1 \in T => k \in T
    PROVE  \A k \in 0 .. n : k \in T
<1> DEFINE Missing == {k \in 0 .. n : k \notin T}
<1> SUFFICES ASSUME Missing # {} PROVE FALSE
    OBVIOUS
<1>1. Missing \subseteq Nat
    OBVIOUS
<1> HIDE DEF Missing
<1>2. PICK k \in Missing : k = 0 \/ (k - 1 \in Nat /\ k - 1 \notin Missing)
    BY <1>1, LeastNat
<1> QED BY <1>2 DEF Missing

\* g folds step over 1 .. n from a: the values of a recursive function.
IsFold(g, a, step, n) == g[0] = a /\ \A k \in 1 .. n : g[k] = step[<<g[k - 1], k>>]

LEMMA FoldExists ==
    ASSUME NEW S, NEW a \in S, NEW n \in Nat, NEW step \in [S \X (1 .. n) -> S]
    PROVE  \E g \in [0 .. n -> S] : IsFold(g, a, step, n)
<1> DEFINE T == {m \in 0 .. n : \E g \in [0 .. m -> S] : IsFold(g, a, step, m)}
<1>1. 0 \in T
  <2>1. IsFold([k \in 0 .. 0 |-> a], a, step, 0) /\ [k \in 0 .. 0 |-> a] \in [0 .. 0 -> S]
      BY DEF IsFold
  <2> QED BY <2>1
<1>2. ASSUME NEW m \in 1 .. n, m - 1 \in T PROVE m \in T
  <2>1. PICK g \in [0 .. m - 1 -> S] : IsFold(g, a, step, m - 1)
      BY <1>2
  <2> DEFINE h == [k \in 0 .. m |-> IF k = m THEN step[<<g[m - 1], m>>] ELSE g[k]]
  <2>2. step[<<g[m - 1], m>>] \in S
      OBVIOUS
  <2>3. h \in [0 .. m -> S]
      BY <2>2
  <2>4. \A k \in 0 .. m - 1 : h[k] = g[k]
      OBVIOUS
  <2>5. h[m] = step[<<g[m - 1], m>>] /\ h[0] = a
      BY <2>1, <2>4 DEF IsFold
  <2> HIDE DEF h
  <2>6. ASSUME NEW k \in 1 .. m PROVE h[k] = step[<<h[k - 1], k>>]
    <3>1. k - 1 \in 0 .. m - 1 /\ h[k - 1] = g[k - 1]
        BY <2>4
    <3>2. CASE k = m
        BY <2>5, <3>1, <3>2
    <3>3. CASE k # m
      <4>1. k \in 1 .. m - 1 /\ h[k] = g[k]
          BY <2>4, <3>3
      <4> QED BY <2>1, <3>1, <4>1 DEF IsFold
    <3> QED BY <3>2, <3>3
  <2> QED BY <2>3, <2>5, <2>6 DEF IsFold
<1> HIDE DEF T
<1>3. n \in T
    BY <1>1, <1>2, UpTo
<1> QED BY <1>3 DEF T

\* Two folds over the same steps are the same as far as both go.
LEMMA FoldUnique ==
    ASSUME NEW n \in Nat, NEW a, NEW s, NEW t, NEW g, NEW h,
           IsFold(g, a, s, n), IsFold(h, a, t, n),
           \A k \in 1 .. n : s[<<h[k - 1], k>>] = t[<<h[k - 1], k>>]
    PROVE  \A k \in 0 .. n : g[k] = h[k]
<1> DEFINE T == {k \in 0 .. n : g[k] = h[k]}
<1>1. 0 \in T
    BY DEF IsFold
<1>2. ASSUME NEW k \in 1 .. n, k - 1 \in T PROVE k \in T
  <2>1. g[k] = s[<<g[k - 1], k>>] /\ h[k] = t[<<h[k - 1], k>>]
      BY DEF IsFold
  <2> QED BY <1>2, <2>1
<1> HIDE DEF T
<1>3. \A k \in 0 .. n : k \in T
    BY <1>1, <1>2, UpTo
<1> QED BY <1>3 DEF T
-----------------------------------------------------------------------------
(***************************************************************************)
(* FlattenSeq of what is got one piece after the other.                    *)
(***************************************************************************)
\* Concatenation as one symbol, which keeps the provers from taking it apart.
Cat(p, q) == p \o q

LEMMA CatFacts ==
  ASSUME NEW E, NEW p \in Seq(E), NEW q \in Seq(E)
  PROVE  /\ Cat(p, q) \in Seq(E)
         /\ Cat(p, <<>>) = p /\ Cat(<<>>, p) = p
  BY ConcatProperties, ConcatEmptySeq DEF Cat

LEMMA CatAssociative ==
  ASSUME NEW E, NEW p \in Seq(E), NEW q \in Seq(E), NEW r \in Seq(E)
  PROVE  Cat(Cat(p, q), r) = Cat(p, Cat(q, r))
  BY ConcatAssociative DEF Cat

\* g are the concatenations of the beginnings of a sequence of pieces.
IsFlat(g, E, pieces) ==
  /\ g \in [0 .. Len(pieces) -> Seq(E)]
  /\ g[0] = <<>>
  /\ \A k \in 1 .. Len(pieces) : g[k] = Cat(g[k - 1], pieces[k])

\* The values the recursive function in FlattenSeq takes.
LEMMA FlattenIs ==
  ASSUME NEW E, NEW pieces \in Seq(Seq(E))
  PROVE  \E g : IsFlat(g, E, pieces) /\ FlattenSeq(pieces) = g[Len(pieces)]
<1> DEFINE n == Len(pieces)
           step == [x \in Seq(E) \X (1 .. n) |-> Cat(x[1], pieces[x[2]])]
           Is(f) == f = [i \in 1 .. n |->
                      IF i = 1 THEN pieces[i] ELSE Cat(f[i - 1], pieces[i])]
<1>1. n \in Nat /\ <<>> \in Seq(E)
  BY EmptySeq, LenProperties
<1>2. \A k \in 1 .. n : pieces[k] \in Seq(E)
  BY ElementOfSeq
<1>3. /\ step \in [Seq(E) \X (1 .. n) -> Seq(E)]
      /\ \A w \in Seq(E), k \in 1 .. n : step[<<w, k>>] = Cat(w, pieces[k])
  <2>1. \A w \in Seq(E), k \in 1 .. n : Cat(w, pieces[k]) \in Seq(E)
    BY <1>2, CatFacts
  <2> QED BY <2>1
<1> HIDE DEF step
<1>4. PICK g \in [0 .. n -> Seq(E)] : IsFold(g, <<>>, step, n)
  BY <1>1, <1>3, FoldExists
<1>5. g[0] = <<>> /\ \A k \in 1 .. n : g[k] = Cat(g[k - 1], pieces[k])
  <2>1. ASSUME NEW k \in 1 .. n PROVE g[k - 1] \in Seq(E)
    <3>1. k - 1 \in 0 .. n
      BY <1>1
    <3> QED BY <3>1
  <2> QED BY <1>3, <1>4, <2>1 DEF IsFold
<1>6. IsFlat(g, E, pieces)
  BY <1>5 DEF IsFlat
<1>7. CASE n = 0
  <2>1. pieces = <<>> /\ FlattenSeq(pieces) = pieces
    BY <1>7, EmptySeq DEF FlattenSeq
  <2> QED BY <1>5, <1>6, <1>7, <2>1
<1>8. CASE n > 0
  <2> DEFINE h == [i \in 1 .. n |-> g[i]]
  <2>1. g[1] = pieces[1]
    <3>1. 1 \in 1 .. n /\ 1 - 1 = 0
      BY <1>1, <1>8
    <3>2. g[1] = Cat(g[0], pieces[1]) /\ pieces[1] \in Seq(E)
      BY <1>2, <1>5, <3>1
    <3> QED BY <1>5, <3>2, CatFacts
  <2>2. ASSUME NEW i \in 1 .. n
        PROVE  h[i] = IF i = 1 THEN pieces[i] ELSE Cat(h[i - 1], pieces[i])
    <3>1. i # 1 => i - 1 \in 1 .. n
      BY <1>1
    <3>2. h[i] = g[i] /\ (i # 1 => h[i - 1] = g[i - 1])
      BY <3>1
    <3>3. g[i] = Cat(g[i - 1], pieces[i])
      BY <1>5
    <3> HIDE DEF h
    <3> QED BY <2>1, <3>2, <3>3
  <2>3. Is(h)
    <3> HIDE DEF h
    <3>1. h = [i \in 1 .. n |-> h[i]]
      BY DEF h
    <3> QED BY <2>2, <3>1
  <2>4. PICK f : Is(f) /\ FlattenSeq(pieces) = f[n]
    <3>1. Is(CHOOSE f : Is(f))
      BY <2>3
    <3>2. FlattenSeq(pieces) = (CHOOSE f : Is(f))[n]
      BY <1>8 DEF FlattenSeq, Cat
    <3> QED BY <3>1, <3>2
  <2>5. \A i \in 1 .. n : f[i] = IF i = 1 THEN pieces[i] ELSE Cat(f[i - 1], pieces[i])
    BY <2>4, Zenon
  <2> HIDE DEF Is, h
  <2> DEFINE T == {k \in 0 .. n : k = 0 \/ f[k] = g[k]}
  <2>6. 0 \in T
    BY <1>1
  <2>7. ASSUME NEW k \in 1 .. n, k - 1 \in T PROVE k \in T
    <3>1. CASE k = 1
      BY <1>1, <2>1, <2>5, <3>1
    <3>2. CASE k # 1
      <4>1. f[k - 1] = g[k - 1]
        BY <2>7, <3>2
      <4>2. f[k] = Cat(f[k - 1], pieces[k]) /\ g[k] = Cat(g[k - 1], pieces[k])
        BY <1>5, <2>5, <3>2
      <4> QED BY <1>1, <4>1, <4>2
    <3> QED BY <3>1, <3>2
  <2> HIDE DEF T
  <2>8. \A k \in 0 .. n : k \in T
    BY <1>1, <2>6, <2>7, UpTo
  <2>9. f[n] = g[n]
    BY <1>1, <1>8, <2>8 DEF T
  <2> QED BY <1>6, <2>4, <2>9
<1> QED BY <1>1, <1>7, <1>8

LEMMA FlattenType ==
  ASSUME NEW E, NEW pieces \in Seq(Seq(E))
  PROVE  FlattenSeq(pieces) \in Seq(E)
<1>1. PICK g : IsFlat(g, E, pieces) /\ FlattenSeq(pieces) = g[Len(pieces)]
  BY FlattenIs
<1>2. Len(pieces) \in 0 .. Len(pieces)
  BY LenProperties
<1> QED BY <1>1, <1>2 DEF IsFlat

\* One piece more at the end.
LEMMA FlattenOneMore ==
  ASSUME NEW E, NEW p \in Seq(Seq(E)), NEW q \in Seq(Seq(E)), Len(q) = Len(p) + 1,
         \A k \in 1 .. Len(p) : q[k] = p[k]
  PROVE  FlattenSeq(q) = Cat(FlattenSeq(p), q[Len(q)])
<1> DEFINE n == Len(p)
<1>1. n \in Nat /\ Len(q) = n + 1
  BY LenProperties
<1>2. PICK g : IsFlat(g, E, p) /\ FlattenSeq(p) = g[n]
  BY FlattenIs
<1>3. PICK h : IsFlat(h, E, q) /\ FlattenSeq(q) = h[n + 1]
  BY <1>1, FlattenIs
<1>4. g[0] = <<>> /\ \A k \in 1 .. n : g[k] = Cat(g[k - 1], p[k])
  BY <1>2 DEF IsFlat
<1>5. h[0] = <<>> /\ \A k \in 1 .. n + 1 : h[k] = Cat(h[k - 1], q[k])
  BY <1>1, <1>3 DEF IsFlat
<1>6. \A k \in 1 .. n : q[k] = p[k]
  OBVIOUS
<1> HIDE DEF n
<1> DEFINE T == {k \in 0 .. n : h[k] = g[k]}
<1>7. 0 \in T
  BY <1>1, <1>4, <1>5
<1>8. ASSUME NEW k \in 1 .. n, k - 1 \in T PROVE k \in T
  <2>1. k \in 1 .. n + 1
    BY <1>1
  <2>2. h[k] = Cat(h[k - 1], q[k]) /\ g[k] = Cat(g[k - 1], p[k]) /\ q[k] = p[k]
    BY <1>4, <1>5, <1>6, <2>1
  <2> QED BY <1>1, <1>8, <2>2
<1> HIDE DEF T
<1>9. \A k \in 0 .. n : k \in T
  BY <1>1, <1>7, <1>8, UpTo
<1>10. h[n] = g[n]
  BY <1>1, <1>9 DEF T
<1>11. h[n + 1] = Cat(h[n], q[n + 1])
  <2>1. n + 1 \in 1 .. n + 1 /\ (n + 1) - 1 = n
    BY <1>1
  <2> QED BY <1>5, <2>1
<1> QED BY <1>1, <1>2, <1>3, <1>10, <1>11

\* Empty pieces make an empty sequence.
LEMMA FlattenNothing ==
  ASSUME NEW E, NEW p \in Seq(Seq(E)), \A k \in 1 .. Len(p) : p[k] = <<>>
  PROVE  FlattenSeq(p) = <<>>
<1> DEFINE n == Len(p)
<1>1. n \in Nat
  BY LenProperties
<1>2. PICK g : IsFlat(g, E, p) /\ FlattenSeq(p) = g[n]
  BY FlattenIs
<1>3. g[0] = <<>> /\ \A k \in 1 .. n : g[k] = Cat(g[k - 1], <<>>)
  BY <1>2 DEF IsFlat
<1> HIDE DEF n
<1> DEFINE T == {k \in 0 .. n : g[k] = <<>>}
<1>4. 0 \in T
  BY <1>1, <1>3
<1>5. ASSUME NEW k \in 1 .. n, k - 1 \in T PROVE k \in T
  <2>1. Cat(<<>>, <<>>) = <<>>
    BY EmptySeq, CatFacts
  <2> QED BY <1>3, <1>5, <2>1
<1> HIDE DEF T
<1>6. \A k \in 0 .. n : k \in T
  BY <1>1, <1>4, <1>5, UpTo
<1> QED BY <1>1, <1>2, <1>6 DEF T
=============================================================================
