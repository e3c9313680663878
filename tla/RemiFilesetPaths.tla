------------------------- MODULE RemiFilesetPaths ---------------------------
(***************************************************************************)
(* What the operators on paths and trees of RemiFileset do, for every path *)
(* and every tree.                                                         *)
(***************************************************************************)
EXTENDS RemiFilesetInvariant, SequenceTheorems, FiniteSetTheorems, WellFoundedInduction, TLAPS

-----------------------------------------------------------------------------
(* Numbers                                                                 *)

\* Induction over a set of numbers.
LEMMA Induction ==
  ASSUME NEW S \in SUBSET Nat, 0 \in S, \A n \in S : n + 1 \in S
  PROVE  S = Nat
  <1> DEFINE R == OpToRel(<, Nat)
  <1>1. \A x, y \in Nat : y < x => <<y, x>> \in R
    BY DEF OpToRel
  <1> HIDE DEF R
  <1>2. IsWellFoundedOn(R, Nat)
    BY NatLessThanWellFounded DEF R
  <1>3. SUFFICES ASSUME Nat \ S # {} PROVE FALSE
    OBVIOUS
  <1>4. PICK x \in Nat \ S : \A y \in Nat \ S : ~ (<<y, x>> \in R)
    BY <1>2, <1>3, WFMin
  <1>5. x # 0 /\ x - 1 \in Nat
    BY <1>4
  <1>6. <<x - 1, x>> \in R
    BY <1>1, <1>4, <1>5
  <1>7. x - 1 \in S
    BY <1>4, <1>5, <1>6
  <1>8. (x - 1) + 1 \in S
    BY <1>7
  <1>9. QED
    BY <1>4, <1>5, <1>8

\* A set of numbers that is bounded and not empty has a greatest member.
LEMMA GreatestMember ==
  ASSUME NEW n \in Nat, NEW S \in SUBSET (1 .. n), S # {}
  PROVE  Max(S) \in S /\ \A k \in S : k <= Max(S)
  <1> DEFINE T == {m \in Nat : \A k \in S : m < n => k <= n - m}
  <1>1. SUFFICES \E x \in S : \A k \in S : k <= x
    BY DEF Max
  <1>2. SUFFICES ASSUME \A x \in S : \E k \in S : k > x
                 PROVE  FALSE
    <2>1. \A x, k \in S : k > x \/ k <= x
      OBVIOUS
    <2>2. QED
      BY <1>2, <2>1
  <1>3. T \in SUBSET Nat /\ 0 \in T
    OBVIOUS
  <1>4. ASSUME NEW m \in T
        PROVE  m + 1 \in T
    <2>1. SUFFICES ASSUME NEW k \in S, m + 1 < n
                   PROVE  k <= n - (m + 1)
      OBVIOUS
    <2>2. PICK l \in S : l > k
      BY <1>2
    <2>3. l <= n - m
      BY <1>4, <2>1
    <2>4. QED
      BY <2>1, <2>2, <2>3
  <1>5. T = Nat
    <2> HIDE DEF T
    <2>1. QED
      BY <1>3, <1>4, Induction
  <1>6. PICK x \in S : TRUE
    OBVIOUS
  <1>7. PICK y \in S : y > x
    BY <1>2
  <1>8. n - 1 \in Nat
    BY <1>6
  <1>9. y <= 1
    <2>1. n - 1 \in T
      BY <1>5, <1>8
    <2>2. y <= n - (n - 1)
      BY <1>8, <2>1
    <2>3. QED
      BY <2>2
  <1>10. QED
    BY <1>7, <1>9

LEMMA LeastMember ==
  ASSUME NEW S \in SUBSET Nat, S # {}
  PROVE  Min(S) \in S /\ \A k \in S : Min(S) <= k
  <1>1. SUFFICES \E x \in S : \A k \in S : x <= k
    BY DEF Min
  <1>2. SUFFICES ASSUME \A x \in S : \E k \in S : k < x
                 PROVE  FALSE
    <2>1. \A x, k \in S : k < x \/ x <= k
      OBVIOUS
    <2>2. QED
      BY <1>2, <2>1
  <1> DEFINE N == {m \in Nat : \A k \in S : m <= k}
  <1>3. 0 \in N
    OBVIOUS
  <1>4. ASSUME NEW m \in N
        PROVE  m + 1 \in N
    <2>1. m \in Nat /\ \A k \in S : m <= k
      OBVIOUS
    <2>2. m \notin S
      BY <1>2, <2>1
    <2>3. \A k \in S : m + 1 <= k
      BY <2>1, <2>2
    <2>4. QED
      BY <2>1, <2>3
  <1>5. N = Nat
    <2>1. N \in SUBSET Nat
      OBVIOUS
    <2> HIDE DEF N
    <2>2. QED
      BY <1>3, <1>4, <2>1, Induction
  <1>6. PICK x \in S : TRUE
    OBVIOUS
  <1>7. x + 1 \in Nat
    BY <1>6
  <1>8. x + 1 <= x
    <2>1. x + 1 \in N
      <3> HIDE DEF N
      <3>1. QED
        BY <1>5, <1>7
    <2>2. QED
      BY <1>6, <2>1
  <1>9. QED
    BY <1>6, <1>8

-----------------------------------------------------------------------------
(* The entry a path leads to                                               *)

\* A slash that does not count.
Dropped(p, k) == p[k] = Slash /\ (k = Len(p) \/ p[k + 1] = Slash)

UpToStep(p, f, k) ==
  IF k = 0 THEN <<>> ELSE IF Dropped(p, k) THEN f[k - 1] ELSE Append(f[k - 1], p[k])

\* What Canonical makes of the first pieces of a path.
UpTo(p) == CHOOSE f : f = [k \in 0 .. Len(p) |-> UpToStep(p, f, k)]

LEMMA UpToExists ==
  ASSUME NEW p \in Text
  PROVE  \E f \in [0 .. Len(p) -> Text] : f = [k \in 0 .. Len(p) |-> UpToStep(p, f, k)]
  <1> DEFINE S == {m \in Nat : m <= Len(p) => \E f \in [0 .. m -> Text] :
                                                 \A k \in 0 .. m : f[k] = UpToStep(p, f, k)}
  <1>1. Len(p) \in Nat /\ \A k \in 1 .. Len(p) : p[k] \in Piece
    BY DEF Text
  <1>2. 0 \in S
    <2> DEFINE f == [k \in 0 .. 0 |-> <<>>]
    <2>1. f \in [0 .. 0 -> Text] /\ \A k \in 0 .. 0 : f[k] = UpToStep(p, f, k)
      BY DEF Text, UpToStep
    <2> HIDE DEF f
    <2>2. QED
      BY <2>1
  <1>3. ASSUME NEW m \in S
        PROVE  m + 1 \in S
    <2>1. SUFFICES ASSUME m + 1 <= Len(p)
                   PROVE  \E f \in [0 .. m + 1 -> Text] :
                            \A k \in 0 .. m + 1 : f[k] = UpToStep(p, f, k)
      OBVIOUS
    <2>2. PICK g \in [0 .. m -> Text] : \A k \in 0 .. m : g[k] = UpToStep(p, g, k)
      BY <1>1, <2>1
    <2> DEFINE f == [k \in 0 .. m + 1 |-> IF k = m + 1 THEN UpToStep(p, g, k) ELSE g[k]]
    <2>3. f[m + 1] = UpToStep(p, g, m + 1) /\ \A k \in 0 .. m : f[k] = g[k]
      OBVIOUS
    <2>4. UpToStep(p, g, m + 1) \in Text
      <3>1. g[m] \in Text /\ (m + 1) - 1 = m /\ p[m + 1] \in Piece
        BY <1>1, <2>1
      <3>2. Append(g[m], p[m + 1]) \in Text
        BY <3>1 DEF Text
      <3>3. QED
        BY <3>1, <3>2 DEF UpToStep
    <2>5. f \in [0 .. m + 1 -> Text]
      BY <2>3, <2>4
    <2> HIDE DEF f
    <2>6. ASSUME NEW k \in 0 .. m + 1
          PROVE  f[k] = UpToStep(p, f, k)
      <3>1. k = 0 \/ k - 1 \in 0 .. m
        OBVIOUS
      <3>2. UpToStep(p, f, k) = UpToStep(p, g, k)
        BY <2>3, <3>1 DEF UpToStep
      <3>3. QED
        BY <2>2, <2>3, <3>2
    <2>7. QED
      BY <2>5, <2>6
  <1>4. S = Nat
    <2>1. S \in SUBSET Nat
      OBVIOUS
    <2> HIDE DEF S
    <2>2. QED
      BY <1>2, <1>3, <2>1, Induction
  <1>5. QED
    <2>1. PICK f \in [0 .. Len(p) -> Text] : \A k \in 0 .. Len(p) : f[k] = UpToStep(p, f, k)
      BY <1>1, <1>4
    <2>2. QED
      BY <2>1

LEMMA UpToFacts ==
  ASSUME NEW p \in Text
  PROVE  /\ UpTo(p) \in [0 .. Len(p) -> Text]
         /\ UpTo(p)[0] = <<>>
         /\ \A k \in 1 .. Len(p) :
              /\ Dropped(p, k) => UpTo(p)[k] = UpTo(p)[k - 1]
              /\ ~Dropped(p, k) => UpTo(p)[k] = Append(UpTo(p)[k - 1], p[k])
  <1>1. PICK f \in [0 .. Len(p) -> Text] : f = [k \in 0 .. Len(p) |-> UpToStep(p, f, k)]
    BY UpToExists
  <1>2. UpTo(p) = [k \in 0 .. Len(p) |-> UpToStep(p, UpTo(p), k)]
    BY <1>1 DEF UpTo
  <1>3. Len(p) \in Nat
    BY DEF Text
  <1>4. \A k \in 0 .. Len(p) : UpTo(p)[k] = UpToStep(p, UpTo(p), k)
    BY <1>2
  <1>5. UpTo(p)[0] = <<>>
    BY <1>3, <1>4 DEF UpToStep
  <1>6. \A k \in 1 .. Len(p) :
          /\ Dropped(p, k) => UpTo(p)[k] = UpTo(p)[k - 1]
          /\ ~Dropped(p, k) => UpTo(p)[k] = Append(UpTo(p)[k - 1], p[k])
    <2>1. TAKE k \in 1 .. Len(p)
    <2>2. k # 0 /\ UpTo(p)[k] = UpToStep(p, UpTo(p), k)
      BY <1>3, <1>4
    <2>3. QED
      BY <2>2, Zenon DEF UpToStep
  <1> DEFINE S == {m \in Nat : m <= Len(p) => UpTo(p)[m] \in Text}
  <1>7. 0 \in S
    <2>1. <<>> \in Text
      BY DEF Text
    <2>2. QED
      BY <1>5, <2>1
  <1>8. ASSUME NEW m \in S
        PROVE  m + 1 \in S
    <2>1. SUFFICES ASSUME m + 1 <= Len(p)
                   PROVE  UpTo(p)[m + 1] \in Text
      OBVIOUS
    <2>2. UpTo(p)[m] \in Text /\ p[m + 1] \in Piece /\ (m + 1) - 1 = m /\ m + 1 \in 1 .. Len(p)
      BY <1>3, <2>1 DEF Text
    <2>3. Append(UpTo(p)[m], p[m + 1]) \in Text
      BY <2>2 DEF Text
    <2>4. QED
      BY <1>6, <2>2, <2>3
  <1>9. S = Nat
    <2>1. S \in SUBSET Nat
      OBVIOUS
    <2> HIDE DEF S
    <2>2. QED
      BY <1>7, <1>8, <2>1, Induction
  <1>10. \A k \in 0 .. Len(p) : UpTo(p)[k] \in Text
    BY <1>3, <1>9
  <1>11. QED
    BY <1>2, <1>5, <1>6, <1>10

LEMMA CanonicalIs ==
  ASSUME NEW p \in Text
  PROVE  Canonical(p) = UpTo(p)[Len(p)] /\ Canonical(p) \in Text
  <1>1. Canonical(p) = UpTo(p)[Len(p)]
    BY DEF Canonical, UpTo, UpToStep, Dropped
  <1>2. Len(p) \in 0 .. Len(p)
    BY DEF Text
  <1>3. QED
    BY <1>1, <1>2, UpToFacts

LEMMA SlashText == Slash \in Piece /\ <<Slash>> \in Text /\ <<>> \in Text
  BY TreeAssumption DEF Text, Piece

LEMMA TextFacts ==
  ASSUME NEW p \in Text
  PROVE  Len(p) \in Nat /\ DOMAIN p = 1 .. Len(p) /\ \A k \in 1 .. Len(p) : p[k] \in Piece
  BY DEF Text

LEMMA JoinFacts ==
  ASSUME NEW p \in Text, NEW q \in Text
  PROVE  /\ p \o q \in Text /\ Len(p \o q) = Len(p) + Len(q)
         /\ \A k \in 1 .. Len(p) : (p \o q)[k] = p[k]
         /\ \A k \in 1 .. Len(q) : (p \o q)[Len(p) + k] = q[k]
  <1>1. p \in Seq(Piece) /\ q \in Seq(Piece)
    BY DEF Text
  <1>2. /\ p \o q \in Seq(Piece) /\ Len(p \o q) = Len(p) + Len(q)
        /\ \A k \in 1 .. Len(p) + Len(q) :
             (p \o q)[k] = IF k <= Len(p) THEN p[k] ELSE q[k - Len(p)]
    BY <1>1, ConcatProperties
  <1>3. Len(p) \in Nat /\ Len(q) \in Nat
    BY <1>1
  <1>4. \A k \in 1 .. Len(p) : (p \o q)[k] = p[k]
    BY <1>2, <1>3
  <1>5. ASSUME NEW k \in 1 .. Len(q)
        PROVE  (p \o q)[Len(p) + k] = q[k]
    <2>1. Len(p) + k \in 1 .. Len(p) + Len(q) /\ ~ (Len(p) + k <= Len(p)) /\ (Len(p) + k) - Len(p) = k
      BY <1>3
    <2>2. QED
      BY <1>2, <2>1
  <1>6. QED
    BY <1>2, <1>4, <1>5 DEF Text

LEMMA AppendFacts ==
  ASSUME NEW p \in Text, NEW x \in Piece
  PROVE  /\ Append(p, x) \in Text /\ Len(Append(p, x)) = Len(p) + 1
         /\ \A k \in 1 .. Len(p) : Append(p, x)[k] = p[k]
         /\ Append(p, x)[Len(p) + 1] = x
  <1>1. p \in Seq(Piece)
    BY DEF Text
  <1>2. /\ Append(p, x) \in Seq(Piece) /\ Len(Append(p, x)) = Len(p) + 1
        /\ \A k \in 1 .. Len(p) : Append(p, x)[k] = p[k]
        /\ Append(p, x)[Len(p) + 1] = x
    BY <1>1, AppendProperties
  <1>3. QED
    BY <1>2 DEF Text

\* One more piece, alike in two paths.
LEMMA OneMore ==
  ASSUME NEW p \in Text, NEW q \in Text, NEW x \in 1 .. Len(p), NEW y \in 1 .. Len(q),
         UpTo(p)[x - 1] = UpTo(q)[y - 1], p[x] = q[y], Dropped(p, x) <=> Dropped(q, y)
  PROVE  UpTo(p)[x] = UpTo(q)[y]
  <1>1. CASE Dropped(p, x)
    BY <1>1, UpToFacts
  <1>2. CASE ~Dropped(p, x)
    BY <1>2, UpToFacts
  <1>3. QED
    BY <1>1, <1>2

\* Texts are equal when they are as long and piece by piece the same.
LEMMA TextEqual ==
  ASSUME NEW p \in Text, NEW q \in Text, Len(p) = Len(q), \A k \in 1 .. Len(p) : p[k] = q[k]
  PROVE  p = q
  BY SeqEqual DEF Text

LEMMA PrefixAgrees ==
  ASSUME NEW p \in Text, NEW q \in Text, NEW m \in Nat, m <= Len(p), m <= Len(q),
         \A k \in 1 .. m : p[k] = q[k] /\ (Dropped(p, k) <=> Dropped(q, k))
  PROVE  UpTo(p)[m] = UpTo(q)[m]
  <1> DEFINE S == {k \in Nat : k <= m => UpTo(p)[k] = UpTo(q)[k]}
  <1>1. 0 \in S
    BY UpToFacts
  <1>2. ASSUME NEW k \in S
        PROVE  k + 1 \in S
    <2>1. SUFFICES ASSUME k + 1 <= m
                   PROVE  UpTo(p)[k + 1] = UpTo(q)[k + 1]
      OBVIOUS
    <2>2. /\ k + 1 \in 1 .. m /\ k + 1 \in 1 .. Len(p) /\ k + 1 \in 1 .. Len(q)
          /\ (k + 1) - 1 = k /\ UpTo(p)[k] = UpTo(q)[k]
      BY <2>1, TextFacts
    <2>3. QED
      BY <2>2, UpToFacts
  <1>3. S = Nat
    <2>1. S \in SUBSET Nat
      OBVIOUS
    <2> HIDE DEF S
    <2>2. QED
      BY <1>1, <1>2, <2>1, Induction
  <1>4. QED
    BY <1>3

LEMMA SuffixAgrees ==
  ASSUME NEW p \in Text, NEW q \in Text, NEW a \in Nat, NEW b \in Nat, NEW l \in Nat,
         Len(p) = a + l, Len(q) = b + l, UpTo(p)[a] = UpTo(q)[b],
         \A i \in 1 .. l : p[a + i] = q[b + i]
  PROVE  Canonical(p) = Canonical(q)
  <1> DEFINE S == {i \in Nat : i <= l => UpTo(p)[a + i] = UpTo(q)[b + i]}
  <1>1. 0 \in S
    OBVIOUS
  <1>2. ASSUME NEW i \in S
        PROVE  i + 1 \in S
    <2>1. SUFFICES ASSUME i + 1 <= l
                   PROVE  UpTo(p)[a + (i + 1)] = UpTo(q)[b + (i + 1)]
      OBVIOUS
    <2> DEFINE x == a + (i + 1)
               y == b + (i + 1)
    <2>2. /\ x \in 1 .. Len(p) /\ y \in 1 .. Len(q) /\ x - 1 = a + i /\ y - 1 = b + i
          /\ x = Len(p) <=> y = Len(q)
      BY <2>1
    <2>3. UpTo(p)[x - 1] = UpTo(q)[y - 1] /\ p[x] = q[y]
      <3>1. UpTo(p)[a + i] = UpTo(q)[b + i] /\ p[a + (i + 1)] = q[b + (i + 1)]
        <4>1. i <= l /\ i + 1 \in 1 .. l
          BY <2>1
        <4>2. p[a + (i + 1)] = q[b + (i + 1)]
          BY <4>1
        <4>3. UpTo(p)[a + i] = UpTo(q)[b + i]
          BY <4>1, Zenon
        <4>4. QED
          BY <4>2, <4>3
      <3>2. p[x] = q[y]
        BY <3>1
      <3> HIDE DEF x, y
      <3>3. QED
        BY <2>2, <3>1, <3>2
    <2>4. x = Len(p) \/ p[x + 1] = q[y + 1]
      <3>1. CASE i + 1 = l
        BY <3>1
      <3>2. CASE i + 1 < l
        <4>1. i + 2 \in 1 .. l /\ x + 1 = a + (i + 2) /\ y + 1 = b + (i + 2)
          BY <3>2
        <4>2. p[a + (i + 2)] = q[b + (i + 2)]
          BY <4>1
        <4> HIDE DEF x, y
        <4>3. QED
          BY <4>1, <4>2
      <3>3. QED
        BY <2>1, <3>1, <3>2
    <2> HIDE DEF x, y
    <2>5. Dropped(p, x) <=> Dropped(q, y)
      BY <2>2, <2>3, <2>4 DEF Dropped
    <2>6. QED
      BY <2>2, <2>3, <2>5, OneMore DEF x, y
  <1>3. S = Nat
    <2>1. S \in SUBSET Nat
      OBVIOUS
    <2> HIDE DEF S
    <2>2. QED
      BY <1>1, <1>2, <2>1, Induction
  <1>4. UpTo(p)[Len(p)] = UpTo(q)[Len(q)]
    <2> HIDE DEF S
    <2>1. l \in S /\ l <= l
      BY <1>3
    <2>2. UpTo(p)[a + l] = UpTo(q)[b + l]
      BY <2>1, Zenon DEF S
    <2>3. QED
      BY <2>2
  <1>5. QED
    BY <1>4, CanonicalIs

\* A final slash leads to the same entry.
LEMMA FinalSlash ==
  ASSUME NEW p \in Text
  PROVE  Canonical(Append(p, Slash)) = Canonical(p)
  <1> DEFINE q == Append(p, Slash)
  <1>1. /\ q \in Text /\ Len(q) = Len(p) + 1 /\ Len(p) \in Nat
        /\ \A k \in 1 .. Len(p) : q[k] = p[k]
        /\ q[Len(p) + 1] = Slash
    BY SlashText, AppendFacts, TextFacts
  <1> HIDE DEF q
  <1>2. ASSUME NEW k \in 1 .. Len(p)
        PROVE  Dropped(p, k) <=> Dropped(q, k)
    <2>1. k # Len(q)
      BY <1>1
    <2>2. CASE k = Len(p)
      BY <1>1, <2>1, <2>2 DEF Dropped
    <2>3. CASE k < Len(p)
      <3>1. k + 1 \in 1 .. Len(p)
        BY <1>1, <2>3
      <3>2. QED
        BY <1>1, <2>1, <2>3, <3>1 DEF Dropped
    <2>4. QED
      BY <1>1, <2>2, <2>3
  <1>3. UpTo(p)[Len(p)] = UpTo(q)[Len(p)]
    BY <1>1, <1>2, PrefixAgrees
  <1>4. Dropped(q, Len(p) + 1)
    BY <1>1 DEF Dropped
  <1>5. UpTo(q)[Len(p) + 1] = UpTo(q)[Len(p)]
    <2>1. Len(p) + 1 \in 1 .. Len(q) /\ (Len(p) + 1) - 1 = Len(p)
      BY <1>1
    <2>2. QED
      BY <1>1, <1>4, <2>1, UpToFacts
  <1>6. QED
    BY <1>1, <1>3, <1>5, CanonicalIs DEF q

\* listFiles puts a slash between the root and the path that it opens.
LEMMA DoubleSlash ==
  ASSUME NEW r \in Text, NEW p \in Text, EndsInSlash(r)
  PROVE  Canonical(r \o <<Slash>> \o p) = Canonical(r \o p)
  <1> DEFINE m == Len(r)
             s == r \o p
             t == r \o <<Slash>> \o p
  <1>1. m \in Nat /\ m >= 1 /\ r[m] = Slash /\ Len(p) \in Nat
    BY TextFacts, EmptySeq DEF EndsInSlash, Last, Text
  <1>2. /\ s \in Text /\ Len(s) = m + Len(p)
        /\ \A k \in 1 .. m : s[k] = r[k]
        /\ \A k \in 1 .. Len(p) : s[m + k] = p[k]
    BY JoinFacts
  <1>3. /\ t \in Text /\ Len(t) = m + 1 + Len(p)
        /\ \A k \in 1 .. m : t[k] = r[k]
        /\ t[m + 1] = Slash
        /\ \A k \in 1 .. Len(p) : t[m + 1 + k] = p[k]
    <2> DEFINE u == r \o <<Slash>>
    <2>1. /\ u \in Text /\ Len(u) = m + 1
          /\ \A k \in 1 .. m : u[k] = r[k]
          /\ u[m + 1] = Slash
      <3>1. <<Slash>> \in Text /\ Len(<<Slash>>) = 1 /\ <<Slash>>[1] = Slash
        BY SlashText
      <3> DEFINE one == <<Slash>>
      <3> HIDE DEF one
      <3>2. /\ r \o one \in Text /\ Len(r \o one) = m + 1
            /\ \A k \in 1 .. m : (r \o one)[k] = r[k]
            /\ (r \o one)[m + 1] = Slash
        BY <1>1, <3>1, JoinFacts DEF one
      <3>3. QED
        BY <3>2 DEF one
    <2> HIDE DEF u
    <2>2. /\ u \o p \in Text /\ Len(u \o p) = Len(u) + Len(p)
          /\ \A k \in 1 .. Len(u) : (u \o p)[k] = u[k]
          /\ \A k \in 1 .. Len(p) : (u \o p)[Len(u) + k] = p[k]
      BY <2>1, JoinFacts
    <2>3. QED
      BY <1>1, <2>1, <2>2 DEF u
  <1> HIDE DEF m, s, t
  <1>4. ASSUME NEW k \in 1 .. m - 1
        PROVE  s[k] = t[k] /\ (Dropped(s, k) <=> Dropped(t, k))
    <2>1. k \in 1 .. m /\ k + 1 \in 1 .. m /\ k # Len(s) /\ k # Len(t)
      BY <1>1, <1>2, <1>3
    <2>2. QED
      BY <1>2, <1>3, <2>1 DEF Dropped
  <1>5. UpTo(s)[m - 1] = UpTo(t)[m - 1]
    <2>1. m - 1 \in Nat /\ m - 1 <= Len(s) /\ m - 1 <= Len(t)
      BY <1>1, <1>2, <1>3
    <2>2. QED
      BY <1>2, <1>3, <1>4, <2>1, PrefixAgrees
  <1>6. m \in 1 .. Len(s) /\ m \in 1 .. Len(t) /\ m + 1 \in 1 .. Len(t) /\ (m + 1) - 1 = m
    BY <1>1, <1>2, <1>3
  <1>7. s[m] = Slash /\ t[m] = Slash /\ Dropped(t, m)
    <2>1. m \in 1 .. m
      BY <1>1
    <2>2. QED
      BY <1>1, <1>2, <1>3, <2>1 DEF Dropped
  <1>8. Dropped(s, m) <=> Dropped(t, m + 1)
    <2>1. CASE Len(p) = 0
      BY <1>1, <1>2, <1>3, <1>7, <2>1 DEF Dropped
    <2>2. CASE Len(p) # 0
      <3>1. /\ s[m + 1] = p[1] /\ t[m + 1 + 1] = p[1]
            /\ m # Len(s) /\ m + 1 # Len(t)
        BY <1>1, <1>2, <1>3, <2>2
      <3>2. QED
        BY <1>3, <1>7, <3>1 DEF Dropped
    <2>3. QED
      BY <2>1, <2>2
  <1>9. UpTo(s)[m] = UpTo(t)[m + 1]
    <2>1. UpTo(t)[m] = UpTo(t)[m - 1]
      BY <1>3, <1>6, <1>7, UpToFacts
    <2>2. QED
      <3> DEFINE n == m + 1
      <3>2. /\ n \in 1 .. Len(t) /\ n - 1 = m /\ t[n] = Slash /\ (Dropped(s, m) <=> Dropped(t, n))
        BY <1>3, <1>6, <1>8
      <3> HIDE DEF n
      <3>3. UpTo(s)[m - 1] = UpTo(t)[n - 1]
        BY <1>5, <2>1, <3>2
      <3>4. UpTo(s)[m] = UpTo(t)[n]
        BY <1>2, <1>3, <1>6, <1>7, <3>2, <3>3, OneMore
      <3>5. QED
        BY <3>4 DEF n
  <1>10. ASSUME NEW i \in 1 .. Len(p)
         PROVE  s[m + i] = t[(m + 1) + i]
    BY <1>1, <1>2, <1>3
  <1>11. Canonical(s) = Canonical(t)
    <2> DEFINE n == m + 1
               l == Len(p)
    <2>1. /\ s \in Text /\ t \in Text /\ m \in Nat /\ n \in Nat /\ l \in Nat
          /\ Len(s) = m + l /\ Len(t) = n + l /\ UpTo(s)[m] = UpTo(t)[n]
      BY <1>1, <1>2, <1>3, <1>9
    <2>2. \A i \in 1 .. l : s[m + i] = t[n + i]
      BY <1>10
    <2> HIDE DEF n, l
    <2>3. QED
      BY <2>1, <2>2, SuffixAgrees, Zenon
  <1>12. QED
    BY <1>11 DEF s, t

\* Where the slashes of a path are, and the name behind the last one.
LEMMA LastSlashIs ==
  ASSUME NEW p \in Text
  PROVE  /\ LastSlash(p) \in 0 .. Len(p)
         /\ LastSlash(p) # 0 => p[LastSlash(p)] = Slash
         /\ \A k \in 1 .. Len(p) : p[k] = Slash => LastSlash(p) # 0 /\ k <= LastSlash(p)
  <1> DEFINE I == {k \in 1 .. Len(p) : p[k] = Slash}
  <1>1. Len(p) \in Nat
    BY TextFacts
  <1>2. LastSlash(p) = IF I # {} THEN Max(I) ELSE 0
    BY DEF LastSlash, SelectLastInSeq
  <1>3. CASE I = {}
    BY <1>1, <1>2, <1>3
  <1>4. CASE I # {}
    <2>1. Max(I) \in I /\ \A k \in I : k <= Max(I)
      <3>1. I \in SUBSET (1 .. Len(p))
        OBVIOUS
      <3> HIDE DEF I
      <3>2. QED
        BY <1>1, <1>4, <3>1, GreatestMember
    <2>2. QED
      BY <1>1, <1>2, <1>4, <2>1
  <1>5. QED
    BY <1>3, <1>4

LEMMA EndsInSlashIs ==
  ASSUME NEW p \in Text
  PROVE  EndsInSlash(p) <=> Len(p) # 0 /\ p[Len(p)] = Slash
  BY EmptySeq DEF EndsInSlash, Last, Text

LEMMA SubText ==
  ASSUME NEW p \in Text, NEW a \in 1 .. Len(p) + 1, NEW b \in a - 1 .. Len(p)
  PROVE  /\ SubSeq(p, a, b) \in Text /\ Len(SubSeq(p, a, b)) = b - a + 1
         /\ \A i \in 1 .. b - a + 1 : SubSeq(p, a, b)[i] = p[a + i - 1]
  BY SubSeqProperties DEF Text

\* The directory and the name of an entry.
LEMMA EntryParts ==
  ASSUME NEW e \in DOMAIN Kind \ {<<>>}
  PROVE  LET l == LastSlash(e) IN
           /\ e \in Text /\ l \in 1 .. Len(e) - 1 /\ e[l] = Slash
           /\ Parent(e) \in Text /\ Len(Parent(e)) = l - 1
           /\ \A k \in 1 .. l - 1 : Parent(e)[k] = e[k]
           /\ Base(e) \in Text /\ Len(Base(e)) = Len(e) - l
           /\ \A k \in 1 .. Len(e) - l : Base(e)[k] = e[l + k] /\ e[l + k] # Slash
  <1> DEFINE l == LastSlash(e)
  <1>1. e \in Text /\ Len(e) \in Nat
    BY FilesetAssumption DEF Paths, Text, Piece
  <1>2. l \in 0 .. Len(e) /\ l # 0 /\ ~EndsInSlash(e)
    BY <1>1, TreeAssumption, LastSlashIs
  <1>3. e[l] = Slash /\ \A k \in 1 .. Len(e) : e[k] = Slash => k <= l
    BY <1>1, <1>2, LastSlashIs
  <1>4. l \in 1 .. Len(e) - 1
    BY <1>1, <1>2, <1>3, EndsInSlashIs
  <1> HIDE DEF l
  <1>5. /\ Parent(e) \in Text /\ Len(Parent(e)) = l - 1
        /\ \A k \in 1 .. l - 1 : Parent(e)[k] = e[k]
    <2> DEFINE first == 1
               last == l - 1
    <2>1. /\ first \in 1 .. Len(e) + 1 /\ last \in first - 1 .. Len(e)
          /\ last - first + 1 = l - 1
      BY <1>1, <1>4
    <2>2. \A k \in 1 .. l - 1 : first + k - 1 = k
      BY <1>1, <1>4
    <2>3. Parent(e) = SubSeq(e, first, last)
      BY DEF Parent, l
    <2> HIDE DEF first, last
    <2>4. /\ SubSeq(e, first, last) \in Text
          /\ Len(SubSeq(e, first, last)) = last - first + 1
          /\ \A k \in 1 .. last - first + 1 : SubSeq(e, first, last)[k] = e[first + k - 1]
      BY <1>1, <2>1, SubText
    <2>5. QED
      BY <2>1, <2>2, <2>3, <2>4
  <1>6. /\ Base(e) \in Text /\ Len(Base(e)) = Len(e) - l
        /\ \A k \in 1 .. Len(e) - l : Base(e)[k] = e[l + k]
    <2> DEFINE a == l + 1
    <2>1. a \in 1 .. Len(e) + 1 /\ Len(e) \in a - 1 .. Len(e) /\ Len(e) - a + 1 = Len(e) - l
      BY <1>1, <1>4
    <2>2. \A k \in 1 .. Len(e) - l : a + k - 1 = l + k
      BY <1>1, <1>4
    <2>3. Base(e) = SubSeq(e, a, Len(e))
      BY DEF Base, l
    <2> HIDE DEF a
    <2>4. /\ Base(e) \in Text /\ Len(Base(e)) = Len(e) - l
          /\ \A k \in 1 .. Len(e) - l : Base(e)[k] = e[a + k - 1]
      BY <1>1, <2>1, <2>3, SubText
    <2>5. ASSUME NEW k \in 1 .. Len(e) - l
          PROVE  Base(e)[k] = e[l + k]
      <3>1. Base(e)[k] = e[a + k - 1] /\ a + k - 1 = l + k
        BY <2>2, <2>4
      <3>2. QED
        BY <3>1, Zenon
    <2>6. QED
      BY <2>4, <2>5
  <1>7. \A k \in 1 .. Len(e) - l : e[l + k] # Slash
    BY <1>1, <1>3, <1>4
  <1>8. QED
    BY <1>1, <1>3, <1>4, <1>5, <1>6, <1>7 DEF l

\* A name behind a path that ends in a slash.
LEMMA Joined ==
  ASSUME NEW q \in Text, NEW n \in Text, EndsInSlash(q),
         Len(n) # 0, \A i \in 1 .. Len(n) : n[i] # Slash
  PROVE  LET c == Canonical(q)
             e == Canonical(q \o n)
         IN  /\ c \in Text /\ e \in Text /\ Len(e) = Len(c) + 1 + Len(n)
             /\ \A k \in 1 .. Len(c) : e[k] = c[k]
             /\ e[Len(c) + 1] = Slash
             /\ \A k \in 1 .. Len(n) : e[Len(c) + 1 + k] = n[k]
  <1> DEFINE m == Len(q)
             p == q \o n
             c == Canonical(q)
             Good(s, i) == /\ s \in Text /\ Len(s) = Len(c) + 1 + i
                           /\ \A k \in 1 .. Len(c) : s[k] = c[k]
                           /\ s[Len(c) + 1] = Slash
                           /\ \A k \in 1 .. i : s[Len(c) + 1 + k] = n[k]
  <1>1. m \in Nat /\ m >= 1 /\ q[m] = Slash /\ Len(n) \in Nat
    BY TextFacts, EndsInSlashIs
  <1>2. /\ p \in Text /\ Len(p) = m + Len(n)
        /\ \A k \in 1 .. m : p[k] = q[k]
        /\ \A k \in 1 .. Len(n) : p[m + k] = n[k]
    BY JoinFacts
  <1> HIDE DEF m, p
  <1>3. UpTo(p)[m - 1] = c
    <2>1. ASSUME NEW k \in 1 .. m - 1
          PROVE  p[k] = q[k] /\ (Dropped(p, k) <=> Dropped(q, k))
      <3>1. k \in 1 .. m /\ k + 1 \in 1 .. m /\ k # Len(p) /\ k # Len(q)
        BY <1>1, <1>2 DEF m
      <3>2. QED
        BY <1>2, <3>1 DEF Dropped
    <2>2. m - 1 \in Nat /\ m - 1 <= Len(p) /\ m - 1 <= Len(q)
      BY <1>1, <1>2 DEF m
    <2>3. UpTo(p)[m - 1] = UpTo(q)[m - 1]
      BY <1>2, <2>1, <2>2, PrefixAgrees
    <2>4. m \in 1 .. Len(q) /\ Dropped(q, m)
      BY <1>1 DEF m, Dropped
    <2>5. UpTo(q)[m] = UpTo(q)[m - 1]
      BY <2>4, UpToFacts
    <2>6. QED
      BY <2>3, <2>5, CanonicalIs DEF m
  <1>4. c \in Text /\ Len(c) \in Nat
    BY CanonicalIs, TextFacts
  <1> HIDE DEF c
  <1>5. Good(UpTo(p)[m], 0)
    <2>1. p[m + 1] # Slash /\ m # Len(p)
      BY <1>1, <1>2
    <2>2. m \in 1 .. Len(p) /\ ~Dropped(p, m) /\ p[m] = Slash
      BY <1>1, <1>2, <2>1 DEF Dropped
    <2>3. UpTo(p)[m] = Append(c, Slash)
      BY <1>2, <1>3, <2>2, UpToFacts
    <2>4. QED
      BY <1>4, <2>3, SlashText, AppendFacts
  <1> DEFINE S == {i \in Nat : i <= Len(n) => Good(UpTo(p)[m + i], i)}
  <1>6. 0 \in S
    <2>1. m + 0 = m
      BY <1>1
    <2> HIDE DEF Good
    <2>2. QED
      BY <1>5, <2>1
  <1>7. ASSUME NEW i \in S
        PROVE  i + 1 \in S
    <2> DEFINE j == i + 1
               x == m + (i + 1)
    <2>1. SUFFICES ASSUME j <= Len(n)
                   PROVE  Good(UpTo(p)[x], j)
      OBVIOUS
    <2>2. /\ x \in 1 .. Len(p) /\ x - 1 = m + i /\ j \in 1 .. Len(n) /\ i <= Len(n)
          /\ j - 1 = i /\ j \in Nat /\ i \in Nat
      <3>1. i \in Nat
        OBVIOUS
      <3> HIDE DEF S, Good
      <3>2. QED
        BY <1>1, <1>2, <2>1, <3>1
    <2>3. Good(UpTo(p)[m + i], i)
      <3> HIDE DEF Good
      <3>1. QED
        BY <2>2, Zenon
    <2>4. p[x] = n[j]
      BY <1>2, <2>2
    <2> HIDE DEF x, S
    <2>5. ~Dropped(p, x)
      BY <2>2, <2>4 DEF Dropped
    <2>6. UpTo(p)[x] = Append(UpTo(p)[m + i], n[j])
      BY <1>2, <2>2, <2>4, <2>5, UpToFacts
    <2>7. n[j] \in Piece
      BY <2>2, TextFacts
    <2> DEFINE s == UpTo(p)[m + i]
               t == Append(s, n[j])
    <2> HIDE DEF s
    <2>8. /\ s \in Text /\ Len(s) = Len(c) + 1 + i
          /\ \A k \in 1 .. Len(c) : s[k] = c[k]
          /\ s[Len(c) + 1] = Slash
          /\ \A k \in 1 .. i : s[Len(c) + 1 + k] = n[k]
      BY <2>3 DEF s
    <2>9. /\ t \in Text /\ Len(t) = Len(s) + 1
          /\ \A k \in 1 .. Len(s) : t[k] = s[k]
          /\ t[Len(s) + 1] = n[j]
      BY <2>7, <2>8, AppendFacts
    <2> HIDE DEF t, j
    <2>10. Len(t) = Len(c) + 1 + j /\ j = i + 1
      BY <1>4, <2>2, <2>8, <2>9
    <2>11. (\A k \in 1 .. Len(c) : t[k] = c[k]) /\ t[Len(c) + 1] = Slash
      BY <1>4, <2>2, <2>8, <2>9
    <2>12. ASSUME NEW k \in 1 .. j
           PROVE  t[Len(c) + 1 + k] = n[k]
      <3>1. CASE k = j
        <4>1. Len(c) + 1 + k = Len(s) + 1
          BY <1>4, <2>2, <2>8, <2>10, <3>1
        <4>2. QED
          BY <2>9, <3>1, <4>1
      <3>2. CASE k # j
        <4>1. k \in 1 .. i /\ Len(c) + 1 + k \in 1 .. Len(s)
          BY <1>4, <2>2, <2>8, <2>10, <3>2
        <4>2. QED
          BY <2>8, <2>9, <4>1
      <3>3. QED
        BY <3>1, <3>2
    <2>13. QED
      BY <2>6, <2>9, <2>10, <2>11, <2>12 DEF s, t
  <1>8. S = Nat
    <2>1. S \in SUBSET Nat
      OBVIOUS
    <2> HIDE DEF S
    <2>2. QED
      BY <1>6, <1>7, <2>1, Induction
  <1>9. Good(Canonical(p), Len(n))
    <2>1. Len(n) \in S
      <3> HIDE DEF S
      <3>1. QED
        BY <1>1, <1>8
    <2>2. Len(n) <= Len(n)
      BY <1>1
    <2>3. Good(UpTo(p)[m + Len(n)], Len(n))
      <3> HIDE DEF Good
      <3>1. QED
        BY <2>1, <2>2, Zenon
    <2>4. Canonical(p) = UpTo(p)[m + Len(n)]
      BY <1>2, CanonicalIs
    <2> HIDE DEF Good
    <2>5. QED
      BY <2>3, <2>4
  <1>10. QED
    BY <1>4, <1>9 DEF c, p

\* The entry below a directory, under the name that readdir gives it.
LEMMA ChildPath ==
  ASSUME NEW q \in Text, EndsInSlash(q),
         NEW x \in DOMAIN Kind \ {<<>>}, Parent(x) = Canonical(q)
  PROVE  q \o Base(x) \in Text /\ Canonical(q \o Base(x)) = x
  <1> DEFINE l == LastSlash(x)
             n == Base(x)
             c == Canonical(q)
             e == Canonical(q \o n)
  <1>1. /\ x \in Text /\ l \in 1 .. Len(x) - 1 /\ x[l] = Slash /\ Len(x) \in Nat
        /\ Len(c) = l - 1 /\ \A k \in 1 .. l - 1 : c[k] = x[k]
        /\ n \in Text /\ Len(n) = Len(x) - l
        /\ \A k \in 1 .. Len(x) - l : n[k] = x[l + k] /\ x[l + k] # Slash
    BY EntryParts, TextFacts
  <1> HIDE DEF l, n
  <1>2. Len(n) # 0 /\ \A i \in 1 .. Len(n) : n[i] # Slash
    <2>1. Len(n) # 0
      BY <1>1
    <2>2. ASSUME NEW i \in 1 .. Len(n)
          PROVE  n[i] # Slash
      <3>1. n[i] = x[l + i] /\ x[l + i] # Slash
        BY <1>1
      <3>2. QED
        BY <3>1
    <2>3. QED
      BY <2>1, <2>2
  <1>3. /\ c \in Text /\ e \in Text /\ Len(e) = Len(c) + 1 + Len(n)
        /\ \A k \in 1 .. Len(c) : e[k] = c[k]
        /\ e[Len(c) + 1] = Slash
        /\ \A k \in 1 .. Len(n) : e[Len(c) + 1 + k] = n[k]
    BY <1>1, <1>2, Joined
  <1> HIDE DEF c, e
  <1>4. Len(e) = Len(x)
    BY <1>1, <1>3
  <1>5. ASSUME NEW k \in 1 .. Len(e)
        PROVE  e[k] = x[k]
    <2>1. CASE k < l
      BY <1>1, <1>3, <2>1
    <2>2. CASE k = l
      BY <1>1, <1>3, <2>2
    <2>3. CASE k > l
      <3>1. PICK i \in 1 .. Len(n) : k = l + i
        <4>1. k - l \in 1 .. Len(n) /\ k = l + (k - l)
          BY <1>1, <1>4, <2>3
        <4>2. QED
          BY <4>1
      <3>2. Len(c) + 1 + i = k
        BY <1>1, <3>1
      <3>3. e[k] = n[i] /\ n[i] = x[k]
        BY <1>1, <1>3, <3>1, <3>2
      <3>4. QED
        BY <3>3
    <2>4. QED
      BY <1>1, <1>4, <2>1, <2>2, <2>3
  <1>6. e = x
    BY <1>1, <1>3, <1>4, <1>5, TextEqual
  <1>7. q \o n \in Text
    BY <1>1, JoinFacts
  <1>8. QED
    BY <1>6, <1>7 DEF e, n

\* What it means to be below a directory, piece by piece.
LEMMA WithinIs ==
  ASSUME NEW e \in Text, NEW d \in Text
  PROVE  Within(e, d) <=> /\ Len(e) >= Len(d) + 2
                          /\ \A k \in 1 .. Len(d) : e[k] = d[k]
                          /\ e[Len(d) + 1] = Slash
  <1> DEFINE s == Append(d, Slash)
             t == SubSeq(e, 1, Len(s))
  <1>1. /\ s \in Text /\ Len(s) = Len(d) + 1 /\ Len(d) \in Nat /\ Len(e) \in Nat
        /\ \A k \in 1 .. Len(d) : s[k] = d[k]
        /\ s[Len(d) + 1] = Slash
    BY SlashText, AppendFacts, TextFacts
  <1>2. Within(e, d) <=> Len(s) <= Len(e) /\ SubSeq(s, 1, Len(s)) = t /\ s # e
    BY DEF Within, IsStrictPrefix, IsPrefix
  <1> HIDE DEF s
  <1>3. SubSeq(s, 1, Len(s)) = s
    <2>1. Len(s) \in Nat /\ 1 \in 1 .. Len(s) + 1 /\ Len(s) \in 1 - 1 .. Len(s) /\ Len(s) - 1 + 1 = Len(s)
      BY <1>1
    <2> DEFINE u == SubSeq(s, 1, Len(s))
    <2>2. u \in Text /\ Len(u) = Len(s) /\ \A i \in 1 .. Len(s) : u[i] = s[1 + i - 1]
      BY <1>1, <2>1, SubText
    <2>3. \A i \in 1 .. Len(s) : 1 + i - 1 = i
      BY <2>1
    <2> HIDE DEF u
    <2>4. \A i \in 1 .. Len(s) : u[i] = s[i]
      BY <2>2, <2>3
    <2>5. QED
      BY <1>1, <2>2, <2>4, TextEqual DEF u
  <1>4. ASSUME Len(s) <= Len(e)
        PROVE  t \in Text /\ Len(t) = Len(s) /\ \A i \in 1 .. Len(s) : t[i] = e[i]
    <2>1. Len(s) \in Nat /\ 1 \in 1 .. Len(e) + 1 /\ Len(s) \in 1 - 1 .. Len(e) /\ Len(s) - 1 + 1 = Len(s)
      BY <1>1, <1>4
    <2>2. t \in Text /\ Len(t) = Len(s) /\ \A i \in 1 .. Len(s) : t[i] = e[1 + i - 1]
      BY <2>1, SubText
    <2>3. \A i \in 1 .. Len(s) : 1 + i - 1 = i
      BY <2>1
    <2> HIDE DEF t
    <2>4. QED
      BY <2>2, <2>3
  <1> HIDE DEF t
  <1>5. ASSUME Within(e, d)
        PROVE  /\ Len(e) >= Len(d) + 2
               /\ \A k \in 1 .. Len(d) : e[k] = d[k]
               /\ e[Len(d) + 1] = Slash
    <2>1. Len(s) <= Len(e) /\ s = t /\ s # e
      BY <1>2, <1>3, <1>5
    <2>2. \A i \in 1 .. Len(s) : s[i] = e[i]
      BY <1>4, <2>1
    <2>3. Len(s) # Len(e)
      BY <1>1, <2>1, <2>2, TextEqual
    <2>4. QED
      BY <1>1, <2>1, <2>2, <2>3
  <1>6. ASSUME Len(e) >= Len(d) + 2, \A k \in 1 .. Len(d) : e[k] = d[k], e[Len(d) + 1] = Slash
        PROVE  Within(e, d)
    <2>1. Len(s) <= Len(e) /\ Len(s) # Len(e)
      BY <1>1, <1>6
    <2>2. \A i \in 1 .. Len(s) : s[i] = t[i]
      BY <1>1, <1>4, <1>6, <2>1
    <2>3. s = t
      BY <1>1, <1>4, <2>1, <2>2, TextEqual
    <2>4. QED
      BY <1>2, <1>3, <2>1, <2>3
  <1>7. QED
    BY <1>5, <1>6

LEMMA VisibleIs ==
  ASSUME NEW e \in Text, NEW d \in Text
  PROVE  Visible(e, d) <=> /\ Len(e) >= Len(d) + 2
                           /\ \A k \in 1 .. Len(d) : e[k] = d[k]
                           /\ e[Len(d) + 1] = Slash
                           /\ \A k \in Len(d) + 2 .. Len(e) : e[k - 1] = Slash => e[k] \notin Dotted
                           /\ \A k \in Len(d) + 2 .. Len(e) : e[k] = Slash => SubSeq(e, 1, k - 1) \notin Untyped
  <1>1. Visible(e, d) <=> /\ Within(e, d)
                          /\ \A k \in Len(d) + 2 .. Len(e) : e[k - 1] = Slash => e[k] \notin Dotted
                          /\ \A k \in Len(d) + 2 .. Len(e) : e[k] = Slash => SubSeq(e, 1, k - 1) \notin Untyped
    BY Zenon DEF Visible
  <1>2. QED
    BY <1>1, WithinIs, Zenon

\* Two texts that begin alike have the same beginnings.
LEMMA SameStart ==
  ASSUME NEW e \in Text, NEW u \in Text, NEW k \in 1 .. Len(u), k <= Len(e),
         \A i \in 1 .. k - 1 : u[i] = e[i]
  PROVE  SubSeq(u, 1, k - 1) = SubSeq(e, 1, k - 1)
  <1> DEFINE v == SubSeq(u, 1, k - 1)
             w == SubSeq(e, 1, k - 1)
  <1>1. Len(u) \in Nat /\ Len(e) \in Nat
    BY TextFacts
  <1>2. /\ 1 \in 1 .. Len(u) + 1 /\ k - 1 \in 1 - 1 .. Len(u)
        /\ 1 \in 1 .. Len(e) + 1 /\ k - 1 \in 1 - 1 .. Len(e) /\ (k - 1) - 1 + 1 = k - 1
    BY <1>1
  <1>3. v \in Text /\ Len(v) = k - 1 /\ \A i \in 1 .. k - 1 : v[i] = u[1 + i - 1]
    BY <1>2, SubText
  <1>4. w \in Text /\ Len(w) = k - 1 /\ \A i \in 1 .. k - 1 : w[i] = e[1 + i - 1]
    BY <1>2, SubText
  <1>5. \A i \in 1 .. k - 1 : 1 + i - 1 = i
    BY <1>1
  <1> HIDE DEF v, w
  <1>6. \A i \in 1 .. k - 1 : v[i] = w[i]
    BY <1>3, <1>4, <1>5
  <1>7. v = w
    BY <1>3, <1>4, <1>6, TextEqual
  <1>8. QED
    BY <1>7 DEF v, w

\* An entry whose name does not begin with a dot is visible from its directory, and
\* from wherever its directory is, if that is shown to be one.
LEMMA VisibleChild ==
  ASSUME NEW x \in DOMAIN Kind \ {<<>>}, ~Hidden(x), NEW d \in Text,
         Parent(x) = d \/ (Visible(Parent(x), d) /\ Parent(x) \notin Untyped)
  PROVE  Visible(x, d)
  <1> DEFINE l == LastSlash(x)
             u == Parent(x)
  <1>1. /\ x \in Text /\ l \in 1 .. Len(x) - 1 /\ x[l] = Slash /\ Len(x) \in Nat
        /\ u \in Text /\ Len(u) = l - 1 /\ \A k \in 1 .. l - 1 : u[k] = x[k]
        /\ \A k \in 1 .. Len(x) - l : Base(x)[k] = x[l + k] /\ x[l + k] # Slash
    BY EntryParts, TextFacts
  <1>2. x[l + 1] \notin Dotted
    <2>1. 1 \in 1 .. Len(x) - l
      BY <1>1
    <2>2. Base(x)[1] = x[l + 1]
      BY <1>1, <2>1
    <2>3. QED
      BY <2>2 DEF Hidden
  <1>3. Slash \notin Dotted
    BY TreeAssumption
  <1> HIDE DEF l, u
  <1>4. ASSUME NEW k \in l .. Len(x), k >= 2, x[k - 1] = Slash
        PROVE  x[k] \notin Dotted
    <2>1. CASE k = l
      BY <1>1, <1>3, <2>1
    <2>2. CASE k = l + 1
      BY <1>2, <2>2
    <2>3. CASE k > l + 1
      <3>1. (k - 1) - l \in 1 .. Len(x) - l /\ l + ((k - 1) - l) = k - 1
        BY <1>1, <2>3
      <3>2. x[k - 1] # Slash
        BY <1>1, <3>1
      <3>3. QED
        BY <1>4, <3>2
    <2>4. QED
      BY <1>1, <2>1, <2>2, <2>3
  <1>5. Len(d) \in Nat
    BY TextFacts
  <1>9. ASSUME NEW k \in l + 1 .. Len(x)
        PROVE  x[k] # Slash
    <2>1. k - l \in 1 .. Len(x) - l /\ l + (k - l) = k
      BY <1>1
    <2>2. QED
      BY <1>1, <2>1
  <1>6. CASE u = d
    <2>1. /\ Len(x) >= Len(d) + 2 /\ x[Len(d) + 1] = Slash
          /\ \A k \in 1 .. Len(d) : x[k] = d[k]
      BY <1>1, <1>6
    <2>2. \A k \in Len(d) + 2 .. Len(x) : k \in l .. Len(x) /\ k >= 2
      BY <1>1, <1>5, <1>6
    <2>3. \A k \in Len(d) + 2 .. Len(x) : x[k - 1] = Slash => x[k] \notin Dotted
      BY <1>4, <2>2, Zenon
    <2>4. \A k \in Len(d) + 2 .. Len(x) : x[k] # Slash
      BY <1>1, <1>5, <1>6, <1>9
    <2>5. QED
      BY <1>1, <2>1, <2>3, <2>4, VisibleIs, Zenon
  <1>7. CASE Visible(u, d) /\ u \notin Untyped
    <2>1. /\ Len(u) >= Len(d) + 2 /\ u[Len(d) + 1] = Slash
          /\ \A k \in 1 .. Len(d) : u[k] = d[k]
          /\ \A k \in Len(d) + 2 .. Len(u) : u[k - 1] = Slash => u[k] \notin Dotted
          /\ \A k \in Len(d) + 2 .. Len(u) : u[k] = Slash => SubSeq(u, 1, k - 1) \notin Untyped
      BY <1>1, <1>7, VisibleIs, Zenon
    <2>2. /\ Len(x) >= Len(d) + 2 /\ x[Len(d) + 1] = Slash
          /\ \A k \in 1 .. Len(d) : x[k] = d[k]
      BY <1>1, <1>5, <2>1
    <2>3. ASSUME NEW k \in Len(d) + 2 .. Len(x), x[k - 1] = Slash
          PROVE  x[k] \notin Dotted
      <3>1. CASE k < l
        <4>1. k \in Len(d) + 2 .. Len(u) /\ k \in 1 .. l - 1 /\ k - 1 \in 1 .. l - 1
          BY <1>1, <1>5, <3>1
        <4>2. QED
          BY <1>1, <2>1, <2>3, <4>1
      <3>2. CASE k >= l
        <4>1. k \in l .. Len(x) /\ k >= 2
          BY <1>1, <1>5, <3>2
        <4>2. QED
          BY <1>4, <2>3, <4>1
      <3>3. QED
        BY <1>1, <1>5, <3>1, <3>2
    <2>4. ASSUME NEW k \in Len(d) + 2 .. Len(x), x[k] = Slash
          PROVE  SubSeq(x, 1, k - 1) \notin Untyped
      <3>1. k <= l /\ k \in Nat
        BY <1>1, <1>5, <1>9, <2>4
      <3>2. CASE k < l
        <4>1. k \in Len(d) + 2 .. Len(u) /\ k \in 1 .. l - 1 /\ k \in 1 .. Len(u) /\ k <= Len(x)
          BY <1>1, <1>5, <3>1, <3>2
        <4>2. \A i \in 1 .. k - 1 : i \in 1 .. l - 1
          BY <1>1, <4>1
        <4>3. SubSeq(u, 1, k - 1) = SubSeq(x, 1, k - 1)
          BY <1>1, <4>1, <4>2, SameStart
        <4>4. u[k] = Slash
          BY <1>1, <2>4, <4>1
        <4>5. QED
          BY <2>1, <4>1, <4>3, <4>4
      <3>3. CASE k = l
        <4>1. SubSeq(x, 1, k - 1) = u
          BY <3>3 DEF u, l, Parent
        <4>2. QED
          BY <1>7, <4>1
      <3>4. QED
        BY <1>1, <3>1, <3>2, <3>3
    <2>5. /\ \A k \in Len(d) + 2 .. Len(x) : x[k - 1] = Slash => x[k] \notin Dotted
          /\ \A k \in Len(d) + 2 .. Len(x) : x[k] = Slash => SubSeq(x, 1, k - 1) \notin Untyped
      BY <2>3, <2>4
    <2>6. QED
      BY <1>1, <2>2, <2>5, VisibleIs, Zenon
  <1>8. QED
    BY <1>6, <1>7 DEF u

Closed(S) == \A e \in S \ {<<>>} : Parent(e) \in S /\ Kind[Parent(e)] = "dir"

\* One step from a directory towards an entry that is visible from it.
LEMMA Descend ==
  ASSUME NEW S \in SUBSET DOMAIN Kind, Closed(S), NEW d \in Text,
         NEW e0 \in S, Visible(e0, d)
  PROVE  /\ d \in S /\ Kind[d] = "dir"
         /\ \E x \in S \ {<<>>} : /\ Parent(x) = d /\ ~Hidden(x)
                                  /\ x = e0 \/ (Kind[x] = "dir" /\ x \notin Untyped /\ Visible(e0, x))
  <1> DEFINE Towards(e, x) == /\ Parent(x) = d /\ ~Hidden(x)
                              /\ x = e \/ (Kind[x] = "dir" /\ x \notin Untyped /\ Visible(e, x))
             Good(e) == d \in S /\ Kind[d] = "dir" /\ \E x \in S \ {<<>>} : Towards(e, x)
             N == {n \in Nat : \A e \in S : Len(e) <= n /\ Visible(e, d) => Good(e)}
  <1>1. \A e \in S : e \in Text /\ Len(e) \in Nat
    BY FilesetAssumption DEF Paths, Text, Piece
  <1>2. Len(d) \in Nat
    BY TextFacts
  <1>3. 0 \in N
    <2>1. SUFFICES ASSUME NEW e \in S, Len(e) <= 0, Visible(e, d)
                   PROVE  FALSE
      OBVIOUS
    <2>2. QED
      BY <1>1, <1>2, <2>1, VisibleIs
  <1>4. ASSUME NEW n \in N
        PROVE  n + 1 \in N
    <2>1. SUFFICES ASSUME NEW e \in S, Len(e) <= n + 1, Visible(e, d)
                   PROVE  Good(e)
      <3> HIDE DEF Good
      <3>1. QED
        OBVIOUS
    <2> DEFINE l == LastSlash(e)
               u == Parent(e)
    <2>2. /\ e \in Text /\ Len(e) \in Nat /\ Len(e) >= Len(d) + 2
          /\ \A k \in 1 .. Len(d) : e[k] = d[k]
          /\ e[Len(d) + 1] = Slash
          /\ \A k \in Len(d) + 2 .. Len(e) : e[k - 1] = Slash => e[k] \notin Dotted
          /\ \A k \in Len(d) + 2 .. Len(e) : e[k] = Slash => SubSeq(e, 1, k - 1) \notin Untyped
      <3>1. Len(e) \in Nat /\ e \in Text
        BY <1>1, <2>1
      <3>2. QED
        BY <2>1, <3>1, VisibleIs, Zenon
    <2>3. e \in DOMAIN Kind \ {<<>>}
      BY <1>2, <2>2, EmptySeq
    <2>4. /\ l \in 1 .. Len(e) - 1 /\ e[l] = Slash
          /\ u \in Text /\ Len(u) = l - 1 /\ \A k \in 1 .. l - 1 : u[k] = e[k]
          /\ \A k \in 1 .. Len(e) - l : Base(e)[k] = e[l + k] /\ e[l + k] # Slash
      BY <2>3, EntryParts
    <2>5. u \in S /\ Kind[u] = "dir"
      BY <2>3 DEF Closed
    <2> HIDE DEF l, u, N, Good
    <2>6. Len(d) + 1 <= l
      <3>1. ASSUME l <= Len(d)
            PROVE  FALSE
        <4>1. (Len(d) + 1) - l \in 1 .. Len(e) - l /\ l + ((Len(d) + 1) - l) = Len(d) + 1
          BY <1>2, <2>2, <2>4, <3>1
        <4>2. QED
          BY <2>2, <2>4, <4>1
      <3>2. QED
        BY <1>2, <2>2, <2>4, <3>1
    <2>7. ~Hidden(e)
      <3>1. l + 1 \in Len(d) + 2 .. Len(e) /\ (l + 1) - 1 = l /\ 1 \in 1 .. Len(e) - l
        BY <1>2, <2>2, <2>4, <2>6
      <3>2. e[l + 1] \notin Dotted /\ Base(e)[1] = e[l + 1]
        BY <2>2, <2>4, <3>1
      <3>3. QED
        BY <3>2 DEF Hidden
    <2>8. CASE l = Len(d) + 1
      <3>1. u = d
        BY <1>2, <2>2, <2>4, <2>8, TextEqual
      <3>2. QED
        BY <2>3, <2>5, <2>7, <3>1 DEF Good, u
    <2>9. CASE l > Len(d) + 1
      <3>1. u[Len(d) + 1] = Slash /\ \A k \in 1 .. Len(d) : u[k] = d[k]
        BY <1>2, <2>2, <2>4, <2>9
      <3>2. Len(u) # Len(d) + 1
        <4>1. u = <<>> \/ ~EndsInSlash(u)
          BY <2>5, TreeAssumption
        <4>2. QED
          BY <1>2, <2>4, <2>9, <3>1, <4>1, EndsInSlashIs, EmptySeq
      <3>3. \A k \in Len(d) + 2 .. Len(u) : u[k - 1] = Slash => u[k] \notin Dotted
        <4>1. TAKE k \in Len(d) + 2 .. Len(u)
        <4>2. k \in Len(d) + 2 .. Len(e) /\ k \in 1 .. l - 1 /\ k - 1 \in 1 .. l - 1
          BY <1>2, <2>2, <2>4
        <4>3. QED
          BY <2>2, <2>4, <4>2
      <3>4. Len(u) >= Len(d) + 2 /\ Len(u) <= n
        BY <1>2, <2>1, <2>2, <2>4, <2>9, <3>2 DEF N
      <3>12. \A k \in Len(d) + 2 .. Len(u) : u[k] = Slash => SubSeq(u, 1, k - 1) \notin Untyped
        <4>1. TAKE k \in Len(d) + 2 .. Len(u)
        <4>2. /\ k \in Len(d) + 2 .. Len(e) /\ k \in 1 .. l - 1 /\ k \in 1 .. Len(u) /\ k <= Len(e)
              /\ \A i \in 1 .. k - 1 : i \in 1 .. l - 1
          BY <1>2, <2>2, <2>4
        <4>3. SubSeq(u, 1, k - 1) = SubSeq(e, 1, k - 1)
          BY <2>2, <2>4, <4>2, SameStart
        <4>4. QED
          BY <2>2, <2>4, <4>2, <4>3
      <3>13. u \notin Untyped
        <4>1. l \in Len(d) + 2 .. Len(e)
          BY <1>2, <2>2, <2>4, <2>9
        <4>2. SubSeq(e, 1, l - 1) = u
          BY DEF u, l, Parent
        <4>3. QED
          BY <2>2, <2>4, <4>1, <4>2
      <3>5. Visible(u, d)
        BY <2>4, <3>1, <3>3, <3>4, <3>12, VisibleIs, Zenon
      <3>6. Good(u)
        BY <2>5, <3>4, <3>5 DEF N
      <3>7. PICK x \in S \ {<<>>} : Towards(u, x)
        BY <3>6 DEF Good
      <3>8. x \in Text
        BY <1>1
      <3>9. Kind[x] = "dir" /\ x \notin Untyped /\ (u = x \/ Visible(u, x))
        BY <2>5, <3>7, <3>13
      <3>10. Visible(e, x)
        BY <2>3, <2>7, <3>8, <3>9, <3>13, VisibleChild DEF u
      <3>11. QED
        BY <3>6, <3>7, <3>9, <3>10 DEF Good
    <2>10. QED
      BY <1>2, <2>4, <2>6, <2>8, <2>9
  <1>5. N = Nat
    <2>1. N \in SUBSET Nat
      OBVIOUS
    <2> HIDE DEF N
    <2>2. QED
      BY <1>3, <1>4, <2>1, Induction
  <1>6. Good(e0)
    <2>1. Len(e0) \in N /\ Len(e0) <= Len(e0)
      <3> HIDE DEF N
      <3>1. QED
        BY <1>1, <1>5
    <2> HIDE DEF Good
    <2>2. QED
      BY <2>1
  <1>7. QED
    BY <1>6

-----------------------------------------------------------------------------
(* Joined paths                                                            *)

LEMMA JoinAssociates ==
  ASSUME NEW r \in Text, NEW p \in Text, NEW n \in Text
  PROVE  r \o (p \o n) = (r \o p) \o n
  BY ConcatAssociative DEF Text

LEMMA JoinAppend ==
  ASSUME NEW a \in Text, NEW b \in Text, NEW x \in Piece
  PROVE  a \o Append(b, x) = Append(a \o b, x)
  <1>1. <<x>> \in Text
    BY DEF Text
  <1>2. Append(b, x) = b \o <<x>> /\ Append(a \o b, x) = (a \o b) \o <<x>>
    BY JoinFacts, AppendIsConcat DEF Text
  <1>3. QED
    BY <1>1, <1>2, JoinAssociates

LEMMA JoinSlash ==
  ASSUME NEW r \in Text, NEW p \in Text
  PROVE  r \o Append(p, Slash) = Append(r \o p, Slash)
  BY SlashText, JoinAppend

LEMMA AppendEnds ==
  ASSUME NEW p \in Text
  PROVE  EndsInSlash(Append(p, Slash))
  <1> DEFINE q == Append(p, Slash)
  <1>1. q \in Text /\ Len(q) = Len(p) + 1 /\ q[Len(p) + 1] = Slash /\ Len(p) \in Nat
    BY SlashText, AppendFacts, TextFacts
  <1> HIDE DEF q
  <1>2. Len(q) # 0 /\ q[Len(q)] = Slash
    BY <1>1
  <1>3. QED
    BY <1>1, <1>2, EndsInSlashIs DEF q

-----------------------------------------------------------------------------
(* Names and arguments                                                     *)

LEMMA StripText ==
  ASSUME NEW p \in Text
  PROVE  Strip(p) \in Text
  <1> DEFINE I == {i \in 1 .. Len(p) : p[i] # Slash}
             first == SelectInSeq(p, LAMBDA t : t # Slash)
  <1>1. Len(p) \in Nat
    BY TextFacts
  <1>2. first = IF I # {} THEN Min(I) ELSE 0
    BY DEF SelectInSeq
  <1>3. first \in 0 .. Len(p)
    <2>1. CASE I = {}
      BY <1>1, <1>2, <2>1
    <2>2. CASE I # {}
      <3>1. I \in SUBSET Nat
        OBVIOUS
      <3>2. Min(I) \in I
        <4> HIDE DEF I
        <4>1. QED
          BY <2>2, <3>1, LeastMember
      <3>3. QED
        BY <1>2, <2>2, <3>2
    <2>3. QED
      BY <2>1, <2>2
  <1>4. Strip(p) = IF first = 0 THEN <<>> ELSE SubSeq(p, first, Len(p))
    BY DEF Strip
  <1> HIDE DEF first
  <1>5. CASE first = 0
    BY <1>4, <1>5, SlashText
  <1>6. CASE first # 0
    <2>1. first \in 1 .. Len(p) + 1 /\ Len(p) \in first - 1 .. Len(p)
      BY <1>1, <1>3, <1>6
    <2>2. QED
      BY <1>4, <1>6, <2>1, SubText
  <1>7. QED
    BY <1>5, <1>6

LEMMA ArgumentsText ==
  /\ Roots \cup RemoteRoots \cup FileNames \cup DirNames \subseteq Text
  /\ DOMAIN Kind \subseteq Text
  BY FilesetAssumption DEF Paths, Text, Piece

LEMMA WithSlashFacts ==
  ASSUME NEW p \in Text
  PROVE  WithSlash(p) \in Text /\ EndsInSlash(WithSlash(p))
  <1>1. CASE EndsInSlash(p)
    BY <1>1 DEF WithSlash
  <1>2. CASE ~EndsInSlash(p)
    <2> DEFINE q == Append(p, Slash)
    <2>1. WithSlash(p) = q
      BY <1>2 DEF WithSlash
    <2>2. q \in Text /\ Len(q) = Len(p) + 1 /\ q[Len(p) + 1] = Slash /\ Len(p) \in Nat
      BY SlashText, AppendFacts, TextFacts
    <2> HIDE DEF q
    <2>3. EndsInSlash(q)
      BY <2>2, EndsInSlashIs
    <2>4. QED
      BY <2>1, <2>2, <2>3
  <1>3. QED
    BY <1>1, <1>2

LEMMA UnderText ==
  ASSUME NEW p \in Text, NEW names \in SUBSET Text
  PROVE  Under(p, names) \in SUBSET Text
  BY JoinFacts DEF Under

LEMMA AsDirsText ==
  ASSUME NEW paths \in SUBSET Text
  PROVE  AsDirs(paths) \in SUBSET Text
  <1>1. \A p \in paths : Append(p, Slash) \in Text
    BY SlashText, AppendFacts
  <1>2. QED
    BY <1>1 DEF AsDirs

LEMMA ImageFinite ==
  ASSUME NEW S, IsFiniteSet(S), NEW f
  PROVE  IsFiniteSet({f[x] : x \in S})
  <1> DEFINE T == {f[x] : x \in S}
             h == [x \in S |-> f[x]]
  <1>1. h \in Surjection(S, T)
    BY DEF Surjection
  <1> HIDE DEF h, T
  <1>2. IsFiniteSet(T)
    BY <1>1, FS_Surjection
  <1>3. QED
    BY <1>2 DEF T

LEMMA UnderFinite ==
  ASSUME NEW p, NEW names, IsFiniteSet(names)
  PROVE  IsFiniteSet(Under(p, names))
  <1> DEFINE f == [n \in names |-> p \o n]
  <1>1. IsFiniteSet({f[n] : n \in names})
    <2> HIDE DEF f
    <2>1. QED
      BY ImageFinite
  <1>2. {f[n] : n \in names} = Under(p, names)
    BY DEF Under
  <1>3. QED
    BY <1>1, <1>2

-----------------------------------------------------------------------------
(* Roots and names                                                         *)

LEMMA JoinNothing ==
  ASSUME NEW a \in Text
  PROVE  a \o <<>> = a /\ <<>> \o a = a
  BY DEF Text

\* The second part of a path leads on from wherever the first part led.
LEMMA LeadsOn ==
  ASSUME NEW a \in Text, NEW b \in Text, NEW c \in Text, UpTo(a \o b)[Len(a)] = c
  PROVE  Canonical(a \o b) = c \o Canonical(b)
  <1> DEFINE p == a \o b
             m == Len(a)
             S == {i \in Nat : i <= Len(b) => UpTo(p)[m + i] = c \o UpTo(b)[i]}
  <1>1. /\ p \in Text /\ Len(p) = m + Len(b) /\ m \in Nat /\ Len(b) \in Nat
        /\ \A k \in 1 .. Len(b) : p[m + k] = b[k]
    BY JoinFacts, TextFacts
  <1>2. UpTo(p)[m] = c
    OBVIOUS
  <1> HIDE DEF p, m
  <1>3. 0 \in S
    <2>1. UpTo(b)[0] = <<>> /\ m + 0 = m
      BY <1>1, UpToFacts
    <2>2. QED
      BY <1>2, <2>1, JoinNothing
  <1>4. ASSUME NEW i \in S
        PROVE  i + 1 \in S
    <2> DEFINE j == i + 1
               x == m + (i + 1)
    <2>1. SUFFICES ASSUME j <= Len(b)
                   PROVE  UpTo(p)[x] = c \o UpTo(b)[j]
      OBVIOUS
    <2>2. /\ x \in 1 .. Len(p) /\ x - 1 = m + i /\ j \in 1 .. Len(b) /\ i <= Len(b)
          /\ j - 1 = i /\ i \in 0 .. Len(b) /\ (x = Len(p) <=> j = Len(b))
      <3>1. i \in Nat
        OBVIOUS
      <3> HIDE DEF S
      <3>2. QED
        BY <1>1, <2>1, <3>1
    <2>3. UpTo(p)[m + i] = c \o UpTo(b)[i]
      BY <2>2, Zenon
    <2>4. p[x] = b[j]
      BY <1>1, <2>2
    <2>5. x = Len(p) \/ p[x + 1] = b[j + 1]
      <3>1. CASE j = Len(b)
        BY <2>2, <3>1
      <3>2. CASE j # Len(b)
        <4>1. j + 1 \in 1 .. Len(b) /\ x + 1 = m + (j + 1)
          BY <1>1, <2>2, <3>2
        <4>2. p[m + (j + 1)] = b[j + 1]
          BY <1>1, <4>1
        <4>3. QED
          BY <4>1, <4>2, Zenon
      <3>3. QED
        BY <3>1, <3>2
    <2> HIDE DEF x, j, S
    <2>6. Dropped(p, x) <=> Dropped(b, j)
      BY <2>2, <2>4, <2>5 DEF Dropped
    <2>7. UpTo(b)[i] \in Text /\ b[j] \in Piece
      BY <2>2, UpToFacts, TextFacts
    <2>8. CASE Dropped(b, j)
      <3>1. UpTo(p)[x] = UpTo(p)[x - 1] /\ UpTo(b)[j] = UpTo(b)[j - 1]
        BY <1>1, <2>2, <2>6, <2>8, UpToFacts
      <3>2. QED
        BY <2>2, <2>3, <3>1
    <2>9. CASE ~Dropped(b, j)
      <3>1. UpTo(p)[x] = Append(UpTo(p)[x - 1], b[j]) /\ UpTo(b)[j] = Append(UpTo(b)[j - 1], b[j])
        <4>1. UpTo(p)[x] = Append(UpTo(p)[x - 1], p[x])
          BY <1>1, <2>2, <2>6, <2>9, UpToFacts
        <4>2. UpTo(b)[j] = Append(UpTo(b)[j - 1], b[j])
          BY <2>2, <2>9, UpToFacts
        <4>3. QED
          BY <2>4, <4>1, <4>2
      <3>2. c \o Append(UpTo(b)[i], b[j]) = Append(c \o UpTo(b)[i], b[j])
        BY <2>7, JoinAppend
      <3>3. QED
        BY <2>2, <2>3, <3>1, <3>2
    <2>10. QED
      BY <2>8, <2>9
  <1>5. S = Nat
    <2>1. S \in SUBSET Nat
      OBVIOUS
    <2> HIDE DEF S
    <2>2. QED
      BY <1>3, <1>4, <2>1, Induction
  <1>6. UpTo(p)[m + Len(b)] = c \o UpTo(b)[Len(b)]
    <2>1. Len(b) \in S /\ Len(b) <= Len(b)
      <3> HIDE DEF S
      <3>1. QED
        BY <1>1, <1>5
    <2>2. QED
      BY <2>1, Zenon
  <1>7. QED
    BY <1>1, <1>6, CanonicalIs DEF p

\* What begins with a slash leads on from where the path before it leads.
LEMMA SlashLeadsOn ==
  ASSUME NEW a \in Text, NEW b \in Text, Len(b) # 0, b[1] = Slash
  PROVE  Canonical(a \o b) = Canonical(a) \o Canonical(b)
  <1> DEFINE p == a \o b
             m == Len(a)
  <1>1. /\ p \in Text /\ Len(p) = m + Len(b) /\ m \in Nat /\ Len(b) \in Nat
        /\ \A k \in 1 .. m : p[k] = a[k]
        /\ \A k \in 1 .. Len(b) : p[m + k] = b[k]
    BY JoinFacts, TextFacts
  <1> HIDE DEF p
  <1>2. p[m + 1] = Slash
    <2>1. 1 \in 1 .. Len(b)
      BY <1>1
    <2>2. QED
      BY <1>1, <2>1
  <1>3. ASSUME NEW k \in 1 .. m
        PROVE  p[k] = a[k] /\ (Dropped(p, k) <=> Dropped(a, k))
    <2>1. CASE k = m
      BY <1>1, <1>2, <2>1 DEF Dropped
    <2>2. CASE k # m
      <3>1. k + 1 \in 1 .. m /\ k # Len(p)
        BY <1>1, <2>2
      <3>2. QED
        BY <1>1, <2>2, <3>1 DEF Dropped
    <2>3. QED
      BY <2>1, <2>2
  <1>4. UpTo(p)[m] = UpTo(a)[m]
    <2>1. m <= Len(p) /\ m <= Len(a) /\ m \in Nat
      BY <1>1
    <2> HIDE DEF m
    <2>2. QED
      BY <1>1, <1>3, <2>1, PrefixAgrees
  <1>5. UpTo(p)[Len(a)] = Canonical(a) /\ Canonical(a) \in Text
    BY <1>4, CanonicalIs
  <1>6. QED
    BY <1>5, LeadsOn DEF p

LEMMA OneSlash ==
  ASSUME NEW n \in Text
  PROVE  /\ <<Slash>> \o n \in Text /\ Len(<<Slash>> \o n) = 1 + Len(n)
         /\ (<<Slash>> \o n)[1] = Slash
         /\ \A k \in 1 .. Len(n) : (<<Slash>> \o n)[1 + k] = n[k]
  <1> DEFINE one == <<Slash>>
  <1>1. one \in Text /\ Len(one) = 1 /\ one[1] = Slash /\ 1 \in 1 .. Len(one)
    BY SlashText
  <1> HIDE DEF one
  <1>2. /\ one \o n \in Text /\ Len(one \o n) = Len(one) + Len(n)
        /\ \A k \in 1 .. Len(one) : (one \o n)[k] = one[k]
        /\ \A k \in 1 .. Len(n) : (one \o n)[Len(one) + k] = n[k]
    BY <1>1, JoinFacts
  <1>3. (one \o n)[1] = Slash
    BY <1>1, <1>2
  <1>4. \A k \in 1 .. Len(n) : (one \o n)[1 + k] = n[k]
    BY <1>1, <1>2
  <1>5. QED
    BY <1>1, <1>2, <1>3, <1>4 DEF one

\* A path without the slash it ends in.
LEMMA WithoutSlash ==
  ASSUME NEW r \in Text, EndsInSlash(r)
  PROVE  LET s == SubSeq(r, 1, Len(r) - 1)
         IN  s \in Text /\ r = Append(s, Slash)
  <1> DEFINE s == SubSeq(r, 1, Len(r) - 1)
  <1>1. Len(r) \in Nat \ {0} /\ r[Len(r)] = Slash
    BY EndsInSlashIs, TextFacts
  <1>2. /\ s \in Text /\ Len(s) = Len(r) - 1 /\ \A k \in 1 .. Len(r) - 1 : s[k] = r[k]
    <2>1. 1 \in 1 .. Len(r) + 1 /\ Len(r) - 1 \in 1 - 1 .. Len(r) /\ (Len(r) - 1) - 1 + 1 = Len(r) - 1
      BY <1>1
    <2>2. /\ s \in Text /\ Len(s) = Len(r) - 1
          /\ \A k \in 1 .. Len(r) - 1 : s[k] = r[1 + k - 1]
      BY <2>1, SubText
    <2>3. QED
      BY <2>2
  <1> HIDE DEF s
  <1>3. r = Append(s, Slash)
    <2> DEFINE t == Append(s, Slash)
    <2>1. /\ t \in Text /\ Len(t) = Len(s) + 1
          /\ \A k \in 1 .. Len(s) : t[k] = s[k]
          /\ t[Len(s) + 1] = Slash
      BY <1>2, SlashText, AppendFacts
    <2> HIDE DEF t
    <2>2. Len(t) = Len(r) /\ \A k \in 1 .. Len(r) : k = Len(s) + 1 \/ k \in 1 .. Len(s)
      BY <1>1, <1>2, <2>1
    <2>3. \A k \in 1 .. Len(r) : t[k] = r[k]
      BY <1>1, <1>2, <2>1, <2>2
    <2>4. QED
      BY <2>1, <2>2, <2>3, TextEqual DEF t
  <1>4. QED
    BY <1>2, <1>3 DEF s

\* The slash that a root ends in may as well begin the name.
LEMMA RootLeadsOn ==
  ASSUME NEW r \in Text, EndsInSlash(r), NEW n \in Text
  PROVE  /\ <<Slash>> \o n \in Text
         /\ Canonical(r \o n) = Canonical(r) \o Canonical(<<Slash>> \o n)
  <1> DEFINE s == SubSeq(r, 1, Len(r) - 1)
             b == <<Slash>> \o n
  <1>2. s \in Text
    BY WithoutSlash
  <1>3. r = Append(s, Slash)
    BY WithoutSlash
  <1> HIDE DEF s
  <1>4. Canonical(r) = Canonical(s)
    BY <1>2, <1>3, FinalSlash
  <1>5. r \o n = s \o b
    <2>1. r = s \o <<Slash>>
      BY <1>2, <1>3, SlashText, AppendIsConcat DEF Text
    <2>2. QED
      BY <1>2, <2>1, SlashText, JoinAssociates
  <1>6. b \in Text /\ Len(b) # 0 /\ b[1] = Slash
    <2>1. Len(n) \in Nat /\ Len(b) = 1 + Len(n)
      BY OneSlash, TextFacts
    <2>2. Len(b) # 0
      <3> HIDE DEF b
      <3>1. QED
        BY <2>1
    <2>3. QED
      BY <2>2, OneSlash
  <1> HIDE DEF b
  <1>7. Canonical(s \o b) = Canonical(s) \o Canonical(b)
    BY <1>2, <1>6, SlashLeadsOn
  <1>8. QED
    BY <1>4, <1>5, <1>6, <1>7 DEF b

\* The slash before a name is kept, unless the name begins with one.
LEMMA SlashBeforeName ==
  ASSUME NEW n \in Text, Relative(n)
  PROVE  Canonical(<<Slash>> \o n) = IF n = <<>> THEN <<>> ELSE <<Slash>> \o Canonical(n)
  <1> DEFINE p == <<Slash>> \o n
  <1>1. /\ p \in Text /\ Len(p) = 1 + Len(n) /\ Len(n) \in Nat /\ p[1] = Slash
        /\ \A k \in 1 .. Len(n) : p[1 + k] = n[k]
    BY OneSlash, TextFacts
  <1>2. Len(<<Slash>>) = 1 /\ <<Slash>> \in Text /\ Append(<<>>, Slash) = <<Slash>>
    BY SlashText
  <1> HIDE DEF p
  <1>3. 1 \in 1 .. Len(p) /\ 1 - 1 = 0 /\ UpTo(p)[0] = <<>>
    BY <1>1, UpToFacts
  <1>4. CASE n = <<>>
    <2>1. Len(n) = 0
      BY <1>4
    <2>2. Dropped(p, 1)
      BY <1>1, <2>1 DEF Dropped
    <2>3. UpTo(p)[1] = <<>>
      BY <1>1, <1>3, <2>2, UpToFacts
    <2>4. Len(p) = 1
      BY <1>1, <2>1
    <2>5. Canonical(p) = <<>>
      BY <1>1, <2>3, <2>4, CanonicalIs
    <2>6. QED
      BY <1>4, <2>5 DEF p
  <1>5. CASE n # <<>>
    <2>1. Len(n) # 0
      BY <1>5, EmptySeq DEF Text
    <2>2. p[1 + 1] = n[1] /\ n[1] # Slash
      <3>1. 1 \in 1 .. Len(n)
        BY <1>1, <2>1
      <3>2. QED
        BY <1>1, <1>5, <3>1 DEF Relative
    <2>3. ~Dropped(p, 1)
      BY <1>1, <2>1, <2>2 DEF Dropped
    <2>4. UpTo(p)[1] = Append(UpTo(p)[0], p[1])
      <3>1. \A k \in 1 .. Len(p) : ~Dropped(p, k) => UpTo(p)[k] = Append(UpTo(p)[k - 1], p[k])
        BY <1>1, UpToFacts
      <3>2. QED
        BY <1>3, <2>3, <3>1
    <2>5. UpTo(p)[1] = <<Slash>>
      BY <1>1, <1>2, <1>3, <2>4
    <2>6. UpTo(<<Slash>> \o n)[Len(<<Slash>>)] = <<Slash>>
      BY <1>2, <2>5 DEF p
    <2>7. Canonical(<<Slash>> \o n) = <<Slash>> \o Canonical(n)
      BY <1>2, <2>6, LeadsOn
    <2>8. QED
      BY <1>5, <2>7
  <1>6. QED
    BY <1>4, <1>5

LEMMA SameBehind ==
  ASSUME NEW c \in Text, NEW u \in Text, NEW v \in Text, c \o u = c \o v
  PROVE  u = v
  <1>1. /\ Len(c \o u) = Len(c) + Len(u) /\ \A k \in 1 .. Len(u) : (c \o u)[Len(c) + k] = u[k]
        /\ Len(c \o v) = Len(c) + Len(v) /\ \A k \in 1 .. Len(v) : (c \o v)[Len(c) + k] = v[k]
    BY JoinFacts
  <1>2. Len(c) \in Nat /\ Len(u) \in Nat /\ Len(v) \in Nat
    BY TextFacts
  <1>3. Len(u) = Len(v)
    BY <1>1, <1>2
  <1>4. \A k \in 1 .. Len(u) : u[k] = v[k]
    BY <1>1, <1>3
  <1>5. QED
    BY <1>3, <1>4, TextEqual

Plain(n) == Relative(n) /\ Canonical(n) = n

\* Two names that are spelled plainly lead to two entries.
LEMMA PlainNamesDiffer ==
  ASSUME NEW r \in Text, EndsInSlash(r), NEW n \in Text, Plain(n), NEW m \in Text, Plain(m),
         Canonical(r \o n) = Canonical(r \o m)
  PROVE  n = m
  <1> DEFINE N(x) == Canonical(<<Slash>> \o x)
  <1>1. N(n) \in Text /\ N(m) \in Text /\ Canonical(r) \in Text
    BY OneSlash, CanonicalIs
  <1>2. Canonical(r) \o N(n) = Canonical(r) \o N(m)
    <2>1. Canonical(r \o n) = Canonical(r) \o N(n)
      BY RootLeadsOn
    <2>2. Canonical(r \o m) = Canonical(r) \o N(m)
      BY RootLeadsOn
    <2>3. QED
      BY <2>1, <2>2
  <1> HIDE DEF N
  <1>3. N(n) = N(m)
    BY <1>1, <1>2, SameBehind
  <1>4. /\ N(n) = IF n = <<>> THEN <<>> ELSE <<Slash>> \o n
        /\ N(m) = IF m = <<>> THEN <<>> ELSE <<Slash>> \o m
    BY SlashBeforeName DEF N, Plain
  <1>5. Len(<<Slash>> \o n) # 0 /\ Len(<<Slash>> \o m) # 0
    BY OneSlash, TextFacts
  <1>6. n = <<>> <=> m = <<>>
    <2>1. Len(<<>>) = 0
      OBVIOUS
    <2>2. QED
      BY <1>3, <1>4, <1>5, <2>1
  <1>7. QED
    BY <1>3, <1>4, <1>6, SlashText, SameBehind

\* A name without a slash is plain.
LEMMA PieceIsPlain ==
  ASSUME NEW b \in Text, Len(b) # 0, \A i \in 1 .. Len(b) : b[i] # Slash
  PROVE  Plain(b) /\ b # <<>>
  <1> DEFINE q == <<Slash>>
             e == Canonical(q \o b)
  <1>1. b # <<>> /\ Relative(b) /\ Len(b) \in Nat
    <2>1. Len(b) \in Nat /\ 1 \in 1 .. Len(b)
      BY TextFacts
    <2>2. QED
      BY <2>1 DEF Relative
  <1>2. q \in Text /\ EndsInSlash(q) /\ Canonical(q) = <<>>
    <2>1. q \in Text /\ q = Append(<<>>, Slash)
      BY SlashText
    <2>2. Canonical(<<>>) = <<>>
      BY SlashText, CanonicalIs, UpToFacts
    <2>3. QED
      BY <2>1, <2>2, SlashText, AppendEnds, FinalSlash
  <1>3. /\ e \in Text /\ Len(e) = 0 + 1 + Len(b) /\ e[0 + 1] = Slash
        /\ \A k \in 1 .. Len(b) : e[0 + 1 + k] = b[k]
    <2>1. Len(<<>>) = 0
      OBVIOUS
    <2> HIDE DEF q
    <2>2. QED
      BY <1>2, <2>1, Joined
  <1>4. e = q \o b
    <2>1. /\ q \o b \in Text /\ Len(q \o b) = 1 + Len(b) /\ (q \o b)[1] = Slash
          /\ \A k \in 1 .. Len(b) : (q \o b)[1 + k] = b[k]
      BY OneSlash
    <2> DEFINE t == q \o b
    <2> HIDE DEF e, t
    <2>2. Len(e) = Len(t) /\ Len(t) = 1 + Len(b) /\ e[1] = Slash /\ t[1] = Slash
      BY <1>1, <1>3, <2>1 DEF t
    <2>3. ASSUME NEW k \in 1 .. Len(e)
          PROVE  e[k] = t[k]
      <3>1. CASE k = 1
        BY <2>2, <3>1
      <3>2. CASE k # 1
        <4>1. PICK i \in 1 .. Len(b) : k = 1 + i
          <5>1. k - 1 \in 1 .. Len(b) /\ k = 1 + (k - 1)
            BY <1>1, <2>2, <3>2
          <5>2. QED
            BY <5>1
        <4>2. e[0 + 1 + i] = b[i] /\ t[1 + i] = b[i] /\ 0 + 1 + i = 1 + i
          BY <1>3, <2>1 DEF t
        <4>3. QED
          BY <4>1, <4>2
      <3>3. QED
        BY <3>1, <3>2
    <2>4. QED
      BY <1>3, <2>1, <2>2, <2>3, TextEqual DEF t
  <1>5. e = q \o Canonical(b)
    BY <1>1, SlashBeforeName
  <1>6. Canonical(b) \in Text
    BY CanonicalIs
  <1> HIDE DEF q, e
  <1>7. Canonical(b) = b
    BY <1>2, <1>4, <1>5, <1>6, SameBehind
  <1>8. QED
    BY <1>1, <1>7 DEF Plain

\* So is one behind a directory that is spelled plainly.
LEMMA PlainBelow ==
  ASSUME NEW p \in Text, Relative(p), NEW b \in Text, Len(b) # 0, \A i \in 1 .. Len(b) : b[i] # Slash
  PROVE  /\ Relative(p \o b)
         /\ Relative(Append(p \o b, Slash))
         /\ PlainDirectory(p) => /\ Canonical(p \o b) = p \o b
                                 /\ PlainDirectory(Append(p \o b, Slash))
  <1>1. Plain(b) /\ b # <<>>
    BY PieceIsPlain
  <1>2. p \o b \in Text
    BY JoinFacts
  <1>3. Relative(p \o b) /\ Len(p \o b) # 0
    <2>1. CASE p = <<>>
      BY <1>1, <2>1, JoinNothing DEF Plain
    <2>2. CASE p # <<>>
      <3>1. Len(p) \in Nat \ {0} /\ Len(b) \in Nat
        BY <2>2, EmptySeq, TextFacts DEF Text
      <3>2. (p \o b)[1] = p[1] /\ Len(p \o b) = Len(p) + Len(b)
        <4>1. 1 \in 1 .. Len(p)
          BY <3>1
        <4>2. QED
          BY <4>1, JoinFacts
      <3>3. QED
        BY <2>2, <3>1, <3>2 DEF Relative
    <2>3. QED
      BY <2>1, <2>2
  <1>4. Relative(Append(p \o b, Slash))
    <2>1. p \o b # <<>> /\ 1 \in 1 .. Len(p \o b)
      <3>1. Len(p \o b) \in Nat
        BY <1>2, TextFacts
      <3>2. QED
        BY <1>3, <3>1
    <2>2. Append(p \o b, Slash)[1] = (p \o b)[1]
      BY <1>2, <2>1, SlashText, AppendFacts
    <2>3. QED
      BY <1>3, <2>1, <2>2 DEF Relative
  <1>5. ASSUME PlainDirectory(p)
        PROVE  Canonical(p \o b) = p \o b
    <2>1. CASE p = <<>>
      BY <1>1, <2>1, JoinNothing DEF Plain
    <2>2. CASE p # <<>>
      <3>1. p = Append(Canonical(p), Slash) /\ Canonical(p) \in Text
        BY <1>5, <2>2, CanonicalIs DEF PlainDirectory
      <3>2. EndsInSlash(p)
        BY <3>1, AppendEnds
      <3>3. Canonical(<<Slash>> \o b) = <<Slash>> \o b
        BY <1>1, SlashBeforeName DEF Plain
      <3>4. Canonical(p \o b) = Canonical(p) \o (<<Slash>> \o b)
        BY <3>2, <3>3, RootLeadsOn
      <3>5. Canonical(p) \o (<<Slash>> \o b) = (Canonical(p) \o <<Slash>>) \o b
        BY <3>1, SlashText, JoinAssociates
      <3>6. Canonical(p) \o <<Slash>> = Append(Canonical(p), Slash)
        BY <3>1, SlashText, AppendIsConcat DEF Text
      <3>7. QED
        BY <3>1, <3>4, <3>5, <3>6
    <2>3. QED
      BY <2>1, <2>2
  <1>6. ASSUME PlainDirectory(p)
        PROVE  PlainDirectory(Append(p \o b, Slash))
    BY <1>2, <1>5, <1>6, FinalSlash DEF PlainDirectory
  <1>7. QED
    BY <1>3, <1>4, <1>5, <1>6

LEMMA WithinBehind ==
  ASSUME NEW c \in Text, NEW u \in Text, NEW v \in Text
  PROVE  Within(c \o u, c \o v) <=> Within(u, v)
  <1> DEFINE n == Len(c)
             e == c \o u
             d == c \o v
  <1>1. /\ e \in Text /\ Len(e) = n + Len(u)
        /\ \A k \in 1 .. n : e[k] = c[k]
        /\ \A k \in 1 .. Len(u) : e[n + k] = u[k]
        /\ d \in Text /\ Len(d) = n + Len(v)
        /\ \A k \in 1 .. n : d[k] = c[k]
        /\ \A k \in 1 .. Len(v) : d[n + k] = v[k]
    BY JoinFacts
  <1>2. n \in Nat /\ Len(u) \in Nat /\ Len(v) \in Nat
    BY TextFacts
  <1> HIDE DEF n, e, d
  <1>3. Within(e, d) <=> /\ Len(e) >= Len(d) + 2
                         /\ \A k \in 1 .. Len(d) : e[k] = d[k]
                         /\ e[Len(d) + 1] = Slash
    BY <1>1, WithinIs
  <1>4. Within(u, v) <=> /\ Len(u) >= Len(v) + 2
                         /\ \A k \in 1 .. Len(v) : u[k] = v[k]
                         /\ u[Len(v) + 1] = Slash
    BY WithinIs
  <1>5. ASSUME Len(u) >= Len(v) + 2
        PROVE  /\ Len(e) >= Len(d) + 2
               /\ e[Len(d) + 1] = u[Len(v) + 1]
               /\ (\A k \in 1 .. Len(d) : e[k] = d[k]) <=> (\A k \in 1 .. Len(v) : u[k] = v[k])
    <2>1. Len(e) >= Len(d) + 2
      BY <1>1, <1>2, <1>5
    <2>2. e[Len(d) + 1] = u[Len(v) + 1]
      <3>1. Len(v) + 1 \in 1 .. Len(u) /\ n + (Len(v) + 1) = Len(d) + 1
        BY <1>1, <1>2, <1>5
      <3>2. e[n + (Len(v) + 1)] = u[Len(v) + 1]
        BY <1>1, <3>1
      <3>3. QED
        BY <3>1, <3>2
    <2>3. ASSUME \A k \in 1 .. Len(d) : e[k] = d[k], NEW k \in 1 .. Len(v)
          PROVE  u[k] = v[k]
      <3>1. n + k \in 1 .. Len(d) /\ k \in 1 .. Len(u)
        BY <1>1, <1>2, <1>5
      <3>2. e[n + k] = d[n + k] /\ e[n + k] = u[k] /\ d[n + k] = v[k]
        BY <1>1, <2>3, <3>1
      <3>3. QED
        BY <3>2
    <2>4. ASSUME \A k \in 1 .. Len(v) : u[k] = v[k], NEW k \in 1 .. Len(d)
          PROVE  e[k] = d[k]
      <3>1. CASE k <= n
        BY <1>1, <1>2, <3>1
      <3>2. CASE k > n
        <4>1. PICK i \in 1 .. Len(v) : k = n + i
          <5>1. k - n \in 1 .. Len(v) /\ k = n + (k - n)
            BY <1>1, <1>2, <3>2
          <5>2. QED
            BY <5>1
        <4>2. i \in 1 .. Len(u)
          BY <1>2, <1>5
        <4>3. e[n + i] = u[i] /\ d[n + i] = v[i]
          BY <1>1, <4>2
        <4>4. QED
          BY <2>4, <4>1, <4>3
      <3>3. QED
        BY <1>2, <3>1, <3>2
    <2>5. QED
      BY <2>1, <2>2, <2>3, <2>4
  <1>6. Len(e) >= Len(d) + 2 <=> Len(u) >= Len(v) + 2
    BY <1>1, <1>2
  <1>7. QED
    BY <1>3, <1>4, <1>5, <1>6 DEF e, d

\* Whether one file lies in another does not depend on the root.
LEMMA WithinRoot ==
  ASSUME NEW r \in Text, EndsInSlash(r), NEW s \in Text, EndsInSlash(s),
         NEW n \in Text, NEW m \in Text, Within(Canonical(r \o n), Canonical(r \o m))
  PROVE  Within(Canonical(s \o n), Canonical(s \o m))
  <1> DEFINE N(x) == Canonical(<<Slash>> \o x)
  <1>1. /\ N(n) \in Text /\ N(m) \in Text /\ Canonical(r) \in Text /\ Canonical(s) \in Text
    BY OneSlash, CanonicalIs
  <1>2. /\ Canonical(r \o n) = Canonical(r) \o N(n) /\ Canonical(r \o m) = Canonical(r) \o N(m)
        /\ Canonical(s \o n) = Canonical(s) \o N(n) /\ Canonical(s \o m) = Canonical(s) \o N(m)
    BY RootLeadsOn
  <1> HIDE DEF N
  <1>3. QED
    BY <1>1, <1>2, WithinBehind

-----------------------------------------------------------------------------
(* The way to an entry                                                     *)

\* Where a path that begins with a slash leads begins with one.
LEMMA StartsWithSlash ==
  ASSUME NEW b \in Text, Len(b) # 0, b[1] = Slash, b[Len(b)] # Slash
  PROVE  Canonical(b)[1] = Slash /\ Len(Canonical(b)) >= 2
  <1> DEFINE u == UpTo(b)
             n == Len(b)
             Good(m) == IF u[m] = <<>> THEN m = 0 \/ Dropped(b, m) ELSE u[m][1] = Slash
             N == {m \in Nat : m <= n => Good(m)}
  <1>1. n \in Nat \ {0}
    BY TextFacts
  <1>2. \A m \in 0 .. n : u[m] \in Text
    BY UpToFacts
  <1>3. u[0] = <<>>
    BY UpToFacts
  <1>4. \A k \in 1 .. n : /\ Dropped(b, k) => u[k] = u[k - 1]
                          /\ ~Dropped(b, k) => u[k] = Append(u[k - 1], b[k])
                          /\ b[k] \in Piece
    BY UpToFacts, TextFacts
  <1> HIDE DEF u
  <1>5. 0 \in N
    BY <1>3
  <1>6. ASSUME NEW m \in N
        PROVE  m + 1 \in N
    <2>1. SUFFICES ASSUME m + 1 <= n
                   PROVE  Good(m + 1)
      OBVIOUS
    <2> DEFINE k == m + 1
    <2>2. m \in Nat /\ Good(m)
      BY <1>1, <2>1
    <2> HIDE DEF N
    <2>3. k \in 1 .. n /\ k - 1 = m /\ m \in 0 .. n /\ k # 0
      BY <1>1, <2>1, <2>2
    <2>4. m # 0 => m # n
      BY <2>1, <1>1, <2>2
    <2>5. u[m] = <<>> => b[k] = Slash
      <3>1. CASE m = 0
        BY <3>1
      <3>2. CASE m # 0
        BY <2>2, <2>4, <3>2 DEF Dropped
      <3>3. QED
        BY <3>1, <3>2
    <2> HIDE DEF k, n
    <2>6. u[m] \in Text /\ b[k] \in Piece
      BY <1>2, <1>4, <2>3
    <2>7. CASE Dropped(b, k)
      <3>1. u[k] = u[m]
        BY <1>4, <2>3, <2>7
      <3>2. QED
        BY <2>2, <2>7, <3>1 DEF k
    <2>8. CASE ~Dropped(b, k)
      <3>1. u[k] = Append(u[m], b[k])
        BY <1>4, <2>3, <2>8
      <3>2. CASE u[m] = <<>>
        <4>1. u[k] = <<Slash>>
          BY <2>5, <3>1, <3>2, SlashText
        <4>2. <<Slash>> # <<>> /\ <<Slash>>[1] = Slash
          OBVIOUS
        <4>3. QED
          BY <4>1, <4>2 DEF k
      <3>3. CASE u[m] # <<>>
        <4>1. Len(u[m]) \in Nat /\ Len(u[m]) # 0
          BY <2>6, <3>3, EmptySeq, TextFacts DEF Text
        <4>2. 1 \in 1 .. Len(u[m])
          BY <4>1
        <4>3. u[k][1] = u[m][1] /\ Len(u[k]) = Len(u[m]) + 1
          BY <2>6, <3>1, <4>2, AppendFacts
        <4>4. u[k] # <<>>
          <5>1. Len(u[k]) # 0
            BY <4>1, <4>3
          <5>2. QED
            BY <5>1
        <4>5. QED
          BY <2>2, <3>3, <4>3, <4>4 DEF k
      <3>4. QED
        BY <3>2, <3>3
    <2>9. QED
      BY <2>7, <2>8
  <1>7. N = Nat
    <2>1. N \in SUBSET Nat
      OBVIOUS
    <2> HIDE DEF N
    <2>2. QED
      BY <1>5, <1>6, <2>1, Induction
  <1>8. Good(n - 1)
    <2>1. n - 1 \in N /\ n - 1 <= n
      BY <1>1, <1>7
    <2>2. QED
      BY <2>1
  <1>9. Canonical(b) = Append(u[n - 1], b[n])
    <2>1. n \in 1 .. n /\ ~Dropped(b, n)
      BY <1>1 DEF Dropped
    <2>2. QED
      BY <1>4, <2>1, CanonicalIs DEF u
  <1>10. u[n - 1] \in Text /\ b[n] \in Piece
    BY <1>1, <1>2, <1>4
  <1>11. u[n - 1] # <<>>
    <2>1. n - 1 # 0
      <3>1. n # 1
        BY Zenon
      <3>2. QED
        BY <1>1, <3>1
    <2>2. ~Dropped(b, n - 1)
      <3>1. (n - 1) + 1 = n /\ n - 1 # n
        BY <1>1
      <3>2. QED
        BY <3>1 DEF Dropped
    <2>3. QED
      BY <1>8, <2>1, <2>2
  <1> DEFINE v == u[n - 1]
  <1>12. v \in Text /\ v # <<>> /\ v[1] = Slash /\ Canonical(b) = Append(v, b[n])
    BY <1>8, <1>9, <1>10, <1>11
  <1> HIDE DEF v, n
  <1>13. Len(v) \in Nat /\ Len(v) # 0
    BY <1>12, EmptySeq, TextFacts DEF Text
  <1>14. 1 \in 1 .. Len(v)
    BY <1>13
  <1>15. Append(v, b[n])[1] = v[1] /\ Len(Append(v, b[n])) = Len(v) + 1
    BY <1>10, <1>12, <1>14, AppendFacts
  <1>16. QED
    BY <1>12, <1>13, <1>15

\* A path in two parts.
LEMMA CutAt ==
  ASSUME NEW p \in Text, NEW k \in 1 .. Len(p)
  PROVE  LET s == SubSeq(p, 1, k - 1)
             b == SubSeq(p, k, Len(p))
         IN  /\ s \in Text /\ b \in Text /\ p = s \o b
             /\ Len(s) = k - 1 /\ Len(b) = Len(p) - k + 1
             /\ \A i \in 1 .. k - 1 : s[i] = p[i]
             /\ \A i \in 1 .. Len(p) - k + 1 : b[i] = p[k + i - 1]
             /\ b[1] = p[k] /\ b[Len(b)] = p[Len(p)]
  <1> DEFINE s == SubSeq(p, 1, k - 1)
             b == SubSeq(p, k, Len(p))
  <1>1. Len(p) \in Nat /\ k \in Nat
    BY TextFacts
  <1>2. /\ 1 \in 1 .. Len(p) + 1 /\ k - 1 \in 1 - 1 .. Len(p) /\ k - 1 - 1 + 1 = k - 1
        /\ k \in 1 .. Len(p) + 1 /\ Len(p) \in k - 1 .. Len(p)
    BY <1>1
  <1>3. s \in Text /\ Len(s) = k - 1 /\ \A i \in 1 .. k - 1 : s[i] = p[1 + i - 1]
    BY <1>2, SubText
  <1>4. b \in Text /\ Len(b) = Len(p) - k + 1 /\ \A i \in 1 .. Len(p) - k + 1 : b[i] = p[k + i - 1]
    BY <1>2, SubText
  <1> HIDE DEF s, b
  <1>5. \A i \in 1 .. k - 1 : s[i] = p[i]
    <2>1. \A i \in 1 .. k - 1 : 1 + i - 1 = i
      BY <1>1
    <2>2. QED
      BY <1>3, <2>1
  <1>6. b[1] = p[k]
    <2>1. 1 \in 1 .. Len(p) - k + 1 /\ k + 1 - 1 = k
      BY <1>1
    <2>2. QED
      BY <1>4, <2>1
  <1>7. b[Len(b)] = p[Len(p)]
    <2>1. Len(b) \in 1 .. Len(p) - k + 1 /\ k + Len(b) - 1 = Len(p)
      BY <1>1, <1>4
    <2>2. QED
      BY <1>4, <2>1
  <1>8. p = s \o b
    <2>1. /\ s \o b \in Text /\ Len(s \o b) = Len(s) + Len(b)
          /\ \A i \in 1 .. Len(s) : (s \o b)[i] = s[i]
          /\ \A i \in 1 .. Len(b) : (s \o b)[Len(s) + i] = b[i]
      BY <1>3, <1>4, JoinFacts
    <2> DEFINE t == s \o b
    <2> HIDE DEF t
    <2>2. Len(t) = Len(p)
      BY <1>1, <1>3, <1>4, <2>1 DEF t
    <2>3. ASSUME NEW j \in 1 .. Len(p)
          PROVE  t[j] = p[j]
      <3>1. CASE j <= k - 1
        <4>1. j \in 1 .. k - 1 /\ j \in 1 .. Len(s)
          BY <1>1, <1>3, <3>1
        <4>2. QED
          BY <1>5, <2>1, <4>1 DEF t
      <3>2. CASE ~ (j <= k - 1)
        <4>1. PICK i \in 1 .. Len(b) : j = Len(s) + i
          <5>1. j - (k - 1) \in 1 .. Len(b) /\ j = Len(s) + (j - (k - 1))
            BY <1>1, <1>3, <1>4, <3>2
          <5>2. QED
            BY <5>1
        <4>2. t[Len(s) + i] = b[i]
          BY <2>1 DEF t
        <4>3. i \in 1 .. Len(p) - k + 1 /\ k + i - 1 = j
          BY <1>1, <1>3, <1>4, <4>1
        <4>4. b[i] = p[j]
          BY <1>4, <4>3
        <4>5. QED
          BY <4>1, <4>2, <4>4
      <3>3. QED
        BY <3>1, <3>2
    <2>4. QED
      BY <2>1, <2>2, <2>3, TextEqual DEF t
  <1>9. QED
    BY <1>3, <1>4, <1>5, <1>6, <1>7, <1>8 DEF s, b

\* A path leads into what stands before each of its slashes.
LEMMA PrefixWithin ==
  ASSUME NEW p \in Text, ~EndsInSlash(p), NEW k \in 1 .. Len(p), p[k] = Slash
  PROVE  Within(Canonical(p), Canonical(SubSeq(p, 1, k - 1)))
  <1> DEFINE s == SubSeq(p, 1, k - 1)
             b == SubSeq(p, k, Len(p))
  <1>1. /\ s \in Text /\ b \in Text /\ p = s \o b /\ Len(b) = Len(p) - k + 1
        /\ b[1] = Slash /\ b[Len(b)] = p[Len(p)]
    BY CutAt
  <1> HIDE DEF s, b
  <1>2. Len(p) \in Nat /\ k \in Nat
    BY TextFacts
  <1>3. Len(b) # 0 /\ Len(p) # 0
    BY <1>1, <1>2
  <1>4. b[Len(b)] # Slash
    BY <1>1, <1>3, EndsInSlashIs
  <1>5. Canonical(p) = Canonical(s) \o Canonical(b)
    BY <1>1, <1>3, SlashLeadsOn
  <1>6. Canonical(b)[1] = Slash /\ Len(Canonical(b)) >= 2
    BY <1>1, <1>3, <1>4, StartsWithSlash
  <1> DEFINE c == Canonical(s)
             d == Canonical(b)
             e == Canonical(p)
  <1>7. c \in Text /\ d \in Text
    BY <1>1, CanonicalIs
  <1> HIDE DEF c, d, e
  <1>8. /\ e \in Text /\ Len(e) = Len(c) + Len(d)
        /\ \A i \in 1 .. Len(c) : e[i] = c[i]
        /\ \A i \in 1 .. Len(d) : e[Len(c) + i] = d[i]
    <2>1. e = c \o d
      BY <1>5 DEF c, d, e
    <2>2. QED
      BY <1>7, <2>1, JoinFacts
  <1>9. Len(c) \in Nat /\ Len(d) \in Nat /\ Len(d) >= 2 /\ d[1] = Slash
    BY <1>6, <1>7, TextFacts DEF d
  <1>10. e[Len(c) + 1] = Slash
    <2>1. 1 \in 1 .. Len(d)
      BY <1>9
    <2>2. QED
      BY <1>8, <1>9, <2>1
  <1>11. Len(e) >= Len(c) + 2
    BY <1>8, <1>9
  <1>12. Within(e, c)
    BY <1>7, <1>8, <1>10, <1>11, WithinIs
  <1>13. QED
    BY <1>12 DEF c, e, s

\* The directory of the entry that a path leads to.
LEMMA CanonicalParent ==
  ASSUME NEW p \in Text, ~EndsInSlash(p)
  PROVE  Parent(Canonical(p)) = Canonical(Parent(p))
  <1> DEFINE l == LastSlash(p)
             c == Canonical(p)
  <1>1. /\ l \in 0 .. Len(p) /\ Len(p) \in Nat /\ (l # 0 => p[l] = Slash)
        /\ \A k \in 1 .. Len(p) : p[k] = Slash => l # 0 /\ k <= l
    BY LastSlashIs, TextFacts
  <1>2. c \in Text
    BY CanonicalIs
  <1>3. Canonical(<<>>) = <<>> /\ <<>> \in Text
    BY SlashText, CanonicalIs, UpToFacts
  <1>4. CASE l = 0
    <2>1. \A k \in 1 .. Len(p) : p[k] # Slash
      BY <1>1, <1>4
    <2>2. c = p
      <3>1. CASE Len(p) = 0
        <4>1. p = <<>>
          BY <3>1, EmptySeq DEF Text
        <4>2. QED
          BY <1>3, <4>1
      <3>2. CASE Len(p) # 0
        BY <2>1, <3>2, PieceIsPlain DEF Plain
      <3>3. QED
        BY <3>1, <3>2
    <2>3. Parent(p) = SubSeq(p, 1, -1)
      BY <1>4 DEF Parent
    <2>4. SubSeq(p, 1, -1) = <<>>
      OBVIOUS
    <2>5. QED
      BY <1>3, <2>2, <2>3, <2>4
  <1>5. CASE l # 0
    <2> DEFINE s == SubSeq(p, 1, l - 1)
               b == SubSeq(p, l, Len(p))
               d == Canonical(s)
               x == SubSeq(b, 2, Len(b))
    <2>1. l \in 1 .. Len(p) /\ p[l] = Slash
      BY <1>1, <1>5
    <2> HIDE DEF l
    <2>2. /\ s \in Text /\ b \in Text /\ p = s \o b /\ Len(b) = Len(p) - l + 1
          /\ \A i \in 1 .. Len(p) - l + 1 : b[i] = p[l + i - 1]
          /\ b[1] = Slash /\ b[Len(b)] = p[Len(p)]
      BY <2>1, CutAt
    <2>3. s = Parent(p)
      BY DEF Parent, l
    <2> HIDE DEF s, b
    <2>4. Len(b) \in Nat /\ Len(b) >= 2
      <3>1. Len(p) # 0 /\ p[Len(p)] # Slash
        BY <1>1, <2>1, EndsInSlashIs
      <3>2. l # Len(p)
        BY <2>1, <3>1
      <3>3. QED
        BY <1>1, <2>1, <2>2, <3>2
    <2>5. ASSUME NEW i \in 2 .. Len(b)
          PROVE  b[i] # Slash
      <3>1. i \in 1 .. Len(p) - l + 1 /\ l + i - 1 \in 1 .. Len(p) /\ l + i - 1 > l
        BY <1>1, <2>1, <2>2, <2>4
      <3>2. b[i] = p[l + i - 1]
        BY <2>2, <3>1
      <3>3. p[l + i - 1] = Slash => l + i - 1 <= l
        BY <1>1, <3>1 DEF l
      <3>4. QED
        BY <2>1, <3>1, <3>2, <3>3
    <2>6. /\ x \in Text /\ Len(x) = Len(b) - 1
          /\ \A i \in 1 .. Len(b) - 1 : x[i] = b[i + 1]
      <3>1. 2 \in 1 .. Len(b) + 1 /\ Len(b) \in 2 - 1 .. Len(b) /\ Len(b) - 2 + 1 = Len(b) - 1
        BY <2>4
      <3>2. x \in Text /\ Len(x) = Len(b) - 1 /\ \A i \in 1 .. Len(b) - 1 : x[i] = b[2 + i - 1]
        BY <2>2, <3>1, SubText
      <3>3. \A i \in 1 .. Len(b) - 1 : 2 + i - 1 = i + 1
        BY <2>4
      <3>4. QED
        BY <3>2, <3>3
    <2> HIDE DEF x
    <2>7. Plain(x) /\ x # <<>>
      <3>1. Len(x) # 0
        BY <2>4, <2>6
      <3>2. ASSUME NEW i \in 1 .. Len(x)
            PROVE  x[i] # Slash
        <4>1. i \in 1 .. Len(b) - 1 /\ i + 1 \in 2 .. Len(b)
          BY <2>4, <2>6
        <4>2. QED
          BY <2>5, <2>6, <4>1
      <3>3. QED
        BY <2>6, <3>1, <3>2, PieceIsPlain
    <2>8. b = <<Slash>> \o x
      <3> DEFINE t == <<Slash>> \o x
      <3>1. /\ t \in Text /\ Len(t) = 1 + Len(x) /\ t[1] = Slash
            /\ \A k \in 1 .. Len(x) : t[1 + k] = x[k]
        BY <2>6, OneSlash
      <3> HIDE DEF t
      <3>2. Len(t) = Len(b)
        BY <2>4, <2>6, <3>1
      <3>3. ASSUME NEW k \in 1 .. Len(b)
            PROVE  b[k] = t[k]
        <4>1. CASE k = 1
          BY <2>2, <3>1, <4>1
        <4>2. CASE k # 1
          <5>1. PICK i \in 1 .. Len(x) : k = 1 + i
            <6>1. k - 1 \in 1 .. Len(x) /\ k = 1 + (k - 1)
              BY <2>4, <2>6, <4>2
            <6>2. QED
              BY <6>1
          <5>2. x[i] = b[i + 1] /\ i + 1 = 1 + i
            BY <2>6
          <5>3. t[1 + i] = x[i]
            BY <3>1
          <5>4. QED
            BY <5>1, <5>2, <5>3
        <4>3. QED
          BY <4>1, <4>2
      <3>4. QED
        BY <2>2, <3>1, <3>2, <3>3, TextEqual DEF t
    <2>9. Canonical(b) = b
      BY <2>6, <2>7, <2>8, SlashBeforeName DEF Plain
    <2>10. c = d \o b
      <3>1. Len(b) # 0
        BY <2>4
      <3>2. QED
        BY <2>2, <2>9, <3>1, SlashLeadsOn
    <2>11. d \in Text
      BY <2>2, CanonicalIs
    <2> HIDE DEF d
    <2> HIDE DEF c
    <2>12. /\ Len(c) = Len(d) + Len(b) /\ Len(d) \in Nat
           /\ \A k \in 1 .. Len(d) : c[k] = d[k]
           /\ \A k \in 1 .. Len(b) : c[Len(d) + k] = b[k]
      <3>1. Len(d) \in Nat
        BY <2>11, TextFacts
      <3>2. b \in Text /\ d \in Text
        BY <2>2, <2>11
      <3> DEFINE t == d \o b
      <3>3. /\ Len(t) = Len(d) + Len(b)
            /\ \A k \in 1 .. Len(d) : t[k] = d[k]
            /\ \A k \in 1 .. Len(b) : t[Len(d) + k] = b[k]
        BY <3>2, JoinFacts
      <3>4. c = t
        BY <2>10
      <3> HIDE DEF t
      <3>5. QED
        BY <3>1, <3>3, <3>4
    <2> DEFINE y == LastSlash(c)
    <2>13. /\ y \in 0 .. Len(c) /\ (y # 0 => c[y] = Slash)
           /\ \A k \in 1 .. Len(c) : c[k] = Slash => y # 0 /\ k <= y
      BY <1>2, LastSlashIs
    <2> HIDE DEF y
    <2>14. y = Len(d) + 1
      <3>1. 1 \in 1 .. Len(b) /\ Len(d) + 1 \in 1 .. Len(c)
        BY <2>4, <2>12
      <3>2. c[Len(d) + 1] = Slash
        BY <2>2, <2>12, <3>1
      <3>3. y # 0 /\ Len(d) + 1 <= y /\ c[y] = Slash /\ y <= Len(c)
        BY <2>12, <2>13, <3>1, <3>2
      <3>4. SUFFICES ASSUME y > Len(d) + 1
                     PROVE  FALSE
        BY <2>4, <2>12, <2>13, <3>3
      <3>5. PICK i \in 2 .. Len(b) : y = Len(d) + i
        <4>1. y - Len(d) \in 2 .. Len(b) /\ y = Len(d) + (y - Len(d))
          BY <2>4, <2>12, <2>13, <3>3, <3>4
        <4>2. QED
          BY <4>1
      <3>6. i \in 1 .. Len(b)
        BY <2>4
      <3>7. c[Len(d) + i] = b[i] /\ b[i] # Slash
        BY <2>5, <2>12, <3>6
      <3>8. QED
        BY <3>3, <3>5, <3>7
    <2>15. Parent(c) = SubSeq(c, 1, Len(d))
      <3>1. y - 1 = Len(d)
        BY <2>12, <2>14
      <3>2. QED
        BY <3>1 DEF Parent, y
    <2> DEFINE z == SubSeq(c, 1, Len(d))
    <2>16. z \in Text /\ Len(z) = Len(d) /\ \A k \in 1 .. Len(d) : z[k] = d[k]
      <3>1. /\ 1 \in 1 .. Len(c) + 1 /\ Len(d) \in 1 - 1 .. Len(c) /\ Len(d) - 1 + 1 = Len(d)
            /\ c \in Text
        BY <1>2, <2>4, <2>12 DEF c
      <3>2. z \in Text /\ Len(z) = Len(d) /\ \A k \in 1 .. Len(d) : z[k] = c[1 + k - 1]
        BY <3>1, SubText
      <3>3. \A k \in 1 .. Len(d) : 1 + k - 1 = k
        BY <2>12
      <3> HIDE DEF z
      <3>4. QED
        BY <2>12, <3>2, <3>3
    <2> HIDE DEF z
    <2>17. z = d
      BY <2>11, <2>16, TextEqual
    <2>18. QED
      BY <2>3, <2>15, <2>17 DEF c, d, z
  <1>6. QED
    BY <1>4, <1>5

\* What an entry of a tree lies in is a directory of the tree.
LEMMA WithinTree ==
  ASSUME NEW S \in SUBSET DOMAIN Kind, Closed(S), NEW d \in Text, NEW e0 \in S, Within(e0, d)
  PROVE  d \in S /\ Kind[d] = "dir"
  <1> DEFINE N == {n \in Nat : \A e \in S : Len(e) <= n /\ Within(e, d) => d \in S /\ Kind[d] = "dir"}
  <1>1. \A e \in S : e \in Text /\ Len(e) \in Nat
    BY ArgumentsText, TextFacts
  <1>2. Len(d) \in Nat
    BY TextFacts
  <1>3. 0 \in N
    <2>1. SUFFICES ASSUME NEW e \in S, Len(e) <= 0, Within(e, d)
                   PROVE  FALSE
      OBVIOUS
    <2>2. Len(e) >= Len(d) + 2 /\ Len(e) \in Nat
      BY <1>1, <2>1, WithinIs
    <2>3. QED
      BY <1>2, <2>1, <2>2
  <1>4. ASSUME NEW n \in N
        PROVE  n + 1 \in N
    <2>1. SUFFICES ASSUME NEW e \in S, Len(e) <= n + 1, Within(e, d)
                   PROVE  d \in S /\ Kind[d] = "dir"
      OBVIOUS
    <2> DEFINE l == LastSlash(e)
               u == Parent(e)
    <2>2. /\ Len(e) >= Len(d) + 2 /\ Len(e) \in Nat /\ e \in Text
          /\ \A k \in 1 .. Len(d) : e[k] = d[k]
          /\ e[Len(d) + 1] = Slash
      BY <1>1, <2>1, WithinIs
    <2>3. e # <<>>
      <3>1. Len(e) # 0
        BY <1>2, <2>2
      <3>2. QED
        BY <3>1
    <2>4. u \in S /\ Kind[u] = "dir" /\ e \in DOMAIN Kind \ {<<>>}
      BY <2>3 DEF Closed
    <2>5. /\ l \in 1 .. Len(e) - 1 /\ u \in Text /\ Len(u) = l - 1
          /\ \A k \in 1 .. l - 1 : u[k] = e[k]
          /\ \A k \in 1 .. Len(e) : e[k] = Slash => k <= l
      BY <2>2, <2>4, EntryParts, LastSlashIs
    <2> HIDE DEF l, u
    <2>6. Len(d) + 1 <= l
      <3>1. Len(d) + 1 \in 1 .. Len(e)
        BY <1>2, <2>2
      <3>2. QED
        BY <2>2, <2>5, <3>1
    <2>7. CASE l = Len(d) + 1
      <3>1. Len(u) = Len(d)
        BY <1>2, <2>5, <2>7
      <3>2. \A k \in 1 .. Len(u) : u[k] = d[k]
        BY <1>2, <2>2, <2>5, <2>7, <3>1
      <3>3. u = d
        BY <2>5, <3>1, <3>2, TextEqual
      <3>4. QED
        BY <2>4, <3>3
    <2>8. CASE l # Len(d) + 1
      <3>1. l > Len(d) + 1 /\ Len(u) >= Len(d) + 1 /\ Len(d) + 1 \in 1 .. l - 1
        BY <1>2, <2>2, <2>5, <2>6, <2>8
      <3>2. u[Len(d) + 1] = Slash
        BY <2>2, <2>5, <3>1
      <3>3. \A k \in 1 .. Len(d) : u[k] = d[k]
        BY <1>2, <2>2, <2>5, <3>1
      <3>4. Len(u) # Len(d) + 1
        <4>1. u = <<>> \/ ~EndsInSlash(u)
          BY <2>4, TreeAssumption
        <4>2. Len(u) # 0
          BY <1>2, <2>5, <3>1
        <4>3. Len(u) = Len(d) + 1 => u[Len(u)] = Slash
          BY <3>2
        <4>4. u # <<>>
          BY <4>2
        <4>5. QED
          BY <2>5, <4>1, <4>2, <4>3, <4>4, EndsInSlashIs
      <3>5. Len(u) >= Len(d) + 2
        BY <1>2, <2>2, <2>5, <3>1, <3>4
      <3>6. Within(u, d)
        BY <2>5, <3>2, <3>3, <3>5, WithinIs
      <3>7. Len(u) <= n /\ n \in Nat
        <4>1. n \in Nat
          OBVIOUS
        <4> HIDE DEF N
        <4>2. QED
          BY <2>1, <2>2, <2>5, <4>1
      <3>8. QED
        BY <2>4, <3>6, <3>7
    <2>9. QED
      BY <2>7, <2>8
  <1>5. N = Nat
    <2>1. N \in SUBSET Nat
      OBVIOUS
    <2> HIDE DEF N
    <2>2. QED
      BY <1>3, <1>4, <2>1, Induction
  <1>6. Len(e0) \in N /\ Len(e0) <= Len(e0)
    <2> HIDE DEF N
    <2>1. QED
      BY <1>1, <1>5
  <1>7. QED
    BY <1>6

-----------------------------------------------------------------------------
(* Folds                                                                   *)

\* Induction over the subsets of a finite set.
LEMMA SubsetInduction ==
  ASSUME NEW S, IsFiniteSet(S), NEW T \in SUBSET SUBSET S, {} \in T,
         \A s \in (SUBSET S) \ {{}} : \E x \in s : s \ {x} \in T => s \in T
  PROVE  T = SUBSET S
  <1> DEFINE N == {n \in Nat : \A s \in SUBSET S : Cardinality(s) = n => s \in T}
  <1>1. \A s \in SUBSET S : IsFiniteSet(s) /\ Cardinality(s) \in Nat
    BY FS_Subset, FS_CardinalityType
  <1>2. 0 \in N
    BY <1>1, FS_EmptySet
  <1>3. ASSUME NEW n \in N
        PROVE  n + 1 \in N
    <2>1. SUFFICES ASSUME NEW s \in SUBSET S, Cardinality(s) = n + 1
                   PROVE  s \in T
      OBVIOUS
    <2>2. s # {}
      BY <2>1, FS_EmptySet
    <2>3. PICK x \in s : s \ {x} \in T => s \in T
      BY <2>2
    <2>4. Cardinality(s \ {x}) = n
      <3>1. Cardinality(s \ {x}) = Cardinality(s) - 1
        BY <1>1, <2>3, FS_RemoveElement
      <3>2. n \in Nat
        OBVIOUS
      <3> HIDE DEF N
      <3>3. QED
        BY <2>1, <3>1, <3>2
    <2>5. QED
      BY <2>3, <2>4
  <1>4. N = Nat
    <2>1. N \in SUBSET Nat
      OBVIOUS
    <2> HIDE DEF N
    <2>2. QED
      BY <1>2, <1>3, <2>1, Induction
  <1>5. QED
    BY <1>1, <1>4

FoldStep(base, g, c, f, s) == IF s = {} THEN base ELSE g[c[s]][f[s \ {c[s]}]]

FoldOf(S, base, g, c, f) == \A s \in SUBSET S : f[s] = FoldStep(base, g, c, f, s)

Choosing(S, c) ==
  c \in [(SUBSET S) \ {{}} -> S] /\ \A s \in (SUBSET S) \ {{}} : c[s] \in s

\* A fold is defined: g[x] is what the operation does with the element x, and
\* c[s] the element that is taken from s.
LEMMA FoldExists ==
  ASSUME NEW S, IsFiniteSet(S), NEW V, NEW base \in V, NEW g \in [S -> [V -> V]],
         NEW c, Choosing(S, c)
  PROVE  \E f \in [SUBSET S -> V] : FoldOf(S, base, g, c, f)
  <1> DEFINE Small(n) == {s \in SUBSET S : Cardinality(s) <= n}
             N == {n \in Nat : \E f \in [Small(n) -> V] :
                                 \A s \in Small(n) : f[s] = FoldStep(base, g, c, f, s)}
  <1>1. \A s \in SUBSET S : IsFiniteSet(s) /\ Cardinality(s) \in Nat
    BY FS_Subset, FS_CardinalityType
  <1>2. 0 \in N
    <2> DEFINE f == [s \in Small(0) |-> base]
    <2>1. \A s \in Small(0) : s = {}
      BY <1>1, FS_EmptySet
    <2>2. f \in [Small(0) -> V] /\ \A s \in Small(0) : f[s] = FoldStep(base, g, c, f, s)
      BY <2>1 DEF FoldStep
    <2> HIDE DEF f
    <2>3. QED
      BY <2>2
  <1>3. ASSUME NEW n \in N
        PROVE  n + 1 \in N
    <2>1. PICK h \in [Small(n) -> V] : \A s \in Small(n) : h[s] = FoldStep(base, g, c, h, s)
      OBVIOUS
    <2> DEFINE f == [s \in Small(n + 1) |-> FoldStep(base, g, c, h, s)]
    <2>2. ASSUME NEW s \in Small(n + 1), s # {}
          PROVE  c[s] \in S /\ s \ {c[s]} \in Small(n)
      <3>1. c[s] \in s /\ s \ {c[s]} \in SUBSET S
        BY <2>2 DEF Choosing
      <3>2. Cardinality(s \ {c[s]}) = Cardinality(s) - 1
        BY <1>1, <2>2, <3>1, FS_RemoveElement
      <3>3. QED
        BY <1>1, <2>2, <3>1, <3>2
    <2>3. f \in [Small(n + 1) -> V]
      BY <2>2 DEF FoldStep
    <2>4. ASSUME NEW s \in Small(n)
          PROVE  s \in Small(n + 1) /\ f[s] = h[s]
      <3>1. s \in Small(n + 1)
        BY <1>1
      <3>2. QED
        BY <2>1, <3>1
    <2>5. \A s \in Small(n + 1) : f[s] = FoldStep(base, g, c, h, s)
      OBVIOUS
    <2> HIDE DEF f, Small
    <2>6. ASSUME NEW s \in Small(n + 1)
          PROVE  f[s] = FoldStep(base, g, c, f, s)
      BY <2>2, <2>4, <2>5 DEF FoldStep
    <2>7. QED
      BY <2>3, <2>6
  <1>4. N = Nat
    <2>1. N \in SUBSET Nat
      OBVIOUS
    <2> HIDE DEF N
    <2>2. QED
      BY <1>2, <1>3, <2>1, Induction
  <1>5. Cardinality(S) \in N
    BY <1>1, <1>4
  <1>6. Small(Cardinality(S)) = SUBSET S
    BY FS_Subset
  <1> HIDE DEF Small
  <1>7. QED
    BY <1>5, <1>6 DEF FoldOf

\* What the metadata add to the size is a number.
LEMMA MetadataSizeType ==
  ASSUME DOMAIN m_metadata \subseteq DOMAIN Lengths, IsFiniteSet(DOMAIN m_metadata),
         \A k \in DOMAIN m_metadata : m_metadata[k] \in ValueLengths
  PROVE  MetadataSize \in Nat
  <1> DEFINE S == DOMAIN m_metadata
             w == [k \in S |-> Lengths[k] + m_metadata[k] + 2]
             g == [k \in S |-> [v \in Nat |-> w[k] + v]]
             c == [s \in (SUBSET S) \ {{}} |-> CHOOSE x \in s : TRUE]
             Eq(f) == f = [s \in SUBSET S |->
                             IF s = {} THEN 0
                             ELSE LET x == CHOOSE x \in s : TRUE
                                  IN  Lengths[x] + m_metadata[x] + 2 + f[s \ {x}]]
             iter == CHOOSE f : Eq(f)
  <1>1. w \in [S -> Nat]
    <2>1. \A k \in S : Lengths[k] \in Nat /\ m_metadata[k] \in Nat
      BY FilesetAssumption
    <2>2. QED
      BY <2>1
  <1>2. g \in [S -> [Nat -> Nat]]
    <2> HIDE DEF w
    <2>1. QED
      BY <1>1
  <1>3. Choosing(S, c)
    BY DEF Choosing
  <1>4. PICK f \in [SUBSET S -> Nat] : FoldOf(S, 0, g, c, f)
    <2>1. IsFiniteSet(S) /\ 0 \in Nat
      OBVIOUS
    <2> HIDE DEF g, c, S
    <2>2. QED
      BY <1>2, <1>3, <2>1, FoldExists
  <1>5. ASSUME NEW s \in SUBSET S
        PROVE  f[s] = IF s = {} THEN 0
                      ELSE LET x == CHOOSE x \in s : TRUE
                           IN  Lengths[x] + m_metadata[x] + 2 + f[s \ {x}]
    <2>1. CASE s = {}
      BY <1>4, <2>1 DEF FoldOf, FoldStep
    <2>2. CASE s # {}
      <3> DEFINE x == CHOOSE x \in s : TRUE
      <3>1. x \in s /\ c[s] = x /\ s \ {x} \in SUBSET S /\ f[s \ {x}] \in Nat
        BY <2>2
      <3>2. f[s] = g[x][f[s \ {x}]]
        BY <1>4, <2>2, <3>1 DEF FoldOf, FoldStep
      <3>3. w[x] = Lengths[x] + m_metadata[x] + 2
        BY <3>1
      <3> HIDE DEF x, w
      <3>4. g[x][f[s \ {x}]] = w[x] + f[s \ {x}]
        BY <3>1
      <3>5. QED
        BY <2>2, <3>2, <3>3, <3>4 DEF x
    <2>3. QED
      BY <2>1, <2>2
  <1>6. Eq(f)
    BY <1>4, <1>5
  <1>7. Eq(iter)
    <2> HIDE DEF Eq
    <2>1. QED
      BY <1>6
  <1>8. MetadataSize = iter[S]
    BY DEF MetadataSize, MapThenSumSet, MapThenFoldSet
  <1> HIDE DEF iter
  <1> DEFINE T == {s \in SUBSET S : iter[s] \in Nat}
  <1>9. {} \in T
    BY <1>7
  <1>10. ASSUME NEW s \in (SUBSET S) \ {{}}
         PROVE  \E x \in s : s \ {x} \in T => s \in T
    <2> DEFINE x == CHOOSE x \in s : TRUE
    <2>1. x \in s
      OBVIOUS
    <2>2. iter[s] = w[x] + iter[s \ {x}]
      BY <1>7, <2>1
    <2> HIDE DEF x, w, Eq
    <2>3. w[x] \in Nat
      BY <1>1, <2>1
    <2>4. iter[s \ {x}] \in Nat => iter[s] \in Nat
      BY <2>2, <2>3
    <2>5. QED
      BY <2>1, <2>4
  <1>11. T = SUBSET S
    <2>1. T \in SUBSET SUBSET S
      OBVIOUS
    <2> HIDE DEF T, S
    <2>2. QED
      BY <1>9, <1>10, <2>1, SubsetInduction DEF S
  <1>12. QED
    BY <1>8, <1>11

\* The fold over a sequence takes the greatest index first.
LEMMA MaxUpTo ==
  ASSUME NEW n \in Nat \ {0}
  PROVE  Max(1 .. n) = n /\ (1 .. n) \ {n} = 1 .. n - 1
  <1>1. 1 .. n # {} /\ 1 .. n \in SUBSET (1 .. n)
    OBVIOUS
  <1>2. Max(1 .. n) \in 1 .. n /\ \A k \in 1 .. n : k <= Max(1 .. n)
    BY <1>1, GreatestMember
  <1>3. QED
    BY <1>2

LEMMA MaxChooses ==
  ASSUME NEW n \in Nat
  PROVE  Choosing(1 .. n, [s \in (SUBSET (1 .. n)) \ {{}} |-> Max(s)])
  BY GreatestMember DEF Choosing

Trees ==
  {t \in [dirs : SUBSET Text, files : SUBSET Text] : t.dirs \cap t.files = {} /\ <<>> \in t.dirs}

Grown(t) == {u \in Trees : u.files = t.files}

LEMMA MkdirGrows ==
  ASSUME NEW t \in Trees, NEW u \in Grown(t), NEW e \in Text
  PROVE  Mkdir(u, e) \in Grown(t)
  BY DEF Trees, Grown, Mkdir

LEMMA PrefixText ==
  ASSUME NEW p \in Text, NEW k \in 0 .. Len(p)
  PROVE  SubSeq(p, 1, k) \in Text
  <1>1. Len(p) \in Nat
    BY TextFacts
  <1>2. 1 \in 1 .. Len(p) + 1 /\ k \in 1 - 1 .. Len(p)
    BY <1>1
  <1>3. QED
    BY <1>2, SubText

\* What mkdirs does at one character of the path.
MkdirAt(u, dir, k) ==
  IF k > 1 /\ dir[k] = Slash THEN Mkdir(u, Canonical(SubSeq(dir, 1, k - 1))) ELSE u

\* mkdirs, character by character; h[k] is the tree after the k-th.
LEMMA MkdirsSteps ==
  ASSUME NEW t \in Trees, NEW dir \in Text
  PROVE  \E h \in [0 .. Len(dir) -> Grown(t)] :
           /\ h[0] = t
           /\ \A k \in 1 .. Len(dir) : h[k] = MkdirAt(h[k - 1], dir, k)
           /\ Mkdirs(t, dir) = Mkdir(h[Len(dir)], Canonical(dir))
  <1> DEFINE n == Len(dir)
             S == 1 .. n
             V == Grown(t)
             At(u, k) == MkdirAt(u, dir, k)
             g == [k \in S |-> [u \in V |-> At(u, k)]]
             c == [s \in (SUBSET S) \ {{}} |-> Max(s)]
             ks == [k \in 1 .. Len(dir) |-> k]
             Eq(f) == f = [s \in SUBSET DOMAIN ks |->
                             IF s = {} THEN t ELSE At(f[s \ {Max(s)}], ks[Max(s)])]
             iter == CHOOSE f : Eq(f)
  <1>1. n \in Nat
    BY TextFacts
  <1>2. ASSUME NEW u \in V, NEW k \in S
        PROVE  At(u, k) \in V
    <2>1. CASE k > 1 /\ dir[k] = Slash
      <3>1. k - 1 \in 0 .. Len(dir)
        BY <1>1, <2>1
      <3>2. Canonical(SubSeq(dir, 1, k - 1)) \in Text
        BY <3>1, PrefixText, CanonicalIs
      <3>3. QED
        BY <2>1, <3>2, MkdirGrows DEF MkdirAt
    <2>2. CASE ~ (k > 1 /\ dir[k] = Slash)
      BY <2>2 DEF MkdirAt
    <2>3. QED
      BY <2>1, <2>2
  <1>3. t \in V
    BY DEF Grown
  <1>4. PICK f \in [SUBSET S -> V] : FoldOf(S, t, g, c, f)
    <2>1. g \in [S -> [V -> V]]
      <3> HIDE DEF V, At
      <3>1. QED
        BY <1>2
    <2>2. IsFiniteSet(S)
      BY <1>1, FS_Interval
    <2>3. Choosing(S, c)
      BY <1>1, MaxChooses, Zenon
    <2> HIDE DEF g, c, S, V
    <2>4. QED
      BY <1>3, <2>1, <2>2, <2>3, FoldExists
  <1>5. DOMAIN ks = S /\ \A k \in S : ks[k] = k
    OBVIOUS
  <1> HIDE DEF ks
  <1>6. ASSUME NEW s \in SUBSET S
        PROVE  f[s] = IF s = {} THEN t ELSE At(f[s \ {Max(s)}], ks[Max(s)])
    <2>1. CASE s = {}
      BY <1>4, <2>1 DEF FoldOf, FoldStep
    <2>2. CASE s # {}
      <3>1. Max(s) \in s
        BY <1>1, <2>2, GreatestMember
      <3>2. Max(s) \in S /\ c[s] = Max(s) /\ s \ {Max(s)} \in SUBSET S /\ f[s \ {Max(s)}] \in V
        BY <2>2, <3>1
      <3>3. f[s] = g[Max(s)][f[s \ {Max(s)}]]
        BY <1>4, <2>2, <3>2 DEF FoldOf, FoldStep
      <3> HIDE DEF At, V
      <3>4. g[Max(s)][f[s \ {Max(s)}]] = At(f[s \ {Max(s)}], Max(s))
        BY <3>2
      <3>5. QED
        BY <1>5, <2>2, <3>2, <3>3, <3>4
    <2>3. QED
      BY <2>1, <2>2
  <1>7. Eq(f)
    <2> HIDE DEF At
    <2>1. QED
      BY <1>4, <1>5, <1>6
  <1>8. Eq(iter)
    <2> HIDE DEF Eq
    <2>1. QED
      BY <1>7
  <1>9. Mkdirs(t, dir) = Mkdir(iter[DOMAIN ks], Canonical(dir))
    BY DEF Mkdirs, FoldLeft, MapThenFoldSet, MkdirAt, ks
  <1> HIDE DEF iter, At, V
  <1> DEFINE N == {m \in Nat : m <= n => iter[1 .. m] \in V}
             h == [m \in 0 .. n |-> iter[1 .. m]]
  <1>10. 0 \in N /\ iter[1 .. 0] = t
    <2>1. 1 .. 0 = {} /\ {} \in SUBSET S
      OBVIOUS
    <2>2. iter[{}] = t
      BY <1>5, <1>8
    <2>3. QED
      BY <1>3, <2>1, <2>2
  <1>11. ASSUME NEW k \in S
         PROVE  iter[1 .. k] = At(iter[1 .. k - 1], k)
    <2>1. k \in Nat \ {0} /\ 1 .. k # {} /\ 1 .. k \in SUBSET S
      BY <1>1
    <2> HIDE DEF S
    <2>2. Max(1 .. k) = k /\ (1 .. k) \ {k} = 1 .. k - 1
      BY <2>1, MaxUpTo
    <2>3. iter[1 .. k] = At(iter[(1 .. k) \ {Max(1 .. k)}], ks[Max(1 .. k)])
      BY <1>5, <1>8, <2>1
    <2>4. ks[Max(1 .. k)] = k /\ (1 .. k) \ {Max(1 .. k)} = 1 .. k - 1
      BY <1>5, <2>1, <2>2
    <2>5. QED
      BY <2>3, <2>4
  <1>12. ASSUME NEW m \in N
         PROVE  m + 1 \in N
    <2>1. SUFFICES ASSUME m + 1 <= n
                   PROVE  iter[1 .. m + 1] \in V
      OBVIOUS
    <2> DEFINE k == m + 1
    <2>2. k \in S /\ k - 1 = m
      <3>1. m \in Nat
        OBVIOUS
      <3> HIDE DEF N
      <3>2. QED
        BY <1>1, <2>1, <3>1
    <2>3. iter[1 .. m] \in V
      BY <1>1, <2>1
    <2> HIDE DEF k, N, S
    <2>4. iter[1 .. k] \in V
      BY <1>2, <1>11, <2>2, <2>3
    <2>5. QED
      BY <2>4 DEF k
  <1>13. N = Nat
    <2>1. N \in SUBSET Nat
      OBVIOUS
    <2> HIDE DEF N
    <2>2. QED
      BY <1>10, <1>12, <2>1, Induction
  <1>14. \A m \in 0 .. n : iter[1 .. m] \in V
    BY <1>1, <1>13
  <1>15. h \in [0 .. n -> V] /\ h[0] = t /\ h[n] = iter[DOMAIN ks]
    BY <1>1, <1>5, <1>10, <1>14
  <1>16. ASSUME NEW k \in 1 .. n
         PROVE  h[k] = At(h[k - 1], k)
    <2>1. k \in S /\ k \in 0 .. n /\ k - 1 \in 0 .. n
      BY <1>1
    <2>2. h[k] = iter[1 .. k] /\ h[k - 1] = iter[1 .. k - 1]
      BY <2>1
    <2> HIDE DEF h, S
    <2>3. QED
      BY <1>11, <2>1, <2>2
  <1> HIDE DEF h
  <1>17. QED
    BY <1>9, <1>15, <1>16 DEF n, At, V

\* mkdirs makes directories and leaves the files.
LEMMA MkdirsGrows ==
  ASSUME NEW t \in Trees, NEW dir \in Text
  PROVE  Mkdirs(t, dir) \in Grown(t)
  <1>1. PICK h \in [0 .. Len(dir) -> Grown(t)] :
          Mkdirs(t, dir) = Mkdir(h[Len(dir)], Canonical(dir))
    BY MkdirsSteps
  <1>2. Len(dir) \in 0 .. Len(dir) /\ Canonical(dir) \in Text
    BY TextFacts, CanonicalIs
  <1>3. QED
    BY <1>1, <1>2, MkdirGrows

LEMMA SetToSeqOf ==
  ASSUME NEW S, IsFiniteSet(S)
  PROVE  /\ Cardinality(S) \in Nat
         /\ SetToSeq(S) \in [1 .. Cardinality(S) -> S]
         /\ \A x \in S : \E i \in 1 .. Cardinality(S) : SetToSeq(S)[i] = x
  <1> DEFINE n == Cardinality(S)
             D == 1 .. n
             q == SetToSeq(S)
  <1>1. n \in Nat /\ ExistsBijection(D, S)
    BY FS_CardinalityType
  <1>2. IsFiniteSet(D) /\ Cardinality(D) = n
    BY <1>1, FS_Interval
  <1> HIDE DEF D
  <1>3. \E f \in [D -> S] : IsInjective(f)
    BY <1>1 DEF ExistsBijection, Bijection, Injection, IsInjective
  <1>4. q \in [D -> S] /\ IsInjective(q)
    BY <1>3 DEF SetToSeq, D
  <1> HIDE DEF q
  <1>5. q \in Injection(D, S)
    BY <1>4 DEF Injection, IsInjective
  <1>6. q \in Surjection(D, S)
    BY <1>2, <1>5, FS_Injection
  <1>7. \A x \in S : \E i \in D : q[i] = x
    BY <1>6 DEF Surjection
  <1>8. QED
    BY <1>1, <1>4, <1>7 DEF D, q

LEMMA ParentText ==
  ASSUME NEW p \in Text
  PROVE  Parent(p) \in Text
  <1>1. LastSlash(p) \in 0 .. Len(p) /\ Len(p) \in Nat
    BY LastSlashIs, TextFacts
  <1>2. CASE LastSlash(p) = 0
    <2>1. Parent(p) = SubSeq(p, 1, -1)
      BY <1>2 DEF Parent
    <2>2. SubSeq(p, 1, -1) = <<>>
      OBVIOUS
    <2>3. QED
      BY <2>1, <2>2, SlashText
  <1>3. CASE LastSlash(p) # 0
    BY <1>1, <1>3, PrefixText DEF Parent
  <1>4. QED
    BY <1>2, <1>3

States == [ok : BOOLEAN, tree : Trees]

LEMMA OpenOneFacts ==
  ASSUME NEW st \in States, NEW p \in Text
  PROVE  /\ OpenOne(st, p) \in States
         /\ OpenOne(st, p).ok => /\ st.ok
                                 /\ st.tree.files \subseteq OpenOne(st, p).tree.files
                                 /\ Canonical(p) \in OpenOne(st, p).tree.files
  <1> DEFINE tree == Mkdirs(st.tree, Parent(p))
             e == Canonical(p)
             ok == Parent(e) \in tree.dirs /\ e \notin tree.dirs
  <1>1. st.tree \in Trees
    BY DEF States
  <1>2. tree \in Trees /\ tree.files = st.tree.files
    BY <1>1, ParentText, MkdirsGrows DEF Grown
  <1>3. e \in Text
    BY CanonicalIs
  <1>4. OpenOne(st, p) = IF ~st.ok THEN st
                         ELSE [ok |-> ok, tree |-> IF ok THEN [tree EXCEPT !.files = @ \cup {e}] ELSE tree]
    BY DEF OpenOne
  <1> HIDE DEF tree, e
  <1>5. CASE ~st.ok
    BY <1>4, <1>5
  <1>6. CASE st.ok /\ ok
    <2> DEFINE new == [tree EXCEPT !.files = @ \cup {e}]
    <2>1. new \in Trees /\ new.files = tree.files \cup {e}
      BY <1>2, <1>3, <1>6 DEF Trees
    <2> HIDE DEF new
    <2>2. OpenOne(st, p) = [ok |-> TRUE, tree |-> new]
      BY <1>4, <1>6 DEF new
    <2>3. QED
      BY <1>2, <1>6, <2>1, <2>2 DEF States, e
  <1>7. CASE st.ok /\ ~ok
    <2>1. OpenOne(st, p) = [ok |-> FALSE, tree |-> tree]
      BY <1>4, <1>7
    <2>2. QED
      BY <1>2, <2>1 DEF States
  <1>8. QED
    BY <1>5, <1>6, <1>7

\* The loop of migrate_start, file by file; h[k] is the state after the k-th.
LEMMA OpenAllSteps ==
  ASSUME there \in Trees, NEW paths \in SUBSET Text, IsFiniteSet(paths)
  PROVE  \E n \in Nat : \E q \in [1 .. n -> paths] : \E h \in [0 .. n -> States] :
           /\ \A p \in paths : \E k \in 1 .. n : q[k] = p
           /\ h[0] = [ok |-> TRUE, tree |-> there]
           /\ \A k \in 1 .. n : h[k] = OpenOne(h[k - 1], q[k])
           /\ OpenAll(paths) = h[n]
  <1> DEFINE n == Cardinality(paths)
             S == 1 .. n
             q == SetToSeq(paths)
             t == [ok |-> TRUE, tree |-> there]
             g == [k \in S |-> [u \in States |-> OpenOne(u, q[k])]]
             c == [s \in (SUBSET S) \ {{}} |-> Max(s)]
             Eq(f) == f = [s \in SUBSET DOMAIN q |->
                             IF s = {} THEN t ELSE OpenOne(f[s \ {Max(s)}], q[Max(s)])]
             iter == CHOOSE f : Eq(f)
  <1>1. n \in Nat /\ q \in [S -> paths] /\ \A x \in paths : \E i \in S : q[i] = x
    BY SetToSeqOf
  <1>2. t \in States
    BY DEF States
  <1>3. \A k \in S : q[k] \in Text
    BY <1>1
  <1>4. OpenAll(paths) = iter[DOMAIN q]
    BY DEF OpenAll, FoldLeft, MapThenFoldSet
  <1>5. DOMAIN q = S
    BY <1>1
  <1> HIDE DEF q, n
  <1>6. PICK f \in [SUBSET S -> States] : FoldOf(S, t, g, c, f)
    <2>1. g \in [S -> [States -> States]]
      BY <1>3, OpenOneFacts
    <2>2. IsFiniteSet(S)
      BY <1>1, FS_Interval
    <2>3. Choosing(S, c)
      BY <1>1, MaxChooses, Zenon
    <2> HIDE DEF g, c, S, t
    <2>4. QED
      BY <1>2, <2>1, <2>2, <2>3, FoldExists
  <1> HIDE DEF t
  <1>7. ASSUME NEW s \in SUBSET S
        PROVE  f[s] = IF s = {} THEN t ELSE OpenOne(f[s \ {Max(s)}], q[Max(s)])
    <2>1. CASE s = {}
      BY <1>6, <2>1 DEF FoldOf, FoldStep
    <2>2. CASE s # {}
      <3>1. Max(s) \in s
        BY <1>1, <2>2, GreatestMember
      <3>2. Max(s) \in S /\ c[s] = Max(s) /\ s \ {Max(s)} \in SUBSET S /\ f[s \ {Max(s)}] \in States
        BY <2>2, <3>1
      <3>3. f[s] = g[Max(s)][f[s \ {Max(s)}]]
        BY <1>6, <2>2, <3>2 DEF FoldOf, FoldStep
      <3>4. g[Max(s)][f[s \ {Max(s)}]] = OpenOne(f[s \ {Max(s)}], q[Max(s)])
        BY <3>2
      <3>5. QED
        BY <2>2, <3>3, <3>4
    <2>3. QED
      BY <2>1, <2>2
  <1>8. Eq(f)
    BY <1>5, <1>6, <1>7
  <1>9. Eq(iter)
    <2> HIDE DEF Eq
    <2>1. QED
      BY <1>8
  <1> HIDE DEF iter
  <1> DEFINE N == {m \in Nat : m <= n => iter[1 .. m] \in States}
             h == [m \in 0 .. n |-> iter[1 .. m]]
  <1>10. 0 \in N /\ iter[1 .. 0] = t
    <2>1. 1 .. 0 = {} /\ {} \in SUBSET S
      OBVIOUS
    <2>2. iter[{}] = t
      BY <1>5, <1>9
    <2>3. QED
      BY <1>2, <2>1, <2>2
  <1>11. ASSUME NEW k \in S
         PROVE  iter[1 .. k] = OpenOne(iter[1 .. k - 1], q[k])
    <2>1. k \in Nat \ {0} /\ 1 .. k # {} /\ 1 .. k \in SUBSET S
      BY <1>1
    <2> HIDE DEF S
    <2>2. Max(1 .. k) = k /\ (1 .. k) \ {k} = 1 .. k - 1
      BY <2>1, MaxUpTo
    <2>3. iter[1 .. k] = OpenOne(iter[(1 .. k) \ {Max(1 .. k)}], q[Max(1 .. k)])
      BY <1>5, <1>9, <2>1
    <2>4. QED
      BY <2>2, <2>3
  <1>12. ASSUME NEW m \in N
         PROVE  m + 1 \in N
    <2>1. SUFFICES ASSUME m + 1 <= n
                   PROVE  iter[1 .. m + 1] \in States
      OBVIOUS
    <2> DEFINE k == m + 1
    <2>2. k \in S /\ k - 1 = m
      <3>1. m \in Nat
        OBVIOUS
      <3> HIDE DEF N
      <3>2. QED
        BY <1>1, <2>1, <3>1
    <2>3. iter[1 .. m] \in States
      BY <1>1, <2>1
    <2> HIDE DEF k, N, S
    <2>4. iter[1 .. k] \in States
      BY <1>3, <1>11, <2>2, <2>3, OpenOneFacts
    <2>5. QED
      BY <2>4 DEF k
  <1>13. N = Nat
    <2>1. N \in SUBSET Nat
      OBVIOUS
    <2> HIDE DEF N
    <2>2. QED
      BY <1>10, <1>12, <2>1, Induction
  <1>14. \A m \in 0 .. n : iter[1 .. m] \in States
    BY <1>1, <1>13
  <1>15. h \in [0 .. n -> States] /\ h[0] = t /\ h[n] = iter[DOMAIN q]
    BY <1>1, <1>5, <1>10, <1>14
  <1>16. ASSUME NEW k \in 1 .. n
         PROVE  h[k] = OpenOne(h[k - 1], q[k])
    <2>1. k \in S /\ k \in 0 .. n /\ k - 1 \in 0 .. n
      BY <1>1
    <2>2. h[k] = iter[1 .. k] /\ h[k - 1] = iter[1 .. k - 1]
      BY <2>1
    <2> HIDE DEF h, S
    <2>3. QED
      BY <1>11, <2>1, <2>2
  <1> HIDE DEF h
  <1>17. QED
    BY <1>1, <1>4, <1>15, <1>16 DEF t

\* If the loop of migrate_start ends well every file has been made.
LEMMA OpenAllFacts ==
  ASSUME there \in Trees, NEW paths \in SUBSET Text, IsFiniteSet(paths)
  PROVE  /\ OpenAll(paths) \in States
         /\ OpenAll(paths).ok => \A p \in paths : Canonical(p) \in OpenAll(paths).tree.files
  <1>1. PICK n \in Nat : \E q \in [1 .. n -> paths] : \E h \in [0 .. n -> States] :
           /\ \A p \in paths : \E k \in 1 .. n : q[k] = p
           /\ h[0] = [ok |-> TRUE, tree |-> there]
           /\ \A k \in 1 .. n : h[k] = OpenOne(h[k - 1], q[k])
           /\ OpenAll(paths) = h[n]
    BY OpenAllSteps
  <1>2. PICK q \in [1 .. n -> paths], h \in [0 .. n -> States] :
           /\ \A p \in paths : \E k \in 1 .. n : q[k] = p
           /\ h[0] = [ok |-> TRUE, tree |-> there]
           /\ \A k \in 1 .. n : h[k] = OpenOne(h[k - 1], q[k])
           /\ OpenAll(paths) = h[n]
    BY <1>1
  <1> DEFINE Made(m) == h[m].ok => \A i \in 1 .. m : Canonical(q[i]) \in h[m].tree.files
             N == {m \in Nat : m <= n => Made(m)}
  <1>3. 0 \in N
    OBVIOUS
  <1>4. ASSUME NEW m \in N
        PROVE  m + 1 \in N
    <2>1. SUFFICES ASSUME m + 1 <= n
                   PROVE  Made(m + 1)
      OBVIOUS
    <2> DEFINE k == m + 1
    <2>2. m \in Nat /\ Made(m)
      BY <2>1
    <2> HIDE DEF N
    <2>3. k \in 1 .. n /\ k - 1 = m /\ m \in 0 .. n
      BY <2>1, <2>2
    <2>4. \A i \in 1 .. k : i = k \/ i \in 1 .. m
      BY <2>2
    <2> HIDE DEF k
    <2>5. h[k] = OpenOne(h[m], q[k]) /\ h[m] \in States /\ q[k] \in Text
      BY <1>2, <2>3
    <2>6. h[k].ok => /\ h[m].ok /\ h[m].tree.files \subseteq h[k].tree.files
                     /\ Canonical(q[k]) \in h[k].tree.files
      BY <2>5, OpenOneFacts
    <2>7. Made(k)
      BY <2>2, <2>4, <2>6
    <2>8. QED
      BY <2>7 DEF k
  <1>5. N = Nat
    <2>1. N \in SUBSET Nat
      OBVIOUS
    <2> HIDE DEF N
    <2>2. QED
      BY <1>3, <1>4, <2>1, Induction
  <1>6. Made(n) /\ h[n] \in States
    BY <1>5
  <1>7. QED
    BY <1>2, <1>6

-----------------------------------------------------------------------------
(* Sums of sizes                                                           *)

Taken(s) == CHOOSE x \in s : TRUE

Sums(S, f) ==
  \A s \in SUBSET S : f[s] = IF s = {} THEN 0 ELSE Size[Taken(s)] + f[s \ {Taken(s)}]

LEMMA SumsExist ==
  \E f \in [SUBSET DOMAIN Kind -> Nat] : Sums(DOMAIN Kind, f)
  <1> DEFINE S == DOMAIN Kind
             g == [k \in S |-> [v \in Nat |-> Size[k] + v]]
             c == [s \in (SUBSET S) \ {{}} |-> Taken(s)]
  <1>1. Size \in [S -> Nat] /\ IsFiniteSet(S) /\ 0 \in Nat
    BY FilesetAssumption, TreeAssumption
  <1>2. g \in [S -> [Nat -> Nat]]
    BY <1>1
  <1>3. Choosing(S, c)
    BY DEF Choosing, Taken
  <1>4. PICK f \in [SUBSET S -> Nat] : FoldOf(S, 0, g, c, f)
    <2> HIDE DEF g, c, S
    <2>1. QED
      BY <1>1, <1>2, <1>3, FoldExists
  <1>5. ASSUME NEW s \in SUBSET S
        PROVE  f[s] = IF s = {} THEN 0 ELSE Size[Taken(s)] + f[s \ {Taken(s)}]
    <2>1. CASE s = {}
      BY <1>4, <2>1 DEF FoldOf, FoldStep
    <2>2. CASE s # {}
      <3> DEFINE x == Taken(s)
      <3>1. x \in s /\ c[s] = x /\ s \ {x} \in SUBSET S /\ f[s \ {x}] \in Nat
        BY <2>2 DEF Taken
      <3>2. f[s] = g[x][f[s \ {x}]]
        BY <1>4, <2>2, <3>1 DEF FoldOf, FoldStep
      <3> HIDE DEF x
      <3>3. g[x][f[s \ {x}]] = Size[x] + f[s \ {x}]
        BY <3>1
      <3>4. QED
        BY <2>2, <3>2, <3>3 DEF x
    <2>3. QED
      BY <2>1, <2>2
  <1>6. Sums(S, f)
    BY <1>5 DEF Sums
  <1>7. QED
    BY <1>6

\* The definition of the sum over one set and that of another agree.
LEMMA SumsAgree ==
  ASSUME NEW S, IsFiniteSet(S), NEW f, Sums(S, f), NEW h, Sums(S, h)
  PROVE  f[S] = h[S]
  <1> DEFINE T == {s \in SUBSET S : f[s] = h[s]}
  <1>1. {} \in T
    BY DEF Sums
  <1>2. ASSUME NEW s \in (SUBSET S) \ {{}}
        PROVE  \E x \in s : s \ {x} \in T => s \in T
    <2>1. Taken(s) \in s
      BY DEF Taken
    <2>2. /\ f[s] = Size[Taken(s)] + f[s \ {Taken(s)}]
          /\ h[s] = Size[Taken(s)] + h[s \ {Taken(s)}]
      BY DEF Sums
    <2>3. s \ {Taken(s)} \in T => s \in T
      BY <2>2
    <2>4. QED
      BY <2>1, <2>3
  <1>3. T = SUBSET S
    <2>1. T \in SUBSET SUBSET S
      OBVIOUS
    <2> HIDE DEF T
    <2>2. QED
      BY <1>1, <1>2, <2>1, SubsetInduction
  <1>4. QED
    BY <1>3

LEMMA TotalSizeIs ==
  ASSUME NEW f \in [SUBSET DOMAIN Kind -> Nat], Sums(DOMAIN Kind, f), NEW S \in SUBSET DOMAIN Kind
  PROVE  TotalSize(S) = f[S]
  <1> DEFINE Eq(h) == h = [s \in SUBSET S |->
                             IF s = {} THEN 0
                             ELSE LET x == CHOOSE x \in s : TRUE IN Size[x] + h[s \ {x}]]
             iter == CHOOSE h : Eq(h)
             r == [s \in SUBSET S |-> f[s]]
  <1>1. IsFiniteSet(S)
    BY TreeAssumption, FS_Subset
  <1>2. Sums(S, f)
    BY DEF Sums
  <1>3. Eq(r)
    <2>1. ASSUME NEW s \in SUBSET S
          PROVE  r[s] = IF s = {} THEN 0 ELSE Size[Taken(s)] + r[s \ {Taken(s)}]
      BY <1>2 DEF Sums
    <2>2. QED
      BY <2>1 DEF Taken
  <1>4. Eq(iter)
    <2> HIDE DEF Eq
    <2>1. QED
      BY <1>3
  <1>5. TotalSize(S) = iter[S]
    BY DEF TotalSize, MapThenSumSet, MapThenFoldSet
  <1> HIDE DEF iter
  <1>6. Sums(S, iter)
    BY <1>4 DEF Sums, Taken
  <1>7. QED
    BY <1>1, <1>2, <1>5, <1>6, SumsAgree

\* Whichever element is taken first, the sum is the same.
LEMMA SumsTakeAny ==
  ASSUME NEW S, IsFiniteSet(S), \A x \in S : Size[x] \in Nat,
         NEW f, \A s \in SUBSET S : f[s] \in Nat, Sums(S, f),
         NEW x0 \in S
  PROVE  f[S] = Size[x0] + f[S \ {x0}]
  <1> DEFINE Whichever(s) == \A x \in s : f[s] = Size[x] + f[s \ {x}]
             T == {s \in SUBSET S : Whichever(s)}
  <1>1. {} \in T
    OBVIOUS
  <1>2. ASSUME NEW s \in (SUBSET S) \ {{}}
        PROVE  \E x \in s : s \ {x} \in T => s \in T
    <2> DEFINE y == Taken(s)
    <2>1. y \in s /\ f[s] = Size[y] + f[s \ {y}]
      BY DEF Taken, Sums
    <2> HIDE DEF y
    <2>2. SUFFICES ASSUME \A x \in s : s \ {x} \in T
                   PROVE  s \in T
      BY <2>1
    <2>3. ASSUME NEW x \in s
          PROVE  f[s] = Size[x] + f[s \ {x}]
      <3>1. CASE x = y
        BY <2>1, <3>1
      <3>2. CASE x # y
        <4> DEFINE u == f[(s \ {x}) \ {y}]
        <4>1. (s \ {y}) \ {x} = (s \ {x}) \ {y} /\ x \in s \ {y} /\ y \in s \ {x}
          BY <2>1, <3>2
        <4>2. f[s \ {y}] = Size[x] + u
          BY <2>1, <2>2, <4>1
        <4>3. f[s \ {x}] = Size[y] + u
          BY <2>2, <4>1
        <4>4. u \in Nat /\ Size[x] \in Nat /\ Size[y] \in Nat
          BY <2>1
        <4> HIDE DEF u
        <4>5. QED
          BY <2>1, <4>2, <4>3, <4>4
      <3>3. QED
        BY <3>1, <3>2
    <2>4. QED
      BY <2>3
  <1>3. T = SUBSET S
    <2>1. T \in SUBSET SUBSET S
      OBVIOUS
    <2> HIDE DEF T
    <2>2. QED
      BY <1>1, <1>2, <2>1, SubsetInduction
  <1>4. QED
    BY <1>3

LEMMA TotalSizeFacts ==
  /\ TotalSize({}) = 0
  /\ \A S \in SUBSET DOMAIN Kind : TotalSize(S) \in Nat
  /\ \A S \in SUBSET DOMAIN Kind : \A x \in DOMAIN Kind \ S :
       TotalSize(S \cup {x}) = TotalSize(S) + Size[x]
  <1>1. PICK f \in [SUBSET DOMAIN Kind -> Nat] : Sums(DOMAIN Kind, f)
    BY SumsExist
  <1>2. \A S \in SUBSET DOMAIN Kind : TotalSize(S) = f[S]
    BY <1>1, TotalSizeIs
  <1>3. TotalSize({}) = 0
    BY <1>1, <1>2 DEF Sums
  <1>4. ASSUME NEW S \in SUBSET DOMAIN Kind, NEW x \in DOMAIN Kind \ S
        PROVE  TotalSize(S \cup {x}) = TotalSize(S) + Size[x]
    <2> DEFINE U == S \cup {x}
    <2>1. U \in SUBSET DOMAIN Kind /\ U \ {x} = S /\ x \in U
      OBVIOUS
    <2>2. IsFiniteSet(U) /\ Size \in [DOMAIN Kind -> Nat]
      BY <2>1, TreeAssumption, FilesetAssumption, FS_Subset
    <2> HIDE DEF U
    <2>3. f[U] = Size[x] + f[U \ {x}]
      <3>1. Sums(U, f) /\ \A s \in SUBSET U : f[s] \in Nat
        BY <1>1, <2>1 DEF Sums
      <3>2. \A y \in U : Size[y] \in Nat
        BY <2>1, <2>2
      <3>3. QED
        BY <2>1, <2>2, <3>1, <3>2, SumsTakeAny
    <2>4. f[U] \in Nat /\ f[S] \in Nat /\ Size[x] \in Nat
      BY <2>1, <2>2
    <2>5. f[U] = f[S] + Size[x]
      <3>1. f[U] = Size[x] + f[S]
        BY <2>1, <2>3
      <3>2. \A a, b \in Nat : a + b = b + a
        OBVIOUS
      <3>3. QED
        BY <2>4, <3>1, <3>2, Zenon
    <2>6. TotalSize(U) = f[U] /\ TotalSize(S) = f[S]
      BY <1>2, <2>1
    <2>7. QED
      BY <2>5, <2>6 DEF U
  <1>5. QED
    BY <1>1, <1>2, <1>3, <1>4

-----------------------------------------------------------------------------
(* What mkdirs makes                                                       *)

\* Where the path leads at its k-th character: what it leads into at a slash.
At(p, k) == Canonical(SubSeq(p, 1, k - 1))

\* What stands at a slash is the root of names, or what stands at an earlier one,
\* or lies in one of these.
LEMMA LeadsHere ==
  ASSUME NEW p \in Text, NEW k \in 1 .. Len(p)
  PROVE  \/ At(p, k) = <<>> \/ Parent(At(p, k)) = <<>>
         \/ \E j \in 1 .. k - 1 : p[j] = Slash /\ (At(p, k) = At(p, j) \/ Parent(At(p, k)) = At(p, j))
  <1> DEFINE s == SubSeq(p, 1, k - 1)
             l == LastSlash(s)
  <1>1. Len(p) \in Nat /\ k \in Nat \ {0} /\ k - 1 \in Nat
    BY TextFacts
  <1>2. s \in Text /\ Len(s) = k - 1 /\ \A i \in 1 .. k - 1 : s[i] = p[i]
    BY CutAt
  <1>3. Canonical(<<>>) = <<>> /\ <<>> \in Text
    BY SlashText, CanonicalIs, UpToFacts
  <1>4. At(p, k) = Canonical(s)
    BY DEF At
  <1>5. ASSUME NEW j \in 1 .. k - 1
        PROVE  SubSeq(s, 1, j - 1) = SubSeq(p, 1, j - 1)
    <2> DEFINE u == SubSeq(s, 1, j - 1)
               v == SubSeq(p, 1, j - 1)
    <2>1. j \in 1 .. Len(s) /\ j \in 1 .. Len(p) /\ j - 1 \in Nat /\ j - 1 < k - 1
      BY <1>1, <1>2
    <2> HIDE DEF s
    <2>2. u \in Text /\ Len(u) = j - 1 /\ \A i \in 1 .. j - 1 : u[i] = s[i]
      BY <1>2, <2>1, CutAt
    <2>3. v \in Text /\ Len(v) = j - 1 /\ \A i \in 1 .. j - 1 : v[i] = p[i]
      BY <2>1, CutAt
    <2> HIDE DEF u, v
    <2>4. \A i \in 1 .. j - 1 : i \in 1 .. k - 1
      BY <1>1, <2>1
    <2>5. \A i \in 1 .. Len(u) : u[i] = v[i]
      BY <1>2, <2>2, <2>3, <2>4
    <2>6. QED
      BY <2>2, <2>3, <2>5, TextEqual DEF u, v
  <1>6. CASE k = 1
    <2>1. Len(s) = 0
      BY <1>2, <1>6
    <2>2. s = <<>>
      BY <1>2, <2>1, EmptySeq DEF Text
    <2>3. QED
      BY <1>3, <1>4, <2>2
  <1>7. CASE k # 1 /\ EndsInSlash(s)
    <2> DEFINE u == SubSeq(s, 1, Len(s) - 1)
    <2>1. Len(s) = k - 1 /\ k - 1 \in 1 .. k - 1 /\ k - 1 \in 1 .. Len(s)
      BY <1>1, <1>2, <1>7
    <2> HIDE DEF s
    <2>2. s[k - 1] = Slash
      BY <1>2, <1>7, <2>1, EndsInSlashIs
    <2>3. p[k - 1] = Slash
      BY <1>2, <2>1, <2>2
    <2>4. s = Append(u, Slash) /\ u \in Text
      BY <1>2, <1>7, WithoutSlash
    <2>5. Canonical(s) = Canonical(u)
      BY <2>4, FinalSlash
    <2>6. u = SubSeq(p, 1, (k - 1) - 1)
      BY <1>5, <2>1
    <2>7. At(p, k - 1) = Canonical(u)
      BY <2>6 DEF At
    <2>8. QED
      BY <1>4, <2>1, <2>3, <2>5, <2>7
  <1>8. CASE k # 1 /\ ~EndsInSlash(s)
    <2>1. Parent(Canonical(s)) = Canonical(Parent(s))
      BY <1>2, <1>8, CanonicalParent
    <2>2. l \in 0 .. Len(s) /\ (l # 0 => s[l] = Slash)
      BY <1>2, LastSlashIs
    <2>3. Parent(s) = SubSeq(s, 1, l - 1)
      BY DEF Parent
    <2> HIDE DEF l, s
    <2>4. CASE l = 0
      <3>1. SubSeq(s, 1, -1) = <<>>
        OBVIOUS
      <3>2. Parent(s) = <<>>
        BY <2>3, <2>4, <3>1
      <3>3. QED
        BY <1>3, <1>4, <2>1, <3>2
    <2>5. CASE l # 0
      <3>1. l \in 1 .. k - 1 /\ p[l] = Slash
        BY <1>1, <1>2, <2>2, <2>5
      <3>2. Parent(s) = SubSeq(p, 1, l - 1)
        BY <1>5, <2>3, <3>1
      <3>3. Parent(At(p, k)) = At(p, l)
        BY <1>4, <2>1, <3>2 DEF At
      <3>4. QED
        BY <3>1, <3>3
    <2>6. QED
      BY <2>4, <2>5
  <1>9. QED
    BY <1>6, <1>7, <1>8


\* What stands at the slashes of the first k characters is a directory.
Made(u, p, k) == \A j \in 1 .. k : p[j] = Slash => At(p, j) \in u.dirs

\* No file stands where the path leads through.
Unblocked(names, p) == \A k \in 1 .. Len(p) : p[k] = Slash => At(p, k) \notin names

LEMMA AtText ==
  ASSUME NEW p \in Text, NEW k \in 1 .. Len(p)
  PROVE  At(p, k) \in Text
  BY CutAt, CanonicalIs DEF At

LEMMA MkdirMakes ==
  ASSUME NEW u \in Trees, NEW e \in Text, e \notin u.files, e \in u.dirs \/ Parent(e) \in u.dirs
  PROVE  e \in Mkdir(u, e).dirs
  BY DEF Mkdir, Trees

LEMMA MkdirKeeps ==
  ASSUME NEW u \in Trees, NEW e \in Text
  PROVE  /\ u.dirs \subseteq Mkdir(u, e).dirs
         /\ Mkdir(u, e).dirs \subseteq u.dirs \cup {e}
         /\ e \in u.dirs => Mkdir(u, e) = u
  BY DEF Mkdir, Trees

LEMMA MadeHere ==
  ASSUME NEW u \in Trees, NEW p \in Text, Unblocked(u.files, p),
         NEW k \in 1 .. Len(p), p[k] = Slash, Made(u, p, k - 1)
  PROVE  Made(Mkdir(u, At(p, k)), p, k)
  <1>1. At(p, k) \in Text /\ At(p, k) \notin u.files /\ <<>> \in u.dirs
    BY AtText DEF Unblocked, Trees
  <1>2. At(p, k) \in u.dirs \/ Parent(At(p, k)) \in u.dirs
    BY <1>1, LeadsHere DEF Made
  <1>3. At(p, k) \in Mkdir(u, At(p, k)).dirs
    BY <1>1, <1>2, MkdirMakes
  <1>4. u.dirs \subseteq Mkdir(u, At(p, k)).dirs
    BY <1>1, MkdirKeeps
  <1>5. \A j \in 1 .. k : j = k \/ j \in 1 .. k - 1
    BY TextFacts
  <1>6. QED
    BY <1>3, <1>4, <1>5 DEF Made

\* The directories that a path leads through.
Way(p) == {d \in Text : Within(Canonical(p), d)}

\* mkdirs makes directories on the way only, and all of them unless there is a file.
LEMMA MkdirsMakes ==
  ASSUME NEW t \in Trees, NEW p \in Text, ~EndsInSlash(p)
  PROVE  /\ Mkdirs(t, Parent(p)) \in Grown(t)
         /\ Mkdirs(t, Parent(p)).dirs \subseteq t.dirs \cup Way(p)
         /\ Unblocked(t.files, p) => Parent(Canonical(p)) \in Mkdirs(t, Parent(p)).dirs
  <1> DEFINE l == LastSlash(p)
             dir == Parent(p)
             w == Mkdirs(t, dir)
  <1>1. /\ l \in 0 .. Len(p) /\ Len(p) \in Nat /\ (l # 0 => p[l] = Slash)
    BY LastSlashIs, TextFacts
  <1>2. dir \in Text /\ Canonical(dir) \in Text /\ w \in Grown(t)
    BY ParentText, CanonicalIs, MkdirsGrows
  <1>3. Parent(Canonical(p)) = Canonical(dir)
    BY CanonicalParent
  <1>4. PICK h \in [0 .. Len(dir) -> Grown(t)] :
           /\ h[0] = t
           /\ \A k \in 1 .. Len(dir) : h[k] = MkdirAt(h[k - 1], dir, k)
           /\ w = Mkdir(h[Len(dir)], Canonical(dir))
    BY <1>2, MkdirsSteps
  <1>5. CASE l = 0
    <2>1. SubSeq(p, 1, -1) = <<>>
      OBVIOUS
    <2>2. dir = <<>> /\ Len(<<>>) = 0
      BY <1>5, <2>1 DEF Parent
    <2>3. Canonical(dir) = <<>>
      BY <2>2, SlashText, CanonicalIs, UpToFacts
    <2>4. <<>> \in t.dirs
      BY DEF Trees
    <2> HIDE DEF w, dir
    <2>5. w = Mkdir(t, <<>>)
      BY <1>4, <2>2, <2>3
    <2>6. w = t
      BY <2>4, <2>5, SlashText, MkdirKeeps
    <2>7. QED
      BY <1>2, <1>3, <2>3, <2>4, <2>6 DEF w, dir
  <1>6. CASE l # 0
    <2>1. l \in 1 .. Len(p) /\ p[l] = Slash
      BY <1>1, <1>6
    <2>2. dir = SubSeq(p, 1, l - 1)
      BY DEF Parent
    <2> HIDE DEF l
    <2>3. Canonical(dir) = At(p, l)
      BY <2>2 DEF At
    <2>4. Len(dir) = l - 1 /\ \A k \in 1 .. l - 1 : dir[k] = p[k]
      BY <2>1, <2>2, CutAt
    <2> HIDE DEF dir, w
    <2>5. ASSUME NEW k \in 1 .. Len(dir)
          PROVE  /\ k \in 1 .. Len(p) /\ dir[k] = p[k] /\ Canonical(SubSeq(dir, 1, k - 1)) = At(p, k)
      <3>1. k \in 1 .. Len(p) /\ k \in 1 .. l - 1
        BY <1>1, <2>1, <2>4
      <3> DEFINE u == SubSeq(dir, 1, k - 1)
                 v == SubSeq(p, 1, k - 1)
      <3>2. u \in Text /\ Len(u) = k - 1 /\ \A i \in 1 .. k - 1 : u[i] = dir[i]
        BY <1>2, CutAt
      <3>3. v \in Text /\ Len(v) = k - 1 /\ \A i \in 1 .. k - 1 : v[i] = p[i]
        BY <3>1, CutAt
      <3> HIDE DEF u, v
      <3>4. \A i \in 1 .. k - 1 : i \in 1 .. l - 1
        BY <2>1, <3>1, <1>1
      <3>5. u = v
        BY <2>4, <3>2, <3>3, <3>4, TextEqual
      <3>6. QED
        BY <2>4, <3>1, <3>5 DEF u, v, At
    <2>6. ASSUME NEW k \in 1 .. Len(p), p[k] = Slash
          PROVE  At(p, k) \in Way(p)
      BY <2>6, PrefixWithin, AtText DEF At, Way
    <2> DEFINE S == {k \in Nat : k <= Len(dir) =>
                       /\ h[k].dirs \subseteq t.dirs \cup Way(p)
                       /\ Unblocked(t.files, p) => Made(h[k], p, k)}
    <2>7. Len(dir) \in Nat
      BY <1>2, TextFacts
    <2>8. 0 \in S
      <3>1. 1 .. 0 = {}
        OBVIOUS
      <3>2. Made(h[0], p, 0)
        BY <3>1 DEF Made
      <3>3. QED
        BY <1>4, <3>2
    <2>9. ASSUME NEW k \in S
          PROVE  k + 1 \in S
      <3>1. SUFFICES ASSUME k + 1 <= Len(dir)
                     PROVE  /\ h[k + 1].dirs \subseteq t.dirs \cup Way(p)
                            /\ Unblocked(t.files, p) => Made(h[k + 1], p, k + 1)
        OBVIOUS
      <3> DEFINE m == k + 1
                 u == h[k]
      <3>2. k \in Nat /\ k <= Len(dir) /\ m \in 1 .. Len(dir) /\ m - 1 = k /\ k \in 0 .. Len(dir)
        BY <2>7, <3>1
      <3>3. u \in Grown(t) /\ u \in Trees /\ u.files = t.files
        BY <3>2 DEF Grown
      <3>4. u.dirs \subseteq t.dirs \cup Way(p) /\ (Unblocked(t.files, p) => Made(u, p, k))
        BY <3>2
      <3> HIDE DEF S
      <3>5. h[m] = MkdirAt(u, dir, m)
        BY <1>4, <3>2
      <3>6. /\ m \in 1 .. Len(p) /\ dir[m] = p[m] /\ Canonical(SubSeq(dir, 1, m - 1)) = At(p, m)
        BY <2>5, <3>2
      <3>7. At(p, m) \in Text
        BY <3>6, AtText
      <3>8. \A j \in 1 .. m : j = m \/ j \in 1 .. k
        BY <3>2
      <3> HIDE DEF m, u
      <3>9. CASE p[m] # Slash
        <4>1. h[m] = u
          BY <3>5, <3>6, <3>9 DEF MkdirAt
        <4>2. Made(u, p, k) => Made(u, p, m)
          BY <3>8, <3>9 DEF Made
        <4>3. QED
          BY <3>4, <4>1, <4>2 DEF m
      <3>10. CASE p[m] = Slash /\ m = 1
        <4>1. h[m] = u
          BY <3>5, <3>10 DEF MkdirAt
        <4>2. At(p, m) = <<>>
          <5>1. SubSeq(p, 1, 1 - 1) = <<>>
            <6>1. 1 \in 1 .. Len(p)
              BY <3>6, <3>10
            <6>2. SubSeq(p, 1, 1 - 1) \in Text /\ Len(SubSeq(p, 1, 1 - 1)) = 0
              BY <6>1, CutAt
            <6>3. QED
              BY <6>2, EmptySeq DEF Text
          <5>2. QED
            BY <3>10, <5>1, SlashText, CanonicalIs, UpToFacts DEF At
        <4>3. At(p, m) \in u.dirs
          BY <3>3, <4>2 DEF Trees
        <4>4. Made(u, p, k) => Made(u, p, m)
          BY <3>8, <4>3 DEF Made
        <4>5. QED
          BY <3>4, <4>1, <4>4 DEF m
      <3>11. CASE p[m] = Slash /\ m # 1
        <4>1. m > 1
          BY <3>2, <3>11
        <4>2. h[m] = Mkdir(u, At(p, m))
          BY <3>5, <3>6, <3>11, <4>1 DEF MkdirAt
        <4>3. h[m].dirs \subseteq t.dirs \cup Way(p)
          BY <2>6, <3>3, <3>4, <3>6, <3>7, <3>11, <4>2, MkdirKeeps
        <4>4. ASSUME Unblocked(t.files, p)
              PROVE  Made(h[m], p, m)
          BY <3>2, <3>3, <3>4, <3>6, <3>11, <4>2, <4>4, MadeHere
        <4>5. QED
          BY <4>3, <4>4 DEF m
      <3>12. QED
        BY <3>9, <3>10, <3>11
    <2>10. Len(dir) \in S
      <3>1. S = Nat
        <4>1. S \in SUBSET Nat
          OBVIOUS
        <4> HIDE DEF S
        <4>2. QED
          BY <2>8, <2>9, <4>1, Induction
      <3> HIDE DEF S
      <3>2. QED
        BY <2>7, <3>1
    <2> DEFINE z == h[Len(dir)]
    <2>11. /\ z \in Trees /\ z.files = t.files /\ z.dirs \subseteq t.dirs \cup Way(p)
           /\ Unblocked(t.files, p) => Made(z, p, l - 1)
      BY <2>4, <2>7, <2>10 DEF Grown
    <2>12. w = Mkdir(z, At(p, l))
      BY <1>4, <2>3
    <2> HIDE DEF z, S
    <2>13. w.dirs \subseteq t.dirs \cup Way(p)
      BY <2>1, <2>6, <2>11, <2>12, AtText, MkdirKeeps
    <2>14. ASSUME Unblocked(t.files, p)
           PROVE  At(p, l) \in w.dirs
      <3>1. Made(w, p, l)
        BY <2>1, <2>11, <2>12, <2>14, MadeHere
      <3>2. l \in 1 .. l
        BY <2>1, <1>1
      <3>3. QED
        BY <2>1, <3>1, <3>2 DEF Made
    <2>15. QED
      BY <1>2, <1>3, <2>3, <2>13, <2>14 DEF w, dir
  <1>7. QED
    BY <1>5, <1>6

-----------------------------------------------------------------------------
(* What migrate_start can open                                             *)

\* The files in T are opened so far: nothing but they and their ways was made.
Going(st, T) ==
  /\ st.ok
  /\ st.tree.files \subseteq there.files \cup {Canonical(p) : p \in T}
  /\ \A d \in st.tree.dirs : d \in there.dirs \/ \E p \in T : Within(Canonical(p), d)

\* No file, there or to come, is in the way of the files in T.
NothingInTheWay(T) ==
  /\ \A p \in T : /\ ~EndsInSlash(p) /\ Canonical(p) \notin there.dirs
                  /\ \A f \in there.files : ~Within(Canonical(p), f)
  /\ \A p, q \in T : ~Within(Canonical(p), Canonical(q))

LEMMA OpensOne ==
  ASSUME there \in Trees, NEW T \in SUBSET Text, NothingInTheWay(T), NEW st \in States, Going(st, T),
         NEW p \in T
  PROVE  Going(OpenOne(st, p), T)
  <1> DEFINE t == st.tree
             w == Mkdirs(t, Parent(p))
             c == Canonical(p)
             ok == Parent(c) \in w.dirs /\ c \notin w.dirs
             new == [w EXCEPT !.files = @ \cup {c}]
  <1>1. t \in Trees /\ p \in Text /\ ~EndsInSlash(p) /\ c \in Text
    BY CanonicalIs DEF States, NothingInTheWay
  <1>2. w \in Trees /\ w.files = t.files /\ w.dirs \subseteq t.dirs \cup Way(p)
        /\ (Unblocked(t.files, p) => Parent(c) \in w.dirs)
    BY <1>1, MkdirsMakes DEF Grown
  <1>3. Unblocked(t.files, p)
    <2>1. SUFFICES ASSUME NEW k \in 1 .. Len(p), p[k] = Slash, At(p, k) \in t.files
                   PROVE  FALSE
      BY DEF Unblocked
    <2>2. Within(c, At(p, k))
      BY <1>1, <2>1, PrefixWithin DEF At
    <2>3. At(p, k) \in there.files \/ \E q \in T : At(p, k) = Canonical(q)
      BY <2>1 DEF Going
    <2>4. QED
      BY <2>2, <2>3 DEF NothingInTheWay
  <1>4. \A d \in w.dirs : d \in there.dirs \/ \E q \in T : Within(Canonical(q), d)
    BY <1>2 DEF Going, Way
  <1>5. c \notin w.dirs
    BY <1>4 DEF NothingInTheWay
  <1>6. ok
    BY <1>2, <1>3, <1>5
  <1>7. OpenOne(st, p) = [ok |-> TRUE, tree |-> new]
    BY <1>6 DEF OpenOne, Going
  <1>8. new.dirs = w.dirs /\ new.files = w.files \cup {c}
    <2> HIDE DEF w
    <2>1. QED
      BY <1>2 DEF Trees
  <1> HIDE DEF w, new
  <1>9. OpenOne(st, p).ok /\ OpenOne(st, p).tree = new
    BY <1>7
  <1>10. new.files \subseteq there.files \cup {Canonical(q) : q \in T}
    BY <1>2, <1>8 DEF Going
  <1>11. QED
    BY <1>4, <1>8, <1>9, <1>10 DEF Going

\* All can be opened, in whatever order.
LEMMA OpensAll ==
  ASSUME there \in Trees, NEW T \in SUBSET Text, IsFiniteSet(T), NothingInTheWay(T)
  PROVE  OpenAll(T).ok
  <1>1. PICK n \in Nat : \E q \in [1 .. n -> T] : \E h \in [0 .. n -> States] :
           /\ \A p \in T : \E k \in 1 .. n : q[k] = p
           /\ h[0] = [ok |-> TRUE, tree |-> there]
           /\ \A k \in 1 .. n : h[k] = OpenOne(h[k - 1], q[k])
           /\ OpenAll(T) = h[n]
    BY OpenAllSteps
  <1>2. PICK q \in [1 .. n -> T] : \E h \in [0 .. n -> States] :
           /\ \A p \in T : \E k \in 1 .. n : q[k] = p
           /\ h[0] = [ok |-> TRUE, tree |-> there]
           /\ \A k \in 1 .. n : h[k] = OpenOne(h[k - 1], q[k])
           /\ OpenAll(T) = h[n]
    BY <1>1
  <1>3. PICK h \in [0 .. n -> States] :
           /\ \A p \in T : \E k \in 1 .. n : q[k] = p
           /\ h[0] = [ok |-> TRUE, tree |-> there]
           /\ \A k \in 1 .. n : h[k] = OpenOne(h[k - 1], q[k])
           /\ OpenAll(T) = h[n]
    BY <1>2
  <1> DEFINE S == {k \in Nat : k <= n => Going(h[k], T)}
  <1>4. 0 \in S
    BY <1>3 DEF Going
  <1>5. ASSUME NEW k \in S
        PROVE  k + 1 \in S
    <2>1. SUFFICES ASSUME k + 1 <= n
                   PROVE  Going(h[k + 1], T)
      OBVIOUS
    <2>2. k \in Nat /\ k \in 0 .. n /\ k + 1 \in 1 .. n /\ (k + 1) - 1 = k
      BY <2>1
    <2>3. Going(h[k], T) /\ h[k] \in States /\ q[k + 1] \in T
      BY <2>2
    <2>4. h[k + 1] = OpenOne(h[k], q[k + 1])
      BY <1>3, <2>2
    <2> HIDE DEF S
    <2>5. QED
      BY <2>3, <2>4, OpensOne
  <1>6. S = Nat
    <2>1. S \in SUBSET Nat
      OBVIOUS
    <2> HIDE DEF S
    <2>2. QED
      BY <1>4, <1>5, <2>1, Induction
  <1>7. Going(h[n], T)
    BY <1>6
  <1>8. QED
    BY <1>3, <1>7 DEF Going

\* What is behind the root decides whether the path ends in a slash.
LEMMA EndsBehind ==
  ASSUME NEW r \in Text, EndsInSlash(r), NEW n \in Text
  PROVE  EndsInSlash(r \o n) <=> n = <<>> \/ EndsInSlash(n)
  <1> DEFINE p == r \o n
  <1>1. /\ p \in Text /\ Len(p) = Len(r) + Len(n) /\ Len(r) \in Nat /\ Len(n) \in Nat
        /\ \A k \in 1 .. Len(n) : p[Len(r) + k] = n[k]
    BY JoinFacts, TextFacts
  <1>2. CASE n = <<>>
    BY <1>2, JoinNothing
  <1>3. CASE n # <<>>
    <2>1. Len(n) # 0
      BY <1>3, EmptySeq DEF Text
    <2> HIDE DEF p
    <2>2. Len(p) # 0 /\ Len(n) \in 1 .. Len(n)
      BY <1>1, <2>1
    <2>3. p[Len(p)] = n[Len(n)]
      BY <1>1, <2>2
    <2>4. QED
      BY <1>1, <1>3, <2>1, <2>2, <2>3, EndsInSlashIs DEF p
  <1>4. QED
    BY <1>2, <1>3
=============================================================================
