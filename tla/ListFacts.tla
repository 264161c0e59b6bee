------------------------------ MODULE ListFacts ------------------------------
(***************************************************************************)
(* Facts about natural numbers and lists that the proofs of several        *)
(* components need.                                                        *)
(***************************************************************************)
EXTENDS Lists, WellFoundedInduction, TLAPS

\* Induction over the natural numbers, with a set in the place of a predicate.
LEMMA SetInduction ==
    ASSUME NEW S, 0 \in S, \A n \in Nat : n \in S => n + 1 \in S
    PROVE  Nat \subseteq S
<1> DEFINE R == {ss \in Nat \X Nat : ss[1] < ss[2]}
           T == Nat \ S
<1>1. IsWellFoundedOn(R, Nat)
  BY NatLessThanWellFounded DEF OpToRel
<1>2. ASSUME T # {} PROVE \E x \in T : \A y \in T : ~(<<y, x>> \in R)
  <2>1. T \subseteq Nat
    OBVIOUS
  <2> HIDE DEF R, T
  <2> QED BY <1>1, <1>2, <2>1, WFMin
<1>3. ASSUME NEW x \in T PROVE x - 1 \in T /\ <<x - 1, x>> \in R
  OBVIOUS
<1> QED BY <1>2, <1>3

\* The values that the step functions h produce one after the other from a.
Iterates(f, a, h) == f[0] = a /\ \A n \in Nat : f[n + 1] = h[n][f[n]]

\* A step function h defines a sequence of values, whatever it starts with.
LEMMA RecursionExists ==
    ASSUME NEW S, NEW a \in S, NEW h \in [Nat -> [S -> S]]
    PROVE  \E f \in [Nat -> S] : Iterates(f, a, h)
<1> DEFINE Approx(n, g) ==
              /\ g \in [0 .. n -> S]
              /\ g[0] = a
              /\ \A k \in 0 .. n - 1 : g[k + 1] = h[k][g[k]]
           A == {n \in Nat : \E g : Approx(n, g)}
<1>1. Nat \subseteq A
  <2>1. 0 \in A
    <3>1. Approx(0, [k \in 0 .. 0 |-> a])
      OBVIOUS
    <3> QED BY <3>1
  <2>2. ASSUME NEW n \in Nat, n \in A PROVE n + 1 \in A
    <3>1. PICK g : Approx(n, g)
      BY <2>2
    <3> DEFINE g2 == [k \in 0 .. n + 1 |-> IF k = n + 1 THEN h[n][g[n]] ELSE g[k]]
    <3>2. g[n] \in S /\ h[n][g[n]] \in S
      BY <3>1
    <3>3. Approx(n + 1, g2)
      <4>1. g2 \in [0 .. n + 1 -> S]
        BY <3>1, <3>2
      <4>2. g2[0] = a
        BY <3>1
      <4>3. ASSUME NEW k \in 0 .. n + 1 - 1 PROVE g2[k + 1] = h[k][g2[k]]
        <5>1. CASE k = n
          <6>1. g2[n + 1] = h[n][g[n]] /\ g2[n] = g[n]
            OBVIOUS
          <6> HIDE DEF g2
          <6> QED BY <5>1, <6>1
        <5>2. CASE k # n
          BY <5>2, <3>1
        <5> QED BY <5>1, <5>2
      <4> HIDE DEF g2
      <4> QED BY <4>1, <4>2, <4>3
    <3> HIDE DEF Approx
    <3> QED BY <3>3
  <2> HIDE DEF A
  <2> QED BY <2>1, <2>2, SetInduction
<1>2. ASSUME NEW n \in Nat, NEW m \in Nat, NEW g, NEW g2,
             Approx(n, g), Approx(m, g2), NEW k \in Nat, k <= n, k <= m
      PROVE  g[k] = g2[k]
  <2> DEFINE B == {j \in Nat : j <= n /\ j <= m => g[j] = g2[j]}
  <2>1. 0 \in B
    BY <1>2
  <2>2. ASSUME NEW j \in Nat, j \in B PROVE j + 1 \in B
    <3> SUFFICES ASSUME j + 1 <= n, j + 1 <= m PROVE g[j + 1] = g2[j + 1]
      OBVIOUS
    <3>1. g[j] = g2[j]
      BY <2>2
    <3>2. j \in 0 .. n - 1 /\ j \in 0 .. m - 1
      OBVIOUS
    <3>3. g[j + 1] = h[j][g[j]] /\ g2[j + 1] = h[j][g2[j]]
      BY <1>2, <3>2
    <3> QED BY <3>1, <3>3
  <2>3. Nat \subseteq B
    <3> HIDE DEF B
    <3> QED BY <2>1, <2>2, SetInduction
  <2> QED BY <2>3, <1>2
<1> DEFINE G(n) == CHOOSE g : Approx(n, g)
           f == [n \in Nat |-> G(n)[n]]
<1>3. ASSUME NEW n \in Nat PROVE Approx(n, G(n))
  <2>1. \E g : Approx(n, g)
    BY <1>1
  <2> HIDE DEF Approx
  <2> QED BY <2>1
<1> HIDE DEF G
<1>4. ASSUME NEW n \in Nat PROVE f[n] = G(n)[n] /\ G(n)[n] \in S
  BY <1>3
<1>5. f[0] = a
  BY <1>3, <1>4
<1>6. ASSUME NEW n \in Nat PROVE f[n + 1] = h[n][f[n]]
  <2>1. Approx(n + 1, G(n + 1)) /\ Approx(n, G(n))
    BY <1>3
  <2>2. G(n + 1)[n] = G(n)[n]
    <3> HIDE DEF Approx
    <3> QED BY <2>1, <1>2
  <2>3. G(n + 1)[n + 1] = h[n][G(n + 1)[n]]
    BY <2>1
  <2>4. f[n + 1] = G(n + 1)[n + 1] /\ f[n] = G(n)[n]
    OBVIOUS
  <2> QED BY <2>2, <2>3, <2>4
<1>7. f \in [Nat -> S]
  BY <1>4
<1> HIDE DEF f
<1> QED BY <1>5, <1>6, <1>7 DEF Iterates

\* A list with one more element.
LEMMA AppendSet ==
    ASSUME NEW E, NEW q \in Seq(E), NEW e \in E
    PROVE  ToSet(Append(q, e)) = ToSet(q) \cup {e}
<1>1. Append(q, e) \in Seq(E) /\ Len(Append(q, e)) = Len(q) + 1
  OBVIOUS
<1>2. \A i \in 1 .. Len(q) : Append(q, e)[i] = q[i]
  OBVIOUS
<1>3. Append(q, e)[Len(q) + 1] = e
  OBVIOUS
<1>4. DOMAIN Append(q, e) = 1 .. Len(q) + 1 /\ DOMAIN q = 1 .. Len(q)
  BY <1>1
<1>5. 1 .. Len(q) + 1 = 1 .. Len(q) \cup {Len(q) + 1}
  OBVIOUS
<1> QED BY <1>2, <1>3, <1>4, <1>5 DEF ToSet

\* What is left of a list after a walk that erases the elements of D.
LEMMA WithoutFacts ==
    ASSUME NEW E, NEW s \in Seq(E), NEW D
    PROVE  /\ Without(s, D) \in Seq(E)
           /\ ToSet(Without(s, D)) = ToSet(s) \ D
<1> DEFINE N == Len(s)
           step(i, q) == IF s[i] \in D THEN q ELSE Append(q, s[i])
           IsRest(r) == r = [i \in 0 .. N |-> IF i = 0 THEN <<>>
                                              ELSE IF s[i] \in D THEN r[i - 1]
                                              ELSE Append(r[i - 1], s[i])]
           rest == CHOOSE r : IsRest(r)
<1>0. N \in Nat /\ DOMAIN s = 1 .. N /\ \A i \in 1 .. N : s[i] \in E
  OBVIOUS
<1>1. \E r : IsRest(r)
  <2> DEFINE h == [n \in Nat |-> [q \in Seq(E) |->
                      IF n + 1 \in 1 .. N THEN step(n + 1, q) ELSE q]]
  <2>1. h \in [Nat -> [Seq(E) -> Seq(E)]]
    BY <1>0
  <2> DEFINE S == Seq(E)
             empty == <<>>
  <2>p. PICK f \in [Nat -> S] : Iterates(f, empty, h)
    <3>1. empty \in S /\ h \in [Nat -> [S -> S]]
      BY <2>1
    <3> HIDE DEF h, S, empty
    <3> QED BY <3>1, RecursionExists
  <2>2. f[0] = <<>> /\ \A n \in Nat : f[n + 1] = h[n][f[n]]
    <3> HIDE DEF h
    <3> QED BY <2>p DEF Iterates
  <2> DEFINE r == [i \in 0 .. N |-> f[i]]
  <2>3. ASSUME NEW i \in 0 .. N
        PROVE  r[i] = IF i = 0 THEN <<>>
                      ELSE IF s[i] \in D THEN r[i - 1] ELSE Append(r[i - 1], s[i])
    <3>1. CASE i = 0
      BY <3>1, <2>2
    <3>2. CASE i # 0
      <4>1. i - 1 \in Nat /\ i - 1 + 1 = i /\ i \in 1 .. N /\ i - 1 \in 0 .. N
        BY <3>2, <1>0
      <4>2. f[i] = h[i - 1][f[i - 1]]
        <5> HIDE DEF h, S, empty
        <5>1. f[i - 1 + 1] = h[i - 1][f[i - 1]]
          BY <4>1, <2>2
        <5> QED BY <4>1, <5>1
      <4>3. h[i - 1][f[i - 1]] = step(i, f[i - 1])
        <5>1. i - 1 \in Nat /\ f[i - 1] \in Seq(E)
          BY <4>1
        <5>2. \A n \in Nat, q \in Seq(E) :
                 h[n][q] = IF n + 1 \in 1 .. N THEN step(n + 1, q) ELSE q
          OBVIOUS
        <5> HIDE DEF h
        <5> QED BY <4>1, <5>1, <5>2
      <4> QED BY <3>2, <4>1, <4>2, <4>3
    <3> QED BY <3>1, <3>2
  <2>4. IsRest(r)
    BY <2>3
  <2> QED BY <2>4
<1>2. IsRest(rest)
  <2> HIDE DEF IsRest
  <2> QED BY <1>1
<1>r. ASSUME NEW i \in 0 .. N
      PROVE  rest[i] = IF i = 0 THEN <<>>
                       ELSE IF s[i] \in D THEN rest[i - 1]
                       ELSE Append(rest[i - 1], s[i])
  <2> HIDE DEF rest
  <2> QED BY <1>2
<1>3. Without(s, D) = rest[N]
  BY DEF Without
<1> HIDE DEF rest
<1> DEFINE P == {n \in Nat : n <= N =>
                    /\ rest[n] \in Seq(E)
                    /\ ToSet(rest[n]) = {s[i] : i \in 1 .. n} \ D}
<1>4. 0 \in P
  <2>1. rest[0] = <<>>
    BY <1>0, <1>2
  <2>2. ToSet(rest[0]) = {} /\ rest[0] \in Seq(E)
    BY <2>1 DEF ToSet
  <2>3. {s[i] : i \in 1 .. 0} = {}
    OBVIOUS
  <2> QED BY <2>2, <2>3
<1>5. ASSUME NEW n \in Nat, n \in P PROVE n + 1 \in P
  <2> SUFFICES ASSUME n + 1 <= N
               PROVE  /\ rest[n + 1] \in Seq(E)
                      /\ ToSet(rest[n + 1]) = {s[i] : i \in 1 .. n + 1} \ D
    OBVIOUS
  <2>1. rest[n + 1] = step(n + 1, rest[n])
    <3>1. n + 1 \in 0 .. N /\ n + 1 # 0 /\ n + 1 - 1 = n
      BY <1>0
    <3>2. rest[n + 1] = IF n + 1 = 0 THEN <<>>
                         ELSE IF s[n + 1] \in D THEN rest[n + 1 - 1]
                         ELSE Append(rest[n + 1 - 1], s[n + 1])
      BY <3>1, <1>r
    <3> QED BY <3>1, <3>2
  <2>2. rest[n] \in Seq(E) /\ ToSet(rest[n]) = {s[i] : i \in 1 .. n} \ D
    BY <1>5, <1>0
  <2>3. s[n + 1] \in E
    BY <1>0
  <2>4. {s[i] : i \in 1 .. n + 1} = {s[i] : i \in 1 .. n} \cup {s[n + 1]}
    OBVIOUS
  <2>5. CASE s[n + 1] \in D
    BY <2>1, <2>2, <2>4, <2>5
  <2>6. CASE s[n + 1] \notin D
    <3>1. rest[n + 1] = Append(rest[n], s[n + 1])
      BY <2>1, <2>6
    <3>2. ToSet(Append(rest[n], s[n + 1])) = ToSet(rest[n]) \cup {s[n + 1]}
      BY <2>2, <2>3, AppendSet
    <3> QED BY <3>1, <3>2, <2>2, <2>3, <2>4, <2>6
  <2> QED BY <2>5, <2>6
<1>6. N \in P
  <2> HIDE DEF P
  <2> QED BY <1>0, <1>4, <1>5, SetInduction
<1>7. {s[i] : i \in 1 .. N} = ToSet(s)
  BY <1>0 DEF ToSet
<1> QED BY <1>0, <1>3, <1>6, <1>7

\* A set of numbers has a smallest one.
LEMMA MinFacts ==
    ASSUME NEW S, S \subseteq Nat, S # {}
    PROVE  Min(S) \in S /\ \A y \in S : Min(S) <= y
<1> DEFINE A == {n \in Nat : \A y \in S : n <= y}
<1>1. \E x \in S : \A y \in S : x <= y
  <2> SUFFICES ASSUME \A x \in S : \E y \in S : ~(x <= y) PROVE FALSE
    OBVIOUS
  <2>1. 0 \in A
    OBVIOUS
  <2>2. ASSUME NEW n \in Nat, n \in A PROVE n + 1 \in A
    <3>1. n \notin S
      BY <2>2
    <3> QED BY <2>2, <3>1
  <2>3. Nat \subseteq A
    <3> HIDE DEF A
    <3> QED BY <2>1, <2>2, SetInduction
  <2>4. PICK x : x \in S
    OBVIOUS
  <2>5. x + 1 \in A
    BY <2>3, <2>4
  <2> QED BY <2>4, <2>5
<1> QED BY <1>1 DEF Min

\* The list without one occurrence of e, the elements after it moving up.
RemovedAt(s, t, k) ==
    /\ Len(t) = Len(s) - 1
    /\ \A i \in 1 .. Len(s) - 1 : t[i] = IF i < k THEN s[i] ELSE s[i + 1]

\* The list without its element k.
LEMMA RemoveAtFacts ==
    ASSUME NEW E, NEW s \in Seq(E), NEW k \in DOMAIN s
    PROVE  /\ RemoveAt(s, k) \in Seq(E) /\ RemovedAt(s, RemoveAt(s, k), k)
           /\ ToSet(RemoveAt(s, k)) \subseteq ToSet(s)
<1>1. k \in 1 .. Len(s)
  OBVIOUS
<1> DEFINE a == SubSeq(s, 1, k - 1)
           b == SubSeq(s, k + 1, Len(s))
<1>2. /\ a \in Seq(E) /\ Len(a) = k - 1
      /\ b \in Seq(E) /\ Len(b) = Len(s) - k
      /\ \A i \in 1 .. k - 1 : a[i] = s[i]
      /\ \A i \in 1 .. Len(s) - k : b[i] = s[i + k]
  BY <1>1
<1>3. RemoveAt(s, k) = a \o b
  BY DEF RemoveAt
<1> HIDE DEF a, b
<1>4. a \o b \in Seq(E) /\ Len(a \o b) = Len(s) - 1
  <2>0. a \in Seq(E) /\ b \in Seq(E)
    BY <1>2
  <2>1. a \o b \in Seq(E) /\ Len(a \o b) = Len(a) + Len(b)
    BY ONLY <2>0
  <2>2. (k - 1) + (Len(s) - k) = Len(s) - 1
    BY <1>1
  <2> QED BY <1>2, <2>1, <2>2
<1>5. ASSUME NEW i \in 1 .. Len(s) - 1
      PROVE  (a \o b)[i] = IF i < k THEN s[i] ELSE s[i + 1]
  <2>1. CASE i < k
    BY <1>1, <1>2, <2>1
  <2>2. CASE ~(i < k)
    <3>1. (a \o b)[i] = b[i - (k - 1)]
      <4>1. i > Len(a) /\ i <= Len(a) + Len(b)
        BY <1>1, <1>2, <2>2
      <4>2. a \in Seq(E) /\ b \in Seq(E) /\ i \in Nat
        BY <1>2
      <4>3. (a \o b)[i] = b[i - Len(a)]
        BY ONLY <4>1, <4>2
      <4> QED BY <1>2, <4>3
    <3>2. i - (k - 1) \in 1 .. Len(s) - k /\ i - (k - 1) + k = i + 1
      BY <1>1, <2>2
    <3>3. b[i - (k - 1)] = s[i - (k - 1) + k]
      BY <1>2, <3>2
    <3> QED BY <2>2, <3>1, <3>2, <3>3
  <2> QED BY <2>1, <2>2
<1>6. RemovedAt(s, a \o b, k)
  BY <1>4, <1>5, SMTT(40) DEF RemovedAt
<1>7. ToSet(a \o b) \subseteq ToSet(s)
  <2>1. DOMAIN (a \o b) = 1 .. Len(s) - 1 /\ DOMAIN s = 1 .. Len(s)
    BY <1>4
  <2>2. \A i \in 1 .. Len(s) - 1 : i \in 1 .. Len(s) /\ i + 1 \in 1 .. Len(s)
    BY <1>1
  <2> QED BY <1>5, <2>1, <2>2 DEF ToSet
<1> QED BY <1>3, <1>4, <1>6, <1>7

\* The list without the first e.
LEMMA RemoveFirstFacts ==
    ASSUME NEW E, NEW s \in Seq(E), NEW e \in ToSet(s)
    PROVE  /\ RemoveFirst(s, e) \in Seq(E)
           /\ \E k \in DOMAIN s : s[k] = e /\ RemovedAt(s, RemoveFirst(s, e), k)
<1> DEFINE I == {i \in 1 .. Len(s) : s[i] = e}
           k == Min(I)
<1>1. I \subseteq Nat /\ I # {} /\ \E i \in 1 .. Len(s) : s[i] = e
  BY DEF ToSet
<1>2. k \in I
  <2> HIDE DEF I
  <2> QED BY <1>1, MinFacts
<1>3. RemoveFirst(s, e) = RemoveAt(s, k)
  <2>1. SelectInSeq(s, LAMBDA v : v = e) = k
    BY <1>1 DEF SelectInSeq
  <2> HIDE DEF k
  <2> QED BY <1>1, <2>1 DEF RemoveFirst
<1> HIDE DEF k
<1>4. k \in 1 .. Len(s) /\ s[k] = e
  BY <1>2
<1>5. k \in DOMAIN s
  BY <1>4
<1> QED BY <1>3, <1>4, <1>5, RemoveAtFacts
=============================================================================
