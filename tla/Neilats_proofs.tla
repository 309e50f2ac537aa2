--------------------------- MODULE Neilats_proofs ---------------------------
(***************************************************************************)
(* Proofs about the NeilatsRefactorScheduler plugin: its scores are what   *)
(* the framework takes, a pod with an SLA passes the filter only on nodes  *)
(* whose latency was measured within it, the plugin runs only while all of *)
(* the configured nodes are probed, and no pod is bound to a node while    *)
(* another is better in every score.                                       *)
(***************************************************************************)
EXTENDS Neilats, Sums

-----------------------------------------------------------------------------
(* The arithmetic of the scores *)

\* A part of a whole, in percent of it.
LEMMA Percentage ==
    ASSUME NEW a \in Nat, NEW d \in Nat, 0 < d, a <= d
    PROVE  (100 * a) \div d \in 0..100
<1> DEFINE x == 100 * a
           q == x \div d
<1>1. x \in Nat /\ x <= 100 * d
    OBVIOUS
<1>2. q \in Nat /\ q * d <= x
    <2> HIDE DEF x
    <2> QED BY <1>1
<1>3. ASSUME q > 100
      PROVE  FALSE
    <2> HIDE DEF x, q
    <2>1. (q - 101) * d >= 0
        BY <1>2, <1>3
    <2>2. q * d >= 101 * d
        BY <1>2, <2>1
    <2>3. q * d \in Int
        BY <1>2
    <2> QED BY <1>1, <1>2, <2>2, <2>3
<1> QED BY <1>2, <1>3

\* A division of whole numbers leaves nothing of a part that is not the whole.
LEMMA WholeOrNothing ==
    ASSUME NEW a \in Nat, NEW d \in Nat, 0 < d, a <= d
    PROVE  a \div d \in {0, 1}
<1>1. CASE a = d
    BY <1>1
<1>2. CASE a < d
    BY <1>2
<1> QED BY <1>1, <1>2

Largest(raw, S) == CHOOSE x \in {raw[n] : n \in S} : \A y \in {raw[n] : n \in S} : x >= y
Smallest(raw, S) == CHOOSE x \in {raw[n] : n \in S} : \A y \in {raw[n] : n \in S} : x <= y

LEMMA Extremes ==
    ASSUME NEW raw, NEW S, IsFiniteSet(S), S # {}, \A n \in S : raw[n] \in Int
    PROVE  /\ Largest(raw, S) \in Int /\ Smallest(raw, S) \in Int
           /\ \A n \in S : raw[n] <= Largest(raw, S) /\ Smallest(raw, S) <= raw[n]
           /\ (\E n \in S : Largest(raw, S) = raw[n]) /\ (\E n \in S : Smallest(raw, S) = raw[n])
<1> DEFINE X == {raw[n] : n \in S}
<1>1. \E x \in X : \A y \in X : x >= y
    <2>1. PICK n \in S : \A m \in S : raw[n] >= raw[m]
        BY GreatestValue
    <2> QED BY <2>1
<1>2. \E x \in X : \A y \in X : x <= y
    <2>1. PICK n \in S : \A m \in S : raw[n] <= raw[m]
        BY LeastValue
    <2> QED BY <2>1
<1>3. Largest(raw, S) \in X /\ \A y \in X : Largest(raw, S) >= y
    BY <1>1, Zenon DEF Largest
<1>4. Smallest(raw, S) \in X /\ \A y \in X : Smallest(raw, S) <= y
    BY <1>2, Zenon DEF Smallest
<1> QED BY <1>3, <1>4

\* PreScore normalises to 100..200.
LEMMA NormalizedRange ==
    ASSUME NEW raw, NEW S, IsFiniteSet(S), S # {}, \A n \in S : raw[n] \in Int
    PROVE  Normalized(raw, S) \in [S -> 100..200]
<1> DEFINE max == Largest(raw, S)
           min == Smallest(raw, S)
           value(n) == IF max = min THEN 100 ELSE 100 + (100 * (raw[n] - min)) \div (max - min)
<1>1. Normalized(raw, S) = [n \in S |-> value(n)]
    BY DEF Normalized, Largest, Smallest
<1>2. /\ max \in Int /\ min \in Int
      /\ \A n \in S : raw[n] \in Int /\ raw[n] <= max /\ min <= raw[n]
    BY Extremes
<1> HIDE DEF max, min
<1>3. ASSUME NEW n \in S
      PROVE  value(n) \in 100..200
    <2>1. CASE max = min
        BY <2>1
    <2>2. CASE max # min
        <3> DEFINE a == raw[n] - min
                   d == max - min
        <3>1. a \in Nat /\ d \in Nat /\ 0 < d /\ a <= d
            BY <1>2, <2>2
        <3> HIDE DEF a, d
        <3>2. (100 * a) \div d \in 0..100
            BY <3>1, Percentage
        <3>3. 100 + (100 * a) \div d \in 100..200
            BY <3>2
        <3> QED BY <2>2, <3>3 DEF a, d
    <2> QED BY <2>1, <2>2
<1> HIDE DEF value
<1> QED BY <1>1, <1>3

\* NormalizeScore gives what the framework takes.
LEMMA ScoreRange ==
    ASSUME NEW s, NEW S, IsFiniteSet(S), S # {}, \A n \in S : s[n] \in Int
    PROVE  NormalizeScore(s, S) \in [S -> 0..100]
<1> DEFINE max == Largest(s, S)
           min == Smallest(s, S)
           value(n) == IF max = min THEN 0 ELSE ((s[n] - min) \div (max - min)) * 100
<1>1. NormalizeScore(s, S) = [n \in S |-> value(n)]
    BY DEF NormalizeScore, Largest, Smallest
<1>2. /\ max \in Int /\ min \in Int
      /\ \A n \in S : s[n] \in Int /\ s[n] <= max /\ min <= s[n]
    BY Extremes
<1> HIDE DEF max, min
<1>3. ASSUME NEW n \in S
      PROVE  value(n) \in 0..100
    <2>1. CASE max = min
        BY <2>1
    <2>2. CASE max # min
        <3> DEFINE a == s[n] - min
                   d == max - min
        <3>1. a \in Nat /\ d \in Nat /\ 0 < d /\ a <= d
            BY <1>2, <2>2
        <3> HIDE DEF a, d
        <3>2. a \div d \in {0, 1}
            BY <3>1, WholeOrNothing
        <3>3. (a \div d) * 100 \in 0..100
            BY <3>2
        <3> QED BY <2>2, <3>3 DEF a, d
    <2> QED BY <2>1, <2>2
<1> HIDE DEF value
<1> QED BY <1>1, <1>3

Cube(i) == i * i * i

LEMMA CubeType ==
    ASSUME NEW i \in Int
    PROVE  Cube(i) \in Int
BY DEF Cube

LEMMA CbrtRange ==
    ASSUME NEW x \in Nat, Cube(201) > x
    PROVE  Cbrt(x) \in 0..200 /\ Cube(Cbrt(x)) <= x /\ Cube(Cbrt(x) + 1) > x
<1> DEFINE T == {i \in Nat : Cube(i + 1) > x}
<1>1. 200 \in T
    <2>1. 200 + 1 = 201
        OBVIOUS
    <2> QED BY <2>1
<1>2. T \subseteq Nat /\ T # {}
    BY <1>1
<1>3. PICK i \in T : \A j \in T : i <= j
    BY <1>2, LeastNumber
<1>4. i \in 0..200
    BY <1>1, <1>3
<1>5. Cube(i) <= x
    <2>1. CASE i = 0
        BY <2>1 DEF Cube
    <2>2. CASE i # 0
        <3> DEFINE j == i - 1
        <3>1. j \in Nat /\ ~ (i <= j) /\ j + 1 = i
            BY <1>4, <2>2
        <3> HIDE DEF j
        <3>2. j \notin T
            BY <1>3, <3>1
        <3>3. ~ (Cube(i) > x)
            BY <3>1, <3>2
        <3> QED BY <1>4, <3>3, CubeType
    <2> QED BY <2>1, <2>2
<1>6. \E k \in 0..200 : k * k * k <= x /\ (k + 1) * (k + 1) * (k + 1) > x
    <2>1. Cube(i) <= x /\ Cube(i + 1) > x
        BY <1>3, <1>5
    <2> QED BY <1>4, <2>1 DEF Cube
<1> QED BY <1>6, Zenon DEF Cbrt, Cube

LEMMA ProductRange ==
    ASSUME NEW a \in 100..200, NEW b \in 100..200, NEW c \in 100..200
    PROVE  a * b * c \in Nat /\ Cube(201) > a * b * c
<1> DEFINE ab == a * b
           d == 40000
<1>1. ab \in Nat /\ ab <= d
    <2>1. (200 - a) * b >= 0 /\ a * b >= 0 /\ a * b \in Int
        BY SMT
    <2>2. a * b <= 200 * b
        BY <2>1, SMT
    <2> QED BY <2>1, <2>2, SMT
<1> HIDE DEF ab
<1>2. (d - ab) * c >= 0 /\ ab * c >= 0 /\ ab * c \in Int
    BY <1>1, SMT
<1>3. ab * c <= d * c
    BY <1>1, <1>2, SMT
<1>4. Cube(201) > d * 200
    BY SMT DEF Cube
<1>5. Cube(201) \in Int
    BY SMT DEF Cube
<1>6. d * c <= d * 200
    BY SMT
<1> HIDE DEF d
<1> QED BY <1>1, <1>2, <1>3, <1>4, <1>5, <1>6, SMTT(30) DEF ab, d

LEMMA CubeIsMonotone ==
    ASSUME NEW u \in Nat, NEW v \in Nat, u <= v
    PROVE  Cube(u) <= Cube(v)
<1> DEFINE uu == u * u
           vv == v * v
<1>1. uu \in Nat /\ vv \in Nat /\ uu <= vv
    <2>1. \A a, b \in Nat : a <= b => a * a \in Nat /\ b * b \in Nat /\ a * a <= b * b
        OBVIOUS
    <2> QED BY <2>1
<1>2. \A a, b, x, y \in Nat : a <= b /\ x <= y => a * x <= b * y
    OBVIOUS
<1> HIDE DEF uu, vv
<1>3. uu * u <= vv * v
    BY <1>1, <1>2
<1> QED BY <1>3 DEF Cube, uu, vv

LEMMA CubeGrows ==
    ASSUME NEW e \in Nat
    PROVE  Cube(e) < Cube(e + 1)
<1> DEFINE ee == e * e
<1>1. Cube(e + 1) = Cube(e) + 3 * ee + 3 * e + 1
    BY DEF Cube
<1>2. ee \in Nat /\ Cube(e) \in Int
    BY CubeType
<1> HIDE DEF ee
<1> QED BY <1>1, <1>2

\* The mean of three numbers is no less than the root of their product.
LEMMA MeanOfThree ==
    ASSUME NEW x \in Nat, NEW y \in Nat, NEW z \in Nat
    PROVE  27 * (x * y * z) <= Cube(x + y + z)
<1> DEFINE s == x + y + z
           p == (x - y) * (x - y)
           q == (y - z) * (y - z)
           r == (z - x) * (z - x)
           t == p + q + r
<1>0. \A e \in Int : e * e \in Nat
    OBVIOUS
<1>00. \A e, f \in Nat : e * f \in Nat
    OBVIOUS
<1>1. p \in Nat /\ q \in Nat /\ r \in Nat /\ t \in Nat /\ s \in Nat
    <2>1. p \in Nat
        BY <1>0
    <2>2. q \in Nat
        BY <1>0
    <2>3. r \in Nat
        BY <1>0
    <2> HIDE DEF p, q, r
    <2> QED BY <2>1, <2>2, <2>3
<1>2. 2 * Cube(s) = 54 * (x * y * z) + s * t + 6 * (x * q + y * r + z * p)
    BY DEF Cube
<1> DEFINE st == s * t
           rest == x * q + y * r + z * p
           prod == x * y * z
<1>3. st \in Nat
    <2> HIDE DEF s, t
    <2> QED BY <1>1, <1>00
<1>4. rest \in Nat
    <2> HIDE DEF p, q, r
    <2>1. x * q \in Nat /\ y * r \in Nat /\ z * p \in Nat
        BY <1>1, <1>00
    <2> QED BY <2>1
<1>5. prod \in Nat
    BY <1>00
<1>6. 2 * Cube(s) = 54 * prod + st + 6 * rest
    BY <1>2
<1>7. Cube(s) \in Int
    BY <1>1, CubeType
<1>8. 27 * prod <= Cube(s)
    <2> HIDE DEF s, st, rest, prod
    <2> QED BY <1>3, <1>4, <1>5, <1>6, <1>7
<1> QED BY <1>8

\* One more in each of three factors is one more, at least, in the root of their
\* product.
LEMMA RootOfMore ==
    ASSUME NEW a \in Nat, NEW b \in Nat, NEW c \in Nat, NEW i \in Nat, Cube(i) <= a * b * c
    PROVE  Cube(i + 1) <= (a + 1) * (b + 1) * (c + 1)
<1> DEFINE ab == a * b
           bc == b * c
           ca == c * a
           abc == a * b * c
           ii == i * i
<1>0. \A e, f \in Nat : e * f \in Nat
    OBVIOUS
<1>1. ab \in Nat /\ bc \in Nat /\ ca \in Nat /\ ii \in Nat /\ abc \in Nat
    BY <1>0
<1>2. 3 * i <= a + b + c
    <2>1. ASSUME a + b + c < 3 * i PROVE FALSE
        <3> DEFINE s == a + b + c
        <3>1. s \in Nat /\ s + 1 <= 3 * i /\ 3 * i \in Nat
            BY <2>1
        <3>2. 27 * abc <= Cube(s)
            BY MeanOfThree
        <3>3. Cube(s + 1) <= Cube(3 * i)
            <4> HIDE DEF s
            <4> QED BY <3>1, CubeIsMonotone
        <3>4. Cube(3 * i) = 27 * Cube(i)
            BY DEF Cube
        <3>5. Cube(s) < Cube(s + 1)
            BY <3>1, CubeGrows
        <3>6. Cube(i) \in Int /\ Cube(s) \in Int /\ Cube(s + 1) \in Int
            BY <3>1, CubeType
        <3>7. Cube(i) <= abc
            OBVIOUS
        <3> HIDE DEF s, abc
        <3> QED BY <1>1, <3>2, <3>3, <3>4, <3>5, <3>6, <3>7
    <2> QED BY <2>1
<1>3. 3 * ii <= ab + bc + ca
    <2>1. ASSUME ab + bc + ca < 3 * ii PROVE FALSE
        <3> DEFINE s == ab + bc + ca
                   c2 == abc * abc
                   i3 == Cube(i)
        <3>1. s \in Nat /\ s + 1 <= 3 * ii /\ 3 * ii \in Nat
            <4> HIDE DEF ab, bc, ca, ii
            <4> QED BY <1>1, <2>1
        <3>2. 27 * c2 <= Cube(s)
            <4>1. 27 * (ab * bc * ca) <= Cube(ab + bc + ca)
                <5> HIDE DEF ab, bc, ca
                <5> QED BY <1>1, MeanOfThree
            <4>2. ab * bc * ca = c2
                OBVIOUS
            <4> QED BY <4>1, <4>2
        <3>3. Cube(s + 1) <= Cube(3 * ii)
            <4> HIDE DEF s, ii
            <4> QED BY <3>1, CubeIsMonotone
        <3>4. Cube(3 * ii) = 27 * (i3 * i3)
            BY DEF Cube
        <3>5. Cube(s) < Cube(s + 1)
            <4> HIDE DEF s
            <4> QED BY <3>1, CubeGrows
        <3>6. Cube(s) \in Int /\ Cube(s + 1) \in Int
            <4> HIDE DEF s
            <4> QED BY <3>1, CubeType
        <3>7. i3 <= abc /\ i3 \in Nat
            <4>1. i3 \in Nat
                BY <1>0 DEF Cube
            <4> QED BY <4>1
        <3>8. i3 * i3 <= c2 /\ i3 * i3 \in Nat /\ c2 \in Nat
            <4>1. \A e, f \in Nat : e <= f => e * e <= f * f /\ e * e \in Nat /\ f * f \in Nat
                OBVIOUS
            <4> HIDE DEF i3, abc
            <4> QED BY <1>1, <3>7, <4>1
        <3> DEFINE j == i3 * i3
        <3>9. Cube(3 * ii) = 27 * j /\ j <= c2 /\ j \in Nat /\ c2 \in Nat
            BY <3>4, <3>8
        <3> HIDE DEF s, c2, j
        <3> QED BY <3>2, <3>3, <3>5, <3>6, <3>9
    <2> HIDE DEF ab, bc, ca, ii
    <2> QED BY <1>1, <2>1
<1>4. Cube(i + 1) = Cube(i) + 3 * ii + 3 * i + 1
    BY DEF Cube
<1>5. (a + 1) * (b + 1) * (c + 1) = abc + (ab + bc + ca) + (a + b + c) + 1
    OBVIOUS
<1>6. Cube(i) \in Int /\ Cube(i) <= abc
    BY CubeType
<1> HIDE DEF ab, bc, ca, abc, ii
<1> QED BY <1>1, <1>2, <1>3, <1>4, <1>5, <1>6

LEMMA CbrtOfMore ==
    ASSUME NEW u \in [1..3 -> 100..200], NEW v \in [1..3 -> 100..200], \A e \in 1..3 : u[e] < v[e]
    PROVE  Cbrt(u[1] * u[2] * u[3]) < Cbrt(v[1] * v[2] * v[3])
<1> DEFINE a == u[1]
           b == u[2]
           c == u[3]
           k == v[1]
           l == v[2]
           m == v[3]
<1>0. /\ a \in 100..200 /\ b \in 100..200 /\ c \in 100..200
      /\ k \in 100..200 /\ l \in 100..200 /\ m \in 100..200
      /\ a < k /\ b < l /\ c < m
    OBVIOUS
<1> HIDE DEF a, b, c, k, l, m
<1> DEFINE x == a * b * c
           y == k * l * m
           i == Cbrt(x)
           j == Cbrt(y)
           z == (a + 1) * (b + 1) * (c + 1)
<1>1. x \in Nat /\ Cube(201) > x
    BY <1>0, ProductRange, Zenon
<1>2. y \in Nat /\ Cube(201) > y
    BY <1>0, ProductRange, Zenon
<1>3. i \in Nat /\ Cube(i) <= x
    <2> HIDE DEF x
    <2> QED BY <1>1, CbrtRange
<1>4. j \in Nat /\ Cube(j + 1) > y
    <2> HIDE DEF y
    <2> QED BY <1>2, CbrtRange
<1>5. Cube(i + 1) <= z
    <2> HIDE DEF i
    <2>1. a \in Nat /\ b \in Nat /\ c \in Nat
        BY <1>0
    <2> QED BY <1>3, <2>1, RootOfMore, Zenon
<1>6. z <= y /\ z \in Int
    <2>1. \A e, f, g, h \in Nat : e <= f /\ g <= h => e * g <= f * h /\ e * g \in Nat /\ f * h \in Nat
        OBVIOUS
    <2> DEFINE p == (a + 1) * (b + 1)
               q == k * l
    <2>2. /\ a + 1 \in Nat /\ k \in Nat /\ a + 1 <= k
          /\ b + 1 \in Nat /\ l \in Nat /\ b + 1 <= l
          /\ c + 1 \in Nat /\ m \in Nat /\ c + 1 <= m
        BY <1>0
    <2>3. p <= q /\ p \in Nat /\ q \in Nat
        BY <2>1, <2>2, Zenon
    <2> HIDE DEF p, q
    <2>4. p * (c + 1) <= q * m /\ p * (c + 1) \in Nat
        BY <2>1, <2>2, <2>3, Zenon
    <2>5. \A e \in Nat : e \in Int
        OBVIOUS
    <2> QED BY <2>4, <2>5, Zenon DEF p, q
<1> HIDE DEF i, j, x, y, z
<1>7. ASSUME j <= i
      PROVE  FALSE
    <2>1. Cube(j + 1) <= Cube(i + 1)
        BY <1>3, <1>4, <1>7, CubeIsMonotone
    <2>2. Cube(j + 1) \in Int /\ Cube(i + 1) \in Int
        BY <1>3, <1>4, CubeType
    <2> QED BY <1>2, <1>4, <1>5, <1>6, <2>1, <2>2
<1>8. i < j
    BY <1>3, <1>4, <1>7
<1> QED BY <1>8 DEF a, b, c, k, l, m, i, j, x, y

\* A node that is ahead by a hundredth of the spread stays ahead in the scores
\* from 100 to 200, rounded as they are.
LEMMA AheadNormalized ==
    ASSUME NEW raw, NEW S, IsFiniteSet(S), \A n \in S : raw[n] \in Int,
           NEW m \in S, NEW n \in S, Ahead(raw, S, m, n)
    PROVE  Normalized(raw, S)[m] > Normalized(raw, S)[n]
<1> DEFINE max == Largest(raw, S)
           min == Smallest(raw, S)
           value(e) == IF max = min THEN 100 ELSE 100 + (100 * (raw[e] - min)) \div (max - min)
<1>1. \A e \in S : Normalized(raw, S)[e] = value(e)
    BY DEF Normalized, Largest, Smallest
<1>2. /\ max \in Int /\ min \in Int
      /\ \A e \in S : raw[e] <= max /\ min <= raw[e]
      /\ (\E e \in S : max = raw[e]) /\ (\E e \in S : min = raw[e])
    BY Extremes
<1> HIDE DEF max, min
<1>3. max - min <= 100 * (raw[m] - raw[n]) /\ max # min /\ raw[m] \in Int /\ raw[n] \in Int
    BY <1>2 DEF Ahead
<1> DEFINE d == max - min
           a == 100 * (raw[n] - min)
           b == 100 * (raw[m] - min)
           q == a \div d
<1>4. d \in Nat /\ 0 < d /\ a \in Int /\ b \in Int /\ a + d <= b
    BY <1>2, <1>3
<1>5. value(n) = 100 + q /\ value(m) = 100 + (b \div d)
    BY <1>3
<1> HIDE DEF d, a, b, value
<1>6. q \in Int /\ d * q <= a
    BY <1>4, QuotientOf
<1>7. b \div d \in Int
    BY <1>4, QuotientOf
<1> HIDE DEF q
<1>8. (q + 1) * d <= b
    <2>1. (q + 1) * d = d * q + d /\ d * q \in Int
        BY <1>4, <1>6
    <2> QED BY <1>4, <1>6, <2>1
<1>9. q + 1 <= b \div d
    BY <1>4, <1>6, <1>8, QuotientBounds
<1> QED BY <1>1, <1>5, <1>6, <1>7, <1>9

\* Of the scores of the framework only the highest is not zero.
LEMMA OnlyHighest ==
    ASSUME NEW s, NEW S, IsFiniteSet(S), \A n \in S : s[n] \in Int,
           NEW m \in S, NEW n \in S, s[m] > s[n]
    PROVE  \E k \in S : NormalizeScore(s, S)[k] > NormalizeScore(s, S)[n]
<1> DEFINE max == Largest(s, S)
           min == Smallest(s, S)
           value(e) == IF max = min THEN 0 ELSE ((s[e] - min) \div (max - min)) * 100
<1>1. \A e \in S : NormalizeScore(s, S)[e] = value(e)
    BY DEF NormalizeScore, Largest, Smallest
<1>2. /\ max \in Int /\ min \in Int
      /\ \A e \in S : s[e] <= max /\ min <= s[e]
      /\ \E e \in S : max = s[e]
    BY Extremes
<1> HIDE DEF max, min
<1>3. max # min /\ s[n] < max
    BY <1>2
<1>4. PICK k \in S : max = s[k]
    BY <1>2
<1> DEFINE d == max - min
           a == s[n] - min
<1>5. d \in Nat /\ 0 < d /\ a \in Nat /\ a < d
    BY <1>2, <1>3
<1>6. value(n) = (a \div d) * 100 /\ value(k) = (d \div d) * 100
    BY <1>3, <1>4
<1> HIDE DEF d, a, value
<1>7. a \div d = 0 /\ d \div d = 1
    BY <1>5
<1>8. value(n) = 0 /\ value(k) = 100
    BY <1>6, <1>7
<1> QED BY <1>1, <1>4, <1>8

-----------------------------------------------------------------------------
(* The inductive invariant *)

\* New visits the nodes twice, and what it did on those it has visited stays
\* done; a start adds at most one probe to a node.
Visited ==
    /\ enableSLA \in BOOLEAN
    /\ phase \in {"down", "install", "start", "running"}
    /\ todo \subseteq Configured /\ scripts \subseteq Configured
    /\ starts \in 0..MaxStarts
    /\ probes \in [Configured -> Nat]
    /\ \A n \in Configured : probes[n] <= starts
    /\ phase = "install" => /\ Configured \ todo \subseteq scripts
                            /\ \A n \in Configured : probes[n] < starts
    /\ phase = "start" => /\ Configured \subseteq scripts
                          /\ \A n \in todo : probes[n] < starts
                          /\ \A n \in Configured \ todo : probes[n] > 0
    /\ MeasuredWhileRunning

Recorded == file \in [Pairs -> Seq(Samples \cup {Lost})] /\ where \in [Pods -> Nodes \cup {None}]

\* A cycle is a record whose fields are known, and each node that passed was
\* filtered with the latency the cycle keeps.
Shape ==
    cycle # None =>
        /\ cycle \in [pod : Pods, step : {"filter", "score", "bind"}, left : SUBSET Nodes,
                      passed : SUBSET Nodes, rtt : {cycle.rtt}, raw : {cycle.raw},
                      final : {cycle.final}]
        /\ cycle.rtt = [n \in Nodes |-> cycle.rtt[n]]
        /\ cycle.passed \cap cycle.left = {}
        /\ WithSLA(cycle.pod) => Labels[cycle.pod].nei \in Configured

\* The maps hold the scores of the nodes of the cycle between PreScore and Score.
InMaps ==
    cycle # None /\ cycle.step = "score" =>
        /\ cycle.passed # {}
        /\ LBScoreMap \in [cycle.passed -> 100..200]
        /\ WithSLA(cycle.pod) => /\ ADFScoreMap \in [cycle.passed -> 100..200]
                                 /\ FutureScoreMap \in [cycle.passed -> 100..200]
InFinal == cycle # None /\ cycle.step = "bind" => cycle.final \in [cycle.passed -> 0..100]

Inv == Visited /\ Recorded /\ Shape /\ SLAFiltered /\ InMaps /\ InFinal

LEMMA InvInit == Init => Inv
<1> SUFFICES ASSUME Init PROVE Inv
    OBVIOUS
<1> USE NeilatsAssumption
<1>1. Visited
    <2>1. probes \in [Configured -> Nat] /\ \A n \in Configured : probes[n] <= starts
        BY DEF Init
    <2>2. starts \in 0..MaxStarts /\ enableSLA \in BOOLEAN /\ phase = "down" /\ todo = {} /\ scripts = {}
        BY DEF Init
    <2> QED BY <2>1, <2>2 DEF Visited, MeasuredWhileRunning
<1>2. Recorded
    BY DEF Init, Recorded
<1>3. cycle = None
    BY DEF Init
<1> QED BY <1>1, <1>2, <1>3 DEF Inv, Shape, SLAFiltered, InMaps, InFinal

cycling == <<enableSLA, maps, cycle>>

\* Steps that leave the cycle alone keep what is known of it.
LEMMA CycleKept ==
    ASSUME Shape, SLAFiltered, InMaps, InFinal, UNCHANGED cycling \/ (cycle' = None)
    PROVE  Shape' /\ SLAFiltered' /\ InMaps' /\ InFinal'
<1>1. CASE cycle' = None
    BY <1>1 DEF Shape, SLAFiltered, InMaps, InFinal
<1>2. CASE UNCHANGED cycling
    <2>1. enableSLA' = enableSLA /\ cycle' = cycle /\ LBScoreMap' = LBScoreMap
          /\ ADFScoreMap' = ADFScoreMap /\ FutureScoreMap' = FutureScoreMap
        BY <1>2 DEF cycling, maps
    <2> QED BY <2>1 DEF Shape, SLAFiltered, InMaps, InFinal, WithSLA
<1> QED BY <1>1, <1>2

\* The start of the plugin: New and its failures, and the probes.
LEMMA InvStart ==
    ASSUME Inv,
           \/ New \/ Stop
           \/ \E n \in Configured : InitNodeLatencyTestTool(n) \/ StartLatencyTest(n) \/ RemoteFails(n)
    PROVE  Inv'
<1> USE NeilatsAssumption
<1>1. Recorded'
    BY DEF Inv, Recorded, New, Stop, InitNodeLatencyTestTool, StartLatencyTest, RemoteFails, measuring
<1>2. UNCHANGED cycling \/ (cycle' = None)
    BY DEF cycling, New, Stop, InitNodeLatencyTestTool, StartLatencyTest, RemoteFails
<1>3. Shape' /\ SLAFiltered' /\ InMaps' /\ InFinal'
    BY <1>2, CycleKept DEF Inv
<1>4. Visited'
    <2>1. CASE New
        <3>1. starts' \in 0..MaxStarts /\ starts' = starts + 1 /\ starts \in Nat
            BY <2>1 DEF Inv, Visited, New
        <3>2. /\ enableSLA' = enableSLA /\ scripts' = scripts /\ probes' = probes /\ todo' = Configured
              /\ phase' = IF enableSLA THEN "install" ELSE "running"
            BY <2>1 DEF New, measuring
        <3> QED BY <3>1, <3>2 DEF Inv, Visited, MeasuredWhileRunning
    <2>2. CASE Stop
        BY <2>2 DEF Inv, Visited, Stop, measuring, MeasuredWhileRunning
    <2>3. ASSUME NEW n \in Configured, InitNodeLatencyTestTool(n)
          PROVE  Visited'
        <3>1. /\ enableSLA' = enableSLA /\ probes' = probes /\ starts' = starts
              /\ phase = "install" /\ n \in todo /\ scripts' = scripts \cup {n}
              /\ IF todo = {n} THEN phase' = "start" /\ todo' = Configured
                 ELSE phase' = phase /\ todo' = todo \ {n}
            BY <2>3 DEF InitNodeLatencyTestTool
        <3> QED BY <3>1 DEF Inv, Visited, MeasuredWhileRunning
    <2>4. ASSUME NEW n \in Configured, StartLatencyTest(n)
          PROVE  Visited'
        <3>1. /\ enableSLA' = enableSLA /\ scripts' = scripts /\ starts' = starts
              /\ phase = "start" /\ n \in todo /\ todo' = todo \ {n}
              /\ probes' = [probes EXCEPT ![n] = @ + 1]
              /\ phase' = IF todo = {n} THEN "running" ELSE phase
            BY <2>4 DEF StartLatencyTest
        <3>2. /\ probes' \in [Configured -> Nat]
              /\ \A m \in Configured : probes'[m] = IF m = n THEN probes[m] + 1 ELSE probes[m]
            BY <3>1 DEF Inv, Visited
        <3>3. \A m \in Configured : probes'[m] <= starts'
            BY <3>1, <3>2 DEF Inv, Visited
        <3>4. \A m \in Configured \ todo' : probes'[m] > 0
            BY <3>1, <3>2 DEF Inv, Visited
        <3>5. \A m \in todo' : probes'[m] < starts'
            BY <3>1, <3>2 DEF Inv, Visited
        <3>6. Configured \subseteq scripts'
            BY <3>1 DEF Inv, Visited
        <3>7. MeasuredWhileRunning'
            BY <3>1, <3>4, <3>6 DEF MeasuredWhileRunning
        <3> QED BY <3>1, <3>2, <3>3, <3>4, <3>5, <3>6, <3>7 DEF Inv, Visited
    <2>5. ASSUME NEW n \in Configured, RemoteFails(n)
          PROVE  Visited'
        BY <2>5 DEF Inv, Visited, RemoteFails, measuring, MeasuredWhileRunning
    <2> QED BY <2>1, <2>2, <2>3, <2>4, <2>5
<1> QED BY <1>1, <1>3, <1>4 DEF Inv

\* Steps of the scheduling cycle and of the probes do not touch New's.
LEMMA VisitedKept ==
    ASSUME Visited, UNCHANGED <<enableSLA, phase, todo, scripts, probes, starts>>
    PROVE  Visited'
BY DEF Visited, MeasuredWhileRunning

LEMMA InvProbe ==
    ASSUME Inv, NEW pair \in Pairs, Probe(pair)
    PROVE  Inv'
<1>1. Visited'
    BY VisitedKept DEF Inv, Probe
<1>2. Recorded'
    BY DEF Inv, Recorded, Probe
<1>3. Shape' /\ SLAFiltered' /\ InMaps' /\ InFinal'
    BY CycleKept DEF Inv, Probe, cycling
<1> QED BY <1>1, <1>2, <1>3 DEF Inv

LEMMA InvStartCycle ==
    ASSUME Inv, NEW p \in Pods, StartCycle(p)
    PROVE  Inv'
<1>1. Visited' /\ Recorded'
    BY VisitedKept DEF Inv, Recorded, StartCycle, measuring
<1>2. /\ cycle' = [pod |-> p, step |-> "filter", left |-> Nodes, passed |-> {},
                   rtt |-> [n \in Nodes |-> NaN], raw |-> << >>, final |-> << >>]
      /\ enableSLA' = enableSLA
    BY DEF StartCycle
<1>3. WithSLA(p) => Labels[p].nei \in Configured
    BY DEF StartCycle, PreFilter, WithSLA
<1>4. Shape'
    BY <1>2, <1>3 DEF Shape, WithSLA
<1>5. SLAFiltered' /\ InMaps' /\ InFinal'
    BY <1>2 DEF SLAFiltered, InMaps, InFinal
<1> QED BY <1>1, <1>4, <1>5 DEF Inv

\* A mean that BuildRtt lets pass within the SLA is the one of the pair, or that
\* one is 99 or more.
LEMMA RttMeasured ==
    ASSUME NEW n \in Configured, NEW nei \in Configured, n # nei, NEW order, NEW sla,
           AtMost(BuildRtt(order, n, nei), sla)
    PROVE  \/ AtLeast(getMeanOfLatencyFromSSH(<<n, nei>>), 99)
           \/ AtMost(getMeanOfLatencyFromSSH(<<n, nei>>), sla)
BY DEF BuildRtt

LEMMA InvFilter ==
    ASSUME Inv, NEW n \in Nodes, Filter(n)
    PROVE  Inv'
<1>1. Visited' /\ Recorded'
    BY VisitedKept DEF Inv, Recorded, Filter, measuring
<1> DEFINE p == cycle.pod
           nei == Labels[p].nei
           sla == Labels[p].sla
           mean == IF WithSLA(p) /\ <<n, nei>> \in Pairs
                   THEN getMeanOfLatencyFromSSH(<<n, nei>>) ELSE NaN
<1>2. PICK order \in Orders, readable \in BOOLEAN :
          LET passes == WithSLA(p) => /\ n # nei /\ readable
                                      /\ AtMost(BuildRtt(order, n, nei), sla)
          IN  cycle' = [cycle EXCEPT !.left = @ \ {n},
                                     !.passed = IF passes THEN @ \cup {n} ELSE @,
                                     !.rtt[n] = mean]
    BY DEF Filter
<1> DEFINE passes == WithSLA(p) => /\ n # nei /\ readable
                                   /\ AtMost(BuildRtt(order, n, nei), sla)
<1>3. /\ cycle # None /\ cycle.step = "filter" /\ n \in cycle.left /\ enableSLA' = enableSLA
      /\ maps' = maps
    BY DEF Filter
<1>4. /\ cycle \in [pod : Pods, step : {"filter", "score", "bind"}, left : SUBSET Nodes,
                    passed : SUBSET Nodes, rtt : {cycle.rtt}, raw : {cycle.raw},
                    final : {cycle.final}]
      /\ cycle.rtt = [m \in Nodes |-> cycle.rtt[m]]
      /\ cycle.passed \cap cycle.left = {}
      /\ WithSLA(p) => nei \in Configured
    BY <1>3 DEF Inv, Shape
<1> HIDE DEF mean, passes
<1>5. cycle' = [cycle EXCEPT !.left = @ \ {n}, !.passed = IF passes THEN @ \cup {n} ELSE @,
                             !.rtt[n] = mean]
    BY <1>2 DEF passes
<1>6. /\ cycle' \in [pod : Pods, step : {"filter", "score", "bind"}, left : SUBSET Nodes,
                     passed : SUBSET Nodes, rtt : {cycle'.rtt}, raw : {cycle'.raw},
                     final : {cycle'.final}]
      /\ cycle'.pod = cycle.pod /\ cycle'.step = "filter"
      /\ cycle'.left = cycle.left \ {n}
      /\ cycle'.passed = IF passes THEN cycle.passed \cup {n} ELSE cycle.passed
      /\ cycle'.rtt = [cycle.rtt EXCEPT ![n] = mean]
    BY <1>3, <1>4, <1>5
<1>7. /\ cycle'.rtt = [m \in Nodes |-> cycle'.rtt[m]]
      /\ \A m \in Nodes : cycle'.rtt[m] = IF m = n THEN mean ELSE cycle.rtt[m]
    BY <1>4, <1>6
<1>8. Shape'
    BY <1>3, <1>4, <1>6, <1>7 DEF Shape, WithSLA
<1>9. SLAFiltered'
    <2>1. SUFFICES ASSUME WithSLA(p), NEW m \in cycle'.passed
          PROVE  /\ m # nei
                 /\ \/ m \notin Configured
                    \/ AtLeast(cycle'.rtt[m], 99)
                    \/ AtMost(cycle'.rtt[m], sla)
        BY <1>3, <1>6 DEF SLAFiltered, WithSLA
    <2>2. CASE m # n
        <3>1. m \in cycle.passed /\ m \in Nodes
            BY <1>4, <1>6, <2>2
        <3>2. cycle'.rtt[m] = cycle.rtt[m]
            BY <1>7, <2>2, <3>1
        <3> QED BY <1>3, <2>1, <3>1, <3>2 DEF Inv, SLAFiltered
    <2>3. CASE m = n
        <3>1. passes
            BY <1>3, <1>4, <1>6, <2>3
        <3>2. n # nei /\ AtMost(BuildRtt(order, n, nei), sla)
            BY <2>1, <3>1 DEF passes
        <3>3. CASE n \in Configured
            <4>1. nei \in Configured
                BY <1>4, <2>1
            <4>2. <<n, nei>> \in Pairs
                BY <3>2, <3>3, <4>1 DEF Pairs
            <4>3. cycle'.rtt[m] = getMeanOfLatencyFromSSH(<<n, nei>>)
                BY <1>7, <2>1, <2>3, <4>2 DEF mean
            <4> HIDE DEF nei, sla
            <4>4. \/ AtLeast(getMeanOfLatencyFromSSH(<<n, nei>>), 99)
                  \/ AtMost(getMeanOfLatencyFromSSH(<<n, nei>>), sla)
                BY <3>2, <3>3, <4>1, RttMeasured
            <4> QED BY <2>3, <3>2, <4>3, <4>4
        <3> QED BY <2>3, <3>2, <3>3
    <2> QED BY <2>2, <2>3
<1>10. InMaps' /\ InFinal'
    BY <1>6 DEF InMaps, InFinal
<1> QED BY <1>1, <1>8, <1>9, <1>10 DEF Inv

LEMMA LBScoreInt ==
    ASSUME NEW m \in Metrics \cup {None}
    PROVE  LBScore(m) \in Int
BY NeilatsAssumption DEF LBScore

LEMMA InvPreScore == Inv /\ PreScore => Inv'
<1> SUFFICES ASSUME Inv, PreScore PROVE Inv'
    OBVIOUS
<1>1. Visited' /\ Recorded'
    BY VisitedKept DEF Inv, Recorded, PreScore, measuring
<1> DEFINE S == cycle.passed
           sla == WithSLA(cycle.pod)
<1>2. PICK metrics \in [S -> Metrics \cup {None}], adf \in [S -> Scores], future \in [S -> Scores] :
          LET lb == [n \in S |-> LBScore(metrics[n])]
          IN  /\ LBScoreMap' = Normalized(lb, S)
              /\ ADFScoreMap' = IF sla THEN Normalized(adf, S) ELSE << >>
              /\ FutureScoreMap' = IF sla THEN Normalized(future, S) ELSE << >>
              /\ cycle' = [cycle EXCEPT !.step = "score",
                             !.raw = IF sla THEN <<lb, adf, future>> ELSE <<lb>>]
    BY Zenon DEF PreScore
<1> DEFINE lb == [n \in S |-> LBScore(metrics[n])]
           raw == IF sla THEN <<lb, adf, future>> ELSE <<lb>>
<1>3. cycle # None /\ Cardinality(S) > 1 /\ enableSLA' = enableSLA
    BY DEF PreScore
<1>4. /\ cycle \in [pod : Pods, step : {"filter", "score", "bind"}, left : SUBSET Nodes,
                    passed : SUBSET Nodes, rtt : {cycle.rtt}, raw : {cycle.raw},
                    final : {cycle.final}]
      /\ cycle.rtt = [m \in Nodes |-> cycle.rtt[m]]
      /\ cycle.passed \cap cycle.left = {}
      /\ sla => Labels[cycle.pod].nei \in Configured
    BY <1>3 DEF Inv, Shape
<1>5. IsFiniteSet(S) /\ S # {}
    <2>1. IsFiniteSet(S)
        BY <1>4, FS_Subset, NeilatsAssumption
    <2>2. S # {}
        BY <1>3, FS_EmptySet
    <2> QED BY <2>1, <2>2
<1>6. Normalized(lb, S) \in [S -> 100..200]
    <2>1. \A n \in S : lb[n] \in Int
        BY <1>2, LBScoreInt
    <2> HIDE DEF lb
    <2> QED BY <1>5, <2>1, NormalizedRange
<1>7. Normalized(adf, S) \in [S -> 100..200] /\ Normalized(future, S) \in [S -> 100..200]
    <2>1. \A n \in S : adf[n] \in Int /\ future[n] \in Int
        BY <1>2, NeilatsAssumption
    <2> QED BY <1>5, <2>1, NormalizedRange
<1>8. cycle' = [cycle EXCEPT !.step = "score", !.raw = raw]
    BY <1>2
<1> HIDE DEF lb, raw
<1>9. /\ cycle' \in [pod : Pods, step : {"filter", "score", "bind"}, left : SUBSET Nodes,
                     passed : SUBSET Nodes, rtt : {cycle'.rtt}, raw : {cycle'.raw},
                     final : {cycle'.final}]
      /\ cycle'.pod = cycle.pod /\ cycle'.step = "score" /\ cycle'.left = cycle.left
      /\ cycle'.passed = S /\ cycle'.rtt = cycle.rtt
    BY <1>4, <1>8
<1>10. Shape'
    BY <1>3, <1>4, <1>9 DEF Shape, WithSLA
<1>11. SLAFiltered'
    BY <1>3, <1>9 DEF Inv, SLAFiltered, WithSLA
<1>12. InMaps'
    <2>1. WithSLA(cycle.pod)' = sla
        BY <1>3, <1>9 DEF WithSLA
    <2>2. /\ LBScoreMap' = Normalized(lb, S)
          /\ sla => ADFScoreMap' = Normalized(adf, S) /\ FutureScoreMap' = Normalized(future, S)
        BY <1>2 DEF lb
    <2> QED BY <1>5, <1>6, <1>7, <1>9, <2>1, <2>2 DEF InMaps
<1>13. InFinal'
    BY <1>9 DEF InFinal
<1> QED BY <1>1, <1>10, <1>11, <1>12, <1>13 DEF Inv

\* Between PreScore and NormalizeScore the score of a node is a number.
LEMMA ScoreInt ==
    ASSUME Inv, cycle # None, cycle.step = "score", NEW n \in cycle.passed
    PROVE  Score(n) \in Int
<1>1. LBScoreMap[n] \in 100..200
    BY DEF Inv, InMaps
<1>2. CASE WithSLA(cycle.pod)
    <2> DEFINE x == LBScoreMap[n] * ADFScoreMap[n] * FutureScoreMap[n]
    <2>1. ADFScoreMap[n] \in 100..200 /\ FutureScoreMap[n] \in 100..200
        BY <1>2 DEF Inv, InMaps
    <2>2. x \in Nat /\ Cube(201) > x
        BY <1>1, <2>1, ProductRange, Zenon
    <2> HIDE DEF x
    <2>3. Cbrt(x) \in 0..200
        BY <2>2, CbrtRange
    <2> QED BY <1>2, <2>3 DEF Score, x
<1>3. CASE ~WithSLA(cycle.pod)
    BY <1>1, <1>3 DEF Score
<1> QED BY <1>2, <1>3

LEMMA InvScoreNodes == Inv /\ ScoreNodes => Inv'
<1> SUFFICES ASSUME Inv, ScoreNodes PROVE Inv'
    OBVIOUS
<1>1. Visited' /\ Recorded'
    BY VisitedKept DEF Inv, Recorded, ScoreNodes, measuring
<1> DEFINE S == cycle.passed
           s == [n \in S |-> Score(n)]
           final == NormalizeScore(s, S)
<1>2. /\ cycle # None /\ cycle.step = "score" /\ enableSLA' = enableSLA
      /\ cycle' = [cycle EXCEPT !.step = "bind", !.final = final]
    BY DEF ScoreNodes
<1>3. /\ cycle \in [pod : Pods, step : {"filter", "score", "bind"}, left : SUBSET Nodes,
                    passed : SUBSET Nodes, rtt : {cycle.rtt}, raw : {cycle.raw},
                    final : {cycle.final}]
      /\ cycle.rtt = [m \in Nodes |-> cycle.rtt[m]]
      /\ cycle.passed \cap cycle.left = {}
      /\ WithSLA(cycle.pod) => Labels[cycle.pod].nei \in Configured
    BY <1>2 DEF Inv, Shape
<1>4. IsFiniteSet(S) /\ S # {}
    <2>1. IsFiniteSet(S)
        BY <1>3, FS_Subset, NeilatsAssumption
    <2> QED BY <1>2, <2>1 DEF Inv, InMaps
<1>5. \A n \in S : Score(n) \in Int
    BY <1>2, ScoreInt
<1>6. final \in [S -> 0..100]
    <2>1. \A n \in S : s[n] \in Int
        BY <1>5
    <2> HIDE DEF s
    <2> QED BY <1>4, <2>1, ScoreRange
<1> HIDE DEF final
<1>7. /\ cycle' \in [pod : Pods, step : {"filter", "score", "bind"}, left : SUBSET Nodes,
                     passed : SUBSET Nodes, rtt : {cycle'.rtt}, raw : {cycle'.raw},
                     final : {cycle'.final}]
      /\ cycle'.pod = cycle.pod /\ cycle'.step = "bind" /\ cycle'.left = cycle.left
      /\ cycle'.passed = S /\ cycle'.rtt = cycle.rtt /\ cycle'.final = final
    BY <1>2, <1>3
<1>8. Shape'
    BY <1>2, <1>3, <1>7 DEF Shape, WithSLA
<1>9. SLAFiltered'
    BY <1>2, <1>7 DEF Inv, SLAFiltered, WithSLA
<1>10. InMaps' /\ InFinal'
    BY <1>6, <1>7 DEF InMaps, InFinal
<1> QED BY <1>1, <1>8, <1>9, <1>10 DEF Inv

LEMMA InvNext == Inv /\ [Next]_vars => Inv'
<1> SUFFICES ASSUME Inv, [Next]_vars PROVE Inv'
    OBVIOUS
<1>1. ASSUME NEW n \in Nodes, Bind(n)
      PROVE  Inv'
    <2>1. Visited'
        BY <1>1, VisitedKept DEF Inv, Bind, measuring
    <2>2. Recorded'
        BY <1>1 DEF Inv, Recorded, Bind, measuring
    <2>3. Shape' /\ SLAFiltered' /\ InMaps' /\ InFinal'
        BY <1>1, CycleKept DEF Inv, Bind
    <2> QED BY <2>1, <2>2, <2>3 DEF Inv
<1>2. CASE Unschedulable
    <2>1. Visited' /\ Recorded'
        BY <1>2, VisitedKept DEF Inv, Recorded, Unschedulable, measuring
    <2>2. Shape' /\ SLAFiltered' /\ InMaps' /\ InFinal'
        BY <1>2, CycleKept DEF Inv, Unschedulable
    <2> QED BY <2>1, <2>2 DEF Inv
<1>3. CASE UNCHANGED vars
    <2>1. Visited' /\ Recorded'
        BY <1>3, VisitedKept DEF Inv, Recorded, vars, measuring
    <2>2. Shape' /\ SLAFiltered' /\ InMaps' /\ InFinal'
        BY <1>3, CycleKept DEF Inv, vars, cycling
    <2> QED BY <2>1, <2>2 DEF Inv
<1> QED BY <1>1, <1>2, <1>3, InvStart, InvProbe, InvStartCycle, InvFilter, InvPreScore, InvScoreNodes
        DEF Next

LEMMA Invariance == Spec => []Inv
BY InvInit, InvNext, PTL DEF Spec

\* From PreScore to the binding: a node that is better than another is higher in
\* each of the maps, and then the other is not among the highest.
Ranked ==
    cycle # None =>
        \A m, n \in cycle.passed : Better(m, n) =>
            /\ cycle.step = "score" =>
                  /\ LBScoreMap[m] > LBScoreMap[n]
                  /\ WithSLA(cycle.pod) => /\ ADFScoreMap[m] > ADFScoreMap[n]
                                           /\ FutureScoreMap[m] > FutureScoreMap[n]
            /\ cycle.step = "bind" => \E k \in cycle.passed : cycle.final[k] > cycle.final[n]

LEMMA RankedPreScore == Inv /\ PreScore => Ranked'
<1> SUFFICES ASSUME Inv, PreScore PROVE Ranked'
    OBVIOUS
<1> DEFINE S == cycle.passed
           sla == WithSLA(cycle.pod)
<1>1. PICK metrics \in [S -> Metrics \cup {None}], adf \in [S -> Scores], future \in [S -> Scores] :
          LET lb == [n \in S |-> LBScore(metrics[n])]
          IN  /\ LBScoreMap' = Normalized(lb, S)
              /\ ADFScoreMap' = IF sla THEN Normalized(adf, S) ELSE << >>
              /\ FutureScoreMap' = IF sla THEN Normalized(future, S) ELSE << >>
              /\ cycle' = [cycle EXCEPT !.step = "score",
                             !.raw = IF sla THEN <<lb, adf, future>> ELSE <<lb>>]
    BY Zenon DEF PreScore
<1> DEFINE lb == [n \in S |-> LBScore(metrics[n])]
           raw == IF sla THEN <<lb, adf, future>> ELSE <<lb>>
<1>2. cycle # None /\ enableSLA' = enableSLA
    BY DEF PreScore
<1>3. cycle \in [pod : Pods, step : {"filter", "score", "bind"}, left : SUBSET Nodes,
                 passed : SUBSET Nodes, rtt : {cycle.rtt}, raw : {cycle.raw},
                 final : {cycle.final}]
    BY <1>2 DEF Inv, Shape
<1>4. IsFiniteSet(S)
    BY <1>3, FS_Subset, NeilatsAssumption
<1>5. \A n \in S : lb[n] \in Int /\ adf[n] \in Int /\ future[n] \in Int
    BY <1>1, LBScoreInt, NeilatsAssumption
<1>6. /\ LBScoreMap' = Normalized(lb, S)
      /\ sla => ADFScoreMap' = Normalized(adf, S) /\ FutureScoreMap' = Normalized(future, S)
      /\ cycle' = [cycle EXCEPT !.step = "score", !.raw = raw]
    BY <1>1
<1>7. 1 \in DOMAIN raw /\ raw[1] = lb
    <2> HIDE DEF lb
    <2> QED OBVIOUS
<1>8. sla => 2 \in DOMAIN raw /\ 3 \in DOMAIN raw /\ raw[2] = adf /\ raw[3] = future
    <2> HIDE DEF lb
    <2> QED OBVIOUS
<1> HIDE DEF lb, raw
<1>9. /\ cycle'.step = "score" /\ cycle'.raw = raw /\ cycle'.passed = S
      /\ cycle'.pod = cycle.pod
    BY <1>3, <1>6
<1>10. WithSLA(cycle.pod)' = sla
    BY <1>2, <1>9 DEF WithSLA
<1>11. SUFFICES ASSUME NEW m \in S, NEW n \in S, Better(m, n)'
                PROVE  /\ LBScoreMap'[m] > LBScoreMap'[n]
                       /\ sla => /\ ADFScoreMap'[m] > ADFScoreMap'[n]
                                 /\ FutureScoreMap'[m] > FutureScoreMap'[n]
    BY <1>9, <1>10 DEF Ranked
<1>12. \A i \in DOMAIN raw : Ahead(raw[i], S, m, n)
    BY <1>9, <1>11 DEF Better
<1>13. LBScoreMap'[m] > LBScoreMap'[n]
    BY <1>4, <1>5, <1>6, <1>7, <1>12, AheadNormalized
<1>14. ASSUME sla
       PROVE  ADFScoreMap'[m] > ADFScoreMap'[n] /\ FutureScoreMap'[m] > FutureScoreMap'[n]
    <2>1. Ahead(adf, S, m, n) /\ Ahead(future, S, m, n)
        BY <1>8, <1>12, <1>14
    <2> QED BY <1>4, <1>5, <1>6, <1>14, <2>1, AheadNormalized
<1> QED BY <1>13, <1>14

LEMMA RankedScoreNodes == Inv /\ Ranked /\ ScoreNodes => Ranked'
<1> SUFFICES ASSUME Inv, Ranked, ScoreNodes PROVE Ranked'
    OBVIOUS
<1> DEFINE S == cycle.passed
           s == [n \in S |-> Score(n)]
           final == NormalizeScore(s, S)
<1>1. /\ cycle # None /\ cycle.step = "score" /\ enableSLA' = enableSLA
      /\ cycle' = [cycle EXCEPT !.step = "bind", !.final = final]
    BY DEF ScoreNodes
<1>2. cycle \in [pod : Pods, step : {"filter", "score", "bind"}, left : SUBSET Nodes,
                 passed : SUBSET Nodes, rtt : {cycle.rtt}, raw : {cycle.raw},
                 final : {cycle.final}]
    BY <1>1 DEF Inv, Shape
<1>3. IsFiniteSet(S)
    BY <1>2, FS_Subset, NeilatsAssumption
<1>4. \A n \in S : s[n] \in Int
    BY <1>1, ScoreInt
<1> HIDE DEF final
<1>5. /\ cycle'.step = "bind" /\ cycle'.raw = cycle.raw /\ cycle'.passed = S
      /\ cycle'.final = final
    BY <1>1, <1>2
<1>6. SUFFICES ASSUME NEW m \in S, NEW n \in S, Better(m, n)'
               PROVE  \E k \in S : final[k] > final[n]
    BY <1>5 DEF Ranked
<1>7. Better(m, n)
    BY <1>5, <1>6 DEF Better
<1>8. /\ LBScoreMap[m] > LBScoreMap[n]
      /\ WithSLA(cycle.pod) => /\ ADFScoreMap[m] > ADFScoreMap[n]
                               /\ FutureScoreMap[m] > FutureScoreMap[n]
    BY <1>1, <1>7 DEF Ranked
<1>9. Score(m) > Score(n)
    <2>1. LBScoreMap[m] \in 100..200 /\ LBScoreMap[n] \in 100..200
        BY <1>1 DEF Inv, InMaps
    <2>2. CASE WithSLA(cycle.pod)
        <3>1. /\ ADFScoreMap[m] \in 100..200 /\ ADFScoreMap[n] \in 100..200
              /\ FutureScoreMap[m] \in 100..200 /\ FutureScoreMap[n] \in 100..200
            BY <1>1, <2>2 DEF Inv, InMaps
        <3>2. Cbrt(LBScoreMap[n] * ADFScoreMap[n] * FutureScoreMap[n])
                < Cbrt(LBScoreMap[m] * ADFScoreMap[m] * FutureScoreMap[m])
            <4>1. /\ LBScoreMap[n] < LBScoreMap[m] /\ ADFScoreMap[n] < ADFScoreMap[m]
                  /\ FutureScoreMap[n] < FutureScoreMap[m]
                BY <1>8, <2>1, <2>2, <3>1
            <4> DEFINE u(e) == <<LBScoreMap[e], ADFScoreMap[e], FutureScoreMap[e]>>
            <4>2. u(n) \in [1..3 -> 100..200] /\ u(m) \in [1..3 -> 100..200]
                BY <2>1, <3>1
            <4>3. \A e \in 1..3 : u(n)[e] < u(m)[e]
                BY <4>1
            <4>4. /\ u(n)[1] = LBScoreMap[n] /\ u(n)[2] = ADFScoreMap[n] /\ u(n)[3] = FutureScoreMap[n]
                  /\ u(m)[1] = LBScoreMap[m] /\ u(m)[2] = ADFScoreMap[m] /\ u(m)[3] = FutureScoreMap[m]
                OBVIOUS
            <4> HIDE DEF u
            <4>5. Cbrt(u(n)[1] * u(n)[2] * u(n)[3]) < Cbrt(u(m)[1] * u(m)[2] * u(m)[3])
                BY <4>2, <4>3, CbrtOfMore, Zenon
            <4> QED BY <4>4, <4>5, Zenon
        <3>3. Score(n) < Score(m)
            BY <2>2, <3>2, Zenon DEF Score
        <3> QED BY <1>1, <3>3, ScoreInt
    <2>3. CASE ~WithSLA(cycle.pod)
        BY <1>8, <2>1, <2>3 DEF Score
    <2> QED BY <2>2, <2>3
<1>10. s[m] > s[n]
    BY <1>9
<1> HIDE DEF s
<1> QED BY <1>3, <1>4, <1>10, OnlyHighest DEF final

LEMMA RankedNext == Inv /\ Ranked /\ [Next]_vars => Ranked'
<1> SUFFICES ASSUME Inv, Ranked, [Next]_vars PROVE Ranked'
    OBVIOUS
<1>1. ASSUME UNCHANGED cycling \/ (cycle' = None)
      PROVE  Ranked'
    <2>1. CASE cycle' = None
        BY <2>1 DEF Ranked
    <2>2. CASE UNCHANGED cycling
        <3>1. enableSLA' = enableSLA /\ cycle' = cycle /\ LBScoreMap' = LBScoreMap
              /\ ADFScoreMap' = ADFScoreMap /\ FutureScoreMap' = FutureScoreMap
            BY <2>2 DEF cycling, maps
        <3> QED BY <3>1 DEF Ranked, Better, WithSLA
    <2> QED BY <1>1, <2>1, <2>2
<1>2. ASSUME NEW n \in Configured, InitNodeLatencyTestTool(n) \/ StartLatencyTest(n) \/ RemoteFails(n)
      PROVE  Ranked'
    BY <1>1, <1>2 DEF cycling, InitNodeLatencyTestTool, StartLatencyTest, RemoteFails
<1>3. CASE New \/ Stop \/ Unschedulable
    BY <1>1, <1>3 DEF cycling, New, Stop, Unschedulable
<1>4. ASSUME NEW pair \in Pairs, Probe(pair)
      PROVE  Ranked'
    BY <1>1, <1>4 DEF cycling, Probe
<1>5. ASSUME NEW n \in Nodes, Bind(n)
      PROVE  Ranked'
    BY <1>1, <1>5 DEF Bind
<1>6. ASSUME NEW n \in Nodes, Filter(n)
      PROVE  Ranked'
    <2>1. cycle'.step = "filter"
        BY <1>6 DEF Inv, Shape, Filter
    <2> QED BY <2>1 DEF Ranked
<1>7. ASSUME NEW p \in Pods, StartCycle(p)
      PROVE  Ranked'
    <2>1. cycle'.step = "filter"
        BY <1>7 DEF StartCycle
    <2> QED BY <2>1 DEF Ranked
<1>8. CASE UNCHANGED vars
    BY <1>1, <1>8 DEF vars, cycling
<1> QED BY <1>2, <1>3, <1>4, <1>5, <1>6, <1>7, <1>8, RankedPreScore, RankedScoreNodes DEF Next

LEMMA RankedInvariance == Spec => [](Inv /\ Ranked)
<1>1. Init => Ranked
    BY DEF Init, Ranked
<1> QED BY <1>1, InvInit, InvNext, RankedNext, PTL DEF Spec

-----------------------------------------------------------------------------
(* The theorems *)

\* Every reachable state is well typed; in particular the scores NormalizeScore
\* returns are the 0 to 100 the framework takes.
THEOREM TypeCorrect == Spec => []TypeOK
<1>1. Inv => TypeOK
    <2> SUFFICES ASSUME Inv PROVE TypeOK
        OBVIOUS
    <2>1. probes \in [Configured -> 0..MaxStarts]
        BY NeilatsAssumption DEF Inv, Visited
    <2>2. ASSUME cycle # None
          PROVE  cycle.passed \subseteq Nodes \ cycle.left
        BY <2>2 DEF Inv, Shape
    <2> QED BY <2>1, <2>2 DEF Inv, Visited, Recorded, InFinal, TypeOK
<1> QED BY <1>1, Invariance, PTL

\* A pod with an SLA passes the filter only on nodes other than its neighbour
\* whose latency was measured within the SLA, or is not in the matrix.
THEOREM SLAIsFiltered == Spec => []SLAFiltered
<1>1. Inv => SLAFiltered
    BY DEF Inv
<1> QED BY <1>1, Invariance, PTL

\* The plugin runs with SLAs only while each configured node has the script and a
\* probe, whichever of its starts failed before and on whichever node.
THEOREM RunningIsMeasured == Spec => []MeasuredWhileRunning
<1>1. Inv => MeasuredWhileRunning
    BY DEF Inv, Visited
<1> QED BY <1>1, Invariance, PTL

\* No pod is bound to a node while another that passed the filter is ahead of it
\* by a hundredth in every score the pod is ranked by: both normalisations, the
\* cube root and the rounding keep what is ahead that far ahead, and the maps
\* are those of the pod's own cycle.
THEOREM WinnerIsUndominated == Spec => WinnerUndominated
<1> DEFINE Undominated ==
        \A p \in Pods : where'[p] # where[p] /\ cycle.step = "bind" =>
            \A m \in cycle.passed : ~Better(m, where'[p])
<1>1. ASSUME Inv, Ranked, [Next]_vars
      PROVE  [Undominated]_vars
    <2>1. ASSUME NEW n \in Nodes, Bind(n), NEW p \in Pods, where'[p] # where[p], cycle.step = "bind",
                 NEW m \in cycle.passed, Better(m, where'[p])
          PROVE  FALSE
        <3>1. /\ cycle # None /\ n \in cycle.passed
              /\ \A k \in cycle.passed : cycle.final[k] <= cycle.final[n]
              /\ where' = [where EXCEPT ![cycle.pod] = n]
            BY <2>1 DEF Bind
        <3>2. where'[p] = n
            BY <1>1, <2>1, <3>1 DEF Inv, Recorded
        <3>3. PICK k \in cycle.passed : cycle.final[k] > cycle.final[n]
            BY <1>1, <2>1, <3>1, <3>2 DEF Ranked
        <3>4. cycle.final \in [cycle.passed -> 0..100]
            BY <1>1, <2>1, <3>1 DEF Inv, InFinal
        <3>5. cycle.final[k] \in Int /\ cycle.final[n] \in Int
            BY <3>1, <3>4
        <3> QED BY <3>1, <3>3, <3>5
    <2>2. (\E n \in Nodes : Bind(n)) \/ where' = where
        <3>1. \A k \in Configured :
                 InitNodeLatencyTestTool(k) \/ StartLatencyTest(k) \/ RemoteFails(k) => where' = where
            BY DEF InitNodeLatencyTestTool, StartLatencyTest, RemoteFails
        <3>2. \A k \in Nodes : Filter(k) => where' = where
            BY DEF Filter
        <3>3. (\A pair \in Pairs : Probe(pair) => where' = where)
              /\ (\A p \in Pods : StartCycle(p) => where' = where)
            BY DEF Probe, StartCycle
        <3>4. New \/ Stop \/ PreScore \/ ScoreNodes \/ Unschedulable => where' = where
            BY DEF New, Stop, PreScore, ScoreNodes, Unschedulable
        <3>5. UNCHANGED vars => where' = where
            BY DEF vars
        <3> QED BY <1>1, <3>1, <3>2, <3>3, <3>4, <3>5, Zenon DEF Next
    <2> QED BY <2>1, <2>2
<1> QED BY <1>1, RankedInvariance, PTL DEF Spec, WinnerUndominated
=============================================================================
