-------------------------------- MODULE Sums --------------------------------
(***************************************************************************)
(* Lemmas about the sum of a function over a finite set, the operator      *)
(* SumFunctionOnSet of the module Functions, and about its extreme values, *)
(* with the two induction principles they rest on: a nonempty set of       *)
(* natural numbers has a least element, and a nonempty set of subsets of a *)
(* finite set a smallest one.  An induction is a proof that no smallest    *)
(* counterexample exists.  At the end, lemmas about quotients of integers. *)
(***************************************************************************)
EXTENDS Integers, FiniteSets, Functions, FiniteSetTheorems, WellFoundedInduction, TLAPS

\* Every nonempty set of natural numbers has a least element.
LEMMA LeastNumber ==
    ASSUME NEW T, T \subseteq Nat, T # {}
    PROVE  \E x \in T : \A y \in T : x <= y
<1> DEFINE R == {ss \in Nat \X Nat : ss[1] < ss[2]}
<1>1. IsWellFoundedOn(R, Nat)
    BY NatLessThanWellFounded DEF OpToRel
<1>2. \A x, y \in Nat : x < y => <<x, y>> \in R
    OBVIOUS
<1> HIDE DEF R
<1>3. PICK x \in T : \A y \in T : ~ (<<y, x>> \in R)
    BY <1>1, WFMin
<1>4. ASSUME NEW y \in T
      PROVE  x <= y
    <2>1. x \in Nat /\ y \in Nat
        OBVIOUS
    <2>2. ~ (y < x)
        BY <1>2, <1>3, <2>1, Zenon
    <2> QED BY <2>1, <2>2
<1> QED BY <1>4

\* The indices of a list are finitely many.
LEMMA IndicesAreFinite ==
    ASSUME NEW n \in Nat
    PROVE  IsFiniteSet(1 .. n)
BY FS_Interval

\* Every nonempty set of subsets of a finite set has a member that does not
\* stay in the set when an element is removed from it.
LEMMA SmallestSet ==
    ASSUME NEW S, IsFiniteSet(S), NEW Bad, Bad \subseteq SUBSET S, Bad # {}
    PROVE  \E T \in Bad : IsFiniteSet(T) /\ \A x \in T : T \ {x} \notin Bad
<1>1. \A T \in Bad : IsFiniteSet(T) /\ Cardinality(T) \in Nat
    BY FS_Subset, FS_CardinalityType
<1> DEFINE Sizes == {Cardinality(T) : T \in Bad}
<1>2. Sizes \subseteq Nat /\ Sizes # {}
    BY <1>1
<1>3. PICK n \in Sizes : \A m \in Sizes : n <= m
    BY <1>2, LeastNumber
<1>4. PICK T \in Bad : n = Cardinality(T)
    BY <1>3
<1>5. ASSUME NEW x \in T
      PROVE  T \ {x} \notin Bad
    <2>1. Cardinality(T \ {x}) = Cardinality(T) - 1
        BY <1>1, FS_RemoveElement
    <2>2. T \ {x} \in Bad => Cardinality(T) <= Cardinality(T \ {x})
        BY <1>3, <1>4
    <2> QED BY <1>1, <2>1, <2>2
<1> QED BY <1>1, <1>5

-----------------------------------------------------------------------------
(* The recursion that defines a sum has exactly one solution *)

Some(s) == CHOOSE x \in s : TRUE

\* The function that SumFunctionOnSet evaluates.
Unfolds(iter, f, S) ==
    iter = [s \in SUBSET S |-> IF s = {} THEN 0 ELSE f[Some(s)] + iter[s \ {Some(s)}]]

LEMMA SomeIn ==
    ASSUME NEW s, s # {}
    PROVE  Some(s) \in s
BY DEF Some

LEMMA SumDef ==
    ASSUME NEW f, NEW S
    PROVE  SumFunctionOnSet(f, S) = (CHOOSE iter : Unfolds(iter, f, S))[S]
BY DEF SumFunctionOnSet, FoldFunctionOnSet, MapThenFoldSet, Unfolds, Some

LEMMA UnfoldsUnique ==
    ASSUME NEW f, NEW S, IsFiniteSet(S),
           NEW g, NEW h, Unfolds(g, f, S), Unfolds(h, f, S)
    PROVE  g = h
<1> DEFINE Bad == {T \in SUBSET S : g[T] # h[T]}
<1>1. SUFFICES ASSUME Bad # {} PROVE FALSE
    <2>1. \A T \in SUBSET S : g[T] = h[T]
        BY <1>1, Zenon
    <2>2. g = [s \in SUBSET S |-> g[s]] /\ h = [s \in SUBSET S |-> h[s]]
        BY DEF Unfolds
    <2> QED BY <2>1, <2>2
<1>2. PICK T \in Bad : \A x \in T : T \ {x} \notin Bad
    BY <1>1, SmallestSet
<1>3. \A s \in SUBSET S : /\ g[s] = IF s = {} THEN 0 ELSE f[Some(s)] + g[s \ {Some(s)}]
                          /\ h[s] = IF s = {} THEN 0 ELSE f[Some(s)] + h[s \ {Some(s)}]
    BY Zenon DEF Unfolds
<1>4. T # {}
    BY <1>3, Zenon
<1>5. Some(T) \in T
    BY <1>4, SomeIn
<1>6. g[T \ {Some(T)}] = h[T \ {Some(T)}]
    BY <1>2, <1>5
<1> QED BY <1>2, <1>3, <1>4, <1>6

LEMMA UnfoldsRestricted ==
    ASSUME NEW f, NEW S, NEW g, Unfolds(g, f, S), NEW T \in SUBSET S
    PROVE  Unfolds([s \in SUBSET T |-> g[s]], f, T)
<1> DEFINE h == [s \in SUBSET T |-> g[s]]
<1>1. ASSUME NEW s \in SUBSET T
      PROVE  g[s] = IF s = {} THEN 0 ELSE f[Some(s)] + h[s \ {Some(s)}]
    <2>1. g[s] = IF s = {} THEN 0 ELSE f[Some(s)] + g[s \ {Some(s)}]
        <3>1. s \in SUBSET S
            OBVIOUS
        <3> QED BY <3>1, Zenon DEF Unfolds
    <2>2. s \ {Some(s)} \in SUBSET T
        OBVIOUS
    <2>3. h[s \ {Some(s)}] = g[s \ {Some(s)}]
        BY <2>2
    <2> QED BY <2>1, <2>3
<1>2. h = [s \in SUBSET T |-> IF s = {} THEN 0 ELSE f[Some(s)] + h[s \ {Some(s)}]]
    BY <1>1
<1> QED BY <1>2 DEF Unfolds

\* The value of the sum, and the equation it satisfies, where the recursion
\* has a solution.
LEMMA SumStep ==
    ASSUME NEW f, NEW S, IsFiniteSet(S), \E g : Unfolds(g, f, S)
    PROVE  SumFunctionOnSet(f, S) =
               IF S = {} THEN 0 ELSE f[Some(S)] + SumFunctionOnSet(f, S \ {Some(S)})
<1> DEFINE g == CHOOSE iter : Unfolds(iter, f, S)
           T == S \ {Some(S)}
           h == CHOOSE iter : Unfolds(iter, f, T)
<1>1. Unfolds(g, f, S)
    OBVIOUS
<1>2. SumFunctionOnSet(f, S) = g[S] /\ SumFunctionOnSet(f, T) = h[T]
    BY SumDef
<1>3. Unfolds([s \in SUBSET T |-> g[s]], f, T)
    BY <1>1, UnfoldsRestricted
<1>4. Unfolds(h, f, T)
    BY <1>3
<1>5. IsFiniteSet(T)
    BY FS_RemoveElement
<1>6. h = [s \in SUBSET T |-> g[s]]
    <2> HIDE DEF g, h, T
    <2> QED BY <1>3, <1>4, <1>5, UnfoldsUnique
<1>7. h[T] = g[T]
    BY <1>6
<1>8. g[S] = IF S = {} THEN 0 ELSE f[Some(S)] + g[T]
    <2> HIDE DEF g
    <2> QED BY <1>1, Zenon DEF Unfolds
<1> QED BY <1>2, <1>7, <1>8

LEMMA UnfoldsExists ==
    ASSUME NEW f, NEW S, IsFiniteSet(S)
    PROVE  \E g : Unfolds(g, f, S)
<1> DEFINE Bad == {T \in SUBSET S : ~ \E g : Unfolds(g, f, T)}
<1>1. SUFFICES ASSUME Bad # {} PROVE FALSE
    <2>1. S \notin Bad => \E g : Unfolds(g, f, S)
        OBVIOUS
    <2> QED BY <1>1, <2>1, Zenon
<1>2. PICK T \in Bad : IsFiniteSet(T) /\ \A x \in T : T \ {x} \notin Bad
    BY <1>1, SmallestSet
<1> DEFINE Sum(s) == IF s = {} THEN 0 ELSE f[Some(s)] + SumFunctionOnSet(f, s \ {Some(s)})
           G == [s \in SUBSET T |-> Sum(s)]
<1>3. ASSUME NEW s \in SUBSET T, s # T
      PROVE  SumFunctionOnSet(f, s) = Sum(s)
    <2>1. PICK x \in T : s \subseteq T \ {x}
        BY <1>3
    <2>2. PICK g : Unfolds(g, f, T \ {x})
        BY <1>2, <2>1
    <2>3. Unfolds([u \in SUBSET s |-> g[u]], f, s)
        BY <2>1, <2>2, UnfoldsRestricted
    <2>4. IsFiniteSet(s)
        BY <1>2, FS_Subset
    <2> QED BY <2>3, <2>4, SumStep
<1>4. ASSUME NEW s \in SUBSET T, s # {}
      PROVE  G[s] = f[Some(s)] + G[s \ {Some(s)}]
    <2>1. Some(s) \in s
        BY <1>4, SomeIn
    <2>2. s \ {Some(s)} \in SUBSET T /\ s \ {Some(s)} # T
        BY <2>1
    <2>3. G[s \ {Some(s)}] = SumFunctionOnSet(f, s \ {Some(s)})
        BY <1>3, <2>2
    <2> QED BY <1>4, <2>3
<1>5. G[{}] = 0
    OBVIOUS
<1>6. G = [s \in SUBSET T |-> IF s = {} THEN 0 ELSE f[Some(s)] + G[s \ {Some(s)}]]
    <2>1. \A s \in SUBSET T : Sum(s) = IF s = {} THEN 0 ELSE f[Some(s)] + G[s \ {Some(s)}]
        BY <1>4
    <2> QED BY <2>1
<1>7. Unfolds(G, f, T)
    BY <1>6 DEF Unfolds
<1> QED BY <1>2, <1>7

-----------------------------------------------------------------------------
(* What sums of integers satisfy *)

\* An empty sum is 0, and any element may be taken out of a sum of integers.
LEMMA SumEmpty ==
    ASSUME NEW f
    PROVE  SumFunctionOnSet(f, {}) = 0
BY UnfoldsExists, SumStep, FS_EmptySet

LEMMA SumRec ==
    ASSUME NEW f, NEW S, IsFiniteSet(S), S # {}
    PROVE  SumFunctionOnSet(f, S) = f[Some(S)] + SumFunctionOnSet(f, S \ {Some(S)})
BY UnfoldsExists, SumStep

\* A sum of integers is an integer.
LEMMA SumInt ==
    ASSUME NEW f, NEW S, IsFiniteSet(S), \A x \in S : f[x] \in Int
    PROVE  SumFunctionOnSet(f, S) \in Int
<1> DEFINE Bad == {T \in SUBSET S : SumFunctionOnSet(f, T) \notin Int}
<1>1. SUFFICES ASSUME Bad # {} PROVE FALSE
    BY <1>1, Zenon
<1>2. PICK T \in Bad : IsFiniteSet(T) /\ \A x \in T : T \ {x} \notin Bad
    BY <1>1, SmallestSet
<1>3. T # {}
    BY <1>2, SumEmpty
<1>4. Some(T) \in T
    BY <1>3, SomeIn
<1>5. SumFunctionOnSet(f, T) = f[Some(T)] + SumFunctionOnSet(f, T \ {Some(T)})
    BY <1>2, <1>3, SumRec
<1>6. SumFunctionOnSet(f, T \ {Some(T)}) \in Int /\ f[Some(T)] \in Int
    BY <1>2, <1>4
<1> QED BY <1>2, <1>5, <1>6

\* Sums are monotonic in the summands.
LEMMA SumMono ==
    ASSUME NEW f, NEW g, NEW S, IsFiniteSet(S),
           \A x \in S : f[x] \in Int /\ g[x] \in Int /\ f[x] <= g[x]
    PROVE  SumFunctionOnSet(f, S) <= SumFunctionOnSet(g, S)
<1> DEFINE Bad == {T \in SUBSET S : ~ (SumFunctionOnSet(f, T) <= SumFunctionOnSet(g, T))}
<1>1. SUFFICES ASSUME Bad # {} PROVE FALSE
    BY <1>1, Zenon
<1>2. PICK T \in Bad : IsFiniteSet(T) /\ \A x \in T : T \ {x} \notin Bad
    BY <1>1, SmallestSet
<1>3. T # {}
    BY <1>2, SumEmpty
<1> DEFINE x == Some(T)
           U == T \ {x}
<1>4. x \in T
    BY <1>3, SomeIn
<1>5. /\ SumFunctionOnSet(f, T) = f[x] + SumFunctionOnSet(f, U)
      /\ SumFunctionOnSet(g, T) = g[x] + SumFunctionOnSet(g, U)
    BY <1>2, <1>3, SumRec
<1>6. IsFiniteSet(U)
    BY <1>2, FS_RemoveElement
<1>7. SumFunctionOnSet(f, U) \in Int /\ SumFunctionOnSet(g, U) \in Int
    BY <1>6, SumInt
<1>8. SumFunctionOnSet(f, U) <= SumFunctionOnSet(g, U)
    BY <1>2, <1>4
<1>9. f[x] \in Int /\ g[x] \in Int /\ f[x] <= g[x]
    BY <1>4
<1> HIDE DEF x, U
<1>10. SumFunctionOnSet(f, T) <= SumFunctionOnSet(g, T)
    BY <1>5, <1>7, <1>8, <1>9
<1> QED BY <1>2, <1>10

\* Summands that agree give the same sum.
LEMMA SumSame ==
    ASSUME NEW f, NEW g, NEW S, IsFiniteSet(S), \A x \in S : f[x] \in Int /\ f[x] = g[x]
    PROVE  SumFunctionOnSet(f, S) = SumFunctionOnSet(g, S)
<1>1. SumFunctionOnSet(f, S) <= SumFunctionOnSet(g, S)
    BY SumMono
<1>2. SumFunctionOnSet(g, S) <= SumFunctionOnSet(f, S)
    BY SumMono
<1>3. SumFunctionOnSet(f, S) \in Int /\ SumFunctionOnSet(g, S) \in Int
    BY SumInt
<1> QED BY <1>1, <1>2, <1>3

\* Any element may be taken out of a sum.
LEMMA SumRemove ==
    ASSUME NEW f, NEW S, IsFiniteSet(S), \A y \in S : f[y] \in Int, NEW x \in S
    PROVE  SumFunctionOnSet(f, S) = f[x] + SumFunctionOnSet(f, S \ {x})
<1> DEFINE Splits(T, z) == SumFunctionOnSet(f, T) = f[z] + SumFunctionOnSet(f, T \ {z})
           Bad == {T \in SUBSET S : \E z \in T : ~ Splits(T, z)}
<1>1. SUFFICES ASSUME Bad # {} PROVE FALSE
    BY <1>1, Zenon
<1>2. PICK T \in Bad : IsFiniteSet(T) /\ \A y \in T : T \ {y} \notin Bad
    BY <1>1, SmallestSet
<1>3. PICK z \in T : ~ Splits(T, z)
    BY <1>2
<1> DEFINE y == Some(T)
           V == (T \ {y}) \ {z}
<1>4. y \in T
    BY <1>3, SomeIn
<1>5. Splits(T, y)
    BY <1>2, <1>3, SumRec
<1>6. y # z
    BY <1>3, <1>5
<1>7. SumFunctionOnSet(f, T \ {y}) = f[z] + SumFunctionOnSet(f, V)
    <2>1. T \ {y} \in SUBSET S /\ z \in T \ {y}
        BY <1>3, <1>6
    <2>2. Splits(T \ {y}, z)
        BY <1>2, <1>4, <2>1
    <2> QED BY <2>2
<1>8. SumFunctionOnSet(f, T \ {z}) = f[y] + SumFunctionOnSet(f, V)
    <2>1. T \ {z} \in SUBSET S /\ y \in T \ {z}
        BY <1>4, <1>6
    <2>2. Splits(T \ {z}, y)
        BY <1>2, <1>3, <2>1
    <2>3. (T \ {z}) \ {y} = V
        OBVIOUS
    <2> QED BY <2>2, <2>3
<1>9. IsFiniteSet(V) /\ V \subseteq S
    BY <1>2, FS_RemoveElement
<1>10. SumFunctionOnSet(f, V) \in Int /\ f[y] \in Int /\ f[z] \in Int
    BY <1>3, <1>4, <1>9, SumInt
<1> HIDE DEF y, V
<1> QED BY <1>3, <1>5, <1>7, <1>8, <1>10

\* A new element adds its value to a sum.
LEMMA SumAdd ==
    ASSUME NEW f, NEW S, IsFiniteSet(S), NEW x, x \notin S, \A y \in S \cup {x} : f[y] \in Int
    PROVE  SumFunctionOnSet(f, S \cup {x}) = f[x] + SumFunctionOnSet(f, S)
<1>1. IsFiniteSet(S \cup {x})
    BY FS_AddElement
<1>2. (S \cup {x}) \ {x} = S
    OBVIOUS
<1> QED BY <1>1, <1>2, SumRemove

\* A sum of natural numbers is one.
LEMMA SumNat ==
    ASSUME NEW f, NEW S, IsFiniteSet(S), \A x \in S : f[x] \in Nat
    PROVE  SumFunctionOnSet(f, S) \in Nat
<1> DEFINE Bad == {T \in SUBSET S : SumFunctionOnSet(f, T) \notin Nat}
<1>1. SUFFICES ASSUME Bad # {} PROVE FALSE
    BY <1>1, Zenon
<1>2. PICK T \in Bad : IsFiniteSet(T) /\ \A x \in T : T \ {x} \notin Bad
    BY <1>1, SmallestSet
<1>3. T # {}
    BY <1>2, SumEmpty
<1>4. Some(T) \in T
    BY <1>3, SomeIn
<1>5. SumFunctionOnSet(f, T) = f[Some(T)] + SumFunctionOnSet(f, T \ {Some(T)})
    BY <1>2, <1>3, SumRec
<1>6. SumFunctionOnSet(f, T \ {Some(T)}) \in Nat /\ f[Some(T)] \in Nat
    BY <1>2, <1>4
<1> QED BY <1>2, <1>5, <1>6

\* The part of a sum over a subset is the whole without the rest.
LEMMA SumSplit ==
    ASSUME NEW f, NEW S, IsFiniteSet(S), \A x \in S : f[x] \in Int, NEW T \in SUBSET S
    PROVE  SumFunctionOnSet(f, S) = SumFunctionOnSet(f, T) + SumFunctionOnSet(f, S \ T)
<1> DEFINE Bad == {R \in SUBSET T : SumFunctionOnSet(f, S) #
                                        SumFunctionOnSet(f, R) + SumFunctionOnSet(f, S \ R)}
<1>1. SUFFICES ASSUME Bad # {} PROVE FALSE
    BY <1>1, Zenon
<1>2. IsFiniteSet(T)
    BY FS_Subset
<1>3. PICK R \in Bad : IsFiniteSet(R) /\ \A x \in R : R \ {x} \notin Bad
    BY <1>1, <1>2, SmallestSet
<1>4. SumFunctionOnSet(f, S) \in Int
    BY SumInt
<1>5. PICK x : x \in R
    <2>1. S \ {} = S
        OBVIOUS
    <2>2. SumFunctionOnSet(f, {}) = 0
        BY SumEmpty
    <2>3. {} \notin Bad
        BY <1>4, <2>1, <2>2
    <2> QED BY <1>3, <2>3
<1> DEFINE Q == R \ {x}
           C == S \ R
<1>6. IsFiniteSet(Q) /\ IsFiniteSet(C)
    BY <1>3, FS_RemoveElement, FS_Difference
<1>7. SumFunctionOnSet(f, R) = f[x] + SumFunctionOnSet(f, Q)
    BY <1>3, <1>5, SumRemove
<1>8. SumFunctionOnSet(f, S \ Q) = f[x] + SumFunctionOnSet(f, C)
    <2>1. S \ Q = C \cup {x} /\ x \notin C /\ C \cup {x} \subseteq S
        BY <1>3, <1>5
    <2>2. SumFunctionOnSet(f, C \cup {x}) = f[x] + SumFunctionOnSet(f, C)
        BY <1>6, <2>1, SumAdd
    <2> QED BY <2>1, <2>2
<1>9. SumFunctionOnSet(f, S) = SumFunctionOnSet(f, Q) + SumFunctionOnSet(f, S \ Q)
    BY <1>3, <1>5
<1>10. SumFunctionOnSet(f, Q) \in Int /\ SumFunctionOnSet(f, C) \in Int /\ f[x] \in Int
    BY <1>3, <1>5, <1>6, SumInt
<1> HIDE DEF Q
<1> QED BY <1>3, <1>7, <1>8, <1>9, <1>10

\* The sum of two functions is summed separately.
LEMMA SumPlus ==
    ASSUME NEW f, NEW g, NEW h, NEW S, IsFiniteSet(S),
           \A x \in S : f[x] \in Int /\ g[x] \in Int /\ h[x] = f[x] + g[x]
    PROVE  SumFunctionOnSet(h, S) = SumFunctionOnSet(f, S) + SumFunctionOnSet(g, S)
<1> DEFINE Bad == {T \in SUBSET S : SumFunctionOnSet(h, T) #
                                        SumFunctionOnSet(f, T) + SumFunctionOnSet(g, T)}
<1>1. SUFFICES ASSUME Bad # {} PROVE FALSE
    BY <1>1, Zenon
<1>2. PICK T \in Bad : IsFiniteSet(T) /\ \A x \in T : T \ {x} \notin Bad
    BY <1>1, SmallestSet
<1>3. T # {}
    BY <1>2, SumEmpty
<1> DEFINE a == Some(T)
           R == T \ {a}
<1>4. a \in T /\ a \in S
    BY <1>2, <1>3, SomeIn
<1>5. /\ SumFunctionOnSet(f, T) = f[a] + SumFunctionOnSet(f, R)
      /\ SumFunctionOnSet(g, T) = g[a] + SumFunctionOnSet(g, R)
      /\ SumFunctionOnSet(h, T) = h[a] + SumFunctionOnSet(h, R)
    BY <1>2, <1>3, SumRec
<1>6. SumFunctionOnSet(h, R) = SumFunctionOnSet(f, R) + SumFunctionOnSet(g, R)
    BY <1>2, <1>4
<1>7. SumFunctionOnSet(f, R) \in Int /\ SumFunctionOnSet(g, R) \in Int
    <2>1. IsFiniteSet(R) /\ R \subseteq S
        BY <1>2, FS_RemoveElement
    <2> QED BY <2>1, SumInt
<1>8. SumFunctionOnSet(h, T) # SumFunctionOnSet(f, T) + SumFunctionOnSet(g, T)
    BY <1>2
<1> HIDE DEF a, R
<1> QED BY <1>4, <1>5, <1>6, <1>7, <1>8

-----------------------------------------------------------------------------
(* The largest and the smallest value of a function on a finite set *)

LEMMA GreatestValue ==
    ASSUME NEW f, NEW S, IsFiniteSet(S), S # {}, \A x \in S : f[x] \in Int
    PROVE  \E x \in S : \A y \in S : f[x] >= f[y]
<1> DEFINE Tops == {T \in SUBSET S : \A y \in S : \E x \in T : f[x] >= f[y]}
<1>1. S \in Tops
    <2>1. \A y \in S : f[y] >= f[y]
        OBVIOUS
    <2> QED BY <2>1
<1>2. PICK T \in Tops : \A x \in T : T \ {x} \notin Tops
    <2>1. Tops \subseteq SUBSET S /\ Tops # {}
        BY <1>1
    <2> QED BY <2>1, SmallestSet
<1>3. PICK x \in T : TRUE
    BY <1>2
<1>4. ASSUME NEW a \in T, NEW b \in T, a # b, f[a] >= f[b]
      PROVE  FALSE
    <2>1. ASSUME NEW y \in S
          PROVE  \E z \in T \ {b} : f[z] >= f[y]
        <3>1. PICK z \in T : f[z] >= f[y]
            BY <1>2
        <3>2. f[z] \in Int /\ f[y] \in Int /\ f[a] \in Int /\ f[b] \in Int
            BY <1>2
        <3> QED BY <1>4, <3>1, <3>2
    <2>2. T \ {b} \in Tops
        BY <1>2, <2>1
    <2> QED BY <1>2, <2>2
<1>5. ASSUME NEW y \in T, y # x
      PROVE  FALSE
    <2>1. f[x] \in Int /\ f[y] \in Int
        BY <1>2, <1>3
    <2>2. f[x] >= f[y] \/ f[y] >= f[x]
        BY <2>1
    <2> QED BY <1>3, <1>4, <1>5, <2>2
<1>6. x \in S /\ \A y \in S : f[x] >= f[y]
    BY <1>2, <1>3, <1>5
<1> QED BY <1>6

LEMMA LeastValue ==
    ASSUME NEW f, NEW S, IsFiniteSet(S), S # {}, \A x \in S : f[x] \in Int
    PROVE  \E x \in S : \A y \in S : f[x] <= f[y]
<1> DEFINE g == [x \in S |-> -f[x]]
<1>1. \A x \in S : g[x] \in Int
    OBVIOUS
<1> HIDE DEF g
<1>2. PICK x \in S : \A y \in S : g[x] >= g[y]
    BY <1>1, GreatestValue
<1>3. \A y \in S : f[x] <= f[y]
    BY <1>2 DEF g
<1> QED BY <1>3

-----------------------------------------------------------------------------
(* Quotients of integers *)

LEMMA QuotientOf ==
    ASSUME NEW a \in Int, NEW d \in Nat, 0 < d
    PROVE  /\ a \div d \in Int
           /\ d * (a \div d) <= a
           /\ a < d * (a \div d) + d
OBVIOUS

\* A bound on a number bounds its quotient.
LEMMA QuotientBounds ==
    ASSUME NEW a \in Int, NEW d \in Nat, 0 < d, NEW k \in Int
    PROVE  /\ k * d <= a => k <= a \div d
           /\ a < k * d + d => a \div d <= k
<1> DEFINE q == a \div d
<1>1. q \in Int /\ d * q <= a /\ a < d * q + d
    BY QuotientOf
<1> HIDE DEF q
<1>2. ASSUME k * d <= a, q < k
      PROVE  FALSE
    <2>1. q + 1 <= k
        BY <1>1, <1>2
    <2>2. (k - (q + 1)) * d >= 0
        BY <1>1, <2>1
    <2>3. (q + 1) * d <= k * d
        BY <1>1, <2>2
    <2>4. k * d \in Int /\ d * q \in Int /\ (q + 1) * d = d * q + d
        BY <1>1
    <2> QED BY <1>1, <1>2, <2>3, <2>4
<1>3. ASSUME a < k * d + d, k < q
      PROVE  FALSE
    <2>1. k + 1 <= q
        BY <1>1, <1>3
    <2>2. (q - (k + 1)) * d >= 0
        BY <1>1, <2>1
    <2>3. (k + 1) * d <= d * q
        BY <1>1, <2>2
    <2>4. k * d \in Int /\ d * q \in Int /\ (k + 1) * d = k * d + d
        BY <1>1
    <2> QED BY <1>1, <1>3, <2>3, <2>4
<1>4. k * d <= a => k <= q
    BY <1>1, <1>2
<1>5. a < k * d + d => q <= k
    BY <1>1, <1>3
<1> QED BY <1>4, <1>5 DEF q

LEMMA QuotientMono ==
    ASSUME NEW a \in Int, NEW b \in Int, a <= b, NEW d \in Nat, 0 < d
    PROVE  a \div d <= b \div d
<1> DEFINE q == a \div d
<1>1. q \in Int /\ d * q <= a
    BY QuotientOf
<1> HIDE DEF q
<1>2. q * d <= b
    <2>1. q * d = d * q /\ d * q \in Int
        BY <1>1
    <2> QED BY <1>1, <2>1
<1>3. q <= b \div d
    BY <1>1, <1>2, QuotientBounds
<1> QED BY <1>3 DEF q
=============================================================================
