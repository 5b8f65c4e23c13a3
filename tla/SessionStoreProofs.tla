------------------------- MODULE SessionStoreProofs -------------------------
(***************************************************************************)
(* Theorems of SessionStore, for every set of frames and read loops, every  *)
(* size of picture, shift and number of faults: what is announced is on     *)
(* disk, and what the composite shows of the frames it was made of.         *)
(***************************************************************************)
EXTENDS SessionStore, FiniteSetTheorems, TLAPS

-----------------------------------------------------------------------------
(* Finite sets                                                              *)

\* Induction over the subsets of a finite set, for a set of good subsets.
LEMMA SubsetInduction ==
  ASSUME NEW S, IsFiniteSet(S), NEW Good \in SUBSET SUBSET S,
         \A T \in SUBSET S : (\A U \in SUBSET T : U # T => U \in Good) => T \in Good
  PROVE  \A T \in SUBSET S : T \in Good
<1>. DEFINE Bad == {T \in SUBSET S : T \notin Good}
<1>1. IsWellFoundedOn(StrictSubsetOrdering(S), SUBSET S)
  BY FS_StrictSubsetOrderingWellFounded, FS_FiniteSubsetsOfFinite
<1>2. ASSUME Bad # {}  PROVE FALSE
  <2>1. Bad \subseteq SUBSET S
    OBVIOUS
  <2>2. PICK T \in Bad : \A U \in Bad : <<U, T>> \notin StrictSubsetOrdering(S)
    <3>. HIDE DEF Bad
    <3>. QED  BY <1>1, <1>2, <2>1, WFMin
  <2>3. ASSUME NEW U \in SUBSET T, U # T  PROVE U \in Good
    <3>1. U \in SUBSET S /\ T \in SUBSET S
      BY <2>2
    <3>2. <<U, T>> \in StrictSubsetOrdering(S)
      BY <2>3, <3>1 DEF StrictSubsetOrdering
    <3>. QED  BY <2>2, <3>1, <3>2
  <2>. QED  BY <2>2, <2>3
<1>3. Bad = {}
  BY <1>2
<1>. QED  BY <1>3

\* A finite set of numbers has a least and a greatest element.
LEMMA MinMax ==
  ASSUME NEW S \in SUBSET Int, IsFiniteSet(S), S # {}
  PROVE  /\ Min(S) \in S /\ \A x \in S : Min(S) <= x
         /\ Max(S) \in S /\ \A x \in S : x <= Max(S)
<1>. DEFINE Least(T) == \E m \in T : \A x \in T : m <= x
            Most(T)  == \E m \in T : \A x \in T : x <= m
            Good == {T \in SUBSET S : T # {} => Least(T) /\ Most(T)}
<1>1. ASSUME NEW T \in SUBSET S, \A U \in SUBSET T : U # T => U \in Good
      PROVE  T \in Good
  <2>. SUFFICES ASSUME T # {}  PROVE Least(T) /\ Most(T)
    OBVIOUS
  <2>1. PICK x \in T : TRUE
    OBVIOUS
  <2>2. T \ {x} \in Good /\ x \in Int
    BY <1>1, <2>1
  <2>3. CASE T \ {x} = {}
    BY <2>1, <2>2, <2>3
  <2>4. CASE T \ {x} # {}
    <3>1. PICK m \in T \ {x} : \A y \in T \ {x} : m <= y
      BY <2>2, <2>4
    <3>2. PICK n \in T \ {x} : \A y \in T \ {x} : y <= n
      BY <2>2, <2>4
    <3>3. Least(T)
      BY <2>1, <2>2, <3>1
    <3>4. Most(T)
      BY <2>1, <2>2, <3>2
    <3>. QED  BY <3>3, <3>4
  <2>. QED  BY <2>3, <2>4
<1>2. \A T \in SUBSET S : T \in Good
  <2>1. Good \in SUBSET SUBSET S
    OBVIOUS
  <2>. HIDE DEF Good
  <2>. QED  BY <1>1, <2>1, SubsetInduction
<1>3. Least(S) /\ Most(S)
  BY <1>2
<1>. QED  BY <1>3 DEF Min, Max

-----------------------------------------------------------------------------
(* Sums                                                                     *)

\* What SumFunction's recursion computes for a set of indices, given the sums of
\* the smaller ones.
SumOf(f, g, s) ==
  IF s = {} THEN 0 ELSE LET x == CHOOSE x \in s : TRUE IN f[x] + g[s \ {x}]

Sums(f, U, g) == g = [s \in SUBSET U |-> SumOf(f, g, s)]

\* It computes one value for each set of indices,
LEMMA SumsAgree ==
  ASSUME NEW f, NEW S, IsFiniteSet(S), NEW U \in SUBSET S, NEW V \in SUBSET S,
         NEW g, NEW h, Sums(f, U, g), Sums(f, V, h)
  PROVE  \A s \in (SUBSET U) \intersect (SUBSET V) : g[s] = h[s]
<1>. DEFINE Good == {s \in SUBSET S : s \in (SUBSET U) \intersect (SUBSET V) => g[s] = h[s]}
<1>1. ASSUME NEW s \in SUBSET S, \A t \in SUBSET s : t # s => t \in Good
      PROVE  s \in Good
  <2>. SUFFICES ASSUME s \in SUBSET U, s \in SUBSET V  PROVE g[s] = h[s]
    OBVIOUS
  <2>1. g[s] = SumOf(f, g, s) /\ h[s] = SumOf(f, h, s)
    BY DEF Sums
  <2>2. CASE s = {}
    BY <2>1, <2>2 DEF SumOf
  <2>3. CASE s # {}
    <3>1. PICK x \in s : x = CHOOSE y \in s : TRUE
      BY <2>3
    <3>2. s \ {x} \in SUBSET s /\ s \ {x} # s
      BY <3>1
    <3>3. s \ {x} \in Good
      BY <1>1, <3>2
    <3>4. g[s \ {x}] = h[s \ {x}]
      BY <3>3
    <3>. QED  BY <2>1, <2>3, <3>1, <3>4 DEF SumOf
  <2>. QED  BY <2>2, <2>3
<1>2. \A s \in SUBSET S : s \in Good
  <2>1. Good \in SUBSET SUBSET S
    OBVIOUS
  <2>. HIDE DEF Good
  <2>. QED  BY <1>1, <2>1, SubsetInduction
<1>. QED  BY <1>2

\* and it is defined for all of them.
LEMMA SumsExist ==
  ASSUME NEW f, NEW S, IsFiniteSet(S)
  PROVE  \E g : Sums(f, S, g)
<1>. DEFINE Good == {T \in SUBSET S : \E g : Sums(f, T, g)}
<1>1. ASSUME NEW T \in SUBSET S, \A U \in SUBSET T : U # T => U \in Good
      PROVE  T \in Good
  <2>. DEFINE sol(U) == CHOOSE g : Sums(f, U, g)
              x == CHOOSE y \in T : TRUE
              G == [s \in SUBSET T |-> IF s = {} THEN 0
                                       ELSE IF s = T THEN f[x] + sol(T \ {x})[T \ {x}]
                                       ELSE sol(s)[s]]
  <2>1. ASSUME NEW U \in SUBSET T, U # T  PROVE Sums(f, U, sol(U))
    BY <1>1, <2>1
  <2>2. ASSUME NEW s \in SUBSET T, s # T  PROVE G[s] = sol(s)[s]
    <3>1. CASE s = {}
      <4>1. sol(s) = [t \in SUBSET s |-> SumOf(f, sol(s), t)]
        BY <2>1, <2>2 DEF Sums
      <4>. HIDE DEF sol
      <4>. QED  BY <3>1, <4>1 DEF SumOf
    <3>. QED  BY <2>2, <3>1
  <2>3. ASSUME NEW s \in SUBSET T  PROVE G[s] = SumOf(f, G, s)
    <3>1. CASE s = {}
      BY <3>1 DEF SumOf
    <3>2. CASE s # {}
      <4>1. PICK y \in s : y = CHOOSE z \in s : TRUE
        BY <3>2
      <4>2. s \ {y} \in SUBSET T /\ s \ {y} # T
        BY <4>1
      <4>3. G[s \ {y}] = sol(s \ {y})[s \ {y}]
        BY <2>2, <4>2
      <4>4. CASE s = T
        <5>1. y = x
          BY <4>1, <4>4
        <5>. HIDE DEF sol, x
        <5>2. G[s] = f[y] + sol(s \ {y})[s \ {y}]
          BY <3>2, <4>4, <5>1
        <5>. HIDE DEF G
        <5>. QED  BY <3>2, <4>1, <4>3, <5>2 DEF SumOf
      <4>5. CASE s # T
        <5>1. G[s] = sol(s)[s]
          BY <2>2, <4>5
        <5>2. Sums(f, s, sol(s)) /\ Sums(f, s \ {y}, sol(s \ {y}))
          BY <2>1, <4>2, <4>5
        <5>. HIDE DEF sol, G, x
        <5>3. sol(s)[s] = f[y] + sol(s)[s \ {y}]
          BY <3>2, <4>1, <5>2 DEF Sums, SumOf
        <5>4. sol(s)[s \ {y}] = sol(s \ {y})[s \ {y}]
          <6>1. s \in SUBSET S /\ s \ {y} \in SUBSET S
            OBVIOUS
          <6>2. s \ {y} \in (SUBSET s) \intersect (SUBSET (s \ {y}))
            OBVIOUS
          <6>. HIDE DEF Good
          <6>. QED  BY <5>2, <6>1, <6>2, SumsAgree
        <5>. QED  BY <3>2, <4>1, <4>3, <5>1, <5>3, <5>4 DEF SumOf
      <4>. QED  BY <4>4, <4>5
    <3>. QED  BY <3>1, <3>2
  <2>4. G = [s \in SUBSET T |-> G[s]]
    OBVIOUS
  <2>. HIDE DEF G
  <2>5. G = [s \in SUBSET T |-> SumOf(f, G, s)]
    BY <2>3, <2>4
  <2>. QED  BY <2>5 DEF Sums
<1>2. \A T \in SUBSET S : T \in Good
  <2>1. Good \in SUBSET SUBSET S
    OBVIOUS
  <2>. HIDE DEF Good
  <2>. QED  BY <1>1, <2>1, SubsetInduction
<1>. QED  BY <1>2

\* A sum of natural numbers is one, and zero only if all of them are.
LEMMA SumOfNumbers ==
  ASSUME NEW S, IsFiniteSet(S), NEW f \in [S -> Nat]
  PROVE  /\ SumFunction(f) \in Nat
         /\ SumFunction(f) = 0 <=> \A x \in S : f[x] = 0
<1>. DEFINE g == CHOOSE g : Sums(f, S, g)
<1>1. SumFunction(f) = g[S]
  BY DEF SumFunction, SumFunctionOnSet, FoldFunctionOnSet, MapThenFoldSet, Sums, SumOf
<1>2. Sums(f, S, g)
  BY SumsExist
<1>. HIDE DEF g
<1>. DEFINE Good == {s \in SUBSET S : g[s] \in Nat /\ (g[s] = 0 <=> \A x \in s : f[x] = 0)}
<1>3. ASSUME NEW s \in SUBSET S, \A t \in SUBSET s : t # s => t \in Good
      PROVE  s \in Good
  <2>1. g[s] = SumOf(f, g, s)
    BY <1>2 DEF Sums
  <2>2. CASE s = {}
    BY <2>1, <2>2 DEF SumOf
  <2>3. CASE s # {}
    <3>1. PICK x \in s : x = CHOOSE y \in s : TRUE
      BY <2>3
    <3>2. s \ {x} \in SUBSET s /\ s \ {x} # s
      BY <3>1
    <3>3. s \ {x} \in Good
      BY <1>3, <3>2
    <3>4. g[s] = f[x] + g[s \ {x}]
      BY <2>1, <2>3, <3>1 DEF SumOf
    <3>5. f[x] \in Nat
      BY <3>1
    <3>6. g[s \ {x}] \in Nat /\ (g[s \ {x}] = 0 <=> \A y \in s \ {x} : f[y] = 0)
      BY <3>3
    <3>7. (\A y \in s : f[y] = 0) <=> f[x] = 0 /\ \A y \in s \ {x} : f[y] = 0
      BY <3>1
    <3>8. g[s] \in Nat /\ (g[s] = 0 <=> f[x] = 0 /\ g[s \ {x}] = 0)
      BY <3>4, <3>5, <3>6
    <3>. QED  BY <3>6, <3>7, <3>8
  <2>. QED  BY <2>2, <2>3
<1>4. \A s \in SUBSET S : s \in Good
  <2>1. Good \in SUBSET SUBSET S
    OBVIOUS
  <2>. HIDE DEF Good
  <2>. QED  BY <1>3, <2>1, SubsetInduction
<1>. QED  BY <1>1, <1>4

-----------------------------------------------------------------------------
(* The median                                                               *)

UpTo(vals, v)   == {a \in DOMAIN vals : vals[a] <= v}
Under(vals, v)  == {a \in DOMAIN vals : vals[a] < v}
IsMedian(vals, v) ==
  /\ Cardinality(Under(vals, v)) <= Middle(Cardinality(DOMAIN vals))
  /\ Middle(Cardinality(DOMAIN vals)) < Cardinality(UpTo(vals, v))

\* Counting what is under a value, or up to it.
LEMMA Counts ==
  ASSUME NEW D, IsFiniteSet(D), D # {}, NEW vals \in [D -> Int], NEW v \in Int
  PROVE  /\ Cardinality(D) \in Nat \ {0}
         /\ Cardinality(UpTo(vals, v)) \in Nat /\ Cardinality(Under(vals, v)) \in Nat
         /\ IsFiniteSet(UpTo(vals, v)) /\ IsFiniteSet(Under(vals, v))
<1>1. UpTo(vals, v) \in SUBSET D /\ Under(vals, v) \in SUBSET D
  BY DEF UpTo, Under
<1>2. IsFiniteSet(UpTo(vals, v)) /\ IsFiniteSet(Under(vals, v))
  BY <1>1, FS_Subset
<1>. QED  BY <1>2, FS_CardinalityType, FS_EmptySet

\* The values a function takes on a finite set are finitely many.
LEMMA ImageFinite ==
  ASSUME NEW D, IsFiniteSet(D), NEW vals, DOMAIN vals = D, NEW V, V = {vals[a] : a \in D}
  PROVE  IsFiniteSet(V)
<1>. DEFINE img == [a \in D |-> vals[a]]
<1>1. img \in Surjection(D, V)
  BY DEF Surjection
<1>. QED  BY <1>1, FS_Surjection

LEMMA MedianExists ==
  ASSUME NEW D, IsFiniteSet(D), D # {}, NEW vals \in [D -> Int]
  PROVE  \E v \in {vals[a] : a \in D} : IsMedian(vals, v)
<1>. DEFINE V == {vals[a] : a \in D}
            mid == Middle(Cardinality(D))
            T == {v \in V : mid < Cardinality(UpTo(vals, v))}
<1>1. V \in SUBSET Int /\ V # {} /\ IsFiniteSet(V) /\ DOMAIN vals = D
  BY ImageFinite
<1>2. mid \in Nat /\ mid < Cardinality(D)
  <2>1. Cardinality(D) \in Nat \ {0}
    BY FS_CardinalityType, FS_EmptySet
  <2>. QED  BY <2>1 DEF Middle
<1>3. T # {}
  <2>1. Max(V) \in V /\ \A x \in V : x <= Max(V)
    <3>. HIDE DEF V
    <3>. QED  BY <1>1, MinMax
  <2>2. UpTo(vals, Max(V)) = D
    BY <1>1, <2>1 DEF UpTo
  <2>. QED  BY <1>2, <2>1, <2>2
<1>4. PICK v \in T : \A x \in T : v <= x
  <2>1. T \in SUBSET V
    OBVIOUS
  <2>. HIDE DEF T, V
  <2>2. T \in SUBSET Int /\ IsFiniteSet(T)
    BY <1>1, <2>1, FS_Subset
  <2>. QED  BY <1>3, <2>2, MinMax
<1>5. v \in V /\ v \in Int /\ mid < Cardinality(UpTo(vals, v))
  BY <1>1, <1>4
<1>6. Cardinality(Under(vals, v)) <= mid
  <2>. DEFINE less == {u \in V : u < v}
  <2>1. CASE less = {}
    <3>1. Under(vals, v) = {}
      BY <1>1, <2>1 DEF Under
    <3>. QED  BY <1>2, <3>1, FS_EmptySet
  <2>2. CASE less # {}
    <3>1. less \in SUBSET Int /\ IsFiniteSet(less)
      BY <1>1, FS_Subset
    <3>2. PICK u \in less : \A x \in less : x <= u
      <4>. HIDE DEF less
      <4>. QED  BY <2>2, <3>1, MinMax
    <3>3. u \in Int /\ u < v /\ u \in V
      BY <1>1, <3>2
    <3>4. u \notin T
      BY <1>4, <1>5, <3>3
    <3>5. ~ (mid < Cardinality(UpTo(vals, u)))
      BY <3>3, <3>4
    <3>6. \A a \in D : vals[a] < v <=> vals[a] <= u
      <4>1. ASSUME NEW a \in D  PROVE vals[a] < v <=> vals[a] <= u
        <5>1. vals[a] \in V /\ vals[a] \in Int
          OBVIOUS
        <5>. QED  BY <1>5, <3>2, <3>3, <5>1
      <4>. QED  BY <4>1
    <3>7. Under(vals, v) = UpTo(vals, u)
      BY <1>1, <3>6 DEF Under, UpTo
    <3>8. Cardinality(UpTo(vals, u)) \in Nat
      BY <3>3, Counts
    <3>. QED  BY <1>2, <3>5, <3>7, <3>8
  <2>. QED  BY <2>1, <2>2
<1>. QED  BY <1>1, <1>5, <1>6 DEF IsMedian

\* medianU8 returns one of the values it is given.
LEMMA MedianIsAValue ==
  ASSUME NEW D, IsFiniteSet(D), D # {}, NEW vals \in [D -> Int]
  PROVE  /\ MedianU8(vals) \in {vals[a] : a \in D}
         /\ IsMedian(vals, MedianU8(vals))
<1>1. DOMAIN vals = D
  OBVIOUS
<1>2. MedianU8(vals) = CHOOSE v \in {vals[a] : a \in D} : IsMedian(vals, v)
  BY <1>1 DEF MedianU8, IsMedian, UpTo, Under
<1>. QED  BY <1>2, MedianExists

\* It returns the value that more than half of them have.
LEMMA MedianOfMajority ==
  ASSUME NEW D, IsFiniteSet(D), NEW vals \in [D -> Int], NEW v \in Int,
         2 * Cardinality({a \in D : vals[a] = v}) > Cardinality(D)
  PROVE  MedianU8(vals) = v
<1>. DEFINE M == {a \in D : vals[a] = v}
            w == MedianU8(vals)
            n == Cardinality(D)
<1>1. M \in SUBSET D /\ IsFiniteSet(M) /\ Cardinality(M) \in Nat /\ n \in Nat
  BY FS_Subset, FS_CardinalityType
<1>2. D # {}
  <2>1. CASE D = {}
    <3>1. M = {} /\ Cardinality(M) = 0 /\ n = 0
      BY <2>1, FS_EmptySet
    <3>. QED  BY <3>1
  <2>. QED  BY <2>1
<1>3. /\ w \in Int /\ DOMAIN vals = D
      /\ Cardinality(Under(vals, w)) <= n \div 2
      /\ n \div 2 < Cardinality(UpTo(vals, w))
  BY <1>2, MedianIsAValue DEF IsMedian, Middle
<1>4. Cardinality(Under(vals, w)) \in Nat /\ Cardinality(UpTo(vals, w)) \in Nat
  BY <1>2, <1>3, Counts
<1>5. 2 * Cardinality(M) > n
  OBVIOUS
<1>. HIDE DEF w, M, n
<1>6. CASE w < v
  <2>1. IsFiniteSet(D \ M) /\ Cardinality(D \ M) = n - Cardinality(M)
    <3>1. D \intersect M = M
      BY <1>1
    <3>. QED  BY <1>1, <3>1, FS_Difference DEF n
  <2>2. UpTo(vals, w) \in SUBSET (D \ M)
    BY <1>3, <1>6 DEF UpTo, M
  <2>3. Cardinality(UpTo(vals, w)) <= n - Cardinality(M)
    BY <2>1, <2>2, FS_Subset
  <2>. QED  BY <1>1, <1>3, <1>4, <1>5, <2>3
<1>7. CASE v < w
  <2>1. M \in SUBSET Under(vals, w)
    BY <1>3, <1>7 DEF Under, M
  <2>2. Cardinality(M) <= Cardinality(Under(vals, w))
    BY <1>2, <1>3, <2>1, Counts, FS_Subset
  <2>. QED  BY <1>1, <1>3, <1>4, <1>5, <2>2
<1>. QED  BY <1>3, <1>6, <1>7 DEF w

-----------------------------------------------------------------------------
(* Pictures and what is measured on them                                    *)

LEMMA CellsFacts ==
  ASSUME NEW w \in Nat, NEW h \in Nat
  PROVE  /\ IsFiniteSet(Cells(w, h)) /\ IsFiniteSet(Samples(w, h)) /\ IsFiniteSet(Offsets)
         /\ <<0, 0>> \in Offsets
         /\ \A p \in Cells(w, h) : Moved(p, <<0, 0>>) = p
         /\ \A p \in Samples(w, h), d \in Offsets : p \in Cells(w, h) /\ Moved(p, d) \in Cells(w, h)
<1>1. MaxShift \in Nat
  BY StoreAssumption
<1>2. ASSUME NEW a \in Int, NEW b \in Int, NEW c \in Int, NEW d \in Int
      PROVE  IsFiniteSet((a .. b) \X (c .. d))
  <2>. DEFINE A == a .. b
              C == c .. d
  <2>1. IsFiniteSet(A) /\ IsFiniteSet(C)
    BY FS_Interval
  <2>. HIDE DEF A, C
  <2>2. IsFiniteSet(A \X C)
    BY <2>1, FS_Product
  <2>. QED  BY <2>2 DEF A, C
<1>3. IsFiniteSet(Cells(w, h))
  BY <1>2 DEF Cells
<1>4. IsFiniteSet(Offsets)
  BY <1>1, <1>2 DEF Offsets
<1>5. IsFiniteSet(Samples(w, h))
  <2>. DEFINE B == (MaxShift .. w - MaxShift - 1) \X (MaxShift .. h - MaxShift - 1)
  <2>1. IsFiniteSet(B)
    BY <1>1, <1>2
  <2>2. Samples(w, h) \in SUBSET B
    BY DEF Samples
  <2>. HIDE DEF B
  <2>. QED  BY <2>1, <2>2, FS_Subset
<1>6. <<0, 0>> \in Offsets /\ \A p \in Cells(w, h) : Moved(p, <<0, 0>>) = p
  BY <1>1 DEF Offsets, Cells, Moved
<1>7. \A p \in Samples(w, h), d \in Offsets : p \in Cells(w, h) /\ Moved(p, d) \in Cells(w, h)
  BY <1>1 DEF Samples, Offsets, Cells, Moved
<1>. QED  BY <1>3, <1>4, <1>5, <1>6, <1>7

LEMMA LumaType ==
  ASSUME NEW pic, IsPicture(pic)
  PROVE  Luma(pic) \in [Cells(pic.w, pic.h) -> Nat]
<1>1. pic.pix \in [Cells(pic.w, pic.h) -> [Channels -> 0 .. 255]]
  BY DEF IsPicture
<1>2. ASSUME NEW p \in Cells(pic.w, pic.h)
      PROVE  (77 * pic.pix[p][1] + 150 * pic.pix[p][2] + 29 * pic.pix[p][3]) \div 256 \in Nat
  <2>1. pic.pix[p][1] \in 0 .. 255 /\ pic.pix[p][2] \in 0 .. 255 /\ pic.pix[p][3] \in 0 .. 255
    BY <1>1 DEF Channels
  <2>2. ASSUME NEW r \in Nat, NEW g \in Nat, NEW b \in Nat
        PROVE  (77 * r + 150 * g + 29 * b) \div 256 \in Nat
    <3>1. 77 * r + 150 * g + 29 * b \in Nat
      OBVIOUS
    <3>2. ASSUME NEW n \in Nat  PROVE n \div 256 \in Nat
      OBVIOUS
    <3>. QED  BY <3>1, <3>2
  <2>3. pic.pix[p][1] \in Nat /\ pic.pix[p][2] \in Nat /\ pic.pix[p][3] \in Nat
    <3>1. 0 .. 255 \subseteq Nat
      OBVIOUS
    <3>. QED  BY <2>1, <3>1, Zenon
  <2>. QED  BY <2>2, <2>3
<1>. QED  BY <1>1, <1>2 DEF Luma

\* The sharpness is a number.
LEMMA EnergyType ==
  ASSUME NEW w \in Nat, NEW h \in Nat, NEW l \in [Cells(w, h) -> Nat]
  PROVE  Energy(l, w, h) \in Nat
<1>. DEFINE Inner == (1 .. w - 2) \X (1 .. h - 2)
            dx(p) == l[<<p[1] + 1, p[2]>>] - l[<<p[1] - 1, p[2]>>]
            dy(p) == l[<<p[1], p[2] + 1>>] - l[<<p[1], p[2] - 1>>]
            grad == [p \in Inner |-> dx(p) * dx(p) + dy(p) * dy(p)]
<1>1. Energy(l, w, h) = SumFunction(grad)
  BY DEF Energy
<1>2. IsFiniteSet(Inner)
  <2>1. Inner \in SUBSET Cells(w, h)
    BY DEF Cells
  <2>. QED  BY <2>1, CellsFacts, FS_Subset
<1>3. ASSUME NEW x \in Int  PROVE x * x \in Nat
  BY <1>3
<1>4. ASSUME NEW p \in Inner  PROVE dx(p) * dx(p) + dy(p) * dy(p) \in Nat
  <2>1. dx(p) \in Int /\ dy(p) \in Int
    BY DEF Cells
  <2>. HIDE DEF dx, dy
  <2>. QED  BY <1>3, <2>1
<1>5. grad \in [Inner -> Nat]
  BY <1>4
<1>. HIDE DEF grad, Inner
<1>. QED  BY <1>1, <1>2, <1>5, SumOfNumbers

\* The difference is a number, zero if the frame moved back is the reference at
\* every sample.
LEMMA SADFacts ==
  ASSUME NEW w \in Nat, NEW h \in Nat, NEW ref \in [Cells(w, h) -> Nat],
         NEW l \in [Cells(w, h) -> Nat], NEW d \in Offsets
  PROVE  /\ SAD(ref, l, w, h, d) \in Nat
         /\ SAD(ref, l, w, h, d) = 0 <=> \A p \in Samples(w, h) : ref[p] = l[Moved(p, d)]
<1>. DEFINE S == Samples(w, h)
            diff == [p \in S |-> AbsDiff(ref[p], l[Moved(p, d)])]
<1>1. SAD(ref, l, w, h, d) = SumFunction(diff)
  BY DEF SAD
<1>2. \A p \in S : ref[p] \in Nat /\ l[Moved(p, d)] \in Nat
  BY CellsFacts
<1>3. diff \in [S -> Nat] /\ \A p \in S : diff[p] = 0 <=> ref[p] = l[Moved(p, d)]
  BY <1>2 DEF AbsDiff
<1>4. IsFiniteSet(S)
  BY CellsFacts
<1>. HIDE DEF diff, S
<1>5. SumFunction(diff) \in Nat /\ (SumFunction(diff) = 0 <=> \A p \in S : diff[p] = 0)
  BY <1>3, <1>4, SumOfNumbers
<1>. QED  BY <1>1, <1>3, <1>5 DEF S

\* bestShift finds an offset, and one of least difference.
LEMMA BestShiftFacts ==
  ASSUME NEW w \in Nat, NEW h \in Nat, NEW ref \in [Cells(w, h) -> Nat],
         NEW l \in [Cells(w, h) -> Nat]
  PROVE  LET best == BestShift(ref, l, w, h)
         IN  /\ best \in Offsets
             /\ Samples(w, h) = {} => best = <<0, 0>>
             /\ Samples(w, h) # {} =>
                  \A d \in Offsets : SAD(ref, l, w, h, best) <= SAD(ref, l, w, h, d)
<1>. DEFINE sad(d) == SAD(ref, l, w, h, d)
            all == {sad(d) : d \in Offsets}
            least == Min(all)
            best == {d \in Offsets : sad(d) = least}
            Before(d, e) == d[2] < e[2] \/ (d[2] = e[2] /\ d[1] <= e[1])
<1>1. least \in all /\ \A n \in all : least <= n
  <2>1. all \in SUBSET Int
    BY SADFacts
  <2>2. all # {}
    BY CellsFacts
  <2>3. IsFiniteSet(all)
    <3>. DEFINE f == [d \in Offsets |-> sad(d)]
    <3>1. all = {f[d] : d \in Offsets} /\ DOMAIN f = Offsets
      OBVIOUS
    <3>. HIDE DEF f, all
    <3>. QED  BY <3>1, CellsFacts, ImageFinite
  <2>. HIDE DEF all
  <2>. QED  BY <2>1, <2>2, <2>3, MinMax
<1>2. best # {} /\ best \in SUBSET Offsets /\ \A d \in best, e \in Offsets : sad(d) <= sad(e)
  BY <1>1
<1>. HIDE DEF best
<1>3. \A d \in Offsets : d[1] \in Int /\ d[2] \in Int /\ d = <<d[1], d[2]>>
  BY StoreAssumption DEF Offsets
<1>4. \E d \in best : \A e \in best : Before(d, e)
  <2>. DEFINE rows == {d[2] : d \in best}
              y == Min(rows)
              row == {d \in best : d[2] = y}
              cols == {d[1] : d \in row}
              x == Min(cols)
  <2>1. IsFiniteSet(best)
    BY <1>2, CellsFacts, FS_Subset
  <2>2. rows \in SUBSET Int /\ rows # {}
    BY <1>2, <1>3
  <2>3. IsFiniteSet(rows)
    <3>. DEFINE f == [d \in best |-> d[2]]
    <3>1. rows = {f[d] : d \in best} /\ DOMAIN f = best
      OBVIOUS
    <3>. HIDE DEF f, rows
    <3>. QED  BY <2>1, <3>1, ImageFinite
  <2>4. y \in rows /\ \A n \in rows : y <= n
    <3>. HIDE DEF rows
    <3>. QED  BY <2>2, <2>3, MinMax
  <2>5. cols \in SUBSET Int /\ cols # {} /\ IsFiniteSet(row)
    <3>1. row \in SUBSET best /\ row # {}
      BY <2>4
    <3>2. IsFiniteSet(row)
      BY <2>1, <3>1, FS_Subset
    <3>. QED  BY <1>2, <1>3, <3>1, <3>2
  <2>6. IsFiniteSet(cols)
    <3>. DEFINE f == [d \in row |-> d[1]]
    <3>1. cols = {f[d] : d \in row} /\ DOMAIN f = row
      OBVIOUS
    <3>. HIDE DEF f, cols, row
    <3>. QED  BY <2>5, <3>1, ImageFinite
  <2>7. x \in cols /\ \A n \in cols : x <= n
    <3>. HIDE DEF cols
    <3>. QED  BY <2>5, <2>6, MinMax
  <2>8. PICK d \in row : d[1] = x
    BY <2>7
  <2>9. d \in best /\ d[2] = y
    BY <2>8
  <2>10. ASSUME NEW e \in best  PROVE Before(d, e)
    <3>1. e[2] \in rows /\ y <= e[2] /\ e[2] \in Int /\ y \in Int /\ x \in Int /\ e[1] \in Int
      BY <1>2, <1>3, <2>2, <2>4, <2>5, <2>7
    <3>2. e[2] = y => e[1] \in cols
      OBVIOUS
    <3>3. e[2] = y => x <= e[1]
      BY <2>7, <3>2
    <3>. HIDE DEF x, y, rows, row, cols
    <3>. QED  BY <2>8, <2>9, <3>1, <3>3
  <2>. QED  BY <2>9, <2>10
<1>5. BestShift(ref, l, w, h) =
        IF Samples(w, h) = {} THEN <<0, 0>> ELSE CHOOSE d \in best : \A e \in best : Before(d, e)
  BY DEF BestShift, best
<1>6. Samples(w, h) # {} => BestShift(ref, l, w, h) \in best
  BY <1>4, <1>5
<1>. QED  BY <1>2, <1>5, <1>6, CellsFacts

-----------------------------------------------------------------------------
(* The fusion                                                               *)

\* What loadDecodedFrames returns: pictures by frame.
Loaded(frames) ==
  /\ frames = [f \in DOMAIN frames |-> frames[f]]
  /\ DOMAIN frames \in SUBSET FrameIDs
  /\ \A f \in DOMAIN frames : IsPicture(frames[f])

\* The frames that are fused: at least one, all of one size.
Stack(used, w, h) ==
  /\ Loaded(used) /\ DOMAIN used # {}
  /\ w \in Nat \ {0} /\ h \in Nat \ {0}
  /\ \A f \in DOMAIN used : used[f].w = w /\ used[f].h = h

LEMMA FirstIsLoaded ==
  ASSUME NEW frames, Loaded(frames), DOMAIN frames # {}
  PROVE  /\ IsFiniteSet(DOMAIN frames) /\ Min(DOMAIN frames) \in DOMAIN frames
         /\ IsPicture(First(frames))
<1>1. IsFiniteSet(DOMAIN frames) /\ DOMAIN frames \in SUBSET Int
  BY StoreAssumption, FS_Subset DEF Loaded
<1>2. Min(DOMAIN frames) \in DOMAIN frames
  BY <1>1, MinMax
<1>. QED  BY <1>1, <1>2 DEF Loaded, First

LEMMA SameSizeStacks ==
  ASSUME NEW frames, Loaded(frames), DOMAIN frames # {}
  PROVE  /\ Stack(SameSize(frames), First(frames).w, First(frames).h)
         /\ DOMAIN SameSize(frames) =
              {f \in DOMAIN frames : frames[f].w = First(frames).w /\ frames[f].h = First(frames).h}
         /\ \A f \in DOMAIN SameSize(frames) : SameSize(frames)[f] = frames[f]
<1>. DEFINE D == {f \in DOMAIN frames : frames[f].w = First(frames).w /\ frames[f].h = First(frames).h}
<1>1. SameSize(frames) = [f \in D |-> frames[f]]
  BY DEF SameSize, Restrict
<1>2. Min(DOMAIN frames) \in D
  BY FirstIsLoaded DEF First
<1>3. First(frames).w \in Nat \ {0} /\ First(frames).h \in Nat \ {0}
  BY FirstIsLoaded DEF IsPicture
<1>. QED  BY <1>1, <1>2, <1>3 DEF Loaded, Stack

\* The reference is one of the frames.
LEMMA ReferenceIsAFrame ==
  ASSUME NEW w, NEW h, NEW used, Stack(used, w, h),
         NEW lumas, lumas = [i \in DOMAIN used |-> Luma(used[i])]
  PROVE  Reference(lumas, w, h) \in DOMAIN used
<1>. DEFINE D == DOMAIN used
            energy == [i \in D |-> Energy(lumas[i], w, h)]
            all == {energy[i] : i \in D}
            sharpest == {i \in D : energy[i] = Max(all)}
<1>1. IsFiniteSet(D) /\ D # {} /\ D \in SUBSET Int /\ DOMAIN lumas = D
  BY StoreAssumption, FirstIsLoaded DEF Stack, Loaded
<1>2. \A i \in D : energy[i] \in Int
  <2>. TAKE i \in D
  <2>1. lumas[i] \in [Cells(w, h) -> Nat] /\ w \in Nat /\ h \in Nat
    BY LumaType DEF Stack, Loaded
  <2>. QED  BY <2>1, EnergyType
<1>3. Reference(lumas, w, h) = Min(sharpest)
  <2>1. {Energy(lumas[i], w, h) : i \in DOMAIN lumas} = all
    BY <1>1
  <2>2. {i \in DOMAIN lumas : Energy(lumas[i], w, h) = Max(all)} = sharpest
    BY <1>1
  <2>. HIDE DEF all, sharpest
  <2>. QED  BY <2>1, <2>2 DEF Reference
<1>4. DOMAIN energy = D
  OBVIOUS
<1>. HIDE DEF D, energy
<1>5. Max(all) \in all
  <2>1. all \in SUBSET Int /\ all # {}
    BY <1>1, <1>2
  <2>2. IsFiniteSet(all)
    <3>. HIDE DEF all
    <3>. QED  BY <1>1, <1>4, ImageFinite DEF all
  <2>. HIDE DEF all
  <2>. QED  BY <2>1, <2>2, MinMax
<1>6. sharpest # {} /\ sharpest \in SUBSET D
  BY <1>5
<1>. HIDE DEF sharpest
<1>7. Min(sharpest) \in sharpest
  BY <1>1, <1>6, FS_Subset, MinMax
<1>. QED  BY <1>3, <1>6, <1>7 DEF D

\* The frames that reach a pixel, each with its offset.
Reach(sh, p, w, h) == {<<i, sh[i]>> : i \in {j \in DOMAIN sh : Moved(p, sh[j]) \in Cells(w, h)}}

Values(used, sh, p, c, w, h) == [s \in Reach(sh, p, w, h) |-> used[s[1]].pix[Moved(p, s[2])][c]]

\* What the fusion makes of a stack, given the reference and the offsets.
FusedBy(used, ref, sh, w, h) ==
  /\ ref \in DOMAIN used /\ sh \in [DOMAIN used -> Offsets]
  /\ sh[ref] = <<0, 0>>
  /\ \A i \in DOMAIN used : i # ref => sh[i] = BestShift(Luma(used[ref]), Luma(used[i]), w, h)
  /\ Fused(used) = [w |-> w, h |-> h,
                    pix |-> [p \in Cells(w, h) |-> [c \in Channels |->
                               MedianU8(Values(used, sh, p, c, w, h))]]]

LEMMA FusionOfStack ==
  ASSUME NEW w, NEW h, NEW used, Stack(used, w, h)
  PROVE  \E ref, sh : FusedBy(used, ref, sh, w, h)
<1>. DEFINE lumas == [i \in DOMAIN used |-> Luma(used[i])]
            ref == Reference(lumas, w, h)
            sh == [i \in DOMAIN used |->
                     IF i = ref THEN <<0, 0>> ELSE BestShift(lumas[ref], lumas[i], w, h)]
<1>1. ref \in DOMAIN used
  BY ReferenceIsAFrame
<1>2. \A i \in DOMAIN used : lumas[i] = Luma(used[i]) /\ lumas[i] \in [Cells(w, h) -> Nat]
  BY LumaType DEF Stack, Loaded
<1>3. sh \in [DOMAIN used -> Offsets]
  <2>1. w \in Nat /\ h \in Nat
    BY DEF Stack
  <2>. HIDE DEF ref, lumas
  <2>. QED  BY <1>1, <1>2, <2>1, BestShiftFacts, CellsFacts
<1>4. First(used).w = w /\ First(used).h = h
  BY FirstIsLoaded DEF Stack, First
<1>5. Shifts(lumas, w, h) = {<<i, sh[i]>> : i \in DOMAIN used}
  <2>. HIDE DEF ref
  <2>. QED  BY DEF Shifts, ref
<1>6. \A p : {s \in Shifts(lumas, w, h) : Moved(p, s[2]) \in Cells(w, h)} = Reach(sh, p, w, h)
  <2>. HIDE DEF sh
  <2>. QED  BY <1>3, <1>5 DEF Reach
<1>7. Fused(used) = [w |-> w, h |-> h,
                    pix |-> [p \in Cells(w, h) |-> [c \in Channels |->
                               MedianU8(Values(used, sh, p, c, w, h))]]]
  <2>. HIDE DEF sh
  <2>. QED  BY <1>4, <1>6 DEF Fused, Values
<1>8. sh[ref] = <<0, 0>> /\ \A i \in DOMAIN used : i # ref => sh[i] = BestShift(Luma(used[ref]), Luma(used[i]), w, h)
  BY <1>1, <1>2
<1>. HIDE DEF sh, ref, lumas
<1>9. FusedBy(used, ref, sh, w, h)
  BY <1>1, <1>3, <1>7, <1>8 DEF FusedBy
<1>. QED  BY <1>9

\* Frames with their offsets are as many as the frames.
LEMMA Pairing ==
  ASSUME NEW D, IsFiniteSet(D), NEW sh, DOMAIN sh = D, NEW B \in SUBSET D
  PROVE  /\ IsFiniteSet({<<i, sh[i]>> : i \in B})
         /\ Cardinality({<<i, sh[i]>> : i \in B}) = Cardinality(B)
<1>. DEFINE T == {<<i, sh[i]>> : i \in B}
            pair == [i \in B |-> <<i, sh[i]>>]
<1>1. pair \in Bijection(B, T)
  BY DEF Bijection, Injection, Surjection, IsInjective
<1>2. ExistsBijection(B, T)
  BY <1>1 DEF ExistsBijection
<1>3. IsFiniteSet(B)
  BY FS_Subset
<1>. QED  BY <1>2, <1>3, FS_Bijection

LEMMA ReachFacts ==
  ASSUME NEW w, NEW h, NEW used, Stack(used, w, h), NEW ref, NEW sh, FusedBy(used, ref, sh, w, h),
         NEW p \in Cells(w, h), NEW c \in Channels
  PROVE  /\ IsFiniteSet(Reach(sh, p, w, h)) /\ Reach(sh, p, w, h) # {}
         /\ Values(used, sh, p, c, w, h) \in [Reach(sh, p, w, h) -> 0 .. 255]
         /\ \A s \in Reach(sh, p, w, h) :
              /\ s[1] \in DOMAIN used /\ s[2] = sh[s[1]] /\ Moved(p, s[2]) \in Cells(w, h)
<1>. DEFINE B == {j \in DOMAIN sh : Moved(p, sh[j]) \in Cells(w, h)}
<1>1. DOMAIN sh = DOMAIN used /\ ref \in DOMAIN used /\ sh[ref] = <<0, 0>>
  BY DEF FusedBy
<1>2. IsFiniteSet(DOMAIN used) /\ w \in Nat /\ h \in Nat
  BY FirstIsLoaded DEF Stack
<1>3. Reach(sh, p, w, h) = {<<i, sh[i]>> : i \in B} /\ B \in SUBSET DOMAIN sh
  BY DEF Reach
<1>4. ref \in B
  BY <1>1, <1>2, CellsFacts
<1>5. \A s \in Reach(sh, p, w, h) :
        /\ s[1] \in DOMAIN used /\ s[2] = sh[s[1]] /\ Moved(p, s[2]) \in Cells(w, h)
  BY <1>1, <1>3
<1>6. \A i \in DOMAIN used : used[i].pix \in [Cells(w, h) -> [Channels -> 0 .. 255]]
  BY DEF Stack, Loaded, IsPicture
<1>7. Values(used, sh, p, c, w, h) \in [Reach(sh, p, w, h) -> 0 .. 255]
  <2>1. ASSUME NEW s \in Reach(sh, p, w, h)
        PROVE  used[s[1]].pix[Moved(p, s[2])][c] \in 0 .. 255
    <3>1. s[1] \in DOMAIN used /\ Moved(p, s[2]) \in Cells(w, h)
      BY <1>5
    <3>. QED  BY <1>6, <3>1
  <2>. QED  BY <2>1 DEF Values
<1>8. IsFiniteSet(Reach(sh, p, w, h)) /\ Reach(sh, p, w, h) # {}
  <2>. HIDE DEF B
  <2>1. IsFiniteSet({<<i, sh[i]>> : i \in B})
    BY <1>1, <1>2, <1>3, Pairing
  <2>2. <<ref, sh[ref]>> \in Reach(sh, p, w, h)
    BY <1>3, <1>4
  <2>. QED  BY <1>3, <2>1, <2>2
<1>. QED  BY <1>5, <1>7, <1>8

\* Each channel of each pixel of the fusion is that of a frame that reaches it.
LEMMA FusedPixel ==
  ASSUME NEW w, NEW h, NEW used, Stack(used, w, h), NEW ref, NEW sh, FusedBy(used, ref, sh, w, h),
         NEW p \in Cells(w, h), NEW c \in Channels
  PROVE  \E i \in DOMAIN used :
           /\ Moved(p, sh[i]) \in Cells(w, h)
           /\ Fused(used).pix[p][c] = used[i].pix[Moved(p, sh[i])][c]
           /\ Fused(used).pix[p][c] \in 0 .. 255
<1>. DEFINE D == Reach(sh, p, w, h)
            vals == Values(used, sh, p, c, w, h)
<1>1. Fused(used).pix[p][c] = MedianU8(vals)
  BY DEF FusedBy
<1>2. /\ IsFiniteSet(D) /\ D # {} /\ vals \in [D -> 0 .. 255]
      /\ \A s \in D : s[1] \in DOMAIN used /\ s[2] = sh[s[1]] /\ Moved(p, s[2]) \in Cells(w, h)
  BY ReachFacts
<1>3. \A s \in D : vals[s] = used[s[1]].pix[Moved(p, s[2])][c]
  BY DEF Values
<1>. HIDE DEF D, vals
<1>4. vals \in [D -> Int]
  BY <1>2
<1>5. MedianU8(vals) \in {vals[s] : s \in D}
  BY <1>2, <1>4, MedianIsAValue
<1>6. PICK s \in D : MedianU8(vals) = vals[s]
  BY <1>5
<1>. QED  BY <1>1, <1>2, <1>3, <1>6

\* Where all frames reach, the value most of them have prevails.
LEMMA FusedMajority ==
  ASSUME NEW w, NEW h, NEW used, Stack(used, w, h), NEW ref, NEW sh, FusedBy(used, ref, sh, w, h),
         NEW p \in Cells(w, h), NEW c \in Channels, NEW v \in Int, NEW B \in SUBSET DOMAIN used,
         2 * Cardinality(B) > Cardinality(DOMAIN used),
         \A i \in DOMAIN used : Moved(p, sh[i]) \in Cells(w, h),
         \A i \in B : used[i].pix[Moved(p, sh[i])][c] = v
  PROVE  Fused(used).pix[p][c] = v
<1>. DEFINE D == Reach(sh, p, w, h)
            vals == Values(used, sh, p, c, w, h)
            M == {s \in D : vals[s] = v}
            U == DOMAIN used
<1>1. Fused(used).pix[p][c] = MedianU8(vals)
  BY DEF FusedBy
<1>2. /\ IsFiniteSet(D) /\ vals \in [D -> 0 .. 255]
      /\ \A s \in D : s[1] \in U /\ s[2] = sh[s[1]]
  BY ReachFacts
<1>3. \A s \in D : vals[s] = used[s[1]].pix[Moved(p, s[2])][c]
  BY DEF Values
<1>4. DOMAIN sh = U /\ IsFiniteSet(U)
  BY FirstIsLoaded DEF FusedBy, Stack
<1>5. D = {<<i, sh[i]>> : i \in U}
  BY <1>4 DEF Reach
<1>6. {<<i, sh[i]>> : i \in B} \in SUBSET M
  BY <1>3, <1>5
<1>. HIDE DEF D, vals, U
<1>7. Cardinality(D) = Cardinality(U)
  BY <1>4, <1>5, Pairing
<1>8. Cardinality({<<i, sh[i]>> : i \in B}) = Cardinality(B) /\ IsFiniteSet(B)
  BY <1>4, Pairing, FS_Subset DEF U
<1>9. IsFiniteSet(M)
  BY <1>2, FS_Subset
<1>10. Cardinality(B) <= Cardinality(M)
  <2>. HIDE DEF M
  <2>. QED  BY <1>6, <1>8, <1>9, FS_Subset
<1>11. Cardinality(B) \in Nat /\ Cardinality(M) \in Nat /\ Cardinality(D) \in Nat
  BY <1>2, <1>8, <1>9, FS_CardinalityType
<1>12. 2 * Cardinality(B) > Cardinality(D)
  BY <1>7 DEF U
<1>13. 2 * Cardinality(M) > Cardinality(D)
  <2>. HIDE DEF M
  <2>. QED  BY <1>10, <1>11, <1>12
<1>14. vals \in [D -> Int]
  BY <1>2
<1>15. MedianU8(vals) = v
  BY <1>2, <1>13, <1>14, MedianOfMajority
<1>. QED  BY <1>1, <1>15

\* The fusion of a stack is a picture of its size.
LEMMA FusedIsPicture ==
  ASSUME NEW w, NEW h, NEW used, Stack(used, w, h)
  PROVE  IsPicture(Fused(used)) /\ Fused(used).w = w /\ Fused(used).h = h
<1>1. PICK ref, sh : FusedBy(used, ref, sh, w, h)
  BY FusionOfStack
<1>. DEFINE pix == [p \in Cells(w, h) |-> [c \in Channels |-> MedianU8(Values(used, sh, p, c, w, h))]]
<1>2. Fused(used) = [w |-> w, h |-> h, pix |-> pix]
  BY <1>1 DEF FusedBy
<1>3. \A p \in Cells(w, h), c \in Channels : pix[p][c] \in 0 .. 255
  <2>1. \A p \in Cells(w, h), c \in Channels : Fused(used).pix[p][c] \in 0 .. 255
    BY <1>1, FusedPixel
  <2>. HIDE DEF pix
  <2>. QED  BY <1>2, <2>1
<1>4. pix \in [Cells(w, h) -> [Channels -> 0 .. 255]]
  BY <1>3
<1>5. w \in Nat \ {0} /\ h \in Nat \ {0}
  BY DEF Stack
<1>. HIDE DEF pix
<1>. QED  BY <1>2, <1>4, <1>5 DEF IsPicture

-----------------------------------------------------------------------------
(* What the composite shows                                                 *)

\* The picture Composite encodes.
Made(frames) == IF Cardinality(DOMAIN frames) = 1 THEN First(frames) ELSE Fused(SameSize(frames))

\* bestShift finds the shake of the hand, if there is no other way to see it.
LEMMA ShakeIsFound ==
  ASSUME NEW w \in Nat, NEW h \in Nat, NEW a, NEW b, IsPicture(a), IsPicture(b),
         a.w = w, a.h = h, b.w = w, b.h = h, NEW d \in Offsets, IsMoved(a, b, d)
  PROVE  BestShift(Luma(a), Luma(b), w, h) = d
<1>. DEFINE la == Luma(a)
            lb == Luma(b)
            best == BestShift(la, lb, w, h)
            sad(e) == SAD(la, lb, w, h, e)
<1>1. la \in [Cells(w, h) -> Nat] /\ lb \in [Cells(w, h) -> Nat]
  BY LumaType
<1>2. DOMAIN a.pix = Cells(w, h) /\ DOMAIN b.pix = Cells(w, h)
  BY DEF IsPicture
<1>3. ASSUME NEW p \in Samples(w, h)  PROVE la[p] = lb[Moved(p, d)]
  <2>1. p \in Cells(w, h) /\ Moved(p, d) \in Cells(w, h)
    BY CellsFacts
  <2>2. b.pix[Moved(p, d)] = a.pix[p]
    BY <1>2, <2>1 DEF IsMoved
  <2>. QED  BY <1>2, <2>1, <2>2 DEF Luma
<1>4. \A e \in Offsets \ {d} : \E p \in Samples(w, h) : la[p] # lb[Moved(p, e)]
  BY DEF IsMoved
<1>. HIDE DEF la, lb
<1>5. sad(d) = 0 /\ \A e \in Offsets : sad(e) \in Nat /\ (sad(e) = 0 => e = d)
  BY <1>1, <1>3, <1>4, SADFacts
<1>6. /\ best \in Offsets
      /\ Samples(w, h) = {} => best = <<0, 0>>
      /\ Samples(w, h) # {} => \A e \in Offsets : sad(best) <= sad(e)
  BY <1>1, BestShiftFacts
<1>. HIDE DEF best, sad
<1>7. best = d
  <2>1. CASE Samples(w, h) = {}
    BY <1>4, <1>6, <2>1
  <2>2. CASE Samples(w, h) # {}
    <3>1. sad(best) \in Nat /\ sad(best) <= 0
      BY <1>5, <1>6, <2>2
    <3>. QED  BY <1>5, <1>6, <3>1
  <2>. QED  BY <2>1, <2>2
<1>. QED  BY <1>7 DEF best, la, lb

\* Two pictures of one size with the same channels at each cell are one.
LEMMA SamePicture ==
  ASSUME NEW a, NEW b, IsPicture(a), IsPicture(b), a.w = b.w, a.h = b.h,
         \A p \in Cells(a.w, a.h), c \in Channels : a.pix[p][c] = b.pix[p][c]
  PROVE  a = b
<1>1. /\ a.pix \in [Cells(a.w, a.h) -> [Channels -> 0 .. 255]]
      /\ b.pix \in [Cells(a.w, a.h) -> [Channels -> 0 .. 255]]
  BY DEF IsPicture
<1>2. \A p \in Cells(a.w, a.h) : a.pix[p] = b.pix[p]
  BY <1>1
<1>3. a.pix = b.pix
  BY <1>1, <1>2
<1>4. a = [w |-> a.w, h |-> a.h, pix |-> a.pix] /\ b = [w |-> b.w, h |-> b.h, pix |-> b.pix]
  BY DEF IsPicture
<1>. QED  BY <1>3, <1>4, Zenon

LEMMA MadeIsPicture ==
  ASSUME NEW frames, Loaded(frames), DOMAIN frames # {}
  PROVE  /\ IsPicture(Made(frames))
         /\ Made(frames).w = First(frames).w /\ Made(frames).h = First(frames).h
<1>1. IsPicture(First(frames))
  BY FirstIsLoaded
<1>2. Stack(SameSize(frames), First(frames).w, First(frames).h)
  BY SameSizeStacks
<1>3. LET fused == Fused(SameSize(frames))
      IN  IsPicture(fused) /\ fused.w = First(frames).w /\ fused.h = First(frames).h
  BY <1>2, FusedIsPicture
<1>. QED  BY <1>1, <1>3 DEF Made

\* Frames of one subject, each moved, fuse to one of them.
LEMMA StillSubject ==
  ASSUME NEW frames, Loaded(frames), DOMAIN frames # {},
         \A i, j \in DOMAIN frames : \E d \in Offsets : IsMoved(frames[i], frames[j], d)
  PROVE  \E i \in DOMAIN frames : Made(frames) = frames[i]
<1>1. CASE Cardinality(DOMAIN frames) = 1
  BY <1>1, FirstIsLoaded DEF Made, First
<1>2. CASE Cardinality(DOMAIN frames) # 1
  <2>. DEFINE used == SameSize(frames)
              w == First(frames).w
              h == First(frames).h
  <2>1. /\ Stack(used, w, h) /\ DOMAIN used \in SUBSET DOMAIN frames
        /\ \A i \in DOMAIN used : used[i] = frames[i]
    BY SameSizeStacks
  <2>. HIDE DEF used, w, h
  <2>2. PICK ref, sh : FusedBy(used, ref, sh, w, h)
    BY <2>1, FusionOfStack
  <2>3. /\ ref \in DOMAIN used /\ w \in Nat /\ h \in Nat
        /\ \A i \in DOMAIN used : IsPicture(used[i]) /\ used[i].w = w /\ used[i].h = h
    BY <2>1, <2>2 DEF FusedBy, Stack, Loaded
  <2>4. ASSUME NEW i \in DOMAIN used, NEW p \in Cells(w, h), Moved(p, sh[i]) \in Cells(w, h)
        PROVE  used[i].pix[Moved(p, sh[i])] = used[ref].pix[p]
    <3>1. CASE i = ref
      BY <2>2, <2>3, <3>1, CellsFacts DEF FusedBy
    <3>2. CASE i # ref
      <4>1. PICK d \in Offsets : IsMoved(used[ref], used[i], d)
        BY <2>1, <2>3
      <4>2. sh[i] = d
        <5>1. IsPicture(used[ref]) /\ IsPicture(used[i])
          BY <2>3
        <5>2. BestShift(Luma(used[ref]), Luma(used[i]), w, h) = d
          BY <2>3, <4>1, <5>1, ShakeIsFound
        <5>. QED  BY <2>2, <3>2, <5>2 DEF FusedBy
      <4>3. DOMAIN used[ref].pix = Cells(w, h) /\ DOMAIN used[i].pix = Cells(w, h)
        BY <2>3 DEF IsPicture
      <4>. QED  BY <2>4, <4>1, <4>2, <4>3 DEF IsMoved
    <3>. QED  BY <3>1, <3>2
  <2>5. \A p \in Cells(w, h), c \in Channels : Fused(used).pix[p][c] = used[ref].pix[p][c]
    <3>. TAKE p \in Cells(w, h), c \in Channels
    <3>1. PICK i \in DOMAIN used : /\ Moved(p, sh[i]) \in Cells(w, h)
                                   /\ Fused(used).pix[p][c] = used[i].pix[Moved(p, sh[i])][c]
      BY <2>1, <2>2, FusedPixel
    <3>. QED  BY <2>4, <3>1
  <2>6. Fused(used) = used[ref]
    BY <2>1, <2>3, <2>5, FusedIsPicture, SamePicture
  <2>. QED  BY <1>2, <2>1, <2>3, <2>6 DEF Made, used
<1>. QED  BY <1>1, <1>2

\* Where every frame reaches, most of them decide, up to the shift of the reference.
LEMMA MajorityDecides ==
  ASSUME NEW frames, Loaded(frames), DOMAIN frames # {},
         NEW used, used = SameSize(frames), NEW i \in DOMAIN used,
         2 * Cardinality({j \in DOMAIN used : used[j] = used[i]}) > Cardinality(DOMAIN used),
         IsMoved(used[i], used[i], <<0, 0>>)
  PROVE  \E s \in Offsets : \A p \in DOMAIN Made(frames).pix :
           (\A d \in Offsets : Moved(p, d) \in DOMAIN Made(frames).pix)
             => Made(frames).pix[p] = used[i].pix[Moved(p, s)]
<1>. DEFINE w == First(frames).w
            h == First(frames).h
            B == {j \in DOMAIN used : used[j] = used[i]}
<1>1. /\ Stack(used, w, h) /\ DOMAIN used \in SUBSET DOMAIN frames
      /\ \A j \in DOMAIN used : used[j] = frames[j]
  BY SameSizeStacks
<1>2. /\ w \in Nat /\ h \in Nat
      /\ \A j \in DOMAIN used : IsPicture(used[j]) /\ used[j].w = w /\ used[j].h = h
  BY <1>1 DEF Stack, Loaded
<1>3. DOMAIN Made(frames).pix = Cells(w, h) /\ Made(frames).pix \in [Cells(w, h) -> [Channels -> 0 .. 255]]
  BY MadeIsPicture DEF IsPicture
<1>4. \A j \in DOMAIN used : used[j].pix \in [Cells(w, h) -> [Channels -> 0 .. 255]]
  BY <1>2 DEF IsPicture
<1>5. CASE Cardinality(DOMAIN frames) = 1
  <2>1. IsFiniteSet(DOMAIN frames) /\ Min(DOMAIN frames) \in DOMAIN frames
    BY FirstIsLoaded
  <2>2. i = Min(DOMAIN frames)
    <3>1. PICK x : DOMAIN frames = {x}
      BY <1>5, <2>1, FS_Singleton
    <3>. QED  BY <1>1, <2>1, <3>1
  <2>3. Made(frames) = used[i]
    BY <1>1, <1>5, <2>2 DEF Made, First
  <2>4. \A p \in Cells(w, h) : Moved(p, <<0, 0>>) = p
    BY <1>2, CellsFacts
  <2>. QED  BY <1>2, <1>3, <2>3, <2>4, CellsFacts
<1>6. CASE Cardinality(DOMAIN frames) # 1
  <2>1. Made(frames) = Fused(used)
    BY <1>6 DEF Made
  <2>2. PICK ref, sh : FusedBy(used, ref, sh, w, h)
    <3>. HIDE DEF w, h
    <3>. QED  BY <1>1, FusionOfStack
  <2>3. /\ ref \in DOMAIN used /\ sh \in [DOMAIN used -> Offsets] /\ sh[ref] = <<0, 0>>
        /\ \A j \in DOMAIN used : j # ref => sh[j] = BestShift(Luma(used[ref]), Luma(used[j]), w, h)
    BY <2>2 DEF FusedBy
  <2>. HIDE DEF w, h
  <2>4. PICK s \in Offsets : \A j \in B : sh[j] = s
    <3>1. CASE ref \in B
      <4>1. BestShift(Luma(used[i]), Luma(used[i]), w, h) = <<0, 0>>
        BY <1>2, CellsFacts, ShakeIsFound
      <4>2. \A j \in B : sh[j] = <<0, 0>>
        BY <2>3, <3>1, <4>1
      <4>. QED  BY <1>2, <4>2, CellsFacts
    <3>2. CASE ref \notin B
      BY <2>3, <3>2
    <3>. QED  BY <3>1, <3>2
  <2>5. ASSUME NEW p \in Cells(w, h), \A d \in Offsets : Moved(p, d) \in Cells(w, h)
        PROVE  Made(frames).pix[p] = used[i].pix[Moved(p, s)]
    <3>1. \A j \in DOMAIN used : Moved(p, sh[j]) \in Cells(w, h)
      BY <2>3, <2>5
    <3>2. ASSUME NEW c \in Channels
          PROVE  Made(frames).pix[p][c] = used[i].pix[Moved(p, s)][c]
      <4>. DEFINE v == used[i].pix[Moved(p, s)][c]
      <4>1. v \in Int
        <5>1. used[i].pix \in [Cells(w, h) -> [Channels -> 0 .. 255]]
          BY <1>4 DEF w, h
        <5>2. Moved(p, s) \in Cells(w, h)
          BY <2>5
        <5>3. 0 .. 255 \subseteq Int
          OBVIOUS
        <5>. QED  BY <5>1, <5>2, <5>3
      <4>2. \A j \in B : used[j].pix[Moved(p, sh[j])][c] = v
        BY <2>4
      <4>3. B \in SUBSET DOMAIN used /\ 2 * Cardinality(B) > Cardinality(DOMAIN used)
        OBVIOUS
      <4>. HIDE DEF v, B
      <4>4. Fused(used).pix[p][c] = v
        BY <1>1, <2>2, <3>1, <4>1, <4>2, <4>3, FusedMajority
      <4>. QED  BY <2>1, <4>4 DEF v
    <3>3. Moved(p, s) \in Cells(w, h)
      BY <2>5
    <3>4. Made(frames).pix[p] \in [Channels -> 0 .. 255] /\ used[i].pix[Moved(p, s)] \in [Channels -> 0 .. 255]
      BY <1>3, <1>4, <3>3 DEF w, h
    <3>. QED  BY <3>2, <3>4
  <2>. QED  BY <1>3, <2>5 DEF w, h
<1>. QED  BY <1>5, <1>6

\* No value is made up.
LEMMA NothingMadeUp ==
  ASSUME NEW frames, Loaded(frames), DOMAIN frames # {},
         NEW p \in DOMAIN Made(frames).pix, NEW c \in Channels
  PROVE  \E i \in DOMAIN SameSize(frames), d \in Offsets :
           /\ Moved(p, d) \in DOMAIN SameSize(frames)[i].pix
           /\ SameSize(frames)[i].pix[Moved(p, d)][c] = Made(frames).pix[p][c]
<1>. DEFINE w == First(frames).w
            h == First(frames).h
            used == SameSize(frames)
<1>1. p \in Cells(w, h)
  BY MadeIsPicture DEF IsPicture
<1>2. w \in Nat /\ h \in Nat
  BY FirstIsLoaded DEF IsPicture
<1>3. CASE Cardinality(DOMAIN frames) = 1
  <2>1. Made(frames) = First(frames) /\ Min(DOMAIN frames) \in DOMAIN frames
    BY <1>3, FirstIsLoaded DEF Made
  <2>2. Moved(p, <<0, 0>>) = p /\ <<0, 0>> \in Offsets
    BY <1>1, <1>2, CellsFacts
  <2>3. Min(DOMAIN frames) \in DOMAIN used /\ used[Min(DOMAIN frames)] = First(frames)
    BY <2>1, SameSizeStacks DEF First
  <2>. QED  BY <2>1, <2>2, <2>3
<1>4. CASE Cardinality(DOMAIN frames) # 1
  <2>1. Made(frames) = Fused(used)
    BY <1>4 DEF Made
  <2>2. /\ Stack(used, w, h) /\ DOMAIN used \in SUBSET DOMAIN frames
        /\ \A i \in DOMAIN used : used[i] = frames[i]
    BY SameSizeStacks
  <2>. HIDE DEF used, w, h
  <2>3. PICK ref, sh : FusedBy(used, ref, sh, w, h)
    BY <2>2, FusionOfStack
  <2>4. PICK i \in DOMAIN used : /\ Moved(p, sh[i]) \in Cells(w, h)
                                 /\ Fused(used).pix[p][c] = used[i].pix[Moved(p, sh[i])][c]
    BY <1>1, <2>2, <2>3, FusedPixel
  <2>5. sh[i] \in Offsets /\ DOMAIN used[i].pix = Cells(w, h)
    BY <2>2, <2>3 DEF FusedBy, Stack, Loaded, IsPicture
  <2>. QED  BY <2>1, <2>2, <2>4, <2>5 DEF used
<1>. QED  BY <1>3, <1>4

-----------------------------------------------------------------------------
(* The inductive invariant                                                  *)

FilesOf(f) == {File(f, "jpg"), File(f, "h264")}

\* What a file that was written to its end may hold.
Content(file, pic) == (file.ext = "h264" /\ pic = Corrupt) \/ IsPicture(pic)

\* A stream that is, or is about to be, saved as it came.
Permitted(file) == file.ext = "h264" => skippedDecode /\ ~ffmpeg

\* Each file is absent, torn or holds a picture, a stream perhaps nothing.
DiskInv ==
  /\ disk = [file \in Files |-> disk[file]]
  /\ \A file \in Files : disk[file] \in {Absent, Torn} \/ Content(file, disk[file])
  /\ "h264" \notin codecs => \A f \in FrameIDs : disk[File(f, "h264")] = Absent

\* A read loop in the middle of a frame: no one else has it, and what it is about
\* to save is what the disk holds.
InCall(c) ==
  LET file == call[c].file f == call[c].file.frame IN
  /\ call[c].pc \in {"write", "ffmpeg", "skip", "save"}
  /\ f \in FrameIDs /\ file \in FilesOf(f) /\ returned[f] = "no"
  /\ Content(file, call[c].pic)
  /\ file.ext = "h264" => "h264" \in codecs
  /\ call[c].pc = "ffmpeg" => file.ext = "h264" /\ ffmpeg
  /\ call[c].pc = "skip" => ~ffmpeg
  /\ call[c].pc # "write" => disk[file] = call[c].pic
  /\ call[c].pc = "save" => Permitted(file)

CallInv ==
  /\ call = [c \in ReadLoops |-> call[c]]
  /\ \A c \in ReadLoops : call[c] = Idle \/ InCall(c)
  /\ \A c, d \in ReadLoops : c # d /\ call[c] # Idle => call[d].file.frame # call[c].file.frame

\* A frame is saved once its call returned, in a file nobody writes any more.
IsSaved(f) ==
  /\ saved[f] \in FilesOf(f) /\ returned[f] = "ok"
  /\ Content(saved[f], disk[saved[f]]) /\ Permitted(saved[f])

SavedInv ==
  /\ saved = [f \in FrameIDs |-> saved[f]]
  /\ \A f \in FrameIDs : saved[f] = NoFile \/ IsSaved(f)

\* What was listed are files of frames; what is written was made of what was
\* loaded, and counts the frames it was made of.
FusionInv ==
  /\ fusion = [pc |-> fusion.pc, infos |-> fusion.infos, frames |-> fusion.frames,
               out |-> fusion.out, n |-> fusion.n]
  /\ fusion.pc \in {"idle", "load", "write", "set", "ended"}
  /\ fusion.infos \in SUBSET {File(f, ext) : f \in FrameIDs, ext \in {"jpg", "h264"}}
  /\ fusion.pc \in {"write", "set"} =>
       /\ Loaded(fusion.frames) /\ DOMAIN fusion.frames # {}
       /\ fusion.n = Cardinality(DOMAIN SameSize(fusion.frames))
       /\ fusion.out = Made(fusion.frames)
  /\ fusion.pc = "set" => disk[CompositeJPG] = Recode(fusion.out)

CompositeInv ==
  composite # NoComposite =>
    /\ composite.file = CompositeJPG /\ composite.frames \in 1 .. Cardinality(FrameIDs)
    /\ fusion.pc = "ended" /\ IsPicture(disk[CompositeJPG])

StoreInv ==
  /\ <<codecs, ffmpeg>> \in Setups /\ skippedDecode \in BOOLEAN
  /\ returned \in [FrameIDs -> {"no", "ok", "error"}]
  /\ faults \in 0 .. MaxFaults
  /\ DiskInv /\ CallInv /\ SavedInv /\ FusionInv /\ CompositeInv

\* A file is the composite or that of one frame.
LEMMA FileFacts ==
  /\ \A f, ext : File(f, ext).frame = f /\ File(f, ext).ext = ext
  /\ CompositeJPG \in Files /\ NoFile \notin Files
  /\ \A f \in FrameIDs : /\ FilesOf(f) \subseteq Files
                         /\ CompositeJPG \notin FilesOf(f) /\ NoFile \notin FilesOf(f)
                         /\ \A g \in FrameIDs : g # f => FilesOf(f) \cap FilesOf(g) = {}
                         /\ \A file \in FilesOf(f) : file.frame = f /\ file = File(f, file.ext)
  /\ \A file \in Files : file = CompositeJPG \/ (file.frame \in FrameIDs /\ file \in FilesOf(file.frame))
  /\ CompositeJPG.ext = "jpg" /\ NoFile.frame \notin FrameIDs
<1>1. \A f, ext : File(f, ext).frame = f /\ File(f, ext).ext = ext
  BY DEF File
<1>2. FrameIDs \subseteq Nat /\ -1 \notin FrameIDs
  BY StoreAssumption
<1>3. CompositeJPG \in Files
  BY DEF Files
<1>4. CompositeJPG.frame = -1 /\ CompositeJPG.ext = "jpg" /\ NoFile.frame = -1 /\ NoFile.ext = "none"
  BY <1>1 DEF CompositeJPG, NoFile
<1>5. \A f \in FrameIDs : FilesOf(f) \subseteq Files
  BY DEF Files, FilesOf
<1>6. \A file \in Files : file = CompositeJPG \/ (file.frame \in FrameIDs /\ file \in FilesOf(file.frame))
  <2>. TAKE file \in Files
  <2>1. CASE file \in {File(f, ext) : f \in FrameIDs, ext \in {"jpg", "h264"}}
    <3>1. PICK f \in FrameIDs, ext \in {"jpg", "h264"} : file = File(f, ext)
      BY <2>1
    <3>. QED  BY <1>1, <3>1 DEF FilesOf
  <2>. QED  BY <2>1 DEF Files
<1>7. \A f : \A file \in FilesOf(f) : file.frame = f /\ file = File(f, file.ext)
  BY <1>1 DEF FilesOf
<1>8. NoFile \notin Files
  <2>1. NoFile # CompositeJPG
    BY <1>4
  <2>. QED  BY <1>2, <1>4, <1>6, <2>1
<1>. QED  BY <1>1, <1>2, <1>3, <1>4, <1>5, <1>6, <1>7, <1>8

\* A read loop that is nowhere in a frame.
LEMMA IdleFacts ==
  Idle.pc = "idle" /\ Idle.file = NoFile /\ Idle.file.frame \notin FrameIDs
  BY FileFacts DEF Idle

\* A picture, and what decodes to nothing, are whole; what is torn is no picture.
LEMMA ContentIsWhole ==
  /\ \A file, pic : Content(file, pic) => Whole(pic)
  /\ \A pic : IsPicture(pic) => Whole(pic)
  /\ \A f, pic : Content(File(f, "jpg"), pic) => IsPicture(pic)
<1>1. Absent.h = 0 /\ Torn.h = 0
  BY DEF Absent, Torn
<1>2. \A pic : IsPicture(pic) => Whole(pic)
  BY <1>1 DEF IsPicture, Whole
<1>. QED  BY <1>2, StoreAssumption, FileFacts DEF Content

\* Encoding again and taking the luma keep a picture a picture of its size.
LEMMA RoundedDown ==
  ASSUME NEW v \in 0 .. 255, NEW q \in Nat \ {0}
  PROVE  (v \div q) * q \in 0 .. 255
<1>1. v \div q \in Nat /\ (v \div q) * q <= v
  OBVIOUS
<1>. QED  BY <1>1

LEMMA RecodedIsPicture ==
  ASSUME NEW pic, IsPicture(pic)
  PROVE  /\ IsPicture(Recode(pic)) /\ Recode(pic).w = pic.w /\ Recode(pic).h = pic.h
         /\ IsPicture(Gray(pic))
<1>. DEFINE rounded == [p \in DOMAIN pic.pix |-> [c \in Channels |-> (pic.pix[p][c] \div Quantum) * Quantum]]
            gray == [p \in DOMAIN pic.pix |-> [c \in Channels |-> pic.pix[p][1]]]
<1>1. /\ pic = [w |-> pic.w, h |-> pic.h, pix |-> pic.pix]
      /\ pic.pix \in [Cells(pic.w, pic.h) -> [Channels -> 0 .. 255]]
      /\ pic.w \in Nat \ {0} /\ pic.h \in Nat \ {0} /\ 1 \in Channels
  BY DEF IsPicture, Channels
<1>2. rounded \in [Cells(pic.w, pic.h) -> [Channels -> 0 .. 255]]
  <2>1. \A v \in 0 .. 255 : (v \div Quantum) * Quantum \in 0 .. 255
    BY StoreAssumption, RoundedDown
  <2>. QED  BY <1>1, <2>1
<1>3. gray \in [Cells(pic.w, pic.h) -> [Channels -> 0 .. 255]]
  BY <1>1
<1>. HIDE DEF rounded, gray
<1>4. Recode(pic) = [w |-> pic.w, h |-> pic.h, pix |-> rounded]
  BY <1>1 DEF Recode, rounded
<1>5. Gray(pic) = [w |-> pic.w, h |-> pic.h, pix |-> gray]
  BY <1>1 DEF Gray, gray
<1>. QED  BY <1>1, <1>2, <1>3, <1>4, <1>5 DEF IsPicture

\* What is written of a frame is a picture or, of a stream, perhaps nothing.
LEMMA KeptContent ==
  ASSUME <<codecs, ffmpeg>> \in Setups, NEW codec \in codecs, NEW data \in Pictures[codec] \union {Corrupt},
         Decodes(codec, data), NEW f
  PROVE  Content(File(f, Extension(codec)), Kept(codec, data))
<1>1. codec \in {"jpeg", "webp", "raw", "h264"} /\ \A pic \in Pictures[codec] : IsPicture(pic)
  BY StoreAssumption
<1>2. CASE codec = "h264"
  BY <1>1, <1>2, FileFacts DEF Kept, Extension, Content
<1>3. CASE codec # "h264"
  <2>1. IsPicture(data)
    BY <1>1, <1>3 DEF Decodes
  <2>2. IsPicture(Kept(codec, data))
    BY <1>1, <1>3, <2>1, RecodedIsPicture DEF Kept
  <2>. QED  BY <2>2 DEF Content
<1>. QED  BY <1>2, <1>3

-----------------------------------------------------------------------------
(* A step of a read loop                                                    *)

\* A step that touches one frame's files, entry and call keeps the invariant of
\* everything else: other calls, saved files, the fusion and the composite.
LEMMA OneFrameMoves ==
  ASSUME StoreInv, NEW c \in ReadLoops, NEW f \in FrameIDs, NEW position, NEW result, NEW file,
         UNCHANGED <<codecs, ffmpeg, composite, fusion>>,
         skippedDecode' \in BOOLEAN, skippedDecode => skippedDecode', faults' \in 0 .. MaxFaults,
         \A d \in ReadLoops \ {c} : call[d].file.frame # f,
         returned[f] = "no",
         call' = [call EXCEPT ![c] = position],
         position = Idle \/ (position.file.frame = f /\ InCall(c)'),
         returned' = [returned EXCEPT ![f] = result], result \in {"no", "ok", "error"},
         saved' = [saved EXCEPT ![f] = file], file = NoFile \/ IsSaved(f)',
         disk' = [g \in Files |-> disk'[g]],
         \A g \in Files \ FilesOf(f) : disk'[g] = disk[g],
         \A g \in FilesOf(f) : disk'[g] \in {Absent, Torn} \/ Content(g, disk'[g]),
         "h264" \notin codecs => disk'[File(f, "h264")] = Absent
  PROVE  StoreInv'
<1>1. /\ call = [d \in ReadLoops |-> call[d]]
      /\ saved = [g \in FrameIDs |-> saved[g]]
      /\ returned \in [FrameIDs -> {"no", "ok", "error"}]
  BY DEF StoreInv, CallInv, SavedInv
<1>2. \A d \in ReadLoops \ {c} : call'[d] = call[d]
  BY <1>1
<1>3. call'[c] = position
  BY <1>1
<1>4. \A g \in FrameIDs \ {f} : returned'[g] = returned[g] /\ saved'[g] = saved[g]
  BY <1>1
<1>5. \A g \in FrameIDs \ {f}, h \in Files : h \in FilesOf(g) => disk'[h] = disk[h]
  BY FileFacts
<1>6. DiskInv'
  <2>1. \A g \in Files : disk'[g] \in {Absent, Torn} \/ Content(g, disk'[g])
    BY DEF StoreInv, DiskInv
  <2>2. ASSUME "h264" \notin codecs, NEW g \in FrameIDs  PROVE disk'[File(g, "h264")] = Absent
    <3>1. File(g, "h264") \in FilesOf(g) /\ File(g, "h264") \in Files
      BY FileFacts DEF FilesOf
    <3>. QED  BY <1>5, <2>2, <3>1 DEF StoreInv, DiskInv
  <2>3. (\A g \in Files : disk'[g] \in {Absent, Torn} \/ Content(g, disk'[g]))
          => (\A g \in Files : (disk[g])' \in {Absent, Torn} \/ Content(g, disk[g])')
    BY DEF Content
  <2>. QED  BY <2>1, <2>2, <2>3 DEF DiskInv, Content
<1>7. CallInv'
  <2>1. call' = [d \in ReadLoops |-> call'[d]]
    BY <1>1
  <2>2. ASSUME NEW d \in ReadLoops, d # c, call[d] # Idle  PROVE InCall(d)'
    <3>1. InCall(d) /\ call[d].file.frame \in FrameIDs \ {f} /\ call'[d] = call[d]
      BY <1>2, <2>2 DEF StoreInv, CallInv, InCall
    <3>2. returned'[call[d].file.frame] = returned[call[d].file.frame]
      BY <1>4, <3>1
    <3>3. disk'[call[d].file] = disk[call[d].file]
      BY <1>5, <3>1, FileFacts DEF InCall
    <3>4. Permitted(call[d].file) => Permitted(call[d].file)'
      BY <3>1 DEF Permitted
    <3>. QED  BY <3>1, <3>2, <3>3, <3>4 DEF InCall, Content, Permitted
  <2>3. \A d \in ReadLoops : call'[d] = Idle \/ InCall(d)'
    BY <1>2, <1>3, <2>2
  <2>4. ASSUME NEW d \in ReadLoops, NEW e \in ReadLoops, d # e, call'[d] # Idle
        PROVE  call'[e].file.frame # call'[d].file.frame
    <3>1. CASE d # c /\ e # c
      BY <1>2, <2>4, <3>1 DEF StoreInv, CallInv
    <3>2. CASE d = c
      BY <1>2, <1>3, <2>4, <3>2
    <3>3. CASE e = c
      <4>1. call'[d] = call[d] /\ call[d] # Idle /\ d # c
        BY <1>2, <2>4, <3>3
      <4>2. call[d].file.frame \in FrameIDs \ {f}
        BY <4>1 DEF StoreInv, CallInv, InCall
      <4>. QED  BY <1>3, <3>3, <4>1, <4>2, IdleFacts
    <3>. QED  BY <3>1, <3>2, <3>3
  <2>. QED  BY <2>1, <2>3, <2>4 DEF CallInv
<1>8. SavedInv'
  <2>1. saved' = [g \in FrameIDs |-> saved'[g]]
    BY <1>1
  <2>2. ASSUME NEW g \in FrameIDs, g # f, saved[g] # NoFile  PROVE IsSaved(g)'
    <3>1. IsSaved(g) /\ saved'[g] = saved[g] /\ returned'[g] = returned[g]
      BY <1>4, <2>2 DEF StoreInv, SavedInv
    <3>2. disk'[saved[g]] = disk[saved[g]]
      BY <1>5, <2>2, <3>1, FileFacts DEF IsSaved
    <3>. QED  BY <3>1, <3>2 DEF IsSaved, Content, Permitted
  <2>3. \A g \in FrameIDs : saved'[g] = NoFile \/ IsSaved(g)'
    BY <1>1, <1>4, <2>2
  <2>. QED  BY <2>1, <2>3 DEF SavedInv
<1>9. disk'[CompositeJPG] = disk[CompositeJPG]
  BY FileFacts
<1>10. FusionInv'
  BY <1>9 DEF StoreInv, FusionInv
<1>11. CompositeInv'
  BY <1>9 DEF StoreInv, CompositeInv
<1>12. returned' \in [FrameIDs -> {"no", "ok", "error"}]
  BY <1>1
<1>. QED  BY <1>6, <1>7, <1>8, <1>10, <1>11, <1>12 DEF StoreInv

\* What the invariant says of a read loop inside a frame.
LEMMA InsideACall ==
  ASSUME StoreInv, NEW c \in ReadLoops, call[c].pc # "idle"
  PROVE  /\ InCall(c) /\ call[c].file.frame \in FrameIDs
         /\ \A d \in ReadLoops \ {c} : call[d].file.frame # call[c].file.frame
         /\ saved[call[c].file.frame] = NoFile
         /\ call[c].file \in FilesOf(call[c].file.frame) /\ call[c].file \in Files
<1>1. call[c] # Idle
  BY IdleFacts
<1>2. InCall(c)
  BY <1>1 DEF StoreInv, CallInv
<1>3. saved[call[c].file.frame] = NoFile
  BY <1>2 DEF StoreInv, SavedInv, InCall, IsSaved
<1>. QED  BY <1>1, <1>2, <1>3, FileFacts DEF StoreInv, CallInv, InCall

\* The arrays as functions, for a step that changes one entry.
LEMMA Arrays ==
  ASSUME StoreInv
  PROVE  /\ disk = [file \in Files |-> disk[file]]
         /\ call = [c \in ReadLoops |-> call[c]]
         /\ saved = [f \in FrameIDs |-> saved[f]]
         /\ returned = [f \in FrameIDs |-> returned[f]]
         /\ \A f \in FrameIDs : \A file \in FilesOf(f) :
              disk[file] \in {Absent, Torn} \/ Content(file, disk[file])
         /\ "h264" \notin codecs => \A f \in FrameIDs : disk[File(f, "h264")] = Absent
         /\ faults \in 0 .. MaxFaults /\ MaxFaults \in Nat /\ skippedDecode \in BOOLEAN
  BY FileFacts, StoreAssumption DEF StoreInv, DiskInv, CallInv, SavedInv

LEMMA OnFrameCompleteStep ==
  ASSUME StoreInv, NEW c \in ReadLoops, NEW f \in FrameIDs, NEW codec \in codecs,
         NEW data \in Pictures[codec] \union {Corrupt}, OnFrameComplete(c, f, codec, data)
  PROVE  StoreInv'
<1>1. /\ UNCHANGED <<codecs, ffmpeg, disk, saved, skippedDecode, composite, fusion, faults>>
      /\ returned[f] = "no" /\ \A d \in ReadLoops : call[d].file.frame # f
      /\ call[c] = Idle
  BY DEF OnFrameComplete
<1>2. saved[f] = NoFile
  BY <1>1 DEF StoreInv, SavedInv, IsSaved
<1>3. saved' = [saved EXCEPT ![f] = NoFile]
  BY <1>1, <1>2, Arrays
<1>4. /\ disk' = [g \in Files |-> disk'[g]]
      /\ \A g \in Files \ FilesOf(f) : disk'[g] = disk[g]
      /\ \A g \in FilesOf(f) : disk'[g] \in {Absent, Torn} \/ Content(g, disk'[g])
      /\ "h264" \notin codecs => disk'[File(f, "h264")] = Absent
  BY <1>1, Arrays
<1>5. CASE Decodes(codec, data)
  <2>. DEFINE file == File(f, Extension(codec))
              position == [pc |-> "write", file |-> file, pic |-> Kept(codec, data)]
  <2>1. call' = [call EXCEPT ![c] = position] /\ returned' = [returned EXCEPT ![f] = "no"]
    BY <1>1, <1>5, Arrays DEF OnFrameComplete, Enter
  <2>2. call'[c] = position /\ returned'[f] = "no"
    BY <1>1, <2>1, Arrays
  <2>3. Content(file, position.pic)
    BY <1>5, KeptContent DEF StoreInv
  <2>4. file \in FilesOf(f) /\ file.frame = f /\ (file.ext = "h264" => codec = "h264")
    BY FileFacts DEF FilesOf, Extension
  <2>5. position.pc = "write" /\ position.file = file
    OBVIOUS
  <2>. HIDE DEF position, file
  <2>6. InCall(c)'
    BY <1>1, <2>2, <2>3, <2>4, <2>5 DEF InCall, Content
  <2>. QED  BY <1>1, <1>3, <1>4, <2>1, <2>4, <2>5, <2>6, Arrays, OneFrameMoves
<1>6. CASE ~Decodes(codec, data)
  <2>1. call' = [call EXCEPT ![c] = Idle] /\ returned' = [returned EXCEPT ![f] = "error"]
    BY <1>6 DEF OnFrameComplete, Return
  <2>. QED  BY <1>1, <1>3, <1>4, <2>1, Arrays, OneFrameMoves
<1>. QED  BY <1>5, <1>6

LEMMA WriteBytesStep ==
  ASSUME StoreInv, NEW c \in ReadLoops, WriteBytes(c)
  PROVE  StoreInv'
<1>. DEFINE file == call[c].file
            f == call[c].file.frame
            position == [pc |-> AfterWrite(file), file |-> file, pic |-> call[c].pic]
<1>1. /\ UNCHANGED <<codecs, ffmpeg, saved, skippedDecode, composite, returned, fusion, faults>>
      /\ call[c].pc # "idle"
      /\ disk' = [disk EXCEPT ![file] = call[c].pic]
      /\ call' = [call EXCEPT ![c] = position]
  BY DEF WriteBytes, Enter
<1>2. /\ InCall(c) /\ f \in FrameIDs /\ saved[f] = NoFile /\ file \in FilesOf(f) /\ file \in Files
      /\ \A d \in ReadLoops \ {c} : call[d].file.frame # f
  BY <1>1, InsideACall
<1>3. /\ returned[f] = "no" /\ Content(file, call[c].pic) /\ (file.ext = "h264" => "h264" \in codecs)
  BY <1>2 DEF InCall
<1>4. /\ saved' = [saved EXCEPT ![f] = NoFile] /\ returned' = [returned EXCEPT ![f] = "no"]
      /\ returned'[f] = "no"
  BY <1>1, <1>2, <1>3, Arrays
<1>5. disk'[file] = call[c].pic /\ call'[c] = position
  BY <1>1, <1>2, Arrays
<1>6. /\ disk' = [g \in Files |-> disk'[g]]
      /\ \A g \in Files \ FilesOf(f) : disk'[g] = disk[g]
      /\ \A g \in FilesOf(f) : disk'[g] \in {Absent, Torn} \/ Content(g, disk'[g])
      /\ "h264" \notin codecs => disk'[File(f, "h264")] = Absent
  <2>1. \A g \in Files : g # file => disk'[g] = disk[g]
    BY <1>1, Arrays
  <2>2. "h264" \notin codecs => File(f, "h264") # file
    BY <1>3, FileFacts
  <2>3. File(f, "h264") \in Files /\ FilesOf(f) \subseteq Files
    BY <1>2, FileFacts DEF FilesOf
  <2>. QED  BY <1>1, <1>2, <1>3, <1>5, <2>1, <2>2, <2>3, Arrays
<1>7. file.ext \in {"jpg", "h264"}
  BY <1>2, FileFacts DEF FilesOf
<1>8. InCall(c)'
  <2>1. /\ AfterWrite(file) \in {"save", "ffmpeg", "skip"}
        /\ AfterWrite(file) = "save" => file.ext = "jpg"
        /\ AfterWrite(file) = "ffmpeg" => file.ext = "h264" /\ ffmpeg
        /\ AfterWrite(file) = "skip" => ~ffmpeg
    BY <1>7 DEF AfterWrite
  <2>2. position.pc = AfterWrite(file) /\ position.file = file /\ position.pic = call[c].pic
    OBVIOUS
  <2>. HIDE DEF position, file
  <2>. QED  BY <1>1, <1>2, <1>3, <1>4, <1>5, <2>1, <2>2 DEF InCall, Content, Permitted, file
<1>. QED  BY <1>1, <1>2, <1>3, <1>4, <1>6, <1>8, Arrays, OneFrameMoves

LEMMA WriteFailsStep ==
  ASSUME StoreInv, NEW c \in ReadLoops, WriteFails(c)
  PROVE  StoreInv'
<1>. DEFINE file == call[c].file
            f == call[c].file.frame
<1>1. /\ UNCHANGED <<codecs, ffmpeg, saved, skippedDecode, composite, fusion>>
      /\ call[c].pc # "idle" /\ faults < MaxFaults /\ faults' = faults + 1
      /\ \E left \in {disk[file], Torn} : disk' = [disk EXCEPT ![file] = left]
      /\ call' = [call EXCEPT ![c] = Idle] /\ returned' = [returned EXCEPT ![f] = "error"]
  BY DEF WriteFails, Return
<1>2. /\ InCall(c) /\ f \in FrameIDs /\ saved[f] = NoFile /\ file \in FilesOf(f) /\ file \in Files
      /\ \A d \in ReadLoops \ {c} : call[d].file.frame # f
      /\ returned[f] = "no" /\ (file.ext = "h264" => "h264" \in codecs)
  BY <1>1, InsideACall DEF InCall
<1>3. saved' = [saved EXCEPT ![f] = NoFile] /\ faults' \in 0 .. MaxFaults
  BY <1>1, <1>2, Arrays
<1>4. /\ disk' = [g \in Files |-> disk'[g]]
      /\ \A g \in Files \ FilesOf(f) : disk'[g] = disk[g]
      /\ \A g \in FilesOf(f) : disk'[g] \in {Absent, Torn} \/ Content(g, disk'[g])
      /\ "h264" \notin codecs => disk'[File(f, "h264")] = Absent
  <2>1. disk'[file] \in {disk[file], Torn} /\ \A g \in Files : g # file => disk'[g] = disk[g]
    BY <1>1, <1>2, Arrays
  <2>2. "h264" \notin codecs => File(f, "h264") # file
    BY <1>2, FileFacts
  <2>3. File(f, "h264") \in Files /\ FilesOf(f) \subseteq Files
    BY <1>2, FileFacts DEF FilesOf
  <2>. QED  BY <1>1, <1>2, <2>1, <2>2, <2>3, Arrays
<1>. QED  BY <1>1, <1>2, <1>3, <1>4, Arrays, OneFrameMoves

\* The stream and the JPEG ffmpeg makes of it.
LEMMA FfmpegFacts ==
  ASSUME StoreInv, NEW c \in ReadLoops, call[c].pc = "ffmpeg",
         NEW pic, pic \in {Absent, Torn} \/ IsPicture(pic),
         NEW jpg, jpg = File(call[c].file.frame, "jpg"), disk' = [disk EXCEPT ![jpg] = pic]
  PROVE  LET f == call[c].file.frame IN
         /\ InCall(c) /\ f \in FrameIDs /\ saved[f] = NoFile /\ returned[f] = "no"
         /\ \A d \in ReadLoops \ {c} : call[d].file.frame # f
         /\ jpg \in FilesOf(f) /\ jpg.ext = "jpg" /\ jpg.frame = f
         /\ disk'[jpg] = pic
         /\ disk' = [g \in Files |-> disk'[g]]
         /\ \A g \in Files \ FilesOf(f) : disk'[g] = disk[g]
         /\ \A g \in FilesOf(f) : disk'[g] \in {Absent, Torn} \/ Content(g, disk'[g])
         /\ "h264" \notin codecs => disk'[File(f, "h264")] = Absent
<1>. DEFINE f == call[c].file.frame
<1>1. /\ InCall(c) /\ f \in FrameIDs /\ saved[f] = NoFile /\ returned[f] = "no"
      /\ \A d \in ReadLoops \ {c} : call[d].file.frame # f
  BY InsideACall DEF InCall
<1>. HIDE DEF f
<1>2. jpg \in FilesOf(f) /\ jpg.ext = "jpg" /\ jpg.frame = f /\ jpg \in Files
  BY <1>1, FileFacts DEF FilesOf, f
<1>3. disk'[jpg] = pic /\ \A g \in Files : g # jpg => disk'[g] = disk[g]
  BY <1>2, Arrays
<1>4. File(f, "h264") \in Files /\ File(f, "h264") # jpg /\ FilesOf(f) \subseteq Files
  BY <1>1, <1>2, FileFacts DEF FilesOf
<1>5. \A g \in FilesOf(f) : disk'[g] \in {Absent, Torn} \/ Content(g, disk'[g])
  BY <1>1, <1>3, <1>4, Arrays DEF Content
<1>6. disk' = [g \in Files |-> disk'[g]]
  BY Arrays
<1>7. "h264" \notin codecs => disk'[File(f, "h264")] = Absent
  BY <1>1, <1>3, <1>4, Arrays
<1>. QED  BY <1>1, <1>2, <1>3, <1>5, <1>6, <1>7 DEF f

LEMMA FfmpegDecodesStep ==
  ASSUME StoreInv, NEW c \in ReadLoops, FfmpegDecodes(c)
  PROVE  StoreInv'
<1>. DEFINE f == call[c].file.frame
            jpg == File(call[c].file.frame, "jpg")
            pic == Recode(call[c].pic)
            position == [pc |-> "save", file |-> jpg, pic |-> pic]
<1>1. /\ UNCHANGED <<codecs, ffmpeg, saved, skippedDecode, composite, returned, fusion, faults>>
      /\ call[c].pc = "ffmpeg" /\ call[c].pic # Corrupt
      /\ disk' = [disk EXCEPT ![jpg] = pic]
      /\ call' = [call EXCEPT ![c] = position]
  BY DEF FfmpegDecodes, Enter
<1>2. IsPicture(pic)
  <2>1. InCall(c)
    BY <1>1, InsideACall
  <2>2. IsPicture(call[c].pic)
    BY <1>1, <2>1 DEF InCall, Content
  <2>. QED  BY <2>2, RecodedIsPicture
<1>3. position.pc = "save" /\ position.file = jpg /\ position.pic = pic
  OBVIOUS
<1>4. call'[c] = position
  BY <1>1, Arrays
<1>. HIDE DEF position, pic, jpg
<1>5. /\ InCall(c) /\ f \in FrameIDs /\ saved[f] = NoFile /\ returned[f] = "no"
      /\ \A d \in ReadLoops \ {c} : call[d].file.frame # f
      /\ jpg \in FilesOf(f) /\ jpg.ext = "jpg" /\ jpg.frame = f
      /\ disk'[jpg] = pic
      /\ disk' = [g \in Files |-> disk'[g]]
      /\ \A g \in Files \ FilesOf(f) : disk'[g] = disk[g]
      /\ \A g \in FilesOf(f) : disk'[g] \in {Absent, Torn} \/ Content(g, disk'[g])
      /\ "h264" \notin codecs => disk'[File(f, "h264")] = Absent
  BY <1>1, <1>2, FfmpegFacts DEF jpg
<1>6. /\ saved' = [saved EXCEPT ![f] = NoFile] /\ returned' = [returned EXCEPT ![f] = "no"]
      /\ returned'[f] = "no"
  BY <1>1, <1>5, Arrays
<1>7. InCall(c)'
  BY <1>2, <1>3, <1>4, <1>5, <1>6 DEF InCall, Content, Permitted
<1>. QED  BY <1>1, <1>3, <1>5, <1>6, <1>7, Arrays, OneFrameMoves

LEMMA FfmpegFailsStep ==
  ASSUME StoreInv, NEW c \in ReadLoops, FfmpegFails(c)
  PROVE  StoreInv'
<1>. DEFINE f == call[c].file.frame
            jpg == File(call[c].file.frame, "jpg")
<1>1. PICK left \in {Absent, Torn} : disk' = [disk EXCEPT ![jpg] = left]
  BY DEF FfmpegFails
<1>2. /\ UNCHANGED <<codecs, ffmpeg, saved, skippedDecode, composite, fusion>>
      /\ call[c].pc = "ffmpeg" /\ (faults' = faults \/ (faults < MaxFaults /\ faults' = faults + 1))
      /\ call' = [call EXCEPT ![c] = Idle] /\ returned' = [returned EXCEPT ![f] = "error"]
  BY DEF FfmpegFails, Return
<1>. HIDE DEF jpg
<1>3. /\ f \in FrameIDs /\ saved[f] = NoFile /\ returned[f] = "no"
      /\ \A d \in ReadLoops \ {c} : call[d].file.frame # f
      /\ disk' = [g \in Files |-> disk'[g]]
      /\ \A g \in Files \ FilesOf(f) : disk'[g] = disk[g]
      /\ \A g \in FilesOf(f) : disk'[g] \in {Absent, Torn} \/ Content(g, disk'[g])
      /\ "h264" \notin codecs => disk'[File(f, "h264")] = Absent
  BY <1>1, <1>2, FfmpegFacts DEF jpg
<1>4. saved' = [saved EXCEPT ![f] = NoFile] /\ faults' \in 0 .. MaxFaults
  BY <1>2, <1>3, Arrays
<1>. QED  BY <1>2, <1>3, <1>4, Arrays, OneFrameMoves


LEMMA SkipDecodeStep ==
  ASSUME StoreInv, NEW c \in ReadLoops, SkipDecode(c)
  PROVE  StoreInv'
<1>. DEFINE file == call[c].file
            f == call[c].file.frame
            position == [pc |-> "save", file |-> file, pic |-> call[c].pic]
<1>1. /\ UNCHANGED <<codecs, ffmpeg, disk, saved, composite, returned, fusion, faults>>
      /\ call[c].pc = "skip" /\ skippedDecode' = TRUE
      /\ call' = [call EXCEPT ![c] = position]
  BY DEF SkipDecode, Enter
<1>2. /\ InCall(c) /\ f \in FrameIDs /\ saved[f] = NoFile /\ file \in FilesOf(f)
      /\ \A d \in ReadLoops \ {c} : call[d].file.frame # f
      /\ returned[f] = "no" /\ ~ffmpeg /\ disk[file] = call[c].pic
  BY <1>1, InsideACall DEF InCall
<1>3. /\ saved' = [saved EXCEPT ![f] = NoFile] /\ returned' = [returned EXCEPT ![f] = "no"]
      /\ returned'[f] = "no"
  BY <1>1, <1>2, Arrays
<1>4. /\ disk' = [g \in Files |-> disk'[g]]
      /\ \A g \in Files \ FilesOf(f) : disk'[g] = disk[g]
      /\ \A g \in FilesOf(f) : disk'[g] \in {Absent, Torn} \/ Content(g, disk'[g])
      /\ "h264" \notin codecs => disk'[File(f, "h264")] = Absent
  BY <1>1, <1>2, Arrays
<1>5. InCall(c)'
  <2>1. call'[c] = position
    BY <1>1, Arrays
  <2>2. position.pc = "save" /\ position.file = file /\ position.pic = call[c].pic
    OBVIOUS
  <2>. HIDE DEF position
  <2>. QED  BY <1>1, <1>2, <1>3, <2>1, <2>2 DEF InCall, Content, Permitted
<1>. QED  BY <1>1, <1>2, <1>3, <1>4, <1>5, Arrays, OneFrameMoves

LEMMA SaveStep ==
  ASSUME StoreInv, NEW c \in ReadLoops, Save(c)
  PROVE  StoreInv'
<1>1. PICK file, f : file = call[c].file /\ f = call[c].file.frame
  OBVIOUS
<1>2. /\ UNCHANGED <<codecs, ffmpeg, disk, skippedDecode, composite, fusion, faults>>
      /\ call[c].pc = "save"
      /\ saved' = [saved EXCEPT ![f] = file]
      /\ call' = [call EXCEPT ![c] = Idle] /\ returned' = [returned EXCEPT ![f] = "ok"]
  BY <1>1 DEF Save, Return
<1>3. /\ InCall(c) /\ f \in FrameIDs /\ file \in FilesOf(f)
      /\ \A d \in ReadLoops \ {c} : call[d].file.frame # f
      /\ returned[f] = "no" /\ disk[file] = call[c].pic /\ Permitted(file)
      /\ Content(file, call[c].pic)
  BY <1>1, <1>2, InsideACall DEF InCall
<1>4. /\ disk' = [g \in Files |-> disk'[g]]
      /\ \A g \in Files \ FilesOf(f) : disk'[g] = disk[g]
      /\ \A g \in FilesOf(f) : disk'[g] \in {Absent, Torn} \/ Content(g, disk'[g])
      /\ "h264" \notin codecs => disk'[File(f, "h264")] = Absent
  BY <1>2, <1>3, Arrays
<1>5. IsSaved(f)'
  <2>1. saved'[f] = file /\ returned'[f] = "ok" /\ disk'[file] = disk[file]
    BY <1>2, <1>3, Arrays
  <2>2. Permitted(file)'
    BY <1>2, <1>3 DEF Permitted
  <2>3. Content(file, disk'[file])
    BY <1>3, <2>1
  <2>. QED  BY <1>3, <2>1, <2>2, <2>3 DEF IsSaved, Permitted, Content
<1>. QED  BY <1>2, <1>3, <1>4, <1>5, Arrays, OneFrameMoves

-----------------------------------------------------------------------------
(* A step of the sweep loop                                                 *)

\* A step that touches the composite's file keeps the invariant of the frames.
LEMMA OnlyCompositeMoves ==
  ASSUME StoreInv, UNCHANGED <<codecs, ffmpeg, saved, skippedDecode, call, returned>>,
         faults' \in 0 .. MaxFaults, NEW pic, pic \in {Absent, Torn} \/ IsPicture(pic),
         disk' = [disk EXCEPT ![CompositeJPG] = pic], FusionInv', CompositeInv'
  PROVE  StoreInv'
<1>1. /\ disk' = [file \in Files |-> disk'[file]]
      /\ \A file \in Files : file # CompositeJPG => disk'[file] = disk[file]
      /\ disk'[CompositeJPG] = pic
  BY FileFacts, Arrays
<1>2. \A f \in FrameIDs : \A file \in FilesOf(f) : disk'[file] = disk[file]
  BY <1>1, FileFacts
<1>3. DiskInv'
  <2>1. \A f \in FrameIDs : disk'[File(f, "h264")] = disk[File(f, "h264")]
    BY <1>2 DEF FilesOf
  <2>. QED  BY <1>1, <2>1 DEF StoreInv, DiskInv, Content
<1>4. CallInv'
  <2>1. ASSUME NEW c \in ReadLoops, InCall(c)  PROVE InCall(c)'
    <3>1. disk'[call[c].file] = disk[call[c].file]
      BY <1>2, <2>1 DEF InCall
    <3>. QED  BY <2>1, <3>1 DEF InCall, Content, Permitted
  <2>. QED  BY <2>1 DEF StoreInv, CallInv
<1>5. SavedInv'
  <2>1. ASSUME NEW f \in FrameIDs, IsSaved(f)  PROVE IsSaved(f)'
    <3>1. disk'[saved[f]] = disk[saved[f]]
      BY <1>2, <2>1 DEF IsSaved
    <3>. QED  BY <2>1, <3>1 DEF IsSaved, Content, Permitted
  <2>. QED  BY <2>1 DEF StoreInv, SavedInv
<1>. QED  BY <1>3, <1>4, <1>5 DEF StoreInv

\* What the loader hands on are pictures, by frame.
LEMMA ReadableIsLoaded ==
  ASSUME StoreInv, NEW infos \in SUBSET {File(f, ext) : f \in FrameIDs, ext \in {"jpg", "h264"}}
  PROVE  Loaded(Readable(infos))
<1>. DEFINE jpgs == {file \in infos : file.ext = "jpg" /\ Whole(disk[file])}
            frames == Readable(infos)
<1>1. frames = [f \in {file.frame : file \in jpgs} |-> disk[File(f, "jpg")]]
  BY DEF Readable
<1>2. ASSUME NEW file \in jpgs  PROVE file.frame \in FrameIDs /\ IsPicture(disk[File(file.frame, "jpg")])
  <2>1. PICK f \in FrameIDs, ext \in {"jpg", "h264"} : file = File(f, ext)
    BY <1>2
  <2>2. file = File(f, "jpg") /\ file.frame = f
    BY <1>2, <2>1, FileFacts
  <2>3. disk[file] \in {Absent, Torn} \/ Content(file, disk[file])
    BY <2>2, Arrays DEF FilesOf
  <2>. QED  BY <1>2, <2>2, <2>3, ContentIsWhole DEF Whole
<1>. HIDE DEF frames, jpgs
<1>. QED  BY <1>1, <1>2 DEF Loaded, frames

LEMMA CompositeListsStep ==
  ASSUME StoreInv, CompositeLists
  PROVE  StoreInv'
<1>. DEFINE listed == {saved[f] : f \in {g \in FrameIDs : saved[g] # NoFile}}
<1>1. /\ UNCHANGED <<codecs, ffmpeg, disk, saved, skippedDecode, composite, call, returned, faults>>
      /\ fusion.pc = "idle" /\ fusion' = [fusion EXCEPT !.pc = "load", !.infos = listed]
  BY DEF CompositeLists
<1>2. listed \in SUBSET {File(f, ext) : f \in FrameIDs, ext \in {"jpg", "h264"}}
  BY DEF StoreInv, SavedInv, IsSaved, FilesOf
<1>. HIDE DEF listed
<1>3. FusionInv'
  <2>1. fusion = [pc |-> fusion.pc, infos |-> fusion.infos, frames |-> fusion.frames,
                  out |-> fusion.out, n |-> fusion.n]
    BY DEF StoreInv, FusionInv
  <2>2. fusion' = [pc |-> "load", infos |-> listed, frames |-> fusion.frames,
                   out |-> fusion.out, n |-> fusion.n]
    BY <1>1, <2>1
  <2>. QED  BY <1>2, <2>2 DEF FusionInv
<1>4. CompositeInv'
  BY <1>1 DEF StoreInv, CompositeInv
<1>5. disk' = [disk EXCEPT ![CompositeJPG] = disk[CompositeJPG]]
  BY <1>1, FileFacts, Arrays
<1>6. disk[CompositeJPG] \in {Absent, Torn} \/ IsPicture(disk[CompositeJPG])
  BY FileFacts DEF StoreInv, DiskInv, Content
<1>. QED  BY <1>1, <1>3, <1>4, <1>5, <1>6, Arrays, OnlyCompositeMoves

\* The fusion of what was loaded.
LEMMA WhatIsFused ==
  ASSUME StoreInv, CompositeFuses
  PROVE  /\ UNCHANGED <<codecs, ffmpeg, disk, saved, skippedDecode, composite, call, returned>>
         /\ fusion.pc = "load" /\ faults' \in 0 .. MaxFaults
         /\ \/ fusion' = [NoFuse EXCEPT !.pc = "ended"]
            \/ \E frames : /\ Loaded(frames) /\ DOMAIN frames # {}
                           /\ fusion' = [pc |-> "write", infos |-> fusion.infos, frames |-> frames,
                                          out |-> Made(frames), n |-> Cardinality(DOMAIN SameSize(frames))]
<1>1. PICK lost \in SUBSET fusion.infos :
        /\ faults + Cardinality(lost) <= MaxFaults /\ faults' = faults + Cardinality(lost)
        /\ fusion' = Fusion(Readable(fusion.infos \ lost))
  BY DEF CompositeFuses
<1>2. /\ UNCHANGED <<codecs, ffmpeg, disk, saved, skippedDecode, composite, call, returned>>
      /\ fusion.pc = "load"
  BY DEF CompositeFuses
<1>3. /\ fusion.infos \in SUBSET {File(f, ext) : f \in FrameIDs, ext \in {"jpg", "h264"}}
      /\ fusion = [pc |-> fusion.pc, infos |-> fusion.infos, frames |-> fusion.frames,
                   out |-> fusion.out, n |-> fusion.n]
  BY DEF StoreInv, FusionInv
<1>4. faults' \in 0 .. MaxFaults
  <2>. DEFINE jpgs  == {File(f, "jpg") : f \in FrameIDs}
              h264s == {File(f, "h264") : f \in FrameIDs}
  <2>1. IsFiniteSet(jpgs) /\ IsFiniteSet(h264s)
    <3>1. IsFiniteSet(FrameIDs)
      BY StoreAssumption
    <3>2. IsFiniteSet({[f \in FrameIDs |-> File(f, "jpg")][g] : g \in FrameIDs})
      BY <3>1, ImageFinite
    <3>3. IsFiniteSet({[f \in FrameIDs |-> File(f, "h264")][g] : g \in FrameIDs})
      BY <3>1, ImageFinite
    <3>. QED  BY <3>2, <3>3
  <2>2. IsFiniteSet(jpgs \union h264s)
    BY <2>1, FS_Union
  <2>3. lost \in SUBSET (jpgs \union h264s)
    BY <1>3
  <2>4. Cardinality(lost) \in Nat
    BY <2>2, <2>3, FS_Subset, FS_CardinalityType
  <2>. QED  BY <1>1, <2>4, Arrays
<1>5. PICK frames : frames = Readable(fusion.infos \ lost)
  OBVIOUS
<1>6. Loaded(frames)
  <2>1. fusion.infos \ lost \in SUBSET {File(f, ext) : f \in FrameIDs, ext \in {"jpg", "h264"}}
    BY <1>3
  <2>. QED  BY <1>5, <2>1, ReadableIsLoaded
<1>7. CASE DOMAIN frames = {}
  BY <1>1, <1>2, <1>4, <1>5, <1>7 DEF Fusion
<1>8. CASE DOMAIN frames # {}
  <2>1. fusion' = [fusion EXCEPT !.pc = "write", !.frames = frames,
                     !.n = Cardinality(DOMAIN SameSize(frames)), !.out = Made(frames)]
    BY <1>1, <1>5, <1>8 DEF Fusion, Made
  <2>2. fusion' = [pc |-> "write", infos |-> fusion.infos, frames |-> frames,
                   out |-> Made(frames), n |-> Cardinality(DOMAIN SameSize(frames))]
    BY <1>3, <2>1
  <2>. QED  BY <1>2, <1>4, <1>6, <1>8, <2>2
<1>. QED  BY <1>7, <1>8

LEMMA CompositeFusesStep ==
  ASSUME StoreInv, CompositeFuses
  PROVE  StoreInv'
<1>1. /\ UNCHANGED <<codecs, ffmpeg, disk, saved, skippedDecode, composite, call, returned>>
      /\ fusion.pc = "load" /\ faults' \in 0 .. MaxFaults
  BY WhatIsFused
<1>2. FusionInv'
  <2>1. CASE fusion' = [NoFuse EXCEPT !.pc = "ended"]
    BY <2>1 DEF FusionInv, NoFuse
  <2>2. CASE \E frames : /\ Loaded(frames) /\ DOMAIN frames # {}
                         /\ fusion' = [pc |-> "write", infos |-> fusion.infos, frames |-> frames,
                                        out |-> Made(frames), n |-> Cardinality(DOMAIN SameSize(frames))]
    <3>1. PICK frames : /\ Loaded(frames) /\ DOMAIN frames # {}
                        /\ fusion' = [pc |-> "write", infos |-> fusion.infos, frames |-> frames,
                                       out |-> Made(frames), n |-> Cardinality(DOMAIN SameSize(frames))]
      BY <2>2
    <3>2. fusion.infos \in SUBSET {File(f, ext) : f \in FrameIDs, ext \in {"jpg", "h264"}}
      BY DEF StoreInv, FusionInv
    <3>. QED  BY <3>1, <3>2 DEF FusionInv
  <2>. QED  BY <2>1, <2>2, WhatIsFused
<1>3. CompositeInv'
  BY <1>1 DEF StoreInv, CompositeInv
<1>4. disk' = [disk EXCEPT ![CompositeJPG] = disk[CompositeJPG]]
  BY <1>1, FileFacts, Arrays
<1>5. disk[CompositeJPG] \in {Absent, Torn} \/ IsPicture(disk[CompositeJPG])
  BY FileFacts DEF StoreInv, DiskInv, Content
<1>. QED  BY <1>1, <1>2, <1>3, <1>4, <1>5, OnlyCompositeMoves

LEMMA CompositeWritesStep ==
  ASSUME StoreInv, NEW ok \in BOOLEAN, CompositeWrites(ok)
  PROVE  StoreInv'
<1>0. PICK pic \in IF ok THEN {Recode(fusion.out)} ELSE {disk[CompositeJPG], Torn} :
             disk' = [disk EXCEPT ![CompositeJPG] = pic]
  BY DEF CompositeWrites
<1>1. /\ UNCHANGED <<codecs, ffmpeg, saved, skippedDecode, composite, call, returned>>
      /\ fusion.pc = "write" /\ disk' = [disk EXCEPT ![CompositeJPG] = pic]
      /\ fusion' = [fusion EXCEPT !.pc = IF ok THEN "set" ELSE "ended"]
      /\ faults' = faults \/ (faults < MaxFaults /\ faults' = faults + 1)
      /\ ok => pic = Recode(fusion.out)
  BY <1>0 DEF CompositeWrites
<1>2. pic \in {Absent, Torn} \/ IsPicture(pic)
  <2>1. IsPicture(fusion.out)
    BY <1>1, MadeIsPicture DEF StoreInv, FusionInv
  <2>2. disk[CompositeJPG] \in {Absent, Torn} \/ IsPicture(disk[CompositeJPG])
    <3>1. CompositeJPG.ext # "h264"
      BY FileFacts DEF CompositeJPG
    <3>. QED  BY <3>1, FileFacts DEF StoreInv, DiskInv, Content
  <2>. QED  BY <1>0, <2>1, <2>2, RecodedIsPicture
<1>3. disk'[CompositeJPG] = pic
  BY <1>1, FileFacts, Arrays
<1>4. FusionInv'
  BY <1>1, <1>3 DEF StoreInv, FusionInv
<1>5. CompositeInv'
  BY <1>1 DEF StoreInv, CompositeInv
<1>6. faults' \in 0 .. MaxFaults
  BY <1>1, Arrays
<1>. QED  BY <1>1, <1>2, <1>4, <1>5, <1>6, OnlyCompositeMoves

LEMMA SetCompositeStep ==
  ASSUME StoreInv, SetComposite
  PROVE  StoreInv'
<1>1. /\ UNCHANGED <<codecs, ffmpeg, disk, saved, skippedDecode, call, returned, faults>>
      /\ fusion.pc = "set" /\ composite' = [file |-> CompositeJPG, frames |-> fusion.n]
      /\ fusion' = [fusion EXCEPT !.pc = "ended"]
  BY DEF SetComposite
<1>2. /\ Loaded(fusion.frames) /\ DOMAIN fusion.frames # {}
      /\ fusion.n = Cardinality(DOMAIN SameSize(fusion.frames))
      /\ fusion.out = Made(fusion.frames) /\ disk[CompositeJPG] = Recode(fusion.out)
  BY <1>1 DEF StoreInv, FusionInv
<1>3. fusion.n \in 1 .. Cardinality(FrameIDs)
  <2>1. DOMAIN SameSize(fusion.frames) \in SUBSET FrameIDs /\ DOMAIN SameSize(fusion.frames) # {}
    BY <1>2, SameSizeStacks DEF Stack, Loaded
  <2>2. IsFiniteSet(FrameIDs) /\ Cardinality(FrameIDs) \in Nat
    BY StoreAssumption, FS_CardinalityType
  <2>3. /\ IsFiniteSet(DOMAIN SameSize(fusion.frames))
        /\ Cardinality(DOMAIN SameSize(fusion.frames)) <= Cardinality(FrameIDs)
    BY <2>1, <2>2, FS_Subset
  <2>4. /\ Cardinality(DOMAIN SameSize(fusion.frames)) \in Nat
        /\ Cardinality(DOMAIN SameSize(fusion.frames)) # 0
    BY <2>1, <2>3, FS_CardinalityType, FS_EmptySet
  <2>. QED  BY <1>2, <2>2, <2>3, <2>4
<1>4. IsPicture(disk[CompositeJPG])
  BY <1>2, MadeIsPicture, RecodedIsPicture
<1>5. FusionInv'
  BY <1>1 DEF StoreInv, FusionInv
<1>6. CompositeInv'
  <2>1. fusion'.pc = "ended"
    BY <1>1 DEF StoreInv, FusionInv
  <2>. QED  BY <1>1, <1>3, <1>4, <2>1 DEF CompositeInv
<1>7. disk' = [disk EXCEPT ![CompositeJPG] = disk[CompositeJPG]]
  BY <1>1, FileFacts, Arrays
<1>. QED  BY <1>1, <1>4, <1>5, <1>6, <1>7, Arrays, OnlyCompositeMoves

-----------------------------------------------------------------------------
(* The theorems                                                             *)

LEMMA StoreInit ==
  Init => StoreInv
<1>. SUFFICES ASSUME Init  PROVE StoreInv
  OBVIOUS
<1>1. <<codecs, ffmpeg>> \in Setups
  <2>1. PICK setup \in Setups : codecs = setup[1] /\ ffmpeg = setup[2]
    BY DEF Init
  <2>2. setup \in (SUBSET {"jpeg", "webp", "raw", "h264"}) \X BOOLEAN
    BY StoreAssumption
  <2>. QED  BY <2>1, <2>2
<1>2. DiskInv
  <2>1. \A f \in FrameIDs : File(f, "h264") \in Files
    BY FileFacts DEF FilesOf
  <2>. QED  BY <2>1 DEF Init, DiskInv
<1>3. CallInv /\ SavedInv
  BY DEF Init, CallInv, SavedInv
<1>4. FusionInv
  BY DEF Init, FusionInv, NoFuse
<1>5. CompositeInv
  BY DEF Init, CompositeInv
<1>6. /\ skippedDecode \in BOOLEAN /\ faults \in 0 .. MaxFaults
      /\ returned \in [FrameIDs -> {"no", "ok", "error"}]
  <2>1. skippedDecode = FALSE /\ faults = 0 /\ returned = [f \in FrameIDs |-> "no"]
    BY DEF Init
  <2>2. MaxFaults \in Nat
    BY StoreAssumption
  <2>3. faults \in 0 .. MaxFaults
    BY <2>1, <2>2
  <2>4. returned \in [FrameIDs -> {"no", "ok", "error"}]
    BY <2>1
  <2>. QED  BY <2>1, <2>3, <2>4
<1>. QED  BY <1>1, <1>2, <1>3, <1>4, <1>5, <1>6 DEF StoreInv

LEMMA StoreNext ==
  StoreInv /\ [Next]_vars => StoreInv'
<1>. SUFFICES ASSUME StoreInv, [Next]_vars  PROVE StoreInv'
  OBVIOUS
<1>1. CASE \E c \in ReadLoops, f \in FrameIDs, codec \in codecs :
             \E data \in Pictures[codec] \union {Corrupt} : OnFrameComplete(c, f, codec, data)
  BY <1>1, OnFrameCompleteStep
<1>2. CASE \E c \in ReadLoops : WriteBytes(c)
  BY <1>2, WriteBytesStep
<1>3. CASE \E c \in ReadLoops : WriteFails(c)
  BY <1>3, WriteFailsStep
<1>4. CASE \E c \in ReadLoops : FfmpegDecodes(c)
  BY <1>4, FfmpegDecodesStep
<1>5. CASE \E c \in ReadLoops : FfmpegFails(c)
  BY <1>5, FfmpegFailsStep
<1>6. CASE \E c \in ReadLoops : SkipDecode(c)
  BY <1>6, SkipDecodeStep
<1>7. CASE \E c \in ReadLoops : Save(c)
  BY <1>7, SaveStep
<1>8. CASE CompositeLists
  BY <1>8, CompositeListsStep
<1>9. CASE CompositeFuses
  BY <1>9, CompositeFusesStep
<1>10. CASE \E ok \in BOOLEAN : CompositeWrites(ok)
  BY <1>10, CompositeWritesStep
<1>11. CASE SetComposite
  BY <1>11, SetCompositeStep
<1>12. CASE UNCHANGED vars
  <2>1. UNCHANGED <<codecs, ffmpeg, disk, saved, skippedDecode, composite, call, returned, fusion, faults>>
    BY <1>12 DEF vars
  <2>2. DiskInv'
    BY <2>1 DEF StoreInv, DiskInv, Content
  <2>3. CallInv'
    BY <2>1 DEF StoreInv, CallInv, InCall, Content, Permitted
  <2>4. SavedInv'
    BY <2>1 DEF StoreInv, SavedInv, IsSaved, Content, Permitted
  <2>5. FusionInv' /\ CompositeInv'
    BY <2>1 DEF StoreInv, FusionInv, CompositeInv
  <2>. QED  BY <2>1, <2>2, <2>3, <2>4, <2>5 DEF StoreInv
<1>. QED  BY <1>1, <1>2, <1>3, <1>4, <1>5, <1>6, <1>7, <1>8, <1>9, <1>10, <1>11, <1>12 DEF Next

\* The invariant holds in every run: no file that is announced is written again,
\* and no two read loops are inside one frame.
THEOREM StoreInvariant == Spec => []StoreInv
  BY StoreInit, StoreNext, PTL DEF Spec

\* Every variable of the store keeps its type, every file that was written holds
\* a picture of its size, and without the codec no stream is on disk.
THEOREM StoreTypeCorrect == Spec => []TypeOK
<1>1. StoreInv => TypeOK
  <2>. SUFFICES ASSUME StoreInv  PROVE TypeOK
    OBVIOUS
  <2>1. /\ <<codecs, ffmpeg>> \in Setups /\ skippedDecode \in BOOLEAN
        /\ returned \in [FrameIDs -> {"no", "ok", "error"}]
        /\ faults \in 0 .. MaxFaults
    BY DEF StoreInv
  <2>2. DOMAIN disk = Files /\ DOMAIN saved = FrameIDs
    BY Arrays
  <2>3. \A file \in Files : disk[file] # Corrupt => DOMAIN disk[file].pix = Cells(disk[file].w, disk[file].h)
    <3>1. Absent.w = 0 /\ Absent.h = 0 /\ Torn.w = 1 /\ Torn.h = 0 /\ DOMAIN Absent.pix = {} /\ Torn.pix = Absent.pix
      BY DEF Absent, Torn
    <3>2. Cells(0, 0) = {} /\ Cells(1, 0) = {}
      BY DEF Cells
    <3>3. \A pic : IsPicture(pic) => DOMAIN pic.pix = Cells(pic.w, pic.h)
      BY DEF IsPicture
    <3>4. \A file \in Files : disk[file] \in {Absent, Torn} \/ disk[file] = Corrupt \/ IsPicture(disk[file])
      BY DEF StoreInv, DiskInv, Content
    <3>. QED  BY <3>1, <3>2, <3>3, <3>4
  <2>4. "h264" \notin codecs => \A f \in FrameIDs : disk[File(f, "h264")] = Absent
    BY Arrays
  <2>5. \A f \in FrameIDs : saved[f] \in {NoFile, File(f, "jpg"), File(f, "h264")}
    BY DEF StoreInv, SavedInv, IsSaved, FilesOf
  <2>6. composite = NoComposite \/
          (composite.file = CompositeJPG /\ composite.frames \in 1 .. Cardinality(FrameIDs))
    BY DEF StoreInv, CompositeInv
  <2>7. ASSUME NEW c \in ReadLoops
        PROVE  /\ call[c].pc \in {"idle", "write", "ffmpeg", "skip", "save"}
               /\ call[c].pc # "idle" => call[c].file \in Files /\ returned[call[c].file.frame] = "no"
    <3>1. CASE call[c] = Idle
      BY <3>1, IdleFacts
    <3>2. CASE InCall(c)
      BY <3>2, FileFacts DEF InCall
    <3>. QED  BY <3>1, <3>2 DEF StoreInv, CallInv
  <2>8. fusion.pc \in {"idle", "load", "write", "set", "ended"}
    BY DEF StoreInv, FusionInv
  <2>. QED  BY <2>1, <2>2, <2>3, <2>4, <2>5, <2>6, <2>7, <2>8 DEF TypeOK
<1>. QED  BY <1>1, StoreInvariant, PTL

\* What GET frames, the status and the report announce is on disk and whole,
\* whatever writes, reads and ffmpeg processes fail, and an undecoded stream is
\* announced only after decodeSkipped was set.
THEOREM AnnouncedStaysWhole == Spec => []AnnouncedIsWhole
<1>1. StoreInv => AnnouncedIsWhole
  <2>. SUFFICES ASSUME StoreInv  PROVE AnnouncedIsWhole
    OBVIOUS
  <2>1. \A f \in FrameIDs : saved[f] # NoFile => IsSaved(f)
    BY DEF StoreInv, SavedInv
  <2>2. \A f \in FrameIDs : saved[f] # NoFile => Whole(disk[saved[f]]) /\ returned[f] # "error"
    BY <2>1, ContentIsWhole DEF IsSaved
  <2>3. composite # NoComposite => Whole(disk[composite.file])
    BY ContentIsWhole DEF StoreInv, CompositeInv
  <2>4. (\E f \in FrameIDs : saved[f].ext = "h264") => skippedDecode /\ ~ffmpeg
    <3>1. NoFile.ext # "h264"
      BY DEF NoFile, File
    <3>. QED  BY <2>1, <3>1 DEF IsSaved, Permitted
  <2>. QED  BY <2>2, <2>3, <2>4 DEF AnnouncedIsWhole
<1>. QED  BY <1>1, StoreInvariant, PTL

\* A step that fuses makes the composite out of pictures that were loaded.
LEMMA FusesMade ==
  ASSUME StoreInv, [Next]_vars, Fuses
  PROVE  /\ Loaded(fusion'.frames) /\ DOMAIN fusion'.frames # {}
         /\ fusion'.out = Made(fusion'.frames)
<1>1. fusion.pc = "load" /\ fusion'.pc = "write"
  BY DEF Fuses
<1>2. CompositeFuses
  <2>1. ~UNCHANGED fusion
    BY <1>1
  <2>2. ~CompositeLists /\ ~SetComposite /\ \A ok \in BOOLEAN : ~CompositeWrites(ok)
    BY <1>1 DEF CompositeLists, SetComposite, CompositeWrites
  <2>3. [Next]_vars => CompositeFuses \/ UNCHANGED fusion
    BY <2>2 DEF Next, vars, OnFrameComplete, WriteBytes, WriteFails, FfmpegDecodes, FfmpegFails,
         SkipDecode, Save
  <2>. QED  BY <2>1, <2>3
<1>3. [NoFuse EXCEPT !.pc = "ended"].pc = "ended"
  BY DEF NoFuse
<1>4. PICK frames : /\ Loaded(frames) /\ DOMAIN frames # {}
                    /\ fusion' = [pc |-> "write", infos |-> fusion.infos, frames |-> frames,
                                   out |-> Made(frames), n |-> Cardinality(DOMAIN SameSize(frames))]
  BY <1>1, <1>2, <1>3, WhatIsFused
<1>5. fusion'.frames = frames /\ fusion'.out = Made(frames)
  BY <1>4
<1>. QED  BY <1>4, <1>5

\* Frames of one still subject, each moved by the shake of the hand, fuse to one
\* of them, whatever their number and the size of the picture.
THEOREM StillSubjectStaysSharp == Spec => StillSubjectKept
<1>1. ASSUME StoreInv, [Next]_vars, Fuses,
             \A i, j \in DOMAIN fusion'.frames : \E d \in Offsets : IsMoved(fusion'.frames[i], fusion'.frames[j], d)
      PROVE  \E i \in DOMAIN fusion'.frames : fusion'.out = fusion'.frames[i]
  BY <1>1, FusesMade, StillSubject
<1>2. StoreInv /\ [Next]_vars =>
        [Fuses => LET frames == fusion'.frames IN
           (\A i, j \in DOMAIN frames : \E d \in Offsets : IsMoved(frames[i], frames[j], d))
             => \E i \in DOMAIN frames : fusion'.out = frames[i]]_vars
  BY <1>1
<1>. QED  BY <1>2, StoreInvariant, PTL DEF Spec, StillSubjectKept

\* When most of the fused frames are one picture, the composite shows it wherever
\* every frame reaches: the median rejects the others, whichever was the reference.
THEOREM MostFramesDecide == Spec => OutliersRejected
<1>1. ASSUME StoreInv, [Next]_vars, Fuses, NEW i \in DOMAIN SameSize(fusion'.frames),
             LET used == SameSize(fusion'.frames) IN
             /\ 2 * Cardinality({j \in DOMAIN used : used[j] = used[i]}) > Cardinality(DOMAIN used)
             /\ IsMoved(used[i], used[i], <<0, 0>>)
      PROVE  \E s \in Offsets : \A p \in DOMAIN fusion'.out.pix :
               (\A d \in Offsets : Moved(p, d) \in DOMAIN fusion'.out.pix)
                 => fusion'.out.pix[p] = SameSize(fusion'.frames)[i].pix[Moved(p, s)]
  BY <1>1, FusesMade, MajorityDecides
<1>2. StoreInv /\ [Next]_vars =>
        [Fuses => LET used == SameSize(fusion'.frames) out == fusion'.out IN
           \A i \in DOMAIN used :
             (2 * Cardinality({j \in DOMAIN used : used[j] = used[i]}) > Cardinality(DOMAIN used)
                /\ IsMoved(used[i], used[i], <<0, 0>>))
               => \E s \in Offsets : \A p \in DOMAIN out.pix :
                    (\A d \in Offsets : Moved(p, d) \in DOMAIN out.pix)
                      => out.pix[p] = used[i].pix[Moved(p, s)]]_vars
  BY <1>1
<1>. QED  BY <1>2, StoreInvariant, PTL DEF Spec, OutliersRejected

\* Each channel of each pixel of the composite is that of a fused frame, one of the
\* size of the first, from no further than maxShift.
THEOREM NoPixelMadeUp == Spec => EveryPixelFromAFrame
<1>1. ASSUME StoreInv, [Next]_vars, Fuses, NEW p \in DOMAIN fusion'.out.pix, NEW c \in Channels
      PROVE  \E i \in DOMAIN SameSize(fusion'.frames), d \in Offsets :
               /\ Moved(p, d) \in DOMAIN SameSize(fusion'.frames)[i].pix
               /\ SameSize(fusion'.frames)[i].pix[Moved(p, d)][c] = fusion'.out.pix[p][c]
  BY <1>1, FusesMade, NothingMadeUp
<1>2. StoreInv /\ [Next]_vars =>
        [Fuses => LET used == SameSize(fusion'.frames) out == fusion'.out IN
           \A p \in DOMAIN out.pix, c \in Channels : \E i \in DOMAIN used, d \in Offsets :
             /\ Moved(p, d) \in DOMAIN used[i].pix
             /\ used[i].pix[Moved(p, d)][c] = out.pix[p][c]]_vars
  BY <1>1
<1>. QED  BY <1>2, StoreInvariant, PTL DEF Spec, EveryPixelFromAFrame

\* compositeFrames is the number of loaded frames of the size of the file it is
\* announced with.
THEOREM CountsTheFused == Spec => CountsWhatItFused
<1>1. ASSUME StoreInv, [Next]_vars, composite' # composite
      PROVE  composite'.frames = Cardinality({i \in DOMAIN fusion.frames :
               /\ fusion.frames[i].w = disk[composite'.file].w
               /\ fusion.frames[i].h = disk[composite'.file].h})
  <2>1. SetComposite
    BY <1>1 DEF Next, vars, OnFrameComplete, WriteBytes, WriteFails, FfmpegDecodes, FfmpegFails,
       SkipDecode, Save, CompositeLists, CompositeFuses, CompositeWrites
  <2>2. /\ fusion.pc = "set" /\ composite'.file = CompositeJPG /\ composite'.frames = fusion.n
    BY <2>1 DEF SetComposite
  <2>3. /\ Loaded(fusion.frames) /\ DOMAIN fusion.frames # {}
        /\ fusion.n = Cardinality(DOMAIN SameSize(fusion.frames))
        /\ fusion.out = Made(fusion.frames) /\ disk[CompositeJPG] = Recode(fusion.out)
    BY <1>1, <2>2 DEF StoreInv, FusionInv
  <2>4. /\ disk[CompositeJPG].w = First(fusion.frames).w
        /\ disk[CompositeJPG].h = First(fusion.frames).h
    BY <2>3, MadeIsPicture, RecodedIsPicture
  <2>5. DOMAIN SameSize(fusion.frames) =
          {i \in DOMAIN fusion.frames : /\ fusion.frames[i].w = First(fusion.frames).w
                                        /\ fusion.frames[i].h = First(fusion.frames).h}
    BY <2>3, SameSizeStacks
  <2>. QED  BY <2>2, <2>3, <2>4, <2>5
<1>2. StoreInv /\ [Next]_vars =>
        [composite' # composite =>
           composite'.frames = Cardinality({i \in DOMAIN fusion.frames :
             /\ fusion.frames[i].w = disk[composite'.file].w
             /\ fusion.frames[i].h = disk[composite'.file].h})]_vars
  BY <1>1
<1>. QED  BY <1>2, StoreInvariant, PTL DEF Spec, CountsWhatItFused
=============================================================================
