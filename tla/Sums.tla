-------------------------------- MODULE Sums --------------------------------
(***************************************************************************)
(* Lemmas about SumFunction of the community modules, the sum of the       *)
(* values of a function with a finite domain, and about functions on       *)
(* 0 .. n that are defined step by step, each value from the one before.   *)
(***************************************************************************)
EXTENDS Integers, FiniteSets, Sequences, Functions, FiniteSetTheorems, WellFoundedInduction, TLAPS

(* F sums g over every subset of S.                                         *)
Additive(F, g, S) ==
  /\ F \in [SUBSET S -> Int] /\ F[{}] = 0
  /\ \A T \in SUBSET S : \A x \in T : F[T] = F[T \ {x}] + g[x]

(* What holds of a set as soon as it holds of what is left when an element  *)
(* is taken out holds of every finite set: a smallest set of which it did   *)
(* not hold could not be.                                                   *)
LEMMA SmallestSubset ==
  ASSUME NEW S, IsFiniteSet(S), NEW B \in SUBSET SUBSET S, B # {}
  PROVE  \E T \in B : \A x \in T : T \ {x} \notin B
<1> DEFINE N == {Cardinality(T) : T \in B}
<1>1. \A T \in B : IsFiniteSet(T) /\ Cardinality(T) \in Nat
  BY FS_Subset, FS_CardinalityType
<1>2. N # {} /\ N \subseteq Nat
  BY <1>1
<1>3. PICK m \in N : \A n \in N : ~ (<<n, m>> \in OpToRel(<, Nat))
  <2> HIDE DEF N
  <2> QED BY <1>2, NatLessThanWellFounded, WFMin
<1>4. \A n \in N : ~ (n < m)
  <2>1. TAKE n \in N
  <2>2. n \in Nat /\ m \in Nat
    BY <1>2, <1>3
  <2> QED BY <1>3, <2>2 DEF OpToRel
<1>5. PICK T \in B : m = Cardinality(T)
  BY <1>3
<1>6. ASSUME NEW x \in T, T \ {x} \in B PROVE FALSE
  <2>1. Cardinality(T \ {x}) = Cardinality(T) - 1
    BY <1>1, <1>5, FS_RemoveElement
  <2>2. Cardinality(T \ {x}) \in N
    BY <1>6
  <2> HIDE DEF N
  <2>3. Cardinality(T) \in Nat
    BY <1>1
  <2> QED BY <1>4, <1>5, <2>1, <2>2, <2>3
<1> QED BY <1>5, <1>6

(* Such an F exists.                                                        *)
LEMMA AdditiveExists ==
  ASSUME NEW S, IsFiniteSet(S), NEW g \in [S -> Int]
  PROVE  \E F : Additive(F, g, S)
<1> DEFINE B == {T \in SUBSET S : ~ \E F : Additive(F, g, T)}
<1> SUFFICES ASSUME B # {} PROVE FALSE
  OBVIOUS
<1>1. PICK T \in B : \A x \in T : T \ {x} \notin B
  BY SmallestSubset
<1>2. CASE T = {}
  <2>1. Additive([R \in SUBSET {} |-> 0], g, {})
    BY DEF Additive
  <2> QED BY <1>1, <1>2, <2>1
<1>3. CASE T # {}
  <2>1. PICK x \in T : TRUE
    BY <1>3
  <2>2. PICK F : Additive(F, g, T \ {x})
    BY <1>1
  <2> DEFINE G == [R \in SUBSET T |-> IF x \in R THEN F[R \ {x}] + g[x] ELSE F[R]]
  <2>3. x \in S /\ g[x] \in Int /\ T \subseteq S
    BY <1>1
  <2>4. \A R \in SUBSET T : R \ {x} \in SUBSET (T \ {x}) /\ (x \notin R => R \in SUBSET (T \ {x}))
    OBVIOUS
  <2>5. \A R \in SUBSET T : G[R] = IF x \in R THEN F[R \ {x}] + g[x] ELSE F[R]
    OBVIOUS
  <2>6. G \in [SUBSET T -> Int]
    BY <2>2, <2>3, <2>4 DEF Additive
  <2>7. G[{}] = 0
    BY <2>2, <2>5 DEF Additive
  <2>8. ASSUME NEW R \in SUBSET T, NEW y \in R PROVE G[R] = G[R \ {y}] + g[y]
    <3>0. R \ {y} \in SUBSET T
      OBVIOUS
    <3>1. CASE x \notin R
      <4>1. G[R] = F[R] /\ G[R \ {y}] = F[R \ {y}]
        BY <2>5, <3>0, <3>1
      <4> QED BY <2>2, <2>4, <3>1, <4>1 DEF Additive
    <3>2. CASE y = x
      <4>1. G[R] = F[R \ {x}] + g[x] /\ G[R \ {y}] = F[R \ {y}]
        BY <2>5, <3>0, <3>2
      <4> QED BY <3>2, <4>1
    <3>3. CASE x \in R /\ y # x
      <4>1. G[R] = F[R \ {x}] + g[x] /\ G[R \ {y}] = F[(R \ {y}) \ {x}] + g[x]
        BY <2>5, <3>0, <3>3
      <4>2. (R \ {y}) \ {x} = (R \ {x}) \ {y} /\ y \in R \ {x}
        BY <3>3
      <4>3. F[R \ {x}] = F[(R \ {x}) \ {y}] + g[y]
        BY <2>2, <2>4, <4>2 DEF Additive
      <4>4. F[(R \ {x}) \ {y}] \in Int
        <5>1. (R \ {x}) \ {y} \in SUBSET (T \ {x})
          OBVIOUS
        <5> QED BY <2>2, <5>1 DEF Additive
      <4>5. g[y] \in Int
        BY <2>3
      <4>6. \A c, d, e \in Int : (c + d) + e = (c + e) + d
        OBVIOUS
      <4> HIDE DEF G
      <4>7. G[R] = (F[(R \ {x}) \ {y}] + g[y]) + g[x]
        BY <4>1, <4>3
      <4>8. G[R \ {y}] + g[y] = (F[(R \ {x}) \ {y}] + g[x]) + g[y]
        BY <4>1, <4>2, Zenon
      <4> QED BY <2>3, <4>4, <4>5, <4>6, <4>7, <4>8, Zenon
    <3> QED BY <3>1, <3>2, <3>3
  <2> HIDE DEF G
  <2>9. Additive(G, g, T)
    BY <2>6, <2>7, <2>8 DEF Additive
  <2> QED BY <1>1, <2>9
<1> QED BY <1>2, <1>3

(* SumFunction is the sum.                                                  *)
LEMMA SumIs ==
  ASSUME NEW S, IsFiniteSet(S), NEW g \in [S -> Int], NEW F, Additive(F, g, S)
  PROVE  SumFunction(g) = F[S]
<1> DEFINE Step(f) == [s \in SUBSET S |->
                IF s = {} THEN 0
                ELSE g[CHOOSE y \in s : TRUE] + f[s \ {CHOOSE y \in s : TRUE}]]
           iter == CHOOSE f : f = Step(f)
<1>1. SumFunction(g) = iter[S]
  BY DEF SumFunction, SumFunctionOnSet, FoldFunctionOnSet, MapThenFoldSet
<1>2. F = Step(F)
  <2>1. ASSUME NEW T \in SUBSET S
        PROVE  F[T] = Step(F)[T]
    <3>1. CASE T = {}
      BY <3>1 DEF Additive
    <3>2. CASE T # {}
      <4> DEFINE y == CHOOSE z \in T : TRUE
      <4>1. y \in T /\ y \in S
        BY <3>2
      <4> HIDE DEF y
      <4>2. F[T] = F[T \ {y}] + g[y] /\ F[T \ {y}] \in Int /\ g[y] \in Int
        BY <4>1 DEF Additive
      <4>3. F[T] = g[y] + F[T \ {y}]
        BY <4>2
      <4> QED BY <3>2, <4>3 DEF y
    <3> QED BY <3>1, <3>2
  <2>2. F \in [SUBSET S -> Int]
    BY DEF Additive
  <2> QED BY <2>1, <2>2
<1>3. iter = Step(iter)
  <2> HIDE DEF Step
  <2> QED BY <1>2
<1> HIDE DEF iter
<1> DEFINE B == {T \in SUBSET S : iter[T] # F[T]}
<1>4. B = {}
  <2> SUFFICES ASSUME B # {} PROVE FALSE
    OBVIOUS
  <2>1. PICK T \in B : \A x \in T : T \ {x} \notin B
    <3>1. B \in SUBSET SUBSET S
      OBVIOUS
    <3> HIDE DEF B
    <3> QED BY <3>1, SmallestSubset
  <2>2. iter[T] = Step(iter)[T] /\ F[T] = Step(F)[T]
    BY <1>2, <1>3
  <2>3. T # {}
    BY <2>1, <2>2
  <2> DEFINE y == CHOOSE z \in T : TRUE
  <2>4. y \in T
    BY <2>3
  <2>5. iter[T] = g[y] + iter[T \ {y}] /\ F[T] = g[y] + F[T \ {y}]
    BY <2>1, <2>2, <2>3
  <2> HIDE DEF y
  <2>6. iter[T \ {y}] = F[T \ {y}]
    BY <2>1, <2>4
  <2> QED BY <2>1, <2>5, <2>6
<1> QED BY <1>1, <1>4

LEMMA SumType ==
  ASSUME NEW S, IsFiniteSet(S), NEW g \in [S -> Int]
  PROVE  SumFunction(g) \in Int
<1>1. PICK F : Additive(F, g, S)
  BY AdditiveExists
<1>2. SumFunction(g) = F[S]
  BY <1>1, SumIs
<1> QED BY <1>1, <1>2 DEF Additive

(* Where one summand changes, the sum changes by as much.                   *)
LEMMA SumChanges ==
  ASSUME NEW S, IsFiniteSet(S), NEW g \in [S -> Int], NEW h \in [S -> Int],
         NEW x \in S, \A y \in S \ {x} : h[y] = g[y]
  PROVE  SumFunction(h) = SumFunction(g) + (h[x] - g[x])
<1>1. PICK F : Additive(F, g, S)
  BY AdditiveExists
<1> DEFINE d == h[x] - g[x]
           H == [T \in SUBSET S |-> IF x \in T THEN F[T] + d ELSE F[T]]
<1>2. F \in [SUBSET S -> Int] /\ d \in Int
  BY <1>1 DEF Additive
<1>3. \A T \in SUBSET S : H[T] = IF x \in T THEN F[T] + d ELSE F[T]
  OBVIOUS
<1>4. H \in [SUBSET S -> Int]
  BY <1>2
<1> HIDE DEF H
<1>5. H[{}] = 0
  BY <1>1, <1>3 DEF Additive
<1>6. ASSUME NEW T \in SUBSET S, NEW y \in T
      PROVE  H[T] = H[T \ {y}] + h[y]
  <2>1. /\ F[T] = F[T \ {y}] + g[y] /\ F[T \ {y}] \in Int /\ g[y] \in Int /\ h[y] \in Int
        /\ T \ {y} \in SUBSET S
    BY <1>1 DEF Additive
  <2>2. CASE y = x
    <3>1. H[T] = F[T] + d /\ H[T \ {y}] = F[T \ {y}]
      BY <1>3, <2>1, <2>2
    <3> QED BY <2>1, <2>2, <3>1
  <2>3. CASE y # x
    <3>1. h[y] = g[y]
      BY <2>3
    <3>2. x \in T => H[T] = F[T] + d /\ H[T \ {y}] = F[T \ {y}] + d
      BY <1>3, <2>1, <2>3
    <3>3. x \notin T => H[T] = F[T] /\ H[T \ {y}] = F[T \ {y}]
      BY <1>3, <2>1, <2>3
    <3> HIDE DEF d
    <3> QED BY <1>2, <2>1, <3>1, <3>2, <3>3
  <2> QED BY <2>2, <2>3
<1>7. Additive(H, h, S)
  BY <1>4, <1>5, <1>6 DEF Additive
<1>8. SumFunction(h) = H[S] /\ SumFunction(g) = F[S]
  BY <1>1, <1>7, SumIs
<1> QED BY <1>3, <1>8
(* A sum of summands of one sign has that sign.                             *)
LEMMA SumSign ==
  ASSUME NEW S, IsFiniteSet(S), NEW g \in [S -> Int]
  PROVE  /\ (\A x \in S : g[x] >= 0) => SumFunction(g) >= 0
         /\ (\A x \in S : g[x] <= 0) => SumFunction(g) <= 0
<1>1. PICK F : Additive(F, g, S)
  BY AdditiveExists
<1>2. SumFunction(g) = F[S]
  BY <1>1, SumIs
<1> DEFINE B == {T \in SUBSET S : ~ /\ (\A x \in S : g[x] >= 0) => F[T] >= 0
                                    /\ (\A x \in S : g[x] <= 0) => F[T] <= 0}
<1>3. B = {}
  <2> SUFFICES ASSUME B # {} PROVE FALSE
    OBVIOUS
  <2>1. PICK T \in B : \A x \in T : T \ {x} \notin B
    <3>1. B \in SUBSET SUBSET S
      OBVIOUS
    <3> HIDE DEF B
    <3> QED BY <3>1, SmallestSubset
  <2>2. T # {}
    <3>1. F[{}] = 0
      BY <1>1 DEF Additive
    <3>2. ~ /\ (\A x \in S : g[x] >= 0) => F[T] >= 0
            /\ (\A x \in S : g[x] <= 0) => F[T] <= 0
      BY <2>1
    <3> HIDE DEF B
    <3> QED BY <3>1, <3>2
  <2>3. PICK y \in T : TRUE
    BY <2>2
  <2>4. F[T] = F[T \ {y}] + g[y] /\ F[T \ {y}] \in Int /\ g[y] \in Int /\ T \ {y} \in SUBSET S
    BY <1>1, <2>3 DEF Additive
  <2>5. T \ {y} \notin B
    BY <2>1, <2>3
  <2>6. y \in S /\ T \in B
    BY <2>1, <2>3
  <2> QED BY <2>4, <2>5, <2>6
<1> QED BY <1>2, <1>3

(* A sum is one of its summands and the sum of the others.                  *)
LEMMA SumSplit ==
  ASSUME NEW S, IsFiniteSet(S), NEW g \in [S -> Int], NEW x \in S
  PROVE  /\ SumFunction(g) = g[x] + SumFunction([y \in S \ {x} |-> g[y]])
         /\ SumFunction([y \in S \ {x} |-> g[y]]) \in Int
<1> DEFINE R == S \ {x}
           h == [y \in R |-> g[y]]
<1>1. IsFiniteSet(R) /\ h \in [R -> Int]
  BY FS_Subset
<1>2. PICK F : Additive(F, g, S)
  BY AdditiveExists
<1> DEFINE G == [T \in SUBSET R |-> F[T]]
<1>3. Additive(G, h, R)
  <2>1. \A T \in SUBSET R : T \in SUBSET S
    OBVIOUS
  <2>2. G \in [SUBSET R -> Int] /\ G[{}] = 0
    BY <1>2, <2>1 DEF Additive
  <2>3. ASSUME NEW T \in SUBSET R, NEW y \in T PROVE G[T] = G[T \ {y}] + h[y]
    BY <1>2, <2>1 DEF Additive
  <2> QED BY <2>2, <2>3 DEF Additive
<1>4. SumFunction(g) = F[S] /\ SumFunction(h) = F[R]
  <2>1. SumFunction(g) = F[S]
    BY <1>2, SumIs
  <2>2. G[R] = F[R]
    OBVIOUS
  <2> HIDE DEF G, h, R
  <2> QED BY <1>1, <1>3, <2>1, <2>2, SumIs
<1>5. F[S] = F[R] + g[x] /\ F[R] \in Int /\ g[x] \in Int
  BY <1>2 DEF Additive
<1> HIDE DEF h, R
<1>6. SumFunction(g) = g[x] + SumFunction(h) /\ SumFunction(h) \in Int
  BY <1>4, <1>5
<1> QED BY <1>6 DEF h, R

-----------------------------------------------------------------------------
(* What does not hold of 0 only if it does not hold of a smaller number     *)
(* first holds of all.                                                      *)
LEMMA Climb ==
  ASSUME NEW n \in Nat, NEW B \in SUBSET (0 .. n),
         0 \notin B, \A k \in 1 .. n : k - 1 \notin B => k \notin B
  PROVE  B = {}
<1> SUFFICES ASSUME B # {} PROVE FALSE
  OBVIOUS
<1>1. B \subseteq Nat
  OBVIOUS
<1>2. PICK m \in B : \A k \in B : ~ (<<k, m>> \in OpToRel(<, Nat))
  BY <1>1, NatLessThanWellFounded, WFMin
<1>3. m \in 1 .. n /\ m - 1 \in Nat /\ m - 1 < m
  BY <1>1
<1>4. m - 1 \in B
  BY <1>2, <1>3
<1>5. <<m - 1, m>> \in OpToRel(<, Nat)
  BY <1>1, <1>3, <1>4 DEF OpToRel
<1> QED BY <1>2, <1>4, <1>5

(* n steps in D from d, each from the value that the one before has left.   *)
Stepwise(f, n, D, d, step) ==
  f \in [0 .. n -> D] /\ f[0] = d /\ \A i \in 1 .. n : f[i] = step[i][f[i - 1]]

LEMMA StepsExist ==
  ASSUME NEW n \in Nat, NEW D, NEW d \in D, NEW step \in [1 .. n -> [D -> D]]
  PROVE  \E f : Stepwise(f, n, D, d, step)
<1> DEFINE Reaches(m, f) == f[0] = d /\ \A i \in 1 .. m : f[i] = step[i][f[i - 1]]
           B == {m \in 0 .. n : ~ \E f \in [0 .. m -> D] : Reaches(m, f)}
<1>1. 0 \notin B
  <2> DEFINE f == [i \in 0 .. 0 |-> d]
  <2>1. f \in [0 .. 0 -> D] /\ Reaches(0, f)
    OBVIOUS
  <2> QED BY <2>1
<1>2. ASSUME NEW m \in 1 .. n, m - 1 \notin B
      PROVE  m \notin B
  <2>1. m - 1 \in 0 .. n
    OBVIOUS
  <2>2. PICK f \in [0 .. m - 1 -> D] : Reaches(m - 1, f)
    BY <1>2, <2>1
  <2> DEFINE g == [i \in 0 .. m |-> IF i = m THEN step[m][f[m - 1]] ELSE f[i]]
  <2>3. m - 1 \in 0 .. m - 1 /\ f[m - 1] \in D
    BY <2>1, <2>2
  <2>4. step[m][f[m - 1]] \in D
    BY <2>3
  <2>5. g \in [0 .. m -> D]
    BY <2>4
  <2>6. g[0] = d
    BY <2>1, <2>2
  <2>7. ASSUME NEW i \in 1 .. m PROVE g[i] = step[i][g[i - 1]]
    <3>1. g[i - 1] = f[i - 1]
      OBVIOUS
    <3>2. CASE i = m
      BY <3>1, <3>2
    <3>3. CASE i # m
      <4>1. i \in 1 .. m - 1 /\ g[i] = f[i]
        BY <3>3
      <4> HIDE DEF g
      <4> QED BY <2>2, <3>1, <4>1
    <3> QED BY <3>2, <3>3
  <2> HIDE DEF g
  <2>8. Reaches(m, g)
    BY <2>6, <2>7
  <2> HIDE DEF Reaches
  <2> QED BY <2>5, <2>8
<1>3. B = {}
  <2>1. B \in SUBSET (0 .. n)
    OBVIOUS
  <2> HIDE DEF B
  <2> QED BY <1>1, <1>2, <2>1, Climb
<1>4. n \in 0 .. n
  OBVIOUS
<1>5. PICK f \in [0 .. n -> D] : Reaches(n, f)
  BY <1>3, <1>4
<1> QED BY <1>5 DEF Stepwise

-----------------------------------------------------------------------------
(* Sums of sequences.                                                       *)
LEMMA SumOfNone ==
  ASSUME NEW g \in [{} -> Int] PROVE SumFunction(g) = 0
<1>1. IsFiniteSet({})
  BY FS_EmptySet
<1>2. PICK F : Additive(F, g, {})
  BY <1>1, AdditiveExists
<1> QED BY <1>1, <1>2, SumIs DEF Additive

LEMMA SumOfAppend ==
  ASSUME NEW s \in Seq(Int), NEW x \in Int
  PROVE  SumFunction(Append(s, x)) = SumFunction(s) + x
<1> DEFINE n == Len(s)
           t == Append(s, x)
<1>0. n \in Nat
  OBVIOUS
<1>1. s \in [1 .. n -> Int] /\ t \in [1 .. n + 1 -> Int] /\ t[n + 1] = x
      /\ \A i \in 1 .. n : t[i] = s[i]
  <2>1. Len(t) = n + 1 /\ t \in Seq(Int)
    OBVIOUS
  <2>0. \A u \in Seq(Int) : u \in [1 .. Len(u) -> Int]
    OBVIOUS
  <2>2. s \in [1 .. n -> Int] /\ t \in [1 .. Len(t) -> Int]
    BY <2>0, <2>1
  <2>3. t[n + 1] = x /\ \A i \in 1 .. n : t[i] = s[i]
    OBVIOUS
  <2> HIDE DEF n, t
  <2>4. t \in [1 .. n + 1 -> Int]
    BY <2>1, <2>2
  <2> QED BY <2>2, <2>3, <2>4
<1>2. IsFiniteSet(1 .. n) /\ IsFiniteSet(1 .. n + 1)
  BY <1>0, FS_Interval
<1> HIDE DEF n, t
<1>3. PICK F : Additive(F, t, 1 .. n + 1)
  BY <1>1, <1>2, AdditiveExists
<1> DEFINE G == [T \in SUBSET (1 .. n) |-> F[T]]
<1>4. Additive(G, s, 1 .. n)
  <2>1. \A T \in SUBSET (1 .. n) : T \in SUBSET (1 .. n + 1)
    BY <1>0
  <2>2. G \in [SUBSET (1 .. n) -> Int] /\ G[{}] = 0
    BY <2>1, <1>3 DEF Additive
  <2>3. ASSUME NEW T \in SUBSET (1 .. n), NEW i \in T PROVE G[T] = G[T \ {i}] + s[i]
    BY <1>1, <1>3, <2>1 DEF Additive
  <2> QED BY <2>2, <2>3 DEF Additive
<1>5. (1 .. n + 1) \ {n + 1} = 1 .. n /\ n + 1 \in 1 .. n + 1
  BY <1>0
<1>6. F[1 .. n + 1] = F[1 .. n] + x
  <2>1. 1 .. n + 1 \in SUBSET (1 .. n + 1)
    OBVIOUS
  <2>2. F[1 .. n + 1] = F[(1 .. n + 1) \ {n + 1}] + t[n + 1]
    BY <1>3, <1>5, <2>1 DEF Additive
  <2> QED BY <1>1, <1>5, <2>2
<1>7. SumFunction(t) = F[1 .. n + 1] /\ SumFunction(s) = G[1 .. n]
  BY <1>1, <1>2, <1>3, <1>4, SumIs
<1> QED BY <1>6, <1>7 DEF t

LEMMA SumOfTail ==
  ASSUME NEW s \in Seq(Int), s # <<>>
  PROVE  SumFunction(s) = s[1] + SumFunction(Tail(s))
<1> DEFINE n == Len(s)
           t == Tail(s)
<1>0. n \in Nat /\ n > 0 /\ n - 1 \in Nat
  OBVIOUS
<1>1. s \in [1 .. n -> Int] /\ t \in [1 .. n - 1 -> Int] /\ \A i \in 1 .. n - 1 : t[i] = s[i + 1]
  <2>1. Len(t) = n - 1 /\ t \in Seq(Int)
    OBVIOUS
  <2>0. \A u \in Seq(Int) : u \in [1 .. Len(u) -> Int]
    OBVIOUS
  <2>2. s \in [1 .. n -> Int] /\ t \in [1 .. Len(t) -> Int]
    BY <2>0, <2>1
  <2>3. \A i \in 1 .. n - 1 : t[i] = s[i + 1]
    OBVIOUS
  <2> HIDE DEF n, t
  <2>4. t \in [1 .. n - 1 -> Int]
    BY <2>1, <2>2
  <2> QED BY <2>2, <2>3, <2>4
<1>2. IsFiniteSet(1 .. n) /\ IsFiniteSet(1 .. n - 1)
  BY <1>0, FS_Interval
<1> HIDE DEF n, t
<1>3. PICK F : Additive(F, s, 1 .. n)
  BY <1>1, <1>2, AdditiveExists
<1> DEFINE Up(T) == {i + 1 : i \in T}
           G == [T \in SUBSET (1 .. n - 1) |-> F[Up(T)]]
<1>4. \A T \in SUBSET (1 .. n - 1) : Up(T) \in SUBSET (1 .. n)
  BY <1>0
<1>5. Additive(G, t, 1 .. n - 1)
  <2>1. G \in [SUBSET (1 .. n - 1) -> Int]
    <3> HIDE DEF Up
    <3> QED BY <1>3, <1>4 DEF Additive
  <2>2. G[{}] = 0
    <3>1. Up({}) = {}
      OBVIOUS
    <3> QED BY <3>1, <1>3 DEF Additive
  <2>3. ASSUME NEW T \in SUBSET (1 .. n - 1), NEW i \in T PROVE G[T] = G[T \ {i}] + t[i]
    <3>1. Up(T \ {i}) = Up(T) \ {i + 1} /\ i + 1 \in Up(T) /\ T \ {i} \in SUBSET (1 .. n - 1)
      BY <1>0
    <3>2. G[T] = F[Up(T)] /\ G[T \ {i}] = F[Up(T \ {i})] /\ t[i] = s[i + 1]
      BY <1>1, <3>1
    <3> HIDE DEF Up, G
    <3>3. F[Up(T)] = F[Up(T) \ {i + 1}] + s[i + 1]
      BY <1>3, <1>4, <3>1 DEF Additive
    <3> QED BY <3>1, <3>2, <3>3
  <2> HIDE DEF G
  <2> QED BY <2>1, <2>2, <2>3 DEF Additive
<1>6. SumFunction(s) = F[1 .. n] /\ SumFunction(t) = G[1 .. n - 1]
  BY <1>1, <1>2, <1>3, <1>5, SumIs
<1>7. Up(1 .. n - 1) = (1 .. n) \ {1}
  <2>1. ASSUME NEW j \in (1 .. n) \ {1} PROVE j \in Up(1 .. n - 1)
    <3>1. j - 1 \in 1 .. n - 1 /\ j = (j - 1) + 1
      BY <1>0
    <3> QED BY <3>1
  <2>2. ASSUME NEW j \in Up(1 .. n - 1) PROVE j \in (1 .. n) \ {1}
    BY <1>0, <2>2
  <2> QED BY <2>1, <2>2
<1>8. F[1 .. n] = F[(1 .. n) \ {1}] + s[1] /\ 1 \in 1 .. n
  <2>1. 1 .. n \in SUBSET (1 .. n) /\ 1 \in 1 .. n
    BY <1>0
  <2> QED BY <1>3, <2>1 DEF Additive
<1>9. F[(1 .. n) \ {1}] \in Int /\ s[1] \in Int
  BY <1>1, <1>3, <1>8 DEF Additive
<1>10. G[1 .. n - 1] = F[Up(1 .. n - 1)]
  OBVIOUS
<1> HIDE DEF G, Up
<1>11. SumFunction(t) = F[(1 .. n) \ {1}]
  BY <1>6, <1>7, <1>10
<1> QED BY <1>6, <1>8, <1>9, <1>11 DEF t
=============================================================================
