----------------------------- MODULE HistoryProofs -----------------------------
(***************************************************************************)
(* The recent history and its Merkle mountain ranges, for every size of    *)
(* the history and any number of blocks.  What the carry, the leaves and   *)
(* the digits of a number are is given by recursive functions; that these  *)
(* exist and what they satisfy is proved by induction over a set of        *)
(* numbers.                                                                *)
(***************************************************************************)
EXTENDS History, FiniteSetTheorems, WellFoundedInduction, TLAPS

\* Induction over 0..n, for a set.
LEMMA InductionTo ==
  ASSUME NEW S, NEW n \in Nat, 0 \in S, \A m \in 0..n : m \in S /\ m < n => m + 1 \in S
  PROVE  \A m \in 0..n : m \in S
<1> DEFINE B == {m \in Nat : m <= n /\ m \notin S}
<1> SUFFICES ASSUME B # {} PROVE FALSE
  OBVIOUS
<1>1. B \subseteq Nat  OBVIOUS
<1> DEFINE R == {p \in Nat \X Nat : p[1] < p[2]}
<1>10. OpToRel(<, Nat) = R  BY Zenon DEF OpToRel
<1>2. IsWellFoundedOn(R, Nat)  BY <1>10, NatLessThanWellFounded, Zenon
<1>3. PICK m \in B : \A k \in B : ~(<<k, m>> \in R)
  <2> HIDE DEF R, B
  <2> QED  BY <1>1, <1>2, WFMin, Zenon
<1>4. \A k \in Nat : k < m => k \notin B  BY <1>1, <1>3, Zenon
<1> QED  BY <1>3, <1>4

\* R is a strict order in which any two of I are related.
Orders(R, I) ==
  /\ \A i \in I : <<i, i>> \notin R
  /\ \A i, j, k \in I : <<i, j>> \in R /\ <<j, k>> \in R => <<i, k>> \in R
  /\ \A i, j \in I : i # j => <<i, j>> \in R \/ <<j, i>> \in R

Before(R, I, i) == {j \in I : <<j, i>> \in R}

\* Every number below |I| is the number of elements before one of I.
LEMMA RankIsOnto ==
  ASSUME NEW I, IsFiniteSet(I), NEW R, Orders(R, I), NEW n \in 1..Cardinality(I)
  PROVE  \E i \in I : Cardinality(Before(R, I, i)) = n - 1
<1> DEFINE P(i) == Before(R, I, i)
           N == 1..Cardinality(I)
           f == [i \in I |-> Cardinality(P(i)) + 1]
<1>1. Cardinality(I) \in Nat  BY FS_CardinalityType, Zenon
<1>2. IsFiniteSet(N) /\ Cardinality(N) = Cardinality(I)
  <2>1. IsFiniteSet(N) /\ Cardinality(N) = IF 1 > Cardinality(I) THEN 0
                                           ELSE Cardinality(I) - 1 + 1
    BY <1>1, FS_Interval, SMTT(30)
  <2> QED  BY <1>1, <2>1
<1>3. ASSUME NEW i \in I
      PROVE  /\ IsFiniteSet(P(i))
             /\ Cardinality(P(i)) \in Nat
             /\ Cardinality(P(i)) + 1 \in N
  <2>1. P(i) \in SUBSET (I \ {i})  BY DEF Orders, Before
  <2>2. IsFiniteSet(I \ {i}) /\ Cardinality(I \ {i}) = Cardinality(I) - 1
    BY FS_RemoveElement, Zenon
  <2>3. IsFiniteSet(P(i)) /\ Cardinality(P(i)) <= Cardinality(I \ {i})
    BY <2>1, <2>2, FS_Subset, Zenon
  <2>4. Cardinality(P(i)) \in Nat  BY <2>3, FS_CardinalityType, Zenon
  <2> DEFINE x == Cardinality(P(i))
             y == Cardinality(I \ {i})
  <2> HIDE DEF P
  <2>5. x \in Nat /\ x <= y /\ y = Cardinality(I) - 1  BY <2>2, <2>3, <2>4
  <2> HIDE DEF x, y
  <2>6. x + 1 \in N  BY <1>1, <2>5
  <2> QED  BY <2>3, <2>4, <2>6 DEF x
<1>4. ASSUME NEW i \in I, NEW j \in I, <<i, j>> \in R
      PROVE  Cardinality(P(i)) # Cardinality(P(j))
  <2>1. P(i) \in SUBSET P(j)  BY <1>4 DEF Orders, Before
  <2>2. P(i) # P(j)  BY <1>4, Zenon DEF Orders, Before
  <2> HIDE DEF P
  <2> QED  BY <1>3, <2>1, <2>2, FS_Subset, Zenon
<1>5. f \in Injection(I, N)
  <2>1. f \in [I -> N]
    <3> HIDE DEF P, N
    <3> QED  BY <1>3
  <2>2. ASSUME NEW i \in I, NEW j \in I, i # j  PROVE f[i] # f[j]
    <3>1. Cardinality(P(i)) # Cardinality(P(j))  BY <1>4, <2>2, Zenon DEF Orders
    <3>2. Cardinality(P(i)) \in Nat /\ Cardinality(P(j)) \in Nat  BY <1>3
    <3> HIDE DEF P
    <3> QED  BY <3>1, <3>2
  <2> HIDE DEF f, N
  <2> QED  BY <2>1, <2>2 DEF Injection, IsInjective
<1>6. f \in Surjection(I, N)
  <2> HIDE DEF f, N
  <2> QED  BY <1>2, <1>5, FS_Injection, Zenon
<1>7. PICK i \in I : f[i] = n
  <2> HIDE DEF f
  <2> QED  BY <1>6 DEF Surjection
<1>8. Cardinality(P(i)) \in Nat  BY <1>3
<1>9. Cardinality(P(i)) = n - 1
  <2> HIDE DEF P
  <2> QED  BY <1>7, <1>8
<1> QED  BY <1>9

\* Induction over the numbers, for a set.
LEMMA InductionOver ==
  ASSUME NEW S, 0 \in S, \A m \in Nat : m \in S => m + 1 \in S
  PROVE  \A m \in Nat : m \in S
<1> TAKE n \in Nat
<1>1. \A m \in 0..n : m \in S /\ m < n => m + 1 \in S  OBVIOUS
<1>2. \A m \in 0..n : m \in S  BY <1>1, InductionTo
<1> QED  BY <1>2

\* g holds the first n + 1 values of the recursion from v with the given steps.
UpTo(g, n, v, step) ==
  /\ g[0] = v
  /\ \A m \in 0..n - 1 : g[m + 1] = step[m + 1][g[m]]

\* f is the whole recursion, or its first N + 1 values, with values in V.
Solves(f, V, v, step) ==
  /\ f \in [Nat -> V] /\ f[0] = v
  /\ \A n \in Nat : f[n + 1] = step[n + 1][f[n]]

SolvesTo(f, N, V, v, step) ==
  /\ f \in [0..N -> V] /\ f[0] = v
  /\ \A n \in 1..N : f[n] = step[n][f[n - 1]]

\* A recursion over the numbers has a solution.
LEMMA RecursionOverNat ==
  ASSUME NEW V, NEW v \in V, NEW step \in [Nat -> [V -> V]]
  PROVE  \E f : Solves(f, V, v, step)
<1> DEFINE G(n) == {g \in [Nat -> V] : UpTo(g, n, v, step)}
           S == {n \in Nat : G(n) # {}}
<1>1. \A n \in Nat : G(n) # {}
  <2>1. 0 \in S
    <3> DEFINE g == [n \in Nat |-> v]
    <3>1. g \in G(0)  BY DEF UpTo
    <3> HIDE DEF G
    <3> QED  BY <3>1
  <2>2. ASSUME NEW n \in Nat, n \in S  PROVE n + 1 \in S
    <3>1. PICK g \in [Nat -> V] : UpTo(g, n, v, step)  BY <2>2
    <3> DEFINE h == [g EXCEPT ![n + 1] = step[n + 1][g[n]]]
    <3>2. h \in [Nat -> V]  BY <3>1
    <3>3. h[0] = v  BY <3>1 DEF UpTo
    <3>4. \A m \in 0..n : h[m] = g[m]  BY <3>1
    <3>5. h[n + 1] = step[n + 1][g[n]]  BY <3>1
    <3> HIDE DEF h
    <3>6. ASSUME NEW m \in 0..(n + 1) - 1  PROVE h[m + 1] = step[m + 1][h[m]]
      <4>1. CASE m = n  BY <3>4, <3>5, <4>1
      <4>2. CASE m \in 0..n - 1
        <5>1. m \in 0..n /\ m + 1 \in 0..n  BY <4>2
        <5> QED  BY <3>1, <3>4, <4>2, <5>1 DEF UpTo
      <4> QED  BY <4>1, <4>2
    <3>7. UpTo(h, n + 1, v, step)  BY <3>3, <3>6 DEF UpTo
    <3>8. h \in G(n + 1)  BY <3>2, <3>7
    <3> HIDE DEF G
    <3> QED  BY <3>8
  <2> HIDE DEF S
  <2>3. \A n \in Nat : n \in S  BY <2>1, <2>2, InductionOver
  <2> QED  BY <2>3 DEF S
<1>2. ASSUME NEW n \in Nat, NEW g \in G(n), NEW h \in G(n + 1)  PROVE g[n] = h[n]
  <2> DEFINE T == {m \in 0..n : g[m] = h[m]}
  <2>1. 0 \in T  BY DEF UpTo
  <2>2. ASSUME NEW m \in 0..n, m \in T, m < n  PROVE m + 1 \in T
    <3>1. m \in 0..n - 1 /\ m \in 0..(n + 1) - 1 /\ m + 1 \in 0..n  BY <2>2
    <3>2. g[m + 1] = step[m + 1][g[m]]  BY <3>1 DEF UpTo
    <3>3. h[m + 1] = step[m + 1][h[m]]  BY <3>1 DEF UpTo
    <3> QED  BY <2>2, <3>1, <3>2, <3>3
  <2> HIDE DEF T, G
  <2>3. \A m \in 0..n : m \in T  BY <2>1, <2>2, InductionTo
  <2> QED  BY <2>3 DEF T
<1> DEFINE c(n) == CHOOSE g \in G(n) : TRUE
           f == [n \in Nat |-> c(n)[n]]
<1>3. \A n \in Nat : c(n) \in G(n)
  <2> HIDE DEF G
  <2> QED  BY <1>1
<1> HIDE DEF c
<1>4. f \in [Nat -> V]
  <2>1. \A n \in Nat : c(n) \in [Nat -> V]  BY <1>3
  <2> QED  BY <2>1
<1>5. f[0] = v  BY <1>3 DEF UpTo
<1>6. ASSUME NEW n \in Nat  PROVE f[n + 1] = step[n + 1][f[n]]
  <2>1. n + 1 \in Nat /\ n \in 0..(n + 1) - 1  OBVIOUS
  <2>2. c(n + 1)[n + 1] = step[n + 1][c(n + 1)[n]]  BY <1>3, <2>1 DEF UpTo
  <2>3. c(n)[n] = c(n + 1)[n]
    <3> HIDE DEF G
    <3> QED  BY <1>2, <1>3, <2>1
  <2> QED  BY <2>1, <2>2, <2>3
<1> HIDE DEF f
<1> QED  BY <1>4, <1>5, <1>6 DEF Solves

------------------------------------------------------------------------------
\* The recursive definitions of the reference have the values they are written for.
LEMMA SizeDef ==
  /\ size \in [Nat -> Nat]
  /\ size[0] = 1 /\ \A n \in Nat : size[n + 1] = 2 * size[n]
<1> DEFINE step == [n \in Nat |-> [x \in Nat |-> 2 * x]]
<1>1. PICK f : Solves(f, Nat, 1, step)
  <2>1. step \in [Nat -> [Nat -> Nat]] /\ 1 \in Nat  OBVIOUS
  <2> HIDE DEF step
  <2> QED  BY <2>1, RecursionOverNat, Zenon
<1>2. f \in [Nat -> Nat] /\ f[0] = 1 /\ \A n \in Nat : f[n + 1] = 2 * f[n]
  <2>1. f \in [Nat -> Nat] /\ f[0] = 1  BY <1>1 DEF Solves
  <2>2. ASSUME NEW n \in Nat  PROVE f[n + 1] = 2 * f[n]
    <3>1. n + 1 \in Nat /\ f[n] \in Nat  BY <2>1
    <3>2. f[n + 1] = step[n + 1][f[n]]  BY <1>1, Zenon DEF Solves
    <3> QED  BY <3>1, <3>2
  <2> QED  BY <2>1, <2>2
<1> HIDE DEF step
<1>3. \A n \in Nat : f[n] = IF n = 0 THEN 1 ELSE 2 * f[n - 1]
  <2> TAKE n \in Nat
  <2>1. CASE n = 0  BY <1>2, <2>1
  <2>2. CASE n # 0
    <3>1. n - 1 \in Nat /\ (n - 1) + 1 = n  BY <2>2
    <3>2. f[(n - 1) + 1] = 2 * f[n - 1]  BY <1>2, <3>1
    <3> QED  BY <2>2, <3>1, <3>2
  <2> QED  BY <2>1, <2>2
<1>4. f = [n \in Nat |-> IF n = 0 THEN 1 ELSE 2 * f[n - 1]]  BY <1>2, <1>3
<1>5. size = [n \in Nat |-> IF n = 0 THEN 1 ELSE 2 * size[n - 1]]  BY <1>4 DEF size
<1>6. size[0] = 1  BY <1>5
<1>7. \A n \in Nat : size[n + 1] = 2 * size[n]
  <2> TAKE n \in Nat
  <2>1. n + 1 \in Nat /\ n + 1 # 0 /\ (n + 1) - 1 = n  OBVIOUS
  <2>2. size[n + 1] = 2 * size[(n + 1) - 1]  BY <1>5, <2>1
  <2> QED  BY <2>1, <2>2
<1>8. \A n \in Nat : size[n] \in Nat
  <2> DEFINE S == {n \in Nat : size[n] \in Nat}
  <2>1. 0 \in S  BY <1>6
  <2>2. \A n \in Nat : n \in S => n + 1 \in S  BY <1>7
  <2> HIDE DEF S
  <2>3. \A n \in Nat : n \in S  BY <2>1, <2>2, InductionOver
  <2> QED  BY <2>3 DEF S
<1>9. size = [n \in Nat |-> size[n]]  BY <1>5, Zenon
<1> QED  BY <1>6, <1>7, <1>8, <1>9, Zenon

\* The function halved(k) as its definition says.
LEMMA HalvedDef ==
  ASSUME NEW k \in Nat
  PROVE  /\ \A n \in Nat : halved(k)[n] \in Nat
         /\ halved(k)[0] = k
         /\ \A n \in Nat : halved(k)[n + 1] = halved(k)[n] \div 2
<1> DEFINE step == [n \in Nat |-> [x \in Nat |-> x \div 2]]
           h == halved(k)
<1>1. PICK f : Solves(f, Nat, k, step)
  <2>1. step \in [Nat -> [Nat -> Nat]]  OBVIOUS
  <2> HIDE DEF step
  <2> QED  BY <2>1, RecursionOverNat, Zenon
<1>2. f \in [Nat -> Nat] /\ f[0] = k /\ \A n \in Nat : f[n + 1] = f[n] \div 2
  <2>1. f \in [Nat -> Nat] /\ f[0] = k  BY <1>1 DEF Solves
  <2>2. ASSUME NEW n \in Nat  PROVE f[n + 1] = f[n] \div 2
    <3>1. n + 1 \in Nat /\ f[n] \in Nat  BY <2>1
    <3>2. f[n + 1] = step[n + 1][f[n]]  BY <1>1, Zenon DEF Solves
    <3> QED  BY <3>1, <3>2
  <2> QED  BY <2>1, <2>2
<1> HIDE DEF step
<1>3. \A n \in Nat : f[n] = IF n = 0 THEN k ELSE f[n - 1] \div 2
  <2> TAKE n \in Nat
  <2>1. CASE n = 0  BY <1>2, <2>1
  <2>2. CASE n # 0
    <3>1. n - 1 \in Nat /\ (n - 1) + 1 = n  BY <2>2
    <3>2. f[(n - 1) + 1] = f[n - 1] \div 2  BY <1>2, <3>1
    <3> QED  BY <2>2, <3>1, <3>2
  <2> QED  BY <2>1, <2>2
<1>4. f = [n \in Nat |-> IF n = 0 THEN k ELSE f[n - 1] \div 2]  BY <1>2, <1>3
<1>5. h = [n \in Nat |-> IF n = 0 THEN k ELSE h[n - 1] \div 2]  BY <1>4 DEF halved
<1> HIDE DEF h
<1>6. h[0] = k  BY <1>5
<1>7. \A n \in Nat : h[n + 1] = h[n] \div 2
  <2> TAKE n \in Nat
  <2>1. n + 1 \in Nat /\ n + 1 # 0 /\ (n + 1) - 1 = n  OBVIOUS
  <2>2. h[n + 1] = h[(n + 1) - 1] \div 2  BY <1>5, <2>1
  <2> QED  BY <2>1, <2>2
<1>8. \A n \in Nat : h[n] \in Nat
  <2> DEFINE S == {n \in Nat : h[n] \in Nat}
  <2>1. 0 \in S  BY <1>6
  <2>2. \A n \in Nat : n \in S => n + 1 \in S  BY <1>7
  <2> HIDE DEF S
  <2>3. \A n \in Nat : n \in S  BY <2>1, <2>2, InductionOver
  <2> QED  BY <2>3 DEF S
<1> QED  BY <1>6, <1>7, <1>8 DEF h

\* A recursion over 0..n.
LEMMA RecursionTo ==
  ASSUME NEW V, NEW v \in V, NEW N \in Nat, NEW step \in [1..N -> [V -> V]]
  PROVE  \E f : SolvesTo(f, N, V, v, step)
<1> DEFINE all == [n \in Nat |-> IF n \in 1..N THEN step[n] ELSE [x \in V |-> x]]
<1>1. all \in [Nat -> [V -> V]]  OBVIOUS
<1>2. \A n \in 1..N : all[n] = step[n]  OBVIOUS
<1> HIDE DEF all
<1>3. PICK f : Solves(f, V, v, all)  BY <1>1, RecursionOverNat
<1> DEFINE g == [n \in 0..N |-> f[n]]
<1>4. g \in [0..N -> V] /\ g[0] = v  BY <1>3 DEF Solves
<1>5. ASSUME NEW n \in 1..N  PROVE g[n] = step[n][g[n - 1]]
  <2>1. n - 1 \in Nat /\ n - 1 \in 0..N /\ n \in 0..N /\ (n - 1) + 1 = n  OBVIOUS
  <2>2. f[(n - 1) + 1] = all[(n - 1) + 1][f[n - 1]]  BY <1>3, <2>1, Zenon DEF Solves
  <2> QED  BY <1>2, <2>1, <2>2
<1> HIDE DEF g
<1> QED  BY <1>4, <1>5 DEF SolvesTo

\* Ranges with leaves in E.
Peaks(E) == Seq(Seq(E) \cup {None})

\* The leaves of a range, peak by peak.
LEMMA LeavesDef ==
  ASSUME NEW peaks \in Peaks(Nat)
  PROVE  \E l \in [0..Len(peaks) -> Seq(Nat)] :
           /\ l[0] = <<>>
           /\ \A n \in 1..Len(peaks) :
                l[n] = (IF peaks[n] = None THEN <<>> ELSE peaks[n]) \o l[n - 1]
           /\ leaves(peaks) = l[Len(peaks)]
<1> DEFINE N == Len(peaks)
           V == Seq(Nat)
           p(n) == IF peaks[n] = None THEN <<>> ELSE peaks[n]
           step == [n \in 1..N |-> [x \in V |-> p(n) \o x]]
<1>1. N \in Nat /\ \A n \in 1..N : p(n) \in V  BY DEF Peaks
<1>2. PICK f : SolvesTo(f, N, V, <<>>, step)
  <2>1. step \in [1..N -> [V -> V]]
    <3> HIDE DEF p, N
    <3> QED  BY <1>1
  <2>2. <<>> \in V  OBVIOUS
  <2> HIDE DEF step, V, N
  <2> QED  BY <1>1, <2>1, <2>2, RecursionTo
<1>3. f \in [0..N -> V] /\ f[0] = <<>> /\ \A n \in 1..N : f[n] = p(n) \o f[n - 1]
  <2>1. f \in [0..N -> V] /\ f[0] = <<>>  BY <1>2 DEF SolvesTo
  <2>2. ASSUME NEW n \in 1..N  PROVE f[n] = p(n) \o f[n - 1]
    <3>1. f[n - 1] \in V  BY <1>1, <2>1
    <3>2. f[n] = step[n][f[n - 1]]  BY <1>2, Zenon DEF SolvesTo
    <3> HIDE DEF p, N, V
    <3> QED  BY <3>1, <3>2
  <2> QED  BY <2>1, <2>2, Zenon
<1> HIDE DEF step
<1>4. f = [n \in 0..N |-> IF n = 0 THEN <<>> ELSE p(n) \o f[n - 1]]
  <2>1. \A n \in 0..N : f[n] = IF n = 0 THEN <<>> ELSE p(n) \o f[n - 1]
    <3> TAKE n \in 0..N
    <3>1. n # 0 => n \in 1..N  BY <1>1
    <3> HIDE DEF p
    <3> QED  BY <1>3, <3>1
  <2> HIDE DEF p
  <2> QED  BY <1>3, <2>1
<1> DEFINE l == CHOOSE g : g = [n \in 0..N |-> IF n = 0 THEN <<>> ELSE p(n) \o g[n - 1]]
<1>5. l = [n \in 0..N |-> IF n = 0 THEN <<>> ELSE p(n) \o l[n - 1]]
  <2> HIDE DEF p
  <2> QED  BY <1>4, Zenon
<1>6. leaves(peaks) = l[N]  BY DEF leaves
<1> HIDE DEF l, p
<1>7. l[0] = <<>> /\ \A n \in 1..N : l[n] = p(n) \o l[n - 1]
  <2>1. 0 \in 0..N  BY <1>1
  <2>2. \A n \in 1..N : n \in 0..N /\ n # 0  BY <1>1
  <2> HIDE DEF N
  <2> QED  BY <1>5, <2>1, <2>2, Zenon
<1>8. \A n \in 0..N : l[n] \in V
  <2> DEFINE S == {n \in 0..N : l[n] \in V}
  <2>1. 0 \in S
    <3>1. 0 \in 0..N /\ <<>> \in V  BY <1>1
    <3> HIDE DEF N, V
    <3> QED  BY <1>7, <3>1
  <2>2. ASSUME NEW n \in 0..N, n \in S, n < N  PROVE n + 1 \in S
    <3>1. n + 1 \in 1..N /\ n + 1 \in 0..N /\ (n + 1) - 1 = n  BY <1>1, <2>2
    <3>2. l[n + 1] = p(n + 1) \o l[n]  BY <1>7, <3>1, Zenon
    <3>3. p(n + 1) \in V /\ l[n] \in V  BY <1>1, <2>2, <3>1
    <3>4. p(n + 1) \o l[n] \in V  BY <3>3
    <3> HIDE DEF N, V
    <3> QED  BY <3>1, <3>2, <3>4, Zenon
  <2> HIDE DEF S
  <2>3. \A n \in 0..N : n \in S  BY <1>1, <2>1, <2>2, InductionTo, Zenon
  <2> QED  BY <2>3 DEF S
<1>9. l \in [0..N -> V]  BY <1>5, <1>8
<1> QED  BY <1>6, <1>7, <1>9, Zenon DEF p

------------------------------------------------------------------------------
\* The carry stops at the first free place.
LEMMA CarriesDef ==
  ASSUME NEW E, NEW peaks \in Peaks(E)
  PROVE  /\ carries(peaks) \in 0..Len(peaks)
         /\ \A i \in 1..carries(peaks) : peaks[i] # None
         /\ carries(peaks) < Len(peaks) => peaks[carries(peaks) + 1] = None
<1> DEFINE N == Len(peaks)
           Stops(n) == /\ \A i \in 1..n : peaks[i] # None
                       /\ n < N => peaks[n + 1] = None
<1>1. N \in Nat  BY DEF Peaks
<1> HIDE DEF N
<1>2. \E n \in 0..N : Stops(n)
  <2> SUFFICES ASSUME \A n \in 0..N : ~Stops(n)  PROVE FALSE
    OBVIOUS
  <2> DEFINE S == {m \in 0..N : \A i \in 1..m : peaks[i] # None}
  <2>1. 0 \in S  BY <1>1
  <2>2. ASSUME NEW m \in 0..N, m \in S, m < N  PROVE m + 1 \in S
    <3>1. peaks[m + 1] # None  BY <2>2
    <3>2. \A i \in 1..m + 1 : i \in 1..m \/ i = m + 1  BY <1>1
    <3>3. m + 1 \in 0..N  BY <1>1, <2>2
    <3> QED  BY <2>2, <3>1, <3>2, <3>3
  <2> HIDE DEF S
  <2>3. \A m \in 0..N : m \in S  BY <1>1, <2>1, <2>2, InductionTo
  <2>4. N \in S /\ N \in 0..N  BY <1>1, <2>3
  <2>5. Stops(N)  BY <1>1, <2>4 DEF S
  <2> HIDE DEF Stops
  <2> QED  BY <2>4, <2>5
<1>3. carries(peaks) = CHOOSE n \in 0..N : Stops(n)  BY DEF carries, N
<1> HIDE DEF Stops
<1>4. carries(peaks) \in 0..N /\ Stops(carries(peaks))  BY <1>2, <1>3
<1> QED  BY <1>4 DEF Stops, N

\* The carry through the peaks that are there, as its definition says.
CarriedOver(c, E, peaks, v) ==
  /\ c \in [0..carries(peaks) -> Seq(E)]
  /\ c[0] = v
  /\ \A n \in 1..carries(peaks) : c[n] = peaks[n] \o c[n - 1]

LEMMA CarriedDef ==
  ASSUME NEW E, NEW peaks \in Peaks(E), NEW v \in Seq(E)
  PROVE  CarriedOver(carried(peaks, v), E, peaks, v)
<1> DEFINE N == carries(peaks)
           V == Seq(E)
           step == [n \in 1..N |-> [x \in V |-> peaks[n] \o x]]
           c == carried(peaks, v)
<1>1. N \in Nat /\ \A n \in 1..N : peaks[n] \in V
  <2>1. N \in 0..Len(peaks) /\ Len(peaks) \in Nat /\ \A n \in 1..N : peaks[n] # None
    BY CarriesDef DEF Peaks
  <2>2. \A n \in 1..Len(peaks) : peaks[n] \in V \cup {None}  BY DEF Peaks
  <2> HIDE DEF N, V
  <2> QED  BY <2>1, <2>2
<1> HIDE DEF N
<1>2. PICK f : SolvesTo(f, N, V, v, step)
  <2>1. step \in [1..N -> [V -> V]]  BY <1>1
  <2>2. v \in V  OBVIOUS
  <2> HIDE DEF step, V
  <2> QED  BY <1>1, <2>1, <2>2, RecursionTo
<1>3. f \in [0..N -> V] /\ f[0] = v /\ \A n \in 1..N : f[n] = peaks[n] \o f[n - 1]
  <2>1. f \in [0..N -> V] /\ f[0] = v  BY <1>2 DEF SolvesTo
  <2>2. ASSUME NEW n \in 1..N  PROVE f[n] = peaks[n] \o f[n - 1]
    <3>1. f[n - 1] \in V  BY <1>1, <2>1
    <3>2. f[n] = step[n][f[n - 1]]  BY <1>2, Zenon DEF SolvesTo
    <3> HIDE DEF V
    <3> QED  BY <3>1, <3>2, Zenon
  <2> QED  BY <2>1, <2>2, Zenon
<1> HIDE DEF step
<1>4. f = [n \in 0..N |-> IF n = 0 THEN v ELSE peaks[n] \o f[n - 1]]
  <2>1. \A n \in 0..N : f[n] = IF n = 0 THEN v ELSE peaks[n] \o f[n - 1]
    <3> TAKE n \in 0..N
    <3>1. n # 0 => n \in 1..N  BY <1>1
    <3> QED  BY <1>3, <3>1, Zenon
  <2> QED  BY <1>3, <2>1, Zenon
<1>5. c = CHOOSE g : g = [n \in 0..N |-> IF n = 0 THEN v ELSE peaks[n] \o g[n - 1]]
  BY DEF carried, hash, N
<1> HIDE DEF c
<1>6. c = [n \in 0..N |-> IF n = 0 THEN v ELSE peaks[n] \o c[n - 1]]
  BY <1>4, <1>5, Zenon
<1>7. c[0] = v /\ \A n \in 1..N : c[n] = peaks[n] \o c[n - 1]
  <2>1. 0 \in 0..N  BY <1>1
  <2>2. \A n \in 1..N : n \in 0..N /\ n # 0  BY <1>1
  <2> QED  BY <1>6, <2>1, <2>2, Zenon
<1>8. \A n \in 0..N : c[n] \in V
  <2> DEFINE S == {n \in 0..N : c[n] \in V}
  <2>1. 0 \in S
    <3>1. 0 \in 0..N /\ v \in V  BY <1>1
    <3> HIDE DEF V
    <3> QED  BY <1>7, <3>1
  <2>2. ASSUME NEW n \in 0..N, n \in S, n < N  PROVE n + 1 \in S
    <3>1. n + 1 \in 1..N /\ n + 1 \in 0..N /\ (n + 1) - 1 = n  BY <1>1, <2>2
    <3>2. c[n + 1] = peaks[n + 1] \o c[n]  BY <1>7, <3>1, Zenon
    <3>3. peaks[n + 1] \in V /\ c[n] \in V  BY <1>1, <2>2, <3>1
    <3>4. peaks[n + 1] \o c[n] \in V  BY <3>3
    <3> HIDE DEF V
    <3> QED  BY <3>1, <3>2, <3>4, Zenon
  <2> HIDE DEF S
  <2>3. \A n \in 0..N : n \in S  BY <1>1, <2>1, <2>2, InductionTo, Zenon
  <2> QED  BY <2>3 DEF S
<1>9. c \in [0..N -> V]  BY <1>6, <1>8
<1> QED  BY <1>7, <1>9, Zenon DEF N, c, CarriedOver

\* The peaks after a carry: free up to its end, then the new peak.
LEMMA PeaksAfter ==
  ASSUME NEW E, NEW peaks \in Peaks(E), NEW v \in Seq(E)
  PROVE  LET n == carries(peaks)
             new == mathcal_A(peaks, v)
         IN  /\ new \in Peaks(E)
             /\ Len(new) = IF n = Len(peaks) THEN n + 1 ELSE Len(peaks)
             /\ \A i \in 1..n : new[i] = None
             /\ new[n + 1] = carried(peaks, v)[n] /\ new[n + 1] \in Seq(E)
             /\ \A i \in n + 2..Len(peaks) : new[i] = peaks[i]
<1> DEFINE n == carries(peaks)
           new == mathcal_A(peaks, v)
           N == Len(peaks)
           M == IF n = N THEN n + 1 ELSE N
           top == carried(peaks, v)[n]
           W == Seq(E) \cup {None}
<1>1. N \in Nat /\ n \in 0..N  BY CarriesDef DEF Peaks
<1>2. top \in Seq(E)
  <2>1. carried(peaks, v) \in [0..n -> Seq(E)]  BY CarriedDef, Zenon DEF CarriedOver
  <2>2. n \in 0..n  BY <1>1
  <2> QED  BY <2>1, <2>2
<1>3. new = [i \in 1..M |-> IF i <= n THEN None ELSE IF i = n + 1 THEN top ELSE peaks[i]]
  BY DEF mathcal_A
<1>4. \A i \in 1..N : peaks[i] \in W  BY DEF Peaks
<1>5. top \in W /\ None \in W  BY <1>2
<1> HIDE DEF n, new, top
<1>6. M \in Nat /\ M >= n + 1 /\ M >= N /\ (M > N => M = n + 1)  BY <1>1
<1>7. new \in [1..M -> W]
  <2> SUFFICES ASSUME NEW i \in 1..M
               PROVE  (IF i <= n THEN None ELSE IF i = n + 1 THEN top ELSE peaks[i]) \in W
    BY <1>3
  <2>1. i > n + 1 => i \in 1..N  BY <1>1, <1>6
  <2> HIDE DEF W, M, N
  <2> QED  BY <1>1, <1>4, <1>5, <2>1
<1>8. new \in Seq(W) /\ Len(new) = M  BY <1>6, <1>7
<1>9. /\ \A i \in 1..n : new[i] = None
      /\ new[n + 1] = top
      /\ \A i \in n + 2..N : new[i] = peaks[i]
  <2>1. \A i \in 1..n : i \in 1..M /\ i <= n  BY <1>1, <1>6
  <2>2. n + 1 \in 1..M /\ ~(n + 1 <= n)  BY <1>1, <1>6
  <2>3. \A i \in n + 2..N : i \in 1..M /\ ~(i <= n) /\ i # n + 1  BY <1>1, <1>6
  <2> HIDE DEF M, N
  <2> QED  BY <1>3, <2>1, <2>2, <2>3
<1> QED  BY <1>2, <1>8, <1>9 DEF Peaks, n, new, top

\* Concatenation of sequences of numbers.
LEMMA Associative ==
  ASSUME NEW a \in Seq(Nat), NEW b \in Seq(Nat), NEW c \in Seq(Nat)
  PROVE  a \o (b \o c) = (a \o b) \o c
BY SMTT(20)

LEMMA Concatenation ==
  ASSUME NEW a \in Seq(Nat), NEW b \in Seq(Nat)
  PROVE  a \o <<>> = a /\ <<>> \o a = a /\ Len(a \o b) = Len(a) + Len(b)
OBVIOUS

\* The new leaf comes after all others.
LEMMA LeavesAfter ==
  ASSUME NEW peaks \in Peaks(Nat), NEW x \in Nat
  PROVE  /\ leaves(mathcal_A(peaks, <<x>>)) = leaves(peaks) \o <<x>>
         /\ leaves(peaks) \in Seq(Nat)
<1> DEFINE v == <<x>>
           n == carries(peaks)
           new == mathcal_A(peaks, v)
           c == carried(peaks, v)
           N == Len(peaks)
           V == Seq(Nat)
<1>1. v \in V /\ N \in Nat  BY DEF Peaks
<1> HIDE DEF v
<1>2. /\ n \in 0..N /\ \A i \in 1..n : peaks[i] # None
      /\ n < N => peaks[n + 1] = None
  BY CarriesDef
<1>3. c \in [0..n -> V] /\ c[0] = v /\ \A i \in 1..n : c[i] = peaks[i] \o c[i - 1]
  <2>1. CarriedOver(c, Nat, peaks, v)  BY <1>1, CarriedDef, Zenon
  <2> QED  BY <2>1, Zenon DEF CarriedOver
<1>4. /\ new \in Peaks(Nat)
      /\ Len(new) = IF n = N THEN n + 1 ELSE N
      /\ \A i \in 1..n : new[i] = None
      /\ new[n + 1] = c[n] /\ new[n + 1] \in V
      /\ \A i \in n + 2..N : new[i] = peaks[i]
  BY <1>1, PeaksAfter
<1> HIDE DEF n, new, c
<1>5. PICK l \in [0..N -> V] :
        /\ l[0] = <<>>
        /\ \A i \in 1..N : l[i] = (IF peaks[i] = None THEN <<>> ELSE peaks[i]) \o l[i - 1]
        /\ leaves(peaks) = l[N]
  BY LeavesDef, Zenon
<1>6. PICK k \in [0..Len(new) -> V] :
        /\ k[0] = <<>>
        /\ \A i \in 1..Len(new) :
             k[i] = (IF new[i] = None THEN <<>> ELSE new[i]) \o k[i - 1]
        /\ leaves(new) = k[Len(new)]
  BY <1>4, LeavesDef, Zenon
<1> HIDE DEF N
<1>7. \A i \in 1..N : peaks[i] # None => peaks[i] \in V  BY DEF Peaks, N
<1>8. \A i \in 0..n : c[i] = l[i] \o v
  <2> DEFINE S == {i \in 0..n : c[i] = l[i] \o v}
  <2>1. 0 \in S
    <3>1. 0 \in 0..n /\ <<>> \o v = v  BY <1>1, <1>2
    <3> QED  BY <1>3, <1>5, <3>1, Zenon
  <2>2. ASSUME NEW i \in 0..n, i \in S, i < n  PROVE i + 1 \in S
    <3>1. /\ i + 1 \in 1..n /\ i + 1 \in 1..N /\ (i + 1) - 1 = i /\ i \in 0..N
          /\ i + 1 \in 0..n
      BY <1>1, <1>2, <2>2
    <3>2. peaks[i + 1] # None /\ peaks[i + 1] \in V  BY <1>2, <1>7, <3>1
    <3>3. l[i + 1] = peaks[i + 1] \o l[i]  BY <1>5, <3>1, <3>2, Zenon
    <3>4. c[i + 1] = peaks[i + 1] \o (l[i] \o v)  BY <1>3, <2>2, <3>1, Zenon
    <3>5. l[i] \in V  BY <1>5, <3>1
    <3>6. peaks[i + 1] \o (l[i] \o v) = (peaks[i + 1] \o l[i]) \o v
      BY <1>1, <3>2, <3>5, Associative, Zenon
    <3>7. c[i + 1] = l[i + 1] \o v  BY <3>3, <3>4, <3>6, Zenon
    <3> QED  BY <3>1, <3>7
  <2> HIDE DEF S
  <2>3. n \in Nat  BY <1>1, <1>2
  <2>4. \A i \in 0..n : i \in S  BY <2>1, <2>2, <2>3, InductionTo
  <2> QED  BY <2>4 DEF S
<1>9. \A i \in 0..n : k[i] = <<>>
  <2> DEFINE S == {i \in 0..n : k[i] = <<>>}
  <2>1. 0 \in S  BY <1>1, <1>2, <1>6
  <2>2. ASSUME NEW i \in 0..n, i \in S, i < n  PROVE i + 1 \in S
    <3>1. /\ i + 1 \in 1..n /\ i + 1 \in 1..Len(new) /\ (i + 1) - 1 = i /\ i + 1 \in 0..n
      BY <1>1, <1>2, <1>4, <2>2, SMTT(20)
    <3>2. k[i + 1] = <<>> \o <<>>  BY <1>4, <1>6, <2>2, <3>1, Zenon
    <3>3. <<>> \o <<>> = <<>>  BY Concatenation
    <3> QED  BY <3>1, <3>2, <3>3
  <2> HIDE DEF S
  <2>3. n \in Nat  BY <1>1, <1>2
  <2>4. \A i \in 0..n : i \in S  BY <2>1, <2>2, <2>3, InductionTo
  <2> QED  BY <2>4 DEF S
<1>10. k[n + 1] = l[n] \o v
  <2>1. n \in 0..n /\ n + 1 \in 1..Len(new) /\ (n + 1) - 1 = n  BY <1>1, <1>2, <1>4
  <2>2. new[n + 1] # None  BY <1>4, HistoryAssumption DEF HistoryAssumption
  <2>3. k[n + 1] = new[n + 1] \o <<>>  BY <1>6, <1>9, <2>1, <2>2, Zenon
  <2>4. new[n + 1] \o <<>> = new[n + 1]  BY <1>4, Concatenation
  <2> QED  BY <1>4, <1>8, <2>1, <2>3, <2>4, Zenon
<1>11. CASE n = N
  <2>1. l[N] \in V  BY <1>1, <1>5
  <2>2. leaves(new) = k[n + 1]  BY <1>4, <1>6, <1>11
  <2>3. leaves(new) = l[N] \o v  BY <1>10, <1>11, <2>2
  <2> QED  BY <1>5, <2>1, <2>3, Zenon DEF v, new
<1>12. CASE n # N
  <2>1. n < N /\ n + 1 \in 1..N /\ Len(new) = N  BY <1>1, <1>2, <1>4, <1>12
  <2>2. l[n + 1] = l[n]
    <3>1. (n + 1) - 1 = n /\ n \in 0..N  BY <1>1, <1>2
    <3>2. l[n + 1] = <<>> \o l[n]  BY <1>2, <1>5, <2>1, <3>1, Zenon
    <3> QED  BY <1>5, <3>1, <3>2, Concatenation
  <2> DEFINE S == {i \in 0..N : i > n => k[i] = l[i] \o v}
  <2>3. 0 \in S  BY <1>1, <1>2
  <2>4. ASSUME NEW i \in 0..N, i \in S, i < N  PROVE i + 1 \in S
    <3>1. /\ i + 1 \in 1..N /\ (i + 1) - 1 = i /\ i + 1 \in 0..N
          /\ (i + 1 > n => i > n \/ i = n) /\ (i > n => i + 1 \in n + 2..N)
      BY <1>1, <1>2, <2>4
    <3>2. CASE i = n  BY <1>10, <2>2, <3>1, <3>2
    <3>3. CASE i > n
      <4> DEFINE p == IF peaks[i + 1] = None THEN <<>> ELSE peaks[i + 1]
      <4>1. new[i + 1] = peaks[i + 1]  BY <1>4, <3>1, <3>3
      <4>2. k[i + 1] = p \o k[i] /\ l[i + 1] = p \o l[i]
        BY <1>5, <1>6, <2>1, <3>1, <4>1, Zenon
      <4>3. k[i] = l[i] \o v  BY <2>4, <3>3
      <4>4. p \in V /\ l[i] \in V  BY <1>5, <1>7, <3>1
      <4> HIDE DEF p
      <4>5. p \o (l[i] \o v) = (p \o l[i]) \o v
        <5>1. v \in Seq(Nat) /\ p \in Seq(Nat) /\ l[i] \in Seq(Nat)  BY <1>1, <4>4
        <5> QED  BY <5>1, Associative, Zenon
      <4>6. k[i + 1] = l[i + 1] \o v  BY <4>2, <4>3, <4>5, Zenon
      <4> QED  BY <3>1, <4>6
    <3>4. CASE ~(i > n) /\ i # n  BY <3>1, <3>4
    <3> QED  BY <3>2, <3>3, <3>4
  <2> HIDE DEF S
  <2>5. \A i \in 0..N : i \in S  BY <1>1, <2>3, <2>4, InductionTo, Zenon
  <2>6. N \in S /\ N > n  BY <1>1, <1>2, <2>1, <2>5
  <2>7. k[N] = l[N] \o v  BY <2>6 DEF S
  <2>8. l[N] \in V  BY <1>1, <1>5
  <2> QED  BY <1>5, <1>6, <2>1, <2>7, <2>8, Zenon DEF v, new
<1> QED  BY <1>11, <1>12, Zenon

------------------------------------------------------------------------------
\* Adding one: below the carry the bits are cleared, above it they stay.
LEMMA HalvedAfter ==
  ASSUME NEW k \in Nat, NEW n \in Nat, \A i \in 0..n - 1 : halved(k)[i] % 2 = 1,
         halved(k)[n] % 2 = 0
  PROVE  /\ \A i \in 0..n - 1 : halved(k + 1)[i] % 2 = 0
         /\ halved(k + 1)[n] % 2 = 1
         /\ \A i \in Nat : i > n => halved(k + 1)[i] = halved(k)[i]
<1> DEFINE h == halved(k)
           g == halved(k + 1)
<1>1. /\ \A i \in Nat : h[i] \in Nat /\ h[i + 1] = h[i] \div 2
      /\ h[0] = k
  BY HalvedDef
<1>2. /\ \A i \in Nat : g[i] \in Nat /\ g[i + 1] = g[i] \div 2
      /\ g[0] = k + 1
  <2>1. k + 1 \in Nat  OBVIOUS
  <2> QED  BY <2>1, HalvedDef
<1>3. (\A i \in 0..n - 1 : h[i] % 2 = 1) /\ h[n] % 2 = 0  OBVIOUS
<1> HIDE DEF h, g
<1>4. \A i \in 0..n : g[i] = h[i] + 1
  <2> DEFINE S == {i \in 0..n : g[i] = h[i] + 1}
  <2>1. 0 \in S  BY <1>1, <1>2
  <2>2. ASSUME NEW i \in 0..n, i \in S, i < n  PROVE i + 1 \in S
    <3>1. i \in 0..n - 1 /\ i + 1 \in 0..n /\ i \in Nat  BY <2>2
    <3>2. h[i] \in Nat /\ h[i] % 2 = 1  BY <1>1, <1>3, <3>1
    <3>3. (h[i] + 1) \div 2 = h[i] \div 2 + 1  BY <3>2
    <3>4. g[i + 1] = h[i + 1] + 1  BY <1>1, <1>2, <2>2, <3>1, <3>3
    <3> QED  BY <3>1, <3>4
  <2> HIDE DEF S
  <2>3. \A i \in 0..n : i \in S  BY <2>1, <2>2, InductionTo
  <2> QED  BY <2>3 DEF S
<1>5. \A i \in 0..n - 1 : g[i] % 2 = 0
  <2> TAKE i \in 0..n - 1
  <2>1. i \in Nat /\ i \in 0..n  OBVIOUS
  <2>2. h[i] \in Nat /\ h[i] % 2 = 1 /\ g[i] = h[i] + 1  BY <1>1, <1>3, <1>4, <2>1
  <2> QED  BY <2>2
<1>6. g[n] % 2 = 1 /\ g[n + 1] = h[n + 1]
  <2>1. h[n] \in Nat /\ h[n] % 2 = 0 /\ g[n] = h[n] + 1  BY <1>1, <1>3, <1>4
  <2>2. (h[n] + 1) % 2 = 1 /\ (h[n] + 1) \div 2 = h[n] \div 2  BY <2>1
  <2> QED  BY <1>1, <1>2, <2>1, <2>2
<1>7. \A i \in Nat : i > n => g[i] = h[i]
  <2> DEFINE S == {i \in Nat : i > n => g[i] = h[i]}
  <2>1. 0 \in S  OBVIOUS
  <2>2. ASSUME NEW i \in Nat, i \in S  PROVE i + 1 \in S
    <3>1. CASE i = n  BY <1>6, <3>1
    <3>2. CASE i > n  BY <1>1, <1>2, <2>2, <3>2
    <3>3. CASE i < n  BY <3>3
    <3> QED  BY <3>1, <3>2, <3>3
  <2> HIDE DEF S
  <2>3. \A i \in Nat : i \in S  BY <2>1, <2>2, InductionOver
  <2> QED  BY <2>3 DEF S
<1> QED  BY <1>5, <1>6, <1>7 DEF h, g

\* The peaks that are merged have 1, 2, 4, ... leaves: with the new leaf, a power of two.
LEMMA CarriedSize ==
  ASSUME NEW peaks \in Peaks(Nat), NEW v \in Seq(Nat), Len(v) = 1,
         \A i \in 1..carries(peaks) : Len(peaks[i]) = size[i - 1]
  PROVE  Len(carried(peaks, v)[carries(peaks)]) = size[carries(peaks)]
<1> DEFINE n == carries(peaks)
           c == carried(peaks, v)
<1>1. n \in Nat /\ \A i \in 1..n : peaks[i] \in Seq(Nat)
  <2>1. n \in 0..Len(peaks) /\ Len(peaks) \in Nat /\ \A i \in 1..n : peaks[i] # None
    BY CarriesDef, SMTT(30) DEF Peaks
  <2>2. \A i \in 1..Len(peaks) : peaks[i] \in Seq(Nat) \cup {None}  BY DEF Peaks
  <2> HIDE DEF n
  <2> QED  BY <2>1, <2>2
<1>2. c \in [0..n -> Seq(Nat)] /\ c[0] = v /\ \A i \in 1..n : c[i] = peaks[i] \o c[i - 1]
  <2>1. CarriedOver(c, Nat, peaks, v)  BY CarriedDef, Zenon
  <2> QED  BY <2>1, Zenon DEF CarriedOver
<1>3. \A i \in 1..n : Len(peaks[i]) = size[i - 1]  OBVIOUS
<1> HIDE DEF n, c
<1> DEFINE S == {i \in 0..n : Len(c[i]) = size[i]}
<1>4. 0 \in S
  <2>1. 0 \in 0..n /\ size[0] = 1  BY <1>1, SizeDef
  <2> QED  BY <1>2, <2>1, Zenon
<1>5. ASSUME NEW i \in 0..n, i \in S, i < n  PROVE i + 1 \in S
  <2>1. i + 1 \in 1..n /\ i + 1 \in 0..n /\ (i + 1) - 1 = i /\ i \in Nat  BY <1>1, <1>5
  <2>2. c[i + 1] = peaks[i + 1] \o c[i] /\ Len(peaks[i + 1]) = size[i]
    BY <1>2, <1>3, <2>1, Zenon
  <2>3. peaks[i + 1] \in Seq(Nat) /\ c[i] \in Seq(Nat)  BY <1>1, <1>2, <2>1
  <2>4. Len(c[i + 1]) = Len(peaks[i + 1]) + Len(c[i])
    <3>1. Len(peaks[i + 1] \o c[i]) = Len(peaks[i + 1]) + Len(c[i])
      BY <2>3, Concatenation
    <3> QED  BY <2>2, <3>1, Zenon
  <2>5. size[i + 1] = 2 * size[i] /\ size[i] \in Nat  BY <2>1, SizeDef
  <2>6. Len(c[i]) = size[i]  BY <1>5
  <2>7. Len(c[i + 1]) = size[i + 1]  BY <2>2, <2>4, <2>5, <2>6
  <2> QED  BY <2>1, <2>7
<1> HIDE DEF S
<1>6. \A i \in 0..n : i \in S  BY <1>1, <1>4, <1>5, InductionTo, Zenon
<1> QED  BY <1>1, <1>6 DEF S, n, c

\* mathcal_A: the range over k + 1 leaves from the range over k.
LEMMA RangeAfter ==
  ASSUME NEW peaks \in Peaks(Nat), NEW k \in Nat, isRangeOver(peaks, k)
  PROVE  isRangeOver(mathcal_A(peaks, <<k + 1>>), k + 1)
<1> DEFINE v == <<k + 1>>
           n == carries(peaks)
           new == mathcal_A(peaks, v)
           c == carried(peaks, v)
           N == Len(peaks)
           h == halved(k)
           g == halved(k + 1)
           Bit(p, i, b) == IF b % 2 = 1 THEN p # None /\ Len(p) = size[i - 1] ELSE p = None
<1>1. v \in Seq(Nat) /\ Len(v) = 1 /\ N \in Nat /\ k + 1 \in Nat  BY DEF Peaks
<1>2. leaves(new) = [i \in 1..k + 1 |-> i]
  <2>1. leaves(new) = leaves(peaks) \o <<k + 1>>  BY <1>1, LeavesAfter, Zenon
  <2>2. leaves(peaks) = [i \in 1..k |-> i]  BY DEF isRangeOver
  <2>3. [i \in 1..k |-> i] \o <<k + 1>> = [i \in 1..k + 1 |-> i]  OBVIOUS
  <2> QED  BY <2>1, <2>2, <2>3
<1> HIDE DEF v
<1>3. /\ n \in 0..N /\ \A i \in 1..n : peaks[i] # None
      /\ n < N => peaks[n + 1] = None
  BY CarriesDef
<1>4. /\ Len(new) = IF n = N THEN n + 1 ELSE N
      /\ \A i \in 1..n : new[i] = None
      /\ new[n + 1] = c[n] /\ new[n + 1] \in Seq(Nat)
      /\ \A i \in n + 2..N : new[i] = peaks[i]
  BY <1>1, PeaksAfter
<1>5. \A i \in 1..N : Bit(peaks[i], i, h[i - 1])  BY DEF isRangeOver
<1>6. h[N] = 0  BY DEF isRangeOver
<1>7. /\ \A i \in Nat : h[i] \in Nat /\ h[i + 1] = h[i] \div 2
  BY HalvedDef
<1>8. /\ \A i \in Nat : g[i] \in Nat /\ g[i + 1] = g[i] \div 2
  BY <1>1, HalvedDef, Zenon
<1> HIDE DEF N, n
<1>9. \A i \in 0..n - 1 : h[i] % 2 = 1
  <2> TAKE i \in 0..n - 1
  <2>1. i + 1 \in 1..N /\ i + 1 \in 1..n /\ (i + 1) - 1 = i  BY <1>1, <1>3
  <2> QED  BY <1>3, <1>5, <2>1
<1>10. h[n] % 2 = 0
  <2>1. CASE n = N  BY <1>6, <2>1
  <2>2. CASE n # N
    <3>1. n + 1 \in 1..N /\ (n + 1) - 1 = n /\ n < N /\ n \in Nat  BY <1>1, <1>3, <2>2
    <3>2. Bit(None, n + 1, h[n])  BY <1>3, <1>5, <3>1
    <3>3. h[n] \in Nat /\ h[n] % 2 # 1  BY <1>7, <3>1, <3>2
    <3> QED  BY <3>3
  <2> QED  BY <2>1, <2>2
<1>11. /\ \A i \in 0..n - 1 : g[i] % 2 = 0
       /\ g[n] % 2 = 1
       /\ \A i \in Nat : i > n => g[i] = h[i]
  <2>1. n \in Nat  BY <1>1, <1>3
  <2> QED  BY <1>9, <1>10, <2>1, HalvedAfter
<1>12. Len(c[n]) = size[n]
  <2>1. \A i \in 1..n : Len(peaks[i]) = size[i - 1]
    <3> TAKE i \in 1..n
    <3>1. i \in 1..N /\ peaks[i] # None  BY <1>1, <1>3
    <3> QED  BY <1>5, <3>1
  <2> QED  BY <1>1, <2>1, CarriedSize DEF n
<1> HIDE DEF h, g, c, new
<1>13. ASSUME NEW i \in 1..Len(new)  PROVE Bit(new[i], i, g[i - 1])
  <2>1. CASE i \in 1..n
    <3>1. i - 1 \in 0..n - 1  BY <1>1, <1>3, <2>1
    <3> QED  BY <1>4, <1>11, <2>1, <3>1
  <2>2. CASE i = n + 1
    <3>1. i - 1 = n  BY <1>1, <1>3, <2>2
    <3>2. new[i] # None  BY <1>4, <2>2, HistoryAssumption DEF HistoryAssumption
    <3> QED  BY <1>4, <1>11, <1>12, <2>2, <3>1, <3>2
  <2>3. CASE i > n + 1
    <3>1. i \in n + 2..N /\ i \in 1..N /\ i - 1 \in Nat /\ i - 1 > n
      BY <1>1, <1>3, <1>4, <2>3
    <3>2. new[i] = peaks[i] /\ g[i - 1] = h[i - 1]  BY <1>4, <1>11, <3>1
    <3> QED  BY <1>5, <3>1, <3>2
  <2> QED  BY <1>1, <1>3, <1>4, <2>1, <2>2, <2>3
<1>14. g[Len(new)] = 0
  <2>1. CASE n = N
    <3>1. n \in Nat /\ n + 1 \in Nat /\ n + 1 > n /\ Len(new) = n + 1
      BY <1>1, <1>3, <1>4, <2>1
    <3>2. g[n + 1] = h[n + 1] /\ h[n + 1] = h[n] \div 2  BY <1>7, <1>11, <3>1
    <3>3. h[n] = 0  BY <1>6, <2>1
    <3>4. 0 \div 2 = 0  OBVIOUS
    <3> QED  BY <3>1, <3>2, <3>3, <3>4
  <2>2. CASE n # N
    <3>1. N > n /\ Len(new) = N  BY <1>1, <1>3, <1>4, <2>2
    <3> QED  BY <1>1, <1>6, <1>11, <3>1
  <2> QED  BY <2>1, <2>2
<1> QED  BY <1>2, <1>13, <1>14, Zenon DEF isRangeOver, new, g, v

------------------------------------------------------------------------------
\* The entries of the history.
Entries == [header_hash : 1..MaxBlocks,
            mmr : Peaks(1..MaxBlocks),
            state_root : 0..MaxBlocks \cup {None}]

\* The two halves of RecentBlocks: the blocks of the window, and their state roots.
Window ==
  /\ Len(beta) = IF blocks < H THEN blocks ELSE H
  /\ \A i \in 1..Len(beta) : beta[i].header_hash = blocks - Len(beta) + i

RootsFilled ==
  \A i \in 1..Len(beta) :
    beta[i].state_root = IF i = Len(beta) THEN None ELSE beta[i].header_hash

\* They hold together, of a sequence of entries, with the ranges: the range of a new
\* block is made from that of its parent, which is the last of the window.
HistoryInv ==
  /\ blocks \in 0..MaxBlocks
  /\ beta \in Seq(Entries)
  /\ Window
  /\ RootsFilled
  /\ RangesComplete

\* An entry with another state root is an entry, with the same header and range.
LEMMA EntryWithRoot ==
  ASSUME NEW e \in Entries, NEW root \in 0..MaxBlocks
  PROVE  LET f == [e EXCEPT !.state_root = root]
         IN  /\ f \in Entries /\ f.state_root = root
             /\ f.header_hash = e.header_hash /\ f.mmr = e.mmr
BY DEF Entries

\* Dropping the oldest entry of a full history.
LEMMA Trim ==
  ASSUME NEW S, NEW b \in Seq(S)
  PROVE  /\ trimmed(b) \in Seq(S)
         /\ Len(b) < H => trimmed(b) = b
         /\ Len(b) = H => /\ Len(trimmed(b)) = H - 1
                          /\ \A i \in 1..H - 1 : trimmed(b)[i] = b[i + 1]
<1>1. CASE Len(b) < H
  BY <1>1, HistoryAssumption DEF HistoryAssumption, trimmed, isFull
<1>2. CASE Len(b) >= H
  <2>1. b # <<>>  BY <1>2, HistoryAssumption DEF HistoryAssumption
  <2>2. trimmed(b) = Tail(b)  BY <1>2 DEF trimmed, isFull
  <2> QED  BY <1>2, <2>1, <2>2, HistoryAssumption DEF HistoryAssumption
<1> QED  BY <1>1, <1>2, HistoryAssumption DEF HistoryAssumption

\* Filling in the parent's root.
LEMMA Fill ==
  ASSUME NEW b \in Seq(Entries), NEW root \in 0..MaxBlocks
  PROVE  /\ withParentRoot(b, root) \in Seq(Entries)
         /\ Len(withParentRoot(b, root)) = Len(b)
         /\ \A i \in 1..Len(b) :
              /\ withParentRoot(b, root)[i].header_hash = b[i].header_hash
              /\ withParentRoot(b, root)[i].mmr = b[i].mmr
              /\ withParentRoot(b, root)[i].state_root =
                   IF i = Len(b) THEN root ELSE b[i].state_root
<1>1. CASE b = <<>>  BY <1>1 DEF withParentRoot
<1>2. CASE b # <<>>
  <2> DEFINE f == [b[Len(b)] EXCEPT !.state_root = root]
  <2>1. Len(b) \in 1..Len(b)  BY <1>2
  <2>2. b[Len(b)] \in Entries  BY <2>1
  <2>3. /\ f \in Entries /\ f.state_root = root
        /\ f.header_hash = b[Len(b)].header_hash /\ f.mmr = b[Len(b)].mmr
    BY <2>2, EntryWithRoot
  <2>4. withParentRoot(b, root) = [b EXCEPT ![Len(b)] = f]  BY <1>2 DEF withParentRoot
  <2> HIDE DEF f
  <2> QED  BY <2>1, <2>3, <2>4
<1> QED  BY <1>1, <1>2

\* The range of the parent, which the new range is made from.
LEMMA LastRange ==
  ASSUME HistoryInv
  PROVE  lastMmr \in Peaks(1..MaxBlocks) /\ isRangeOver(lastMmr, blocks)
<1>1. CASE beta = <<>>
  <2>1. lastMmr = <<>>  BY <1>1 DEF lastMmr
  <2>2. blocks = 0
    BY <1>1, HistoryAssumption DEF HistoryInv, Window, HistoryAssumption
  <2>3. <<>> \in Peaks(Nat) /\ <<>> \in Peaks(1..MaxBlocks) /\ Len(<<>>) = 0  BY DEF Peaks
  <2>4. leaves(<<>>) = <<>>
    <3>1. \E l \in [0..Len(<<>>) -> Seq(Nat)] : l[0] = <<>> /\ leaves(<<>>) = l[Len(<<>>)]
      BY <2>3, LeavesDef, Zenon
    <3> QED  BY <2>3, <3>1
  <2>5. halved(0)[0] = 0  BY HalvedDef
  <2>6. [i \in 1..0 |-> i] = <<>>  OBVIOUS
  <2>7. isRangeOver(<<>>, 0)
    BY <2>3, <2>4, <2>5, <2>6 DEF isRangeOver
  <2> QED  BY <2>1, <2>2, <2>3, <2>7
<1>2. CASE beta # <<>>
  <2>1. beta \in Seq(Entries) /\ blocks \in Nat
    BY HistoryAssumption DEF HistoryInv, HistoryAssumption
  <2>2. Len(beta) \in 1..Len(beta) /\ Len(beta) \in Nat  BY <1>2, <2>1
  <2>3. beta[Len(beta)] \in Entries  BY <2>1, <2>2
  <2>4. lastMmr = beta[Len(beta)].mmr  BY <1>2 DEF lastMmr
  <2>5. beta[Len(beta)].header_hash = blocks - Len(beta) + Len(beta)
    BY <2>2 DEF HistoryInv, Window
  <2>6. beta[Len(beta)].header_hash = blocks  BY <2>1, <2>2, <2>5
  <2>7. isRangeOver(beta[Len(beta)].mmr, beta[Len(beta)].header_hash)
    BY <2>2 DEF HistoryInv, RangesComplete
  <2> QED  BY <2>3, <2>4, <2>6, <2>7 DEF Entries
<1> QED  BY <1>1, <1>2

\* The new entry.
LEMMA NewEntry ==
  ASSUME HistoryInv, blocks < MaxBlocks
  PROVE  /\ entry(blocks + 1) \in Entries
         /\ entry(blocks + 1).header_hash = blocks + 1
         /\ entry(blocks + 1).state_root = None
         /\ isRangeOver(entry(blocks + 1).mmr, blocks + 1)
<1>1. blocks \in Nat /\ blocks + 1 \in 1..MaxBlocks
  BY HistoryAssumption DEF HistoryInv, HistoryAssumption
<1> DEFINE B == 1..MaxBlocks
           new == mathcal_A(lastMmr, <<blocks + 1>>)
<1>2. lastMmr \in Peaks(B) /\ isRangeOver(lastMmr, blocks)  BY LastRange
<1>3. <<blocks + 1>> \in Seq(B)  BY <1>1
<1>4. new \in Peaks(B)
  <2> HIDE DEF B
  <2> QED  BY <1>2, <1>3, PeaksAfter, Zenon
<1>5. isRangeOver(new, blocks + 1)
  <2>1. Seq(B) \cup {None} \subseteq Seq(Nat) \cup {None}
    <3>1. \A i \in B : i \in Nat  OBVIOUS
    <3> HIDE DEF B
    <3>2. \A q \in Seq(B) : q \in Seq(Nat)  BY <3>1
    <3> QED  BY <3>2
  <2>2. Peaks(B) \subseteq Peaks(Nat)
    <3> DEFINE X == Seq(B) \cup {None}
               Y == Seq(Nat) \cup {None}
    <3>1. X \subseteq Y  BY <2>1
    <3> HIDE DEF X, Y
    <3>2. Seq(X) \subseteq Seq(Y)  BY <3>1
    <3> QED  BY <3>2, Zenon DEF Peaks, X, Y
  <2>3. lastMmr \in Peaks(Nat)  BY <1>2, <2>2
  <2> QED  BY <1>1, <1>2, <2>3, RangeAfter, Zenon
<1>6. entry(blocks + 1) = [header_hash |-> blocks + 1, mmr |-> new, state_root |-> None]
  BY DEF entry
<1> HIDE DEF new
<1> QED  BY <1>1, <1>4, <1>5, <1>6 DEF Entries

------------------------------------------------------------------------------
\* One block: the window moves by one, and the parent gets its root.
LEMMA TransitionKeeps ==
  ASSUME HistoryInv, history_transition
  PROVE  HistoryInv'
<1> DEFINE b == withParentRoot(trimmed(beta), blocks)
           e == entry(blocks + 1)
<1>1. beta \in Seq(Entries)  BY DEF HistoryInv
<1>2. /\ blocks \in Nat /\ blocks \in 0..MaxBlocks /\ blocks < MaxBlocks
      /\ blocks' = blocks + 1 /\ beta' = Append(b, e)
  BY HistoryAssumption DEF HistoryInv, history_transition, HistoryAssumption
<1>3. /\ e \in Entries /\ e.header_hash = blocks + 1 /\ e.state_root = None
      /\ isRangeOver(e.mmr, blocks + 1)
  BY <1>2, NewEntry
<1> HIDE DEF e
<1>5. /\ trimmed(beta) \in Seq(Entries)
      /\ Len(beta) < H => trimmed(beta) = beta
      /\ Len(beta) = H => /\ Len(trimmed(beta)) = H - 1
                          /\ \A i \in 1..H - 1 : trimmed(beta)[i] = beta[i + 1]
  BY <1>1, Trim
<1> DEFINE t == trimmed(beta)
<1> HIDE DEF t
<1>6. /\ b \in Seq(Entries)
      /\ Len(b) = Len(t)
      /\ \A i \in 1..Len(t) : /\ b[i].header_hash = t[i].header_hash
                              /\ b[i].mmr = t[i].mmr
                              /\ b[i].state_root = IF i = Len(t) THEN blocks
                                                   ELSE t[i].state_root
  BY <1>2, <1>5, Fill DEF t
<1> HIDE DEF b
<1>7. /\ Len(t) = IF blocks + 1 < H THEN blocks ELSE H - 1
      /\ t \in Seq(Entries)
      /\ \A i \in 1..Len(t) :
           /\ t[i].header_hash = blocks - Len(t) + i
           /\ t[i].state_root = IF i = Len(t) THEN None ELSE t[i].header_hash
           /\ isRangeOver(t[i].mmr, t[i].header_hash)
  <2>1. CASE blocks < H
    <3>1. Len(beta) = blocks /\ t = beta
      BY <1>2, <1>5, <2>1 DEF HistoryInv, Window, t
    <3> QED  BY <1>2, <1>1, <2>1, <3>1, HistoryAssumption
             DEF HistoryInv, Window, RootsFilled, RangesComplete, HistoryAssumption
  <2>2. CASE blocks >= H
    <3>1. Len(beta) = H /\ Len(t) = H - 1 /\ \A i \in 1..H - 1 : t[i] = beta[i + 1]
      BY <1>2, <1>5, <2>2, HistoryAssumption DEF HistoryInv, Window, t, HistoryAssumption
    <3>2. \A i \in 1..H - 1 : i + 1 \in 1..H /\ (i = H - 1 <=> i + 1 = H)
      BY HistoryAssumption DEF HistoryAssumption
    <3>3. \A i \in 1..H - 1 : t[i].header_hash = blocks - H + (i + 1)
      BY <3>1, <3>2, Zenon DEF HistoryInv, Window
    <3>4. \A i \in 1..H - 1 :
            t[i].state_root = IF i = H - 1 THEN None ELSE t[i].header_hash
      BY <3>1, <3>2 DEF HistoryInv, RootsFilled
    <3>5. t \in Seq(Entries)  BY <1>5 DEF t
    <3>6. \A i \in 1..H - 1 : isRangeOver(t[i].mmr, t[i].header_hash)
      BY <3>1, <3>2 DEF HistoryInv, RangesComplete
    <3> QED
      BY <1>2, <2>2, <3>1, <3>3, <3>4, <3>5, <3>6, HistoryAssumption DEF HistoryAssumption
  <2> QED  BY <1>2, <2>1, <2>2, HistoryAssumption DEF HistoryAssumption
<1>8. /\ beta' \in Seq(Entries)
      /\ Len(beta') = Len(b) + 1
      /\ \A i \in 1..Len(b) : beta'[i] = b[i]
      /\ beta'[Len(b) + 1] = e
  BY <1>2, <1>3, <1>6
<1>9. Window'
  <2>1. Len(beta') = IF blocks' < H THEN blocks' ELSE H
    BY <1>2, <1>6, <1>7, <1>8, HistoryAssumption DEF HistoryAssumption
  <2>2. \A i \in 1..Len(beta') : beta'[i].header_hash = blocks' - Len(beta') + i
    <3> TAKE i \in 1..Len(beta')
    <3>1. CASE i \in 1..Len(b)
      <4>1. i \in 1..Len(t)  BY <1>6, <3>1
      <4>2. beta'[i].header_hash = blocks - Len(t) + i
        BY <1>6, <1>7, <1>8, <3>1, <4>1, Zenon
      <4> QED  BY <1>2, <1>6, <1>7, <1>8, <4>2
    <3>2. CASE i = Len(b) + 1
      BY <1>2, <1>3, <1>6, <1>8, <3>2
    <3> QED  BY <1>6, <1>8, <3>1, <3>2
  <2> QED  BY <2>1, <2>2 DEF Window
<1>10. RootsFilled'
  <2> SUFFICES ASSUME NEW i \in 1..Len(beta')
               PROVE  beta'[i].state_root = IF i = Len(beta') THEN None
                                            ELSE beta'[i].header_hash
    BY DEF RootsFilled
  <2>1. CASE i = Len(b) + 1  BY <1>3, <1>8, <2>1
  <2>2. CASE i \in 1..Len(b)
    BY <1>2, <1>6, <1>7, <1>8, <2>2
  <2> QED  BY <1>6, <1>8, <2>1, <2>2
<1>11. RangesComplete'
  <2> SUFFICES ASSUME NEW i \in 1..Len(beta')
               PROVE  isRangeOver(beta'[i].mmr, beta'[i].header_hash)
    BY DEF RangesComplete
  <2>1. CASE i = Len(b) + 1  BY <1>3, <1>8, <2>1
  <2>2. CASE i \in 1..Len(b)
    <3>1. i \in 1..Len(t)  BY <1>6, <2>2
    <3> QED  BY <1>6, <1>7, <1>8, <2>2, <3>1, Zenon
  <2> QED  BY <1>6, <1>8, <2>1, <2>2
<1>12. blocks' \in 0..MaxBlocks  BY <1>2, HistoryAssumption DEF HistoryAssumption
<1> QED  BY <1>8, <1>9, <1>10, <1>11, <1>12 DEF HistoryInv

\* The invariant holds of an empty history, is kept, and gives the properties.
LEMMA HistoryInvInit == HistoryInit => HistoryInv
<1> SUFFICES ASSUME HistoryInit PROVE HistoryInv  OBVIOUS
<1>1. beta = <<>> /\ blocks = 0  BY DEF HistoryInit
<1>2. beta \in Seq(Entries)  BY <1>1
<1> QED  BY <1>1, <1>2, HistoryAssumption
         DEF HistoryInv, Window, RootsFilled, RangesComplete, HistoryAssumption

LEMMA HistoryInvNext == HistoryInv /\ [HistoryNext]_historyVars => HistoryInv'
<1>1. HistoryInv /\ history_transition => HistoryInv'  BY TransitionKeeps
<1>2. HistoryInv /\ UNCHANGED historyVars => HistoryInv'
  BY DEF HistoryInv, Window, RootsFilled, RangesComplete, historyVars
<1> QED  BY <1>1, <1>2 DEF HistoryNext

LEMMA HistoryInvImplies == HistoryInv => RecentBlocks /\ RangesComplete
<1>1. HistoryInv => HistoryTypeOK  BY Zenon DEF HistoryInv, HistoryTypeOK, Entries, Peaks
<1>2. HistoryInv => RecentBlocks  BY <1>1 DEF HistoryInv, Window, RootsFilled, RecentBlocks
<1> QED  BY <1>2 DEF HistoryInv

------------------------------------------------------------------------------
\* The history is the last H blocks, none missing and in order, with the state root
\* of every block but the last, whatever the size of the history.
THEOREM HistoryInvariant == HistorySpec => []RecentBlocks
<1>1. HistoryInv => RecentBlocks  BY HistoryInvImplies
<1> QED  BY <1>1, HistoryInvInit, HistoryInvNext, PTL DEF HistorySpec

\* mmr::append adds a block to the range of its parent and loses none: however long
\* the chain, the range of every block in the history has the blocks from the first
\* to that one as its leaves, in order, in peaks of the sizes that its number's binary
\* digits give.
THEOREM RangesOfAllBlocks == HistorySpec => []RangesComplete
<1>1. HistoryInv => RangesComplete  BY HistoryInvImplies
<1> QED  BY <1>1, HistoryInvInit, HistoryInvNext, PTL DEF HistorySpec
==============================================================================
