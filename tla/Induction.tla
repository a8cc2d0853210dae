------------------------------- MODULE Induction -------------------------------
(***************************************************************************)
(* Induction and recursion over the naturals, stated of sets and functions *)
(* instead of operators, so that a proof can cite them; and what a prefix  *)
(* and a sequence without one of its elements are.                         *)
(***************************************************************************)
EXTENDS Integers, WellFoundedInduction, SequenceTheorems, TLAPS

------------------------------------------------------------------------------
(* Induction *)

LEMMA Predecessor ==
    ASSUME NEW x \in Nat, x # 0
    PROVE  x - 1 \in Nat /\ (x - 1) + 1 = x /\ x - 1 < x
OBVIOUS

LEMMA LeastElement ==
    ASSUME NEW U, U \subseteq Nat, U # {}
    PROVE  \E x \in U : \A y \in U : ~(y < x)
<1> DEFINE R == OpToRel(<, Nat)
<1>1. IsWellFoundedOn(R, Nat)
  BY NatLessThanWellFounded
<1>2. \A x, y \in Nat : y < x => <<y, x>> \in R
  BY DEF OpToRel
<1> HIDE DEF R
<1>3. PICK x \in U : \A y \in U : ~(<<y, x>> \in R)
  BY <1>1, WFMin
<1> QED
  BY <1>2, <1>3

\* A set that has 0, and with a number its successor, has every natural number: of
\* those it had not there would be a least.
LEMMA SetInduction ==
    ASSUME NEW T, 0 \in T, \A n \in Nat : n \in T => n + 1 \in T
    PROVE  \A n \in Nat : n \in T
<1> SUFFICES ASSUME NEW n \in Nat, n \notin T
             PROVE  FALSE
  OBVIOUS
<1> DEFINE U == {m \in Nat : m \notin T}
<1>1. n \in U /\ U \subseteq Nat
  OBVIOUS
<1>2. PICK x \in U : \A y \in U : ~(y < x)
  BY <1>1, LeastElement
<1>3. x \in Nat /\ x \notin T
  OBVIOUS
<1>4. x - 1 \in Nat /\ (x - 1) + 1 = x /\ x - 1 < x
  BY <1>3, Predecessor
<1>5. x - 1 \in T
  BY <1>2, <1>4
<1> QED
  BY <1>3, <1>4, <1>5

\* A nonempty set of numbers up to n has a greatest element.
LEMMA GreatestElement ==
    ASSUME NEW n \in Nat, NEW U, U \subseteq 0..n, U # {}
    PROVE  \E x \in U : \A y \in U : y <= x
<1> DEFINE V == {n - u : u \in U}
<1>0. PICK u0 \in U : TRUE
  OBVIOUS
<1>1. V \subseteq Nat /\ V # {}
  <2>1. n - u0 \in V
    OBVIOUS
  <2>2. ASSUME NEW u \in U
        PROVE  n - u \in Nat
    OBVIOUS
  <2> QED
    BY <2>1, <2>2
<1>2. PICK v \in V : \A w \in V : ~(w < v)
  BY <1>1, LeastElement
<1>3. PICK x \in U : v = n - x
  OBVIOUS
<1>4. ASSUME NEW y \in U
      PROVE  y <= x
  <2>1. ~(n - y < n - x)
    BY <1>2, <1>3
  <2> QED
    BY <2>1
<1> QED
  BY <1>4

------------------------------------------------------------------------------
(* Recursion *)

\* h is x0 at 0, and at n + 1 what F[n] makes of its value at n.
Iterates(h, X, x0, F) ==
    /\ h \in [Nat -> X] /\ h[0] = x0
    /\ \A n \in Nat : h[n + 1] = F[n][h[n]]

\* There is such a function: there is one up to n for every n, and no two disagree.
LEMMA Recursion ==
    ASSUME NEW X, NEW x0 \in X, NEW F \in [Nat -> [X -> X]]
    PROVE  \E h : Iterates(h, X, x0, F)
<1> DEFINE Approx(n) == {g \in [0..n -> X] : g[0] = x0 /\ \A i \in 0..(n - 1) : g[i + 1] = F[i][g[i]]}
           T == {n \in Nat : Approx(n) # {}}
<1>1. 0 \in T
  <2> DEFINE g == [i \in 0..0 |-> x0]
  <2>1. g \in Approx(0)
    OBVIOUS
  <2> QED
    BY <2>1
<1>2. ASSUME NEW n \in Nat, n \in T
      PROVE  n + 1 \in T
  <2>1. PICK g : g \in Approx(n)
    BY <1>2
  <2> DEFINE k == [i \in 0..(n + 1) |-> IF i = n + 1 THEN F[n][g[n]] ELSE g[i]]
  <2>2. k \in [0..(n + 1) -> X]
    BY <2>1
  <2>3. k[0] = x0
    BY <2>1
  <2>4. ASSUME NEW i \in 0..n
        PROVE  k[i + 1] = F[i][k[i]]
    <3>1. CASE i = n
      BY <3>1
    <3>2. CASE i # n
      BY <2>1, <3>2
    <3> QED
      BY <3>1, <3>2
  <2>5. (n + 1) - 1 = n
    OBVIOUS
  <2>6. k \in Approx(n + 1)
    <3> HIDE DEF k
    <3>1. \A i \in 0..((n + 1) - 1) : k[i + 1] = F[i][k[i]]
      BY <2>4, <2>5
    <3> QED
      BY <2>2, <2>3, <3>1
  <2> HIDE DEF Approx, k
  <2>7. n + 1 \in Nat
    OBVIOUS
  <2> QED
    BY <2>6, <2>7
<1>3. \A n \in Nat : Approx(n) # {}
  <2> HIDE DEF Approx
  <2>1. \A n \in Nat : n \in T
    <3> HIDE DEF T
    <3> QED
      BY <1>1, <1>2, SetInduction
  <2> QED
    BY <2>1
<1> DEFINE Agree == {i \in Nat : \A n, m \in Nat : \A g \in Approx(n), k \in Approx(m) :
                                    i <= n /\ i <= m => g[i] = k[i]}
<1>4. 0 \in Agree
  OBVIOUS
<1>5. ASSUME NEW i \in Nat, i \in Agree
      PROVE  i + 1 \in Agree
  <2>1. ASSUME NEW n \in Nat, NEW m \in Nat, NEW g \in Approx(n), NEW k \in Approx(m),
               i + 1 <= n, i + 1 <= m
        PROVE  g[i + 1] = k[i + 1]
    <3>1. i \in 0..(n - 1) /\ i \in 0..(m - 1)
      BY <2>1
    <3>2. g[i + 1] = F[i][g[i]] /\ k[i + 1] = F[i][k[i]]
      BY <3>1
    <3>3. g[i] = k[i]
      <4> HIDE DEF Approx
      <4> QED
        BY <1>5, <2>1
    <3> QED
      BY <3>2, <3>3
  <2> HIDE DEF Approx
  <2>2. i + 1 \in Nat
    OBVIOUS
  <2> QED
    BY <2>1, <2>2
<1>6. \A i \in Nat : i \in Agree
  <2> HIDE DEF Agree
  <2> QED
    BY <1>4, <1>5, SetInduction
<1> DEFINE c(n) == CHOOSE g : g \in Approx(n)
           h == [n \in Nat |-> c(n)[n]]
<1>7. \A n \in Nat : c(n) \in Approx(n)
  <2> HIDE DEF Approx
  <2> QED
    BY <1>3
<1>8. \A n \in Nat : c(n) \in [0..n -> X] /\ c(n)[0] = x0 /\ \A i \in 0..(n - 1) : c(n)[i + 1] = F[i][c(n)[i]]
  BY <1>7
<1>9. h \in [Nat -> X] /\ h[0] = x0
  <2> HIDE DEF c
  <2>1. \A n \in Nat : c(n)[n] \in X
    BY <1>8
  <2>2. h \in [Nat -> X]
    BY <2>1
  <2>3. h[0] = c(0)[0]
    OBVIOUS
  <2>4. c(0)[0] = x0
    BY <1>8
  <2> QED
    BY <2>2, <2>3, <2>4
<1>10. ASSUME NEW n \in Nat
       PROVE  h[n + 1] = F[n][h[n]]
  <2>1. c(n + 1)[n] = c(n)[n]
    <3>1. c(n) \in Approx(n) /\ c(n + 1) \in Approx(n + 1)
      <4> HIDE DEF Approx, c
      <4>1. n + 1 \in Nat
        OBVIOUS
      <4> QED
        BY <1>7, <4>1
    <3>2. n \in Agree
      BY <1>6
    <3> HIDE DEF Approx, c
    <3> QED
      BY <3>1, <3>2
  <2>2. c(n + 1)[n + 1] = F[n][c(n + 1)[n]]
    <3> HIDE DEF c
    <3> QED
      BY <1>8
  <2>3. n + 1 \in Nat /\ h[n + 1] = c(n + 1)[n + 1] /\ h[n] = c(n)[n]
    <3> HIDE DEF c
    <3> QED
      OBVIOUS
  <2> HIDE DEF c, h
  <2> QED
    BY <2>1, <2>2, <2>3
<1> HIDE DEF h
<1> QED
  BY <1>9, <1>10 DEF Iterates

------------------------------------------------------------------------------
(* Parts of a sequence *)

LEMMA PrefixIs ==
    ASSUME NEW S, NEW e \in Seq(S), NEW n, n = Len(e), NEW k \in 0..n
    PROVE  /\ SubSeq(e, 1, k) \in Seq(S) /\ Len(SubSeq(e, 1, k)) = k
           /\ \A i \in 1..k : SubSeq(e, 1, k)[i] = e[i]
<1>1. n \in Nat /\ \A i \in 1..n : e[i] \in S
  BY LenProperties, ElementOfSeq
<1>2. 1 \in Int /\ k \in Int /\ \A i \in 1..k : e[i] \in S
  BY <1>1
<1>3. /\ SubSeq(e, 1, k) \in Seq(S) /\ Len(SubSeq(e, 1, k)) = IF 1 <= k THEN k - 1 + 1 ELSE 0
      /\ \A i \in 1..(k - 1 + 1) : SubSeq(e, 1, k)[i] = e[1 + i - 1]
  BY <1>2, SubSeqProperties
<1>4. k \in Nat /\ k - 1 + 1 = k
  BY <1>1
<1>5. \A i \in 1..k : 1 + i - 1 = i
  BY <1>4
<1> QED
  BY <1>3, <1>4, <1>5

\* d is s without its k-th element.
Removed(d, s, n, k, S) == /\ d \in Seq(S) /\ Len(d) = n - 1
                          /\ \A j \in 1..(n - 1) : d[j] = IF j < k THEN s[j] ELSE s[j + 1]

LEMMA RemovedIs ==
    ASSUME NEW S, NEW e \in Seq(S), NEW n, n = Len(e), NEW k \in 1..n
    PROVE  Removed(SubSeq(e, 1, k - 1) \o SubSeq(e, k + 1, n), e, n, k, S)
<1>1. n \in Nat /\ k \in Nat /\ \A i \in 1..n : e[i] \in S
  BY LenProperties, ElementOfSeq
<1>2. PICK a : a = SubSeq(e, 1, k - 1)
  OBVIOUS
<1>3. a \in Seq(S) /\ Len(a) = k - 1 /\ \A i \in 1..(k - 1) : a[i] = e[i]
  <2>1. PICK l \in 0..n : l = k - 1
    BY <1>1
  <2>2. SubSeq(e, 1, l) \in Seq(S) /\ Len(SubSeq(e, 1, l)) = l
        /\ \A i \in 1..l : SubSeq(e, 1, l)[i] = e[i]
    BY PrefixIs
  <2> QED
    BY <1>2, <2>1, <2>2
<1>4. PICK b : b = SubSeq(e, k + 1, n)
  OBVIOUS
<1>5. k + 1 \in Int /\ n \in Int /\ \A i \in (k + 1)..n : e[i] \in S
  BY <1>1
<1>6. /\ b \in Seq(S) /\ Len(b) = IF k + 1 <= n THEN n - (k + 1) + 1 ELSE 0
      /\ \A i \in 1..(n - (k + 1) + 1) : b[i] = e[(k + 1) + i - 1]
  BY <1>4, <1>5, SubSeqProperties
<1>7. Len(b) = n - k
  BY <1>1, <1>6
<1>8. PICK d : d = a \o b
  OBVIOUS
<1>9. /\ d \in Seq(S) /\ Len(d) = n - 1
      /\ \A i \in 1..(n - 1) : d[i] = IF i <= k - 1 THEN a[i] ELSE b[i - (k - 1)]
  <2>1. /\ d \in Seq(S) /\ Len(d) = Len(a) + Len(b)
        /\ \A i \in 1..(Len(a) + Len(b)) : d[i] = IF i <= Len(a) THEN a[i] ELSE b[i - Len(a)]
    BY <1>3, <1>6, <1>8, ConcatProperties
  <2>2. Len(a) + Len(b) = n - 1
    BY <1>1, <1>3, <1>7
  <2> QED
    BY <1>3, <2>1, <2>2
<1>10. ASSUME NEW j \in 1..(n - 1)
       PROVE  d[j] = IF j < k THEN e[j] ELSE e[j + 1]
  <2>1. CASE j < k
    <3>1. j \in 1..(k - 1) /\ j <= k - 1
      BY <1>1, <2>1
    <3> QED
      BY <1>3, <1>9, <2>1, <3>1
  <2>2. CASE ~(j < k)
    <3>1. PICK i \in 1..(n - k) : i = j - (k - 1) /\ (k + 1) + i - 1 = j + 1
      BY <1>1, <2>2
    <3>2. i \in 1..(n - (k + 1) + 1)
      BY <1>1
    <3>3. b[i] = e[j + 1]
      BY <1>6, <3>1, <3>2
    <3>4. ~(j <= k - 1)
      BY <1>1, <2>2
    <3> QED
      BY <1>9, <2>2, <3>1, <3>3, <3>4
  <2> QED
    BY <2>1, <2>2
<1> QED
  BY <1>2, <1>4, <1>8, <1>9, <1>10 DEF Removed

==============================================================================
