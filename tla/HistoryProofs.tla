----------------------------- MODULE HistoryProofs -----------------------------
(***************************************************************************)
(* What FlattenSeq computes, and about the calculator's history: that the  *)
(* file a history of fitting lines is written to is read back as it was.   *)
(***************************************************************************)
EXTENDS History, Induction

LOCAL INSTANCE SequencesExt

------------------------------------------------------------------------------
(* Sequences put one after another *)

Parts(S) == Seq(Seq(S))

LEMMA FlattenEmpty == FlattenSeq(<<>>) = <<>>
BY DEF FlattenSeq

\* A function h that begins with nothing and adds one sequence of ss at each step has
\* their concatenation at the end; and there is such a function.
LEMMA FlattenTo ==
    ASSUME NEW S, NEW ss \in Parts(S)
    PROVE  \E h \in [Nat -> Seq(S)] :
              /\ h[0] = <<>>
              /\ \A i \in 1..Len(ss) : h[i] = h[i - 1] \o ss[i]
              /\ FlattenSeq(ss) = h[Len(ss)]
<1>1. PICK n \in Nat : n = Len(ss) /\ \A i \in 1..n : ss[i] \in Seq(S)
  BY LenProperties, ElementOfSeq DEF Parts
<1>2. <<>> \in Seq(S)
  BY EmptySeq
<1> DEFINE Put(i, x) == IF i < n THEN x \o ss[i + 1] ELSE x
           F == [i \in Nat |-> [x \in Seq(S) |-> Put(i, x)]]
           Unfolds(f) == f = [i \in 1..n |-> IF i = 1 THEN ss[i] ELSE f[i - 1] \o ss[i]]
           c == CHOOSE f : Unfolds(f)
<1>3. \A i \in Nat : \A x \in Seq(S) : Put(i, x) \in Seq(S)
  <2> SUFFICES ASSUME NEW i \in Nat, NEW x \in Seq(S)
               PROVE  Put(i, x) \in Seq(S)
    OBVIOUS
  <2>1. CASE i < n
    <3>1. i + 1 \in 1..n
      BY <2>1
    <3>2. ss[i + 1] \in Seq(S)
      BY <1>1, <3>1
    <3>3. x \o ss[i + 1] \in Seq(S)
      BY <3>2, ConcatProperties
    <3> QED
      BY <2>1, <3>3
  <2> QED
    BY <2>1
<1>4. F \in [Nat -> [Seq(S) -> Seq(S)]]
  <2> HIDE DEF Put
  <2> QED
    BY <1>3
<1>5. PICK h \in [Nat -> Seq(S)] : h[0] = <<>> /\ \A i \in Nat : h[i + 1] = F[i][h[i]]
  <2> HIDE DEF F
  <2>1. \E h : Iterates(h, Seq(S), <<>>, F)
    BY <1>2, <1>4, Recursion
  <2> QED
    BY <2>1 DEF Iterates
<1>6. \A i \in 1..n : h[i] = h[i - 1] \o ss[i]
  <2> SUFFICES ASSUME NEW i \in 1..n
               PROVE  h[i] = h[i - 1] \o ss[i]
    OBVIOUS
  <2>1. i - 1 \in Nat /\ (i - 1) + 1 = i /\ i - 1 < n
    OBVIOUS
  <2>2. h[i] = F[i - 1][h[i - 1]]
    <3> HIDE DEF F
    <3> QED
      BY <1>5, <2>1
  <2>3. h[i - 1] \in Seq(S)
    BY <2>1
  <2>4. F[i - 1][h[i - 1]] = Put(i - 1, h[i - 1])
    <3> HIDE DEF Put
    <3> QED
      BY <2>1, <2>3
  <2>5. Put(i - 1, h[i - 1]) = h[i - 1] \o ss[i]
    BY <2>1
  <2> QED
    BY <2>2, <2>4, <2>5
<1>7. CASE n = 0
  <2>1. ss = <<>>
    BY <1>1, <1>7, EmptySeq DEF Parts
  <2> QED
    BY <1>1, <1>5, <1>6, <1>7, <2>1, FlattenEmpty
<1>8. CASE n # 0
  <2> DEFINE g == [i \in 1..n |-> h[i]]
  <2>1. h[1] = ss[1]
    <3>1. 1 \in 1..n /\ 1 - 1 = 0
      BY <1>8
    <3>2. h[1] = h[0] \o ss[1]
      BY <1>6, <3>1
    <3>3. ss[1] \in Seq(S)
      BY <1>1, <3>1
    <3>4. <<>> \o ss[1] = ss[1]
      BY <3>3, ConcatEmptySeq
    <3> QED
      BY <1>5, <3>2, <3>4
  <2>2. Unfolds(g)
    <3>1. ASSUME NEW i \in 1..n
          PROVE  h[i] = IF i = 1 THEN ss[i] ELSE g[i - 1] \o ss[i]
      <4>1. CASE i = 1
        BY <2>1, <4>1
      <4>2. CASE i # 1
        <5>1. i - 1 \in 1..n
          BY <4>2
        <5> QED
          BY <1>6, <4>2, <5>1
      <4> QED
        BY <4>1, <4>2
    <3> QED
      BY <3>1
  <2>3. Unfolds(c)
    <3> HIDE DEF g
    <3> QED
      BY <2>2
  <2> DEFINE T == {k \in Nat : k + 1 <= n => c[k + 1] = h[k + 1]}
  <2> HIDE DEF c
  <2>4. 0 \in T
    <3>1. 1 \in 1..n
      BY <1>8
    <3>2. c[1] = ss[1]
      BY <2>3, <3>1
    <3> QED
      BY <2>1, <3>2
  <2>5. ASSUME NEW k \in Nat, k \in T
        PROVE  k + 1 \in T
    <3> SUFFICES ASSUME (k + 1) + 1 <= n
                 PROVE  c[(k + 1) + 1] = h[(k + 1) + 1]
      OBVIOUS
    <3> DEFINE j == (k + 1) + 1
    <3>1. j \in 1..n /\ j # 1 /\ j - 1 = k + 1 /\ k + 1 <= n
      OBVIOUS
    <3>2. c[k + 1] = h[k + 1]
      BY <2>5, <3>1
    <3> HIDE DEF j
    <3>3. c[j] = c[j - 1] \o ss[j]
      BY <2>3, <3>1
    <3>4. h[j] = h[j - 1] \o ss[j]
      BY <1>6, <3>1
    <3>5. c[j] = h[j]
      BY <3>1, <3>2, <3>3, <3>4
    <3> QED
      BY <3>5 DEF j
  <2>6. n - 1 \in T
    <3>1. \A k \in Nat : k \in T
      <4> HIDE DEF T
      <4> QED
        BY <2>4, <2>5, SetInduction
    <3>2. n - 1 \in Nat
      BY <1>8
    <3> HIDE DEF T
    <3> QED
      BY <3>1, <3>2
  <2>7. c[n] = h[n]
    <3>1. (n - 1) + 1 = n
      OBVIOUS
    <3> QED
      BY <2>6, <3>1
  <2>8. FlattenSeq(ss) = c[n]
    BY <1>1, <1>8 DEF FlattenSeq, c
  <2> QED
    BY <1>1, <1>5, <1>6, <2>7, <2>8
<1> QED
  BY <1>7, <1>8

LEMMA FlattenIs ==
    ASSUME NEW S, NEW ss \in Parts(S), NEW h \in [Nat -> Seq(S)], h[0] = <<>>,
           \A i \in 1..Len(ss) : h[i] = h[i - 1] \o ss[i]
    PROVE  FlattenSeq(ss) = h[Len(ss)]
<1>1. PICK g \in [Nat -> Seq(S)] : /\ g[0] = <<>>
                                   /\ \A i \in 1..Len(ss) : g[i] = g[i - 1] \o ss[i]
                                   /\ FlattenSeq(ss) = g[Len(ss)]
  BY FlattenTo
<1>2. Len(ss) \in Nat
  BY LenProperties DEF Parts
<1> DEFINE T == {k \in Nat : k <= Len(ss) => g[k] = h[k]}
<1>3. 0 \in T
  BY <1>1
<1>4. ASSUME NEW k \in Nat, k \in T
      PROVE  k + 1 \in T
  <2> SUFFICES ASSUME k + 1 <= Len(ss)
               PROVE  g[k + 1] = h[k + 1]
    OBVIOUS
  <2>1. k + 1 \in 1..Len(ss) /\ (k + 1) - 1 = k /\ g[k] = h[k]
    BY <1>2, <1>4
  <2> QED
    BY <1>1, <2>1
<1>5. \A k \in Nat : k \in T
  <2> HIDE DEF T
  <2> QED
    BY <1>3, <1>4, SetInduction
<1> QED
  BY <1>1, <1>2, <1>5

LEMMA FlattenType ==
    ASSUME NEW S, NEW ss \in Parts(S)
    PROVE  FlattenSeq(ss) \in Seq(S)
<1>1. PICK h \in [Nat -> Seq(S)] : FlattenSeq(ss) = h[Len(ss)]
  BY FlattenTo
<1>2. Len(ss) \in Nat
  BY LenProperties DEF Parts
<1> QED
  BY <1>1, <1>2

LEMMA FlattenConcat ==
    ASSUME NEW S, NEW ss \in Parts(S), NEW tt \in Parts(S)
    PROVE  FlattenSeq(ss \o tt) = FlattenSeq(ss) \o FlattenSeq(tt)
<1>1. PICK n \in Nat : n = Len(ss)
  BY LenProperties DEF Parts
<1>2. PICK m \in Nat : m = Len(tt)
  BY LenProperties DEF Parts
<1>3. PICK f : /\ f \in [Nat -> Seq(S)] /\ f[0] = <<>>
               /\ \A i \in 1..n : f[i] = f[i - 1] \o ss[i]
               /\ FlattenSeq(ss) = f[n]
  BY <1>1, FlattenTo
<1>4. PICK g : /\ g \in [Nat -> Seq(S)] /\ g[0] = <<>>
               /\ \A i \in 1..m : g[i] = g[i - 1] \o tt[i]
               /\ FlattenSeq(tt) = g[m]
  BY <1>2, FlattenTo
<1> DEFINE h == [i \in Nat |-> IF i <= n THEN f[i] ELSE f[n] \o g[i - n]]
<1>5. h \in [Nat -> Seq(S)]
  <2>1. ASSUME NEW i \in Nat, ~(i <= n)
        PROVE  f[n] \o g[i - n] \in Seq(S)
    <3>1. i - n \in Nat
      BY <2>1
    <3>2. PICK a, b \in Seq(S) : a = f[n] /\ b = g[i - n]
      BY <1>3, <1>4, <3>1
    <3>3. a \o b \in Seq(S)
      BY ConcatProperties
    <3> QED
      BY <3>2, <3>3
  <2> QED
    BY <1>3, <2>1
<1>6. \A i \in 0..n : h[i] = f[i]
  OBVIOUS
<1>7. \A j \in 0..m : h[n + j] = f[n] \o g[j]
  <2> SUFFICES ASSUME NEW j \in 0..m
               PROVE  h[n + j] = f[n] \o g[j]
    OBVIOUS
  <2>1. CASE j = 0
    <3>1. PICK a \in Seq(S) : a = f[n]
      BY <1>3
    <3>2. a \o <<>> = a
      BY ConcatEmptySeq
    <3>3. h[n + j] = f[n]
      BY <1>6, <2>1
    <3> QED
      BY <1>4, <2>1, <3>1, <3>2, <3>3
  <2>2. CASE j # 0
    <3>1. n + j \in Nat /\ ~(n + j <= n) /\ (n + j) - n = j
      BY <2>2
    <3> QED
      BY <3>1
  <2> QED
    BY <2>1, <2>2
<1> HIDE DEF h
<1>8. ss \o tt \in Parts(S) /\ Len(ss \o tt) = n + m
  BY <1>1, <1>2, ConcatProperties DEF Parts
<1>9. \A i \in 1..(n + m) : (ss \o tt)[i] = IF i <= n THEN ss[i] ELSE tt[i - n]
  BY <1>1, <1>2, ConcatProperties DEF Parts
<1>10. ASSUME NEW i \in 1..(n + m)
       PROVE  h[i] = h[i - 1] \o (ss \o tt)[i]
  <2>1. CASE i <= n
    <3>1. i \in 1..n /\ i \in 0..n /\ i - 1 \in 0..n
      BY <2>1
    <3>2. h[i] = f[i] /\ h[i - 1] = f[i - 1]
      BY <1>6, <3>1
    <3>3. f[i] = f[i - 1] \o ss[i]
      BY <1>3, <3>1
    <3>4. (ss \o tt)[i] = ss[i]
      BY <1>9, <2>1
    <3> QED
      BY <3>2, <3>3, <3>4
  <2>2. CASE ~(i <= n)
    <3>1. PICK j \in 1..m : j = i - n
      BY <2>2
    <3>2. i = n + j /\ i - 1 = n + (j - 1) /\ j \in 0..m /\ j - 1 \in 0..m /\ j - 1 \in Nat
      BY <3>1
    <3>3. h[i] = f[n] \o g[j] /\ h[i - 1] = f[n] \o g[j - 1]
      BY <1>7, <3>2
    <3>4. g[j] = g[j - 1] \o tt[j] /\ (ss \o tt)[i] = tt[j]
      BY <1>4, <1>9, <2>2, <3>1
    <3>5. tt[j] \in Seq(S)
      BY <1>2, ElementOfSeq DEF Parts
    <3>6. f[n] \in Seq(S) /\ g[j - 1] \in Seq(S)
      BY <1>3, <1>4, <3>2
    <3>7. PICK a, b, c \in Seq(S) : a = f[n] /\ b = g[j - 1] /\ c = tt[j]
      BY <3>5, <3>6
    <3>8. (a \o b) \o c = a \o (b \o c)
      BY ConcatAssociative
    <3> QED
      BY <3>3, <3>4, <3>7, <3>8
  <2> QED
    BY <2>1, <2>2
<1>11. h[0] = <<>>
  <2>1. 0 \in 0..n
    OBVIOUS
  <2> QED
    BY <1>3, <1>6, <2>1
<1>12. FlattenSeq(ss \o tt) = h[n + m]
  BY <1>5, <1>8, <1>10, <1>11, FlattenIs
<1>13. h[n + m] = f[n] \o g[m]
  <2>1. m \in 0..m
    OBVIOUS
  <2> QED
    BY <1>7, <2>1
<1> QED
  BY <1>3, <1>4, <1>12, <1>13

\* Shorter parts make a shorter sequence.
LEMMA FlattenShorter ==
    ASSUME NEW S, NEW ss \in Parts(S), NEW tt \in Parts(S)
    PROVE  Len(ss) = Len(tt) /\ (\A i \in 1..Len(tt) : Len(ss[i]) <= Len(tt[i]))
              => Len(FlattenSeq(ss)) <= Len(FlattenSeq(tt))
<1>n. PICK n \in Nat : n = Len(ss)
  BY LenProperties DEF Parts
<1>m. PICK m \in Nat : m = Len(tt)
  BY LenProperties DEF Parts
<1>2. PICK f : /\ f \in [Nat -> Seq(S)] /\ f[0] = <<>>
               /\ \A i \in 1..n : f[i] = f[i - 1] \o ss[i]
               /\ FlattenSeq(ss) = f[n]
  BY <1>n, FlattenTo
<1>3. PICK g : /\ g \in [Nat -> Seq(S)] /\ g[0] = <<>>
               /\ \A i \in 1..m : g[i] = g[i - 1] \o tt[i]
               /\ FlattenSeq(tt) = g[m]
  BY <1>m, FlattenTo
<1> SUFFICES ASSUME Len(ss) = Len(tt), \A i \in 1..Len(tt) : Len(ss[i]) <= Len(tt[i])
             PROVE  Len(FlattenSeq(ss)) <= Len(FlattenSeq(tt))
  OBVIOUS
<1>1. n = Len(ss) /\ n = Len(tt) /\ n = m
  BY <1>n, <1>m
<1> DEFINE T == {k \in Nat : k <= n => Len(f[k]) <= Len(g[k])}
<1>4. 0 \in T
  <2>1. Len(f[0]) = 0 /\ Len(g[0]) = 0
    BY <1>2, <1>3, EmptySeq
  <2> QED
    BY <2>1
<1>5. ASSUME NEW k \in Nat, k \in T
      PROVE  k + 1 \in T
  <2> SUFFICES ASSUME k + 1 <= n
               PROVE  Len(f[k + 1]) <= Len(g[k + 1])
    OBVIOUS
  <2>1. k + 1 \in 1..n /\ (k + 1) - 1 = k /\ k <= n
    OBVIOUS
  <2>2. PICK a, b : a = f[k] /\ b = ss[k + 1]
    OBVIOUS
  <2>3. PICK c, d : c = g[k] /\ d = tt[k + 1]
    OBVIOUS
  <2>4. a \in Seq(S) /\ c \in Seq(S)
    BY <1>2, <1>3, <2>2, <2>3
  <2>5. b \in Seq(S)
    BY <1>1, <2>1, <2>2, ElementOfSeq DEF Parts
  <2>6. d \in Seq(S)
    BY <1>1, <2>1, <2>3, ElementOfSeq DEF Parts
  <2>7. Len(a \o b) = Len(a) + Len(b)
    BY <2>4, <2>5, ConcatProperties
  <2>8. Len(c \o d) = Len(c) + Len(d)
    BY <2>4, <2>6, ConcatProperties
  <2>9. Len(a) <= Len(c)
    BY <1>5, <2>1, <2>2, <2>3
  <2>10. Len(b) <= Len(d)
    BY <1>1, <2>1, <2>2, <2>3
  <2>11. f[k + 1] = a \o b /\ g[k + 1] = c \o d
    BY <1>1, <1>2, <1>3, <2>1, <2>2, <2>3
  <2>12. PICK p, q, r, s \in Nat : p = Len(a) /\ q = Len(b) /\ r = Len(c) /\ s = Len(d)
    BY <2>4, <2>5, <2>6, LenProperties
  <2>13. p <= r /\ q <= s
    BY <2>9, <2>10, <2>12
  <2>14. p + q <= r + s
    BY <2>13
  <2> QED
    BY <2>7, <2>8, <2>11, <2>12, <2>14
<1>6. n \in T
  <2> HIDE DEF T
  <2> QED
    BY <1>4, <1>5, SetInduction
<1> QED
  BY <1>1, <1>2, <1>3, <1>6

\* Parts of at most one element each.
LEMMA FlattenOnes ==
    ASSUME NEW S, NEW ss \in Parts(S), \A i \in 1..Len(ss) : Len(ss[i]) <= 1
    PROVE  Len(FlattenSeq(ss)) <= Len(ss)
<1>1. PICK n \in Nat : n = Len(ss)
  BY LenProperties DEF Parts
<1>2. PICK f : /\ f \in [Nat -> Seq(S)] /\ f[0] = <<>>
               /\ \A i \in 1..n : f[i] = f[i - 1] \o ss[i]
               /\ FlattenSeq(ss) = f[n]
  BY <1>1, FlattenTo
<1> DEFINE T == {k \in Nat : k <= n => Len(f[k]) <= k}
<1>3. 0 \in T
  <2>1. Len(f[0]) = 0
    BY <1>2, EmptySeq
  <2> QED
    BY <2>1
<1>4. ASSUME NEW k \in Nat, k \in T
      PROVE  k + 1 \in T
  <2> SUFFICES ASSUME k + 1 <= n
               PROVE  Len(f[k + 1]) <= k + 1
    OBVIOUS
  <2>1. k + 1 \in 1..n /\ (k + 1) - 1 = k /\ k <= n
    OBVIOUS
  <2>2. PICK a, b : a = f[k] /\ b = ss[k + 1]
    OBVIOUS
  <2>3. a \in Seq(S)
    BY <1>2, <2>2
  <2>4. b \in Seq(S)
    BY <1>1, <2>1, <2>2, ElementOfSeq DEF Parts
  <2>5. Len(a \o b) = Len(a) + Len(b)
    BY <2>3, <2>4, ConcatProperties
  <2>6. Len(a) <= k /\ Len(b) <= 1
    BY <1>1, <1>4, <2>1, <2>2
  <2>7. Len(a) \in Nat /\ Len(b) \in Nat
    BY <2>3, <2>4, LenProperties
  <2>8. f[k + 1] = a \o b
    BY <1>2, <2>1, <2>2
  <2> QED
    BY <2>5, <2>6, <2>7, <2>8
<1>5. n \in T
  <2> HIDE DEF T
  <2> QED
    BY <1>3, <1>4, SetInduction
<1> QED
  BY <1>1, <1>2, <1>5

------------------------------------------------------------------------------
(* The lines of a file *)

Stops(f, n) == n = LINE - 1 \/ n = Len(f) \/ f[n] = "\n"
LineOf(f) == IF f[Taken(f)] = "\n" THEN SubSeq(f, 1, Taken(f) - 1) ELSE SubSeq(f, 1, Taken(f))
RestOf(f) == SubSeq(f, Taken(f) + 1, Len(f))

LEMMA BytesLen ==
    ASSUME NEW f \in Bytes
    PROVE  /\ Len(f) \in Nat
           /\ f # <<>> => Len(f) # 0
           /\ \A i \in 1..Len(f) : f[i] # "\n" => f[i] \in Byte
BY EmptySeq, LenProperties, ElementOfSeq DEF Bytes

\* fgets stops at the first place where it has to.
LEMMA TakenStops ==
    ASSUME NEW f \in Bytes, f # <<>>
    PROVE  /\ Taken(f) \in 1..Len(f)
           /\ Stops(f, Taken(f))
           /\ \A i \in 1..(Taken(f) - 1) : i # LINE - 1 /\ f[i] # "\n"
<1>1. PICK m \in Nat : m = Len(f) /\ m # 0
  BY BytesLen
<1> DEFINE U == {n \in 1..m : Stops(f, n)}
<1>2. m \in U
  BY <1>1 DEF Stops
<1>3. PICK n \in U : \A y \in U : ~(y < n)
  <2>1. U \subseteq Nat /\ U # {}
    BY <1>2
  <2> HIDE DEF U
  <2> QED
    BY <2>1, LeastElement
<1>4. ASSUME NEW i \in 1..(n - 1)
      PROVE  i # LINE - 1 /\ f[i] # "\n"
  <2>1. i \in 1..m /\ i < n
    BY <1>3
  <2>2. ~Stops(f, i)
    BY <1>3, <2>1
  <2> QED
    BY <2>2 DEF Stops
<1>5. \E k \in 1..Len(f) : Stops(f, k) /\ \A i \in 1..(k - 1) : i # LINE - 1 /\ f[i] # "\n"
  BY <1>1, <1>4
<1> QED
  BY <1>5 DEF Taken, Stops

LEMMA TakenIs ==
    ASSUME NEW f \in Bytes, NEW n \in 1..Len(f), Stops(f, n),
           \A i \in 1..(n - 1) : i # LINE - 1 /\ f[i] # "\n"
    PROVE  Taken(f) = n
<1>1. PICK m \in Nat : m = Len(f) /\ n \in 1..m
  BY BytesLen
<1>2. f # <<>>
  BY EmptySeq
<1>3. PICK t \in 1..m : /\ t = Taken(f) /\ Stops(f, t)
                        /\ \A i \in 1..(t - 1) : i # LINE - 1 /\ f[i] # "\n"
  BY <1>1, <1>2, TakenStops
<1>4. ~(t < n)
  <2> SUFFICES ASSUME t < n
               PROVE  FALSE
    OBVIOUS
  <2>1. t \in 1..(n - 1) /\ t # m
    BY <1>1
  <2> QED
    BY <1>1, <1>3, <2>1 DEF Stops
<1>5. ~(n < t)
  <2> SUFFICES ASSUME n < t
               PROVE  FALSE
    OBVIOUS
  <2>1. n \in 1..(t - 1) /\ n # m
    BY <1>1
  <2> QED
    BY <1>1, <1>3, <2>1 DEF Stops
<1> QED
  BY <1>1, <1>3, <1>4, <1>5

\* The line has no end of line in it and fits the buffer; what is left is shorter.
LEMMA LineAndRest ==
    ASSUME NEW f \in Bytes, f # <<>>
    PROVE  /\ LineOf(f) \in Seq(Byte) /\ Len(LineOf(f)) < LINE
           /\ RestOf(f) \in Bytes /\ Len(RestOf(f)) < Len(f)
<1>1. PICK m \in Nat : m = Len(f) /\ m # 0 /\ \A i \in 1..m : f[i] # "\n" => f[i] \in Byte
  BY BytesLen
<1>2. PICK t \in 1..m : /\ t = Taken(f) /\ Stops(f, t)
                        /\ \A i \in 1..(t - 1) : i # LINE - 1 /\ f[i] # "\n"
  BY <1>1, TakenStops
<1>3. LINE \in Nat /\ LINE >= 2
  BY LineAssumption
<1>4. t <= LINE - 1
  <2> SUFFICES ASSUME LINE - 1 < t
               PROVE  FALSE
    BY <1>3
  <2>1. LINE - 1 \in 1..(t - 1)
    BY <1>3
  <2> QED
    BY <1>2, <2>1
<1>5. LineOf(f) \in Seq(Byte) /\ Len(LineOf(f)) < LINE
  <2> DEFINE k == IF f[t] = "\n" THEN t - 1 ELSE t
  <2>1. LineOf(f) = SubSeq(f, 1, k)
    BY <1>2 DEF LineOf
  <2>2. k \in Nat /\ k < LINE /\ \A i \in 1..k : f[i] \in Byte
    <3>1. CASE f[t] = "\n"
      BY <1>1, <1>2, <1>3, <1>4, <3>1
    <3>2. CASE f[t] # "\n"
      <4>1. \A i \in 1..t : f[i] # "\n"
        BY <1>2, <3>2
      <4> QED
        BY <1>1, <1>3, <1>4, <3>2, <4>1
    <3> QED
      BY <3>1, <3>2
  <2> HIDE DEF k
  <2>3. SubSeq(f, 1, k) \in Seq(Byte) /\ Len(SubSeq(f, 1, k)) = IF 1 <= k THEN k - 1 + 1 ELSE 0
    BY <2>2, SubSeqProperties
  <2> QED
    BY <1>3, <2>1, <2>2, <2>3
<1>6. RestOf(f) \in Bytes /\ Len(RestOf(f)) < Len(f)
  <2>1. RestOf(f) = SubSeq(f, t + 1, m)
    BY <1>1, <1>2 DEF RestOf
  <2>2. \A i \in (t + 1)..m : f[i] \in Byte \cup {"\n"}
    BY <1>1
  <2>3. /\ SubSeq(f, t + 1, m) \in Seq(Byte \cup {"\n"})
        /\ Len(SubSeq(f, t + 1, m)) = IF t + 1 <= m THEN m - (t + 1) + 1 ELSE 0
    BY <2>2, SubSeqProperties
  <2> QED
    BY <1>1, <2>1, <2>3 DEF Bytes
<1> QED
  BY <1>5, <1>6

\* The lines of f, given a function to the lines of shorter files.
Step(g, f) == IF f = <<>> THEN <<>> ELSE <<LineOf(f)>> \o g[RestOf(f)]

LEMMA StepType ==
    ASSUME NEW g \in [Bytes -> Parts(Byte)], NEW f \in Bytes
    PROVE  Step(g, f) \in Parts(Byte)
<1>1. CASE f = <<>>
  BY <1>1, EmptySeq DEF Step, Parts
<1>2. CASE f # <<>>
  <2>1. PICK a, r : a = LineOf(f) /\ r = RestOf(f) /\ a \in Seq(Byte) /\ r \in Bytes
    BY <1>2, LineAndRest
  <2>2. PICK b : b = g[r] /\ b \in Parts(Byte)
    BY <2>1
  <2>3. <<a>> \o b \in Parts(Byte)
    <3> DEFINE L == Seq(Byte)
    <3>1. a \in L /\ b \in Seq(L)
      BY <2>1, <2>2 DEF Parts
    <3> HIDE DEF L
    <3>2. <<a>> \in Seq(L)
      BY <3>1
    <3>3. <<a>> \o b \in Seq(L)
      BY <3>1, <3>2, ConcatProperties
    <3> QED
      BY <3>3 DEF L, Parts
  <2> QED
    BY <1>2, <2>1, <2>2, <2>3 DEF Step
<1> QED
  BY <1>1, <1>2

\* The recursion of Lines ends, as the rest of a file is shorter than the file: what n
\* steps make of a file of n bytes or fewer, more steps do not change.
LEMMA LinesUnfold == \A f \in Bytes : Lines[f] = Step(Lines, f)
<1> DEFINE X == [Bytes -> Parts(Byte)]
           x0 == [f \in Bytes |-> <<>>]
           F == [i \in Nat |-> [g \in X |-> [f \in Bytes |-> Step(g, f)]]]
           Unfolds(g) == g = [f \in Bytes |-> Step(g, f)]
<1>1. x0 \in X
  <2>1. <<>> \in Parts(Byte)
    BY EmptySeq DEF Parts
  <2> QED
    BY <2>1
<1>2. \A g \in X : [f \in Bytes |-> Step(g, f)] \in X
  BY StepType
<1>3. PICK h : /\ h \in [Nat -> X] /\ h[0] = x0
               /\ \A n \in Nat : h[n + 1] = F[n][h[n]]
  <2>1. F \in [Nat -> [X -> X]]
    <3> HIDE DEF X
    <3> QED
      BY <1>2
  <2> HIDE DEF F, X, x0, Unfolds
  <2>2. \E h : Iterates(h, X, x0, F)
    BY <1>1, <2>1, Recursion
  <2> QED
    BY <2>2 DEF Iterates
<1>4. \A n \in Nat : h[n] \in X /\ h[n + 1] = [f \in Bytes |-> Step(h[n], f)]
  <2> HIDE DEF X
  <2> QED
    BY <1>3
<1>5. \A n \in Nat : \A f \in Bytes : h[n + 1][f] = Step(h[n], f)
  <2> HIDE DEF F, X, x0
  <2> QED
    BY <1>4
<1>6. \A n \in Nat : h[n][<<>>] = <<>>
  <2>1. <<>> \in Bytes
    BY EmptySeq DEF Bytes
  <2> SUFFICES ASSUME NEW n \in Nat
               PROVE  h[n][<<>>] = <<>>
    OBVIOUS
  <2>2. CASE n = 0
    BY <1>3, <2>1, <2>2
  <2>3. CASE n # 0
    <3>1. n - 1 \in Nat /\ (n - 1) + 1 = n
      BY <2>3
    <3>2. h[(n - 1) + 1][<<>>] = Step(h[n - 1], <<>>)
      BY <1>5, <2>1, <3>1
    <3> QED
      BY <3>1, <3>2 DEF Step
  <2> QED
    BY <2>2, <2>3
<1> HIDE DEF F, X, x0
<1> DEFINE T == {n \in Nat : \A f \in Bytes : Len(f) <= n => h[n + 1][f] = h[n][f]}
<1>7. 0 \in T
  <2> SUFFICES ASSUME NEW f \in Bytes, Len(f) <= 0
               PROVE  h[0 + 1][f] = h[0][f]
    OBVIOUS
  <2>1. f = <<>>
    BY BytesLen
  <2> QED
    BY <1>6, <2>1
<1>8. ASSUME NEW n \in Nat, n \in T
      PROVE  n + 1 \in T
  <2> SUFFICES ASSUME NEW f \in Bytes, Len(f) <= n + 1
               PROVE  h[(n + 1) + 1][f] = h[n + 1][f]
    OBVIOUS
  <2>1. h[(n + 1) + 1][f] = Step(h[n + 1], f) /\ h[n + 1][f] = Step(h[n], f)
    BY <1>5
  <2>2. CASE f = <<>>
    BY <2>1, <2>2 DEF Step
  <2>3. CASE f # <<>>
    <3>1. RestOf(f) \in Bytes /\ Len(RestOf(f)) <= n
      BY <2>3, LineAndRest, BytesLen
    <3>2. h[n + 1][RestOf(f)] = h[n][RestOf(f)]
      BY <1>8, <3>1
    <3> QED
      BY <2>1, <2>3, <3>2 DEF Step
  <2> QED
    BY <2>2, <2>3
<1>9. \A n \in Nat : n \in T
  <2> HIDE DEF T
  <2> QED
    BY <1>7, <1>8, SetInduction
<1> DEFINE U == {k \in Nat : \A f \in Bytes : \A n \in Nat : Len(f) <= n => h[n + k][f] = h[n][f]}
<1>10. 0 \in U
  OBVIOUS
<1>11. ASSUME NEW k \in Nat, k \in U
       PROVE  k + 1 \in U
  <2> SUFFICES ASSUME NEW f \in Bytes, NEW n \in Nat, Len(f) <= n
               PROVE  h[n + (k + 1)][f] = h[n][f]
    OBVIOUS
  <2>1. n + k \in Nat /\ Len(f) <= n + k /\ n + (k + 1) = (n + k) + 1
    BY BytesLen
  <2>2. n + k \in T
    BY <1>9, <2>1
  <2>3. h[(n + k) + 1][f] = h[n + k][f]
    BY <2>1, <2>2
  <2>4. h[n + k][f] = h[n][f]
    BY <1>11
  <2> QED
    BY <2>1, <2>3, <2>4
<1>12. \A k \in Nat : k \in U
  <2> HIDE DEF U
  <2> QED
    BY <1>10, <1>11, SetInduction
<1> DEFINE D == [f \in Bytes |-> h[Len(f)][f]]
<1>13. \A f \in Bytes : D[f] = Step(D, f)
  <2> SUFFICES ASSUME NEW f \in Bytes
               PROVE  D[f] = Step(D, f)
    OBVIOUS
  <2>1. PICK m \in Nat : m = Len(f)
    BY BytesLen
  <2>2. CASE f = <<>>
    BY <1>6, <2>1, <2>2 DEF Step
  <2>3. CASE f # <<>>
    <3>1. PICK r \in Bytes : r = RestOf(f)
      BY <2>3, LineAndRest
    <3>2. PICK q \in Nat : q = Len(r) /\ q < m
      BY <2>1, <2>3, <3>1, LineAndRest, BytesLen
    <3>3. m - 1 \in Nat /\ (m - 1) + 1 = m /\ (m - 1) - q \in Nat /\ q + ((m - 1) - q) = m - 1
      BY <3>2
    <3>4. h[m][f] = Step(h[m - 1], f)
      BY <1>5, <3>3
    <3>5. h[m - 1][r] = h[q][r]
      <4>1. PICK k \in Nat : k = (m - 1) - q /\ q + k = m - 1
        BY <3>3
      <4>2. Len(r) <= q
        BY <3>2
      <4>3. k \in U
        <5> HIDE DEF U
        <5> QED
          BY <1>12
      <4>4. h[q + k][r] = h[q][r]
        BY <4>2, <4>3
      <4> QED
        BY <4>1, <4>4
    <3>6. D[f] = h[m][f] /\ D[r] = h[q][r]
      BY <2>1, <3>2
    <3> HIDE DEF D
    <3> QED
      BY <2>3, <3>1, <3>4, <3>5, <3>6 DEF Step
  <2> QED
    BY <2>2, <2>3
<1>14. Unfolds(D)
  <2>1. D = [f \in Bytes |-> D[f]]
    OBVIOUS
  <2> HIDE DEF D
  <2> QED
    BY <1>13, <2>1
<1>15. Lines = CHOOSE g : Unfolds(g)
  BY DEF Lines, Step, LineOf, RestOf
<1>16. Unfolds(Lines)
  <2> HIDE DEF D
  <2> HIDE DEF Unfolds
  <2> QED
    BY <1>14, <1>15
<1> QED
  BY <1>16

\* Every line is a text that fits the buffer it was read to.
ShortTexts(ls) == ls \in Parts(Byte) /\ \A i \in 1..Len(ls) : Len(ls[i]) < LINE

LEMMA LinesType == \A f \in Bytes : ShortTexts(Lines[f])
<1> DEFINE T == {n \in Nat : \A f \in Bytes : Len(f) <= n => ShortTexts(Lines[f])}
<1>1. \A f \in Bytes : f = <<>> => ShortTexts(Lines[f])
  <2> SUFFICES ASSUME NEW f \in Bytes, f = <<>>
               PROVE  ShortTexts(Lines[f])
    OBVIOUS
  <2>1. Lines[f] = <<>>
    BY LinesUnfold DEF Step
  <2>2. <<>> \in Parts(Byte) /\ Len(<<>>) = 0
    BY EmptySeq DEF Parts
  <2>3. ShortTexts(<<>>)
    BY <2>2 DEF ShortTexts
  <2> QED
    BY <2>1, <2>3
<1>2. 0 \in T
  BY <1>1, BytesLen
<1>3. ASSUME NEW n \in Nat, n \in T
      PROVE  n + 1 \in T
  <2> SUFFICES ASSUME NEW f \in Bytes, Len(f) <= n + 1
               PROVE  ShortTexts(Lines[f])
    OBVIOUS
  <2>1. CASE f = <<>>
    BY <1>1, <2>1
  <2>2. CASE f # <<>>
    <3>1. PICK r \in Bytes : r = RestOf(f) /\ Len(r) <= n
      BY <2>2, LineAndRest, BytesLen
    <3>2. PICK a, b : a = LineOf(f) /\ b = Lines[r] /\ a \in Seq(Byte) /\ Len(a) < LINE /\ ShortTexts(b)
      BY <1>3, <2>2, <3>1, LineAndRest
    <3>3. Lines[f] = <<a>> \o b
      BY <2>2, <3>1, <3>2, LinesUnfold DEF Step
    <3>4. ShortTexts(<<a>> \o b)
      <4> DEFINE L == Seq(Byte)
      <4>1. a \in L /\ b \in Seq(L) /\ \A i \in 1..Len(b) : Len(b[i]) < LINE
        BY <3>2 DEF ShortTexts, Parts
      <4> HIDE DEF L
      <4>2. <<a>> \in Seq(L) /\ Len(<<a>>) = 1 /\ <<a>>[1] = a
        BY <4>1
      <4>3. PICK k \in Nat : k = Len(b)
        BY <4>1, LenProperties
      <4>4. /\ <<a>> \o b \in Seq(L) /\ Len(<<a>> \o b) = 1 + k
            /\ \A i \in 1..(1 + k) : (<<a>> \o b)[i] = IF i <= 1 THEN <<a>>[i] ELSE b[i - 1]
        BY <4>1, <4>2, <4>3, ConcatProperties
      <4>5. ASSUME NEW i \in 1..(1 + k)
            PROVE  Len((<<a>> \o b)[i]) < LINE
        <5>1. CASE i = 1
          BY <3>2, <4>2, <4>4, <5>1
        <5>2. CASE i # 1
          <6>1. i - 1 \in 1..k /\ ~(i <= 1)
            BY <5>2
          <6> QED
            BY <4>1, <4>3, <4>4, <6>1
        <5> QED
          BY <5>1, <5>2
      <4> QED
        BY <4>4, <4>5 DEF ShortTexts, Parts, L
    <3> QED
      BY <3>3, <3>4
  <2> QED
    BY <2>1, <2>2
<1>4. \A n \in Nat : n \in T
  <2> HIDE DEF T
  <2> QED
    BY <1>2, <1>3, SetInduction
<1> QED
  BY <1>4, BytesLen

\* A text that fits the buffer with its end is read as one line.
LEMMA LineRead ==
    ASSUME NEW e \in Seq(Byte), Len(e) < LINE - 1, NEW g \in Bytes
    PROVE  /\ (e \o <<"\n">>) \o g \in Bytes
           /\ Lines[(e \o <<"\n">>) \o g] = <<e>> \o Lines[g]
<1>1. PICK B : B = Byte \cup {"\n"}
  OBVIOUS
<1>2. e \in Seq(B) /\ g \in Seq(B) /\ <<"\n">> \in Seq(B)
  BY <1>1, SeqMonotonic DEF Bytes
<1>3. PICK n, m \in Nat : /\ n = Len(e) /\ m = Len(g)
                          /\ \A i \in 1..n : e[i] \in Byte
  BY <1>2, LenProperties, ElementOfSeq
<1>4. PICK p : p = e \o <<"\n">>
  OBVIOUS
<1>5. /\ p \in Seq(B) /\ Len(p) = n + 1
      /\ \A i \in 1..(n + 1) : p[i] = IF i <= n THEN e[i] ELSE <<"\n">>[i - n]
  BY <1>2, <1>3, <1>4, ConcatProperties
<1>6. PICK f : f = p \o g
  OBVIOUS
<1>7. /\ f \in Seq(B) /\ Len(f) = n + 1 + m
      /\ \A i \in 1..(n + 1 + m) : f[i] = IF i <= n + 1 THEN p[i] ELSE g[i - (n + 1)]
  <2>1. p \in Seq(B) /\ g \in Seq(B)
    BY <1>2, <1>5
  <2>2. Len(p) = n + 1 /\ Len(g) = m
    BY <1>3, <1>5
  <2>3. /\ p \o g \in Seq(B) /\ Len(p \o g) = Len(p) + Len(g)
        /\ \A i \in 1..(Len(p) + Len(g)) : (p \o g)[i] = IF i <= Len(p) THEN p[i] ELSE g[i - Len(p)]
    BY <2>1, ConcatProperties
  <2> QED
    BY <1>6, <2>2, <2>3
<1>8. \A i \in 1..n : f[i] = e[i] /\ f[i] # "\n"
  BY <1>3, <1>5, <1>7, ByteAssumption
<1>9. f[n + 1] = "\n"
  <2>1. n + 1 \in 1..(n + 1) /\ n + 1 \in 1..(n + 1 + m) /\ ~(n + 1 <= n) /\ (n + 1) - n = 1
    OBVIOUS
  <2> QED
    BY <1>5, <1>7, <2>1
<1>10. f \in Bytes /\ f # <<>>
  BY <1>1, <1>7 DEF Bytes
<1>11. Taken(f) = n + 1
  <2>1. n + 1 \in 1..Len(f) /\ Stops(f, n + 1)
    BY <1>7, <1>9 DEF Stops
  <2>2. \A i \in 1..((n + 1) - 1) : i # LINE - 1 /\ f[i] # "\n"
    BY <1>3, <1>8, LineAssumption
  <2> QED
    BY <1>10, <2>1, <2>2, TakenIs
<1>12. LineOf(f) = e
  <2>1. LineOf(f) = SubSeq(f, 1, n)
    BY <1>9, <1>11 DEF LineOf
  <2>2. SubSeq(f, 1, n) = e
    <3>1. \A i \in 1..n : f[i] \in Byte
      BY <1>3, <1>8
    <3>2. PICK q : q = SubSeq(f, 1, n)
      OBVIOUS
    <3>3. /\ q \in Seq(Byte) /\ Len(q) = IF 1 <= n THEN n - 1 + 1 ELSE 0
          /\ \A i \in 1..(n - 1 + 1) : q[i] = f[1 + i - 1]
      BY <3>1, <3>2, SubSeqProperties
    <3>4. Len(q) = Len(e) /\ \A i \in 1..Len(q) : q[i] = e[i]
      BY <1>3, <1>8, <3>3
    <3> QED
      BY <3>2, <3>3, <3>4, SeqEqual
  <2> QED
    BY <2>1, <2>2
<1>13. RestOf(f) = g
  <2>1. RestOf(f) = SubSeq(f, n + 2, n + 1 + m)
    <3>1. (n + 1) + 1 = n + 2
      OBVIOUS
    <3> QED
      BY <1>7, <1>11, <3>1 DEF RestOf
  <2>2. PICK q : q = SubSeq(f, n + 2, n + 1 + m)
    OBVIOUS
  <2>3. \A i \in (n + 2)..(n + 1 + m) : f[i] \in B
    BY <1>7, ElementOfSeq
  <2>4. /\ q \in Seq(B)
        /\ Len(q) = IF n + 2 <= n + 1 + m THEN n + 1 + m - (n + 2) + 1 ELSE 0
        /\ \A i \in 1..(n + 1 + m - (n + 2) + 1) : q[i] = f[n + 2 + i - 1]
    BY <2>2, <2>3, SubSeqProperties
  <2>5. Len(q) = Len(g)
    BY <1>3, <2>4
  <2>6. ASSUME NEW i \in 1..Len(q)
        PROVE  q[i] = g[i]
    <3>1. i \in 1..m /\ i \in 1..(n + 1 + m - (n + 2) + 1)
      BY <1>3, <2>5
    <3>2. q[i] = f[n + 2 + i - 1]
      BY <2>4, <3>1
    <3>3. PICK j \in 1..(n + 1 + m) : j = n + 2 + i - 1 /\ ~(j <= n + 1) /\ j - (n + 1) = i
      BY <3>1
    <3> QED
      BY <1>7, <3>2, <3>3
  <2> QED
    BY <1>2, <2>1, <2>2, <2>4, <2>5, <2>6, SeqEqual
<1>14. Lines[f] = <<e>> \o Lines[g]
  BY <1>10, <1>12, <1>13, LinesUnfold DEF Step
<1> QED
  BY <1>4, <1>6, <1>10, <1>14

------------------------------------------------------------------------------
(* Writing and reading *)

LEMMA FunctionIsSeq ==
    ASSUME NEW S, NEW n \in Nat, NEW f \in [1..n -> S]
    PROVE  f \in Seq(S) /\ Len(f) = n
BY SeqDef

\* The bytes of an entry.
Record(h) == h.expression \o <<"\n">> \o h.result \o <<"\n">>

LEMMA RecordType ==
    ASSUME NEW h \in Entry
    PROVE  Record(h) \in Bytes
<1>1. PICK B : B = Byte \cup {"\n"}
  OBVIOUS
<1>2. PICK a, b, c : /\ a = h.expression /\ b = h.result /\ c = <<"\n">>
                     /\ a \in Seq(B) /\ b \in Seq(B) /\ c \in Seq(B)
  <2>1. PICK a, b : a = h.expression /\ b = h.result /\ a \in Seq(Byte) /\ b \in Seq(Byte)
    BY DEF Entry
  <2>2. Byte \subseteq B
    BY <1>1
  <2>3. a \in Seq(B) /\ b \in Seq(B)
    BY <2>1, <2>2, SeqMonotonic
  <2>4. <<"\n">> \in Seq(B)
    BY <1>1
  <2> QED
    BY <2>1, <2>3, <2>4
<1>3. a \o c \in Seq(B)
  BY <1>2, ConcatProperties
<1>4. (a \o c) \o b \in Seq(B)
  BY <1>2, <1>3, ConcatProperties
<1>5. ((a \o c) \o b) \o c \in Seq(B)
  BY <1>2, <1>4, ConcatProperties
<1> QED
  BY <1>1, <1>2, <1>5 DEF Record, Bytes

LEMMA WrittenType ==
    ASSUME NEW list \in Seq(Entry)
    PROVE  /\ [i \in DOMAIN list |-> Record(list[i])] \in Seq(Bytes)
           /\ Written(list) \in Bytes
<1>1. PICK n \in Nat : n = Len(list) /\ DOMAIN list = 1..n /\ \A i \in 1..n : list[i] \in Entry
  BY LenProperties, ElementOfSeq
<1> DEFINE f == [i \in DOMAIN list |-> Record(list[i])]
<1>2. f \in [1..n -> Bytes]
  BY <1>1, RecordType
<1>3. f \in Seq(Bytes)
  <2> HIDE DEF f
  <2> QED
    BY <1>2, FunctionIsSeq
<1>4. FlattenSeq(f) \in Bytes
  <2> HIDE DEF f
  <2>1. f \in Parts(Byte \cup {"\n"})
    BY <1>3 DEF Parts, Bytes
  <2> QED
    BY <2>1, FlattenType DEF Bytes
<1> QED
  BY <1>3, <1>4 DEF Written, Record

LEMMA FlattenOne ==
    ASSUME NEW S, NEW s \in Seq(S)
    PROVE  <<s>> \in Parts(S) /\ FlattenSeq(<<s>>) = s
<1> DEFINE h == [i \in Nat |-> IF i = 0 THEN <<>> ELSE s]
           ss == <<s>>
<1>1. ss \in Parts(S) /\ Len(ss) = 1 /\ ss[1] = s
  BY DEF Parts
<1>2. h \in [Nat -> Seq(S)] /\ h[0] = <<>> /\ h[1] = s
  BY EmptySeq
<1>3. \A i \in 1..Len(ss) : h[i] = h[i - 1] \o ss[i]
  <2>1. <<>> \o s = s
    BY ConcatEmptySeq
  <2>2. h[1] = h[0] \o ss[1]
    <3> HIDE DEF h, ss
    <3> QED
      BY <1>1, <1>2, <2>1
  <2> HIDE DEF h, ss
  <2>3. \A i \in 1..Len(ss) : i = 1 /\ i - 1 = 0
    BY <1>1
  <2> QED
    BY <2>2, <2>3
<1>4. FlattenSeq(ss) = h[Len(ss)]
  <2> HIDE DEF h, ss
  <2> QED
    BY <1>1, <1>2, <1>3, FlattenIs
<1>5. FlattenSeq(ss) = s
  <2> HIDE DEF h, ss
  <2> QED
    BY <1>1, <1>2, <1>4
<1> QED
  BY <1>1, <1>5

LEMMA WrittenAppend ==
    ASSUME NEW list \in Seq(Entry), NEW h \in Entry
    PROVE  Written(Append(list, h)) = Written(list) \o Record(h)
<1>1. PICK n \in Nat : n = Len(list) /\ DOMAIN list = 1..n
  BY LenProperties
<1>2. PICK l : l = Append(list, h)
  OBVIOUS
<1>3. /\ l \in Seq(Entry) /\ Len(l) = n + 1 /\ DOMAIN l = 1..(n + 1)
      /\ \A i \in 1..n : l[i] = list[i]
      /\ l[n + 1] = h
  BY <1>1, <1>2, AppendProperties, LenProperties
<1> DEFINE f == [i \in DOMAIN list |-> Record(list[i])]
           g == [i \in DOMAIN l |-> Record(l[i])]
<1>4. f \in Seq(Bytes) /\ g \in Seq(Bytes)
  BY <1>3, WrittenType
<1>5. Len(f) = n /\ Len(g) = n + 1
  <2>1. f \in [1..n -> {Record(list[i]) : i \in 1..n}] /\ g \in [1..(n + 1) -> {Record(l[i]) : i \in 1..(n + 1)}]
    BY <1>1, <1>3
  <2> HIDE DEF f, g
  <2> QED
    BY <2>1, FunctionIsSeq
<1>6. \A i \in 1..n : g[i] = f[i]
  BY <1>1, <1>3
<1>7. g[n + 1] = Record(h)
  BY <1>3
<1> HIDE DEF f, g
<1>8. PICK r : r = Record(h) /\ r \in Bytes
  BY RecordType
<1>9. /\ Append(f, r) \in Seq(Bytes) /\ Len(Append(f, r)) = n + 1
      /\ \A i \in 1..n : Append(f, r)[i] = f[i]
      /\ Append(f, r)[n + 1] = r
  BY <1>4, <1>5, <1>8, AppendProperties
<1>10. g = Append(f, r)
  <2>1. \A i \in 1..Len(g) : g[i] = Append(f, r)[i]
    BY <1>5, <1>6, <1>7, <1>8, <1>9
  <2> QED
    BY <1>4, <1>5, <1>9, <2>1, SeqEqual
<1>11. Append(f, r) = f \o <<r>>
  BY <1>4, <1>8, AppendIsConcat
<1>12. FlattenSeq(f \o <<r>>) = FlattenSeq(f) \o FlattenSeq(<<r>>)
  <2>1. f \in Parts(Byte \cup {"\n"}) /\ <<r>> \in Parts(Byte \cup {"\n"})
    BY <1>4, <1>8, FlattenOne DEF Parts, Bytes
  <2> QED
    BY <2>1, FlattenConcat
<1>13. FlattenSeq(<<r>>) = r
  BY <1>8, FlattenOne DEF Bytes
<1>14. Written(l) = FlattenSeq(g) /\ Written(list) = FlattenSeq(f)
  BY DEF f, g, Written, Record
<1> QED
  BY <1>2, <1>8, <1>10, <1>11, <1>12, <1>13, <1>14

\* Do the lines of an entry fit the buffer they will be read to?
Short(h) == Len(h.expression) < LINE - 1 /\ Len(h.result) < LINE - 1

LEMMA RecordRead ==
    ASSUME NEW h \in Entry, Short(h), NEW g \in Bytes
    PROVE  /\ Record(h) \o g \in Bytes
           /\ Lines[Record(h) \o g] = <<h.expression>> \o (<<h.result>> \o Lines[g])
<1>1. PICK a, b : /\ a = h.expression /\ b = h.result /\ a \in Seq(Byte) /\ b \in Seq(Byte)
                  /\ Len(a) < LINE - 1 /\ Len(b) < LINE - 1
  BY DEF Entry, Short
<1>2. PICK B, c : B = Byte \cup {"\n"} /\ c = <<"\n">>
  OBVIOUS
<1>3. a \in Seq(B) /\ b \in Seq(B) /\ c \in Seq(B) /\ g \in Seq(B)
  <2>1. Byte \subseteq B /\ c \in Seq(B) /\ g \in Seq(B)
    BY <1>2 DEF Bytes
  <2> QED
    BY <1>1, <2>1, SeqMonotonic
<1>4. PICK u : u = (b \o c) \o g /\ u \in Bytes /\ Lines[u] = <<b>> \o Lines[g]
  BY <1>1, <1>2, LineRead
<1>5. PICK v : v = (a \o c) \o u /\ v \in Bytes /\ Lines[v] = <<a>> \o Lines[u]
  <2>1. u \in Bytes
    BY <1>4
  <2>2. a \in Seq(Byte) /\ Len(a) < LINE - 1
    BY <1>1
  <2>3. (a \o <<"\n">>) \o u \in Bytes /\ Lines[(a \o <<"\n">>) \o u] = <<a>> \o Lines[u]
    BY <2>1, <2>2, LineRead
  <2> QED
    BY <1>2, <2>3
<1>6. Record(h) \o g = v
  <2>1. PICK x, y, z : /\ x = a \o c /\ y = x \o b /\ z = b \o c
                       /\ x \in Seq(B) /\ y \in Seq(B) /\ z \in Seq(B)
    <3>1. PICK x : x = a \o c /\ x \in Seq(B)
      BY <1>3, ConcatProperties
    <3>2. PICK y : y = x \o b /\ y \in Seq(B)
      BY <1>3, <3>1, ConcatProperties
    <3>3. PICK z : z = b \o c /\ z \in Seq(B)
      BY <1>3, ConcatProperties
    <3> QED
      BY <3>1, <3>2, <3>3
  <2>2. y \o c = x \o z
    <3>1. x \in Seq(B) /\ b \in Seq(B) /\ c \in Seq(B)
      BY <1>3, <2>1
    <3>2. (x \o b) \o c = x \o (b \o c)
      BY <3>1, ConcatAssociative
    <3> QED
      BY <2>1, <3>2
  <2>3. (x \o z) \o g = x \o (z \o g)
    <3>1. x \in Seq(B) /\ z \in Seq(B) /\ g \in Seq(B)
      BY <1>3, <2>1
    <3> QED
      BY <3>1, ConcatAssociative
  <2>4. Record(h) = y \o c
    BY <1>1, <1>2, <2>1 DEF Record
  <2> QED
    BY <1>4, <1>5, <2>1, <2>2, <2>3, <2>4
<1> QED
  BY <1>1, <1>4, <1>5, <1>6

\* ls are the lines of the entries of list.
LinesOf(ls, list) ==
    /\ ls \in Parts(Byte) /\ Len(ls) = 2 * Len(list)
    /\ \A i \in 1..Len(list) : ls[2 * i - 1] = list[i].expression /\ ls[2 * i] = list[i].result

LEMMA LinesOfAppend ==
    ASSUME NEW list \in Seq(Entry), NEW h \in Entry, NEW ls, LinesOf(ls, list)
    PROVE  LinesOf(Append(Append(ls, h.expression), h.result), Append(list, h))
<1>1. PICK n \in Nat : n = Len(list) /\ Len(ls) = 2 * n
  BY LenProperties DEF LinesOf
<1>2. PICK L : L = Seq(Byte)
  OBVIOUS
<1>3. PICK a, b : a = h.expression /\ b = h.result /\ a \in L /\ b \in L
  BY <1>2 DEF Entry
<1>4. ls \in Seq(L) /\ \A i \in 1..n : ls[2 * i - 1] = list[i].expression /\ ls[2 * i] = list[i].result
  BY <1>1, <1>2 DEF LinesOf, Parts
<1>5. PICK k : k = Append(ls, a)
  OBVIOUS
<1>6. k \in Seq(L) /\ Len(k) = 2 * n + 1 /\ k[2 * n + 1] = a /\ \A i \in 1..(2 * n) : k[i] = ls[i]
  <2>1. ls \in Seq(L) /\ a \in L
    BY <1>3, <1>4
  <2>2. /\ Append(ls, a) \in Seq(L) /\ Len(Append(ls, a)) = Len(ls) + 1
        /\ Append(ls, a)[Len(ls) + 1] = a
        /\ \A i \in 1..Len(ls) : Append(ls, a)[i] = ls[i]
    BY <2>1, AppendProperties
  <2> QED
    BY <1>1, <1>5, <2>2
<1>7. PICK m : m = Append(k, b)
  OBVIOUS
<1>8. /\ m \in Seq(L) /\ Len(m) = 2 * n + 2 /\ m[2 * n + 2] = b
      /\ \A i \in 1..(2 * n + 1) : m[i] = k[i]
  <2>1. /\ m \in Seq(L) /\ Len(m) = Len(k) + 1 /\ m[Len(k) + 1] = b
        /\ \A i \in 1..Len(k) : m[i] = k[i]
    BY <1>3, <1>6, <1>7, AppendProperties
  <2>2. (2 * n + 1) + 1 = 2 * n + 2
    OBVIOUS
  <2> QED
    BY <1>6, <2>1, <2>2
<1>9. PICK l : l = Append(list, h)
  OBVIOUS
<1>10. Len(l) = n + 1 /\ l[n + 1] = h /\ \A i \in 1..n : l[i] = list[i]
  BY <1>1, <1>9, AppendProperties
<1>11. ASSUME NEW i \in 1..(n + 1)
       PROVE  m[2 * i - 1] = l[i].expression /\ m[2 * i] = l[i].result
  <2>1. CASE i = n + 1
    <3>1. 2 * i - 1 = 2 * n + 1 /\ 2 * i = 2 * n + 2 /\ 2 * n + 1 \in 1..(2 * n + 1)
      BY <2>1
    <3> QED
      BY <1>3, <1>6, <1>8, <1>10, <2>1, <3>1
  <2>2. CASE i # n + 1
    <3>1. /\ i \in 1..n
          /\ 2 * i - 1 \in 1..(2 * n) /\ 2 * i - 1 \in 1..(2 * n + 1)
          /\ 2 * i \in 1..(2 * n) /\ 2 * i \in 1..(2 * n + 1)
      BY <2>2
    <3>2. m[2 * i - 1] = ls[2 * i - 1] /\ m[2 * i] = ls[2 * i]
      BY <1>6, <1>8, <3>1
    <3> QED
      BY <1>4, <1>10, <3>1, <3>2
  <2> QED
    BY <2>1, <2>2
<1>12. 2 * n + 2 = 2 * (n + 1)
  OBVIOUS
<1> QED
  BY <1>2, <1>3, <1>5, <1>7, <1>8, <1>9, <1>10, <1>11, <1>12 DEF LinesOf, Parts

Regroups(s, a, b, k) == Append(Append(s, a), b) \o k = s \o (<<a>> \o (<<b>> \o k))

LEMMA TwoMore ==
    ASSUME NEW L, NEW s \in Seq(L), NEW a \in L, NEW b \in L, NEW k \in Seq(L)
    PROVE  Regroups(s, a, b, k)
<1> <<a>> \in Seq(L) /\ <<b>> \in Seq(L)
  OBVIOUS
<1>0. PICK x : x = <<a>> /\ x \in Seq(L)
  OBVIOUS
<1>1. PICK y : y = <<b>> /\ y \in Seq(L)
  OBVIOUS
<1>2. PICK z : z = Append(s, a) /\ z \in Seq(L)
  BY AppendProperties
<1>3. z = s \o x
  BY <1>0, <1>2, AppendIsConcat
<1>4. Append(z, b) = z \o y
  BY <1>1, <1>2, AppendIsConcat
<1>5. (z \o y) \o k = z \o (y \o k)
  <2>1. z \in Seq(L) /\ y \in Seq(L)
    BY <1>1, <1>2
  <2> QED
    BY <2>1, ConcatAssociative
<1>6. PICK t : t = y \o k /\ t \in Seq(L)
  <2>1. y \in Seq(L)
    BY <1>1
  <2> QED
    BY <2>1, ConcatProperties
<1>7. (s \o x) \o t = s \o (x \o t)
  <2>1. x \in Seq(L) /\ t \in Seq(L)
    BY <1>0, <1>6
  <2> QED
    BY <2>1, ConcatAssociative
<1> QED
  BY <1>0, <1>1, <1>2, <1>3, <1>4, <1>5, <1>6, <1>7 DEF Regroups

\* The lines of what was written are the lines of its entries, whatever follows them.
Returns(list) == \E ls : /\ LinesOf(ls, list)
                         /\ \A g \in Bytes : Lines[Written(list) \o g] = ls \o Lines[g]

LEMMA WrittenReturns ==
    \A list \in Seq(Entry) : (\A i \in 1..Len(list) : Short(list[i])) => Returns(list)
<1> DEFINE AllShort(list) == \A i \in 1..Len(list) : Short(list[i])
           T == {n \in Nat : \A list \in Seq(Entry) : Len(list) = n /\ AllShort(list) => Returns(list)}
<1>1. 0 \in T
  <2> SUFFICES ASSUME NEW list \in Seq(Entry), Len(list) = 0
               PROVE  Returns(list)
    OBVIOUS
  <2>1. list = <<>>
    BY EmptySeq
  <2>2. Written(list) = <<>>
    <3>1. [i \in DOMAIN list |-> Record(list[i])] = <<>>
      BY <2>1
    <3> QED
      BY <3>1, FlattenEmpty DEF Written, Record
  <2>3. LinesOf(<<>>, list)
    <3>1. <<>> \in Parts(Byte) /\ Len(<<>>) = 0
      BY EmptySeq DEF Parts
    <3> QED
      BY <3>1 DEF LinesOf
  <2>4. ASSUME NEW g \in Bytes
        PROVE  Lines[Written(list) \o g] = <<>> \o Lines[g]
    <3>1. <<>> \o g = g
      BY ConcatEmptySeq DEF Bytes
    <3>2. PICK k : k = Lines[g] /\ k \in Parts(Byte)
      BY LinesType DEF ShortTexts
    <3>3. <<>> \o k = k
      BY <3>2, ConcatEmptySeq DEF Parts
    <3> QED
      BY <2>2, <3>1, <3>2, <3>3
  <2> QED
    BY <2>3, <2>4 DEF Returns
<1>2. ASSUME NEW n \in Nat, n \in T
      PROVE  n + 1 \in T
  <2> SUFFICES ASSUME NEW list \in Seq(Entry), Len(list) = n + 1, AllShort(list)
               PROVE  Returns(list)
    OBVIOUS
  <2>1. PICK l, h : l \in Seq(Entry) /\ h \in Entry /\ list = Append(l, h)
    <3>1. list # <<>>
      BY EmptySeq
    <3> QED
      BY <3>1, SequenceEmptyOrAppend
  <2>2. Len(l) = n /\ list[n + 1] = h /\ \A i \in 1..n : list[i] = l[i]
    <3>1. PICK m \in Nat : m = Len(l)
      BY <2>1, LenProperties
    <3>2. /\ Len(list) = m + 1 /\ list[m + 1] = h
          /\ \A i \in 1..m : list[i] = l[i]
      BY <2>1, <3>1, AppendProperties
    <3>3. m = n
      BY <3>2
    <3> QED
      BY <3>1, <3>2, <3>3
  <2>3. AllShort(l) /\ Short(h)
    BY <2>2
  <2>4. PICK ls : LinesOf(ls, l) /\ \A g \in Bytes : Lines[Written(l) \o g] = ls \o Lines[g]
    BY <1>2, <2>1, <2>2, <2>3 DEF Returns
  <2>5. PICK a, b, L : /\ a = h.expression /\ b = h.result /\ L = Seq(Byte)
                       /\ a \in L /\ b \in L
    BY <2>1 DEF Entry
  <2>6. PICK ks : ks = Append(Append(ls, a), b) /\ LinesOf(ks, list)
    BY <2>1, <2>4, <2>5, LinesOfAppend
  <2>7. ls \in Seq(L)
    BY <2>4, <2>5 DEF LinesOf, Parts
  <2>8. ASSUME NEW g \in Bytes
        PROVE  Lines[Written(list) \o g] = ks \o Lines[g]
    <3>1. PICK r : r = Record(h) \o g /\ r \in Bytes /\ Lines[r] = <<a>> \o (<<b>> \o Lines[g])
      BY <2>1, <2>3, <2>5, RecordRead
    <3>2. Written(list) \o g = Written(l) \o r
      <4>1. PICK w, s, B : w = Written(l) /\ s = Record(h) /\ B = Byte \cup {"\n"}
        OBVIOUS
      <4>2. w \in Seq(B) /\ s \in Seq(B) /\ g \in Seq(B)
        BY <2>1, <4>1, WrittenType, RecordType DEF Bytes
      <4>3. (w \o s) \o g = w \o (s \o g)
        BY <4>2, ConcatAssociative
      <4>4. Written(list) = w \o s
        BY <2>1, <4>1, WrittenAppend
      <4> QED
        BY <3>1, <4>1, <4>3, <4>4
    <3>3. Lines[Written(l) \o r] = ls \o Lines[r]
      BY <2>4, <3>1
    <3>4. PICK k : k = Lines[g] /\ k \in Seq(L)
      BY <2>5, LinesType DEF ShortTexts, Parts
    <3>5. Append(Append(ls, a), b) \o k = ls \o (<<a>> \o (<<b>> \o k))
      <4>1. ls \in Seq(L) /\ a \in L /\ b \in L /\ k \in Seq(L)
        BY <2>5, <2>7, <3>4
      <4>2. Regroups(ls, a, b, k)
        BY <4>1, TwoMore
      <4> QED
        BY <4>2 DEF Regroups
    <3> QED
      BY <2>6, <3>1, <3>2, <3>3, <3>4, <3>5
  <2> QED
    BY <2>6, <2>8 DEF Returns
<1>3. \A n \in Nat : n \in T
  <2> HIDE DEF T
  <2> QED
    BY <1>1, <1>2, SetInduction
<1> SUFFICES ASSUME NEW list \in Seq(Entry), AllShort(list)
             PROVE  Returns(list)
  OBVIOUS
<1>4. Len(list) \in Nat
  BY LenProperties
<1>5. Len(list) \in T
  <2> HIDE DEF T
  <2> QED
    BY <1>3, <1>4
<1> QED
  BY <1>5

------------------------------------------------------------------------------
(* The last MAX_HISTORY of a sequence *)

Least(a, b) == IF a <= b THEN a ELSE b

LEMMA LastOnesIs ==
    ASSUME NEW S, NEW s \in Seq(S), NEW n \in Nat, n = Len(s)
    PROVE  /\ LastOnes(s) \in Seq(S)
           /\ Len(LastOnes(s)) = Least(n, MAX_HISTORY)
           /\ \A i \in 1..Least(n, MAX_HISTORY) :
                 LastOnes(s)[i] = s[i + (n - Least(n, MAX_HISTORY))]
<1>1. PICK M \in Nat : M = MAX_HISTORY /\ M # 0
  BY HistoryAssumption
<1>2. CASE n <= M
  BY <1>1, <1>2 DEF LastOnes, Least
<1>3. CASE ~(n <= M)
  <2>1. PICK k : k = n - M + 1
    OBVIOUS
  <2> k \in Int
    BY <2>1
  <2>2. PICK t : t = SubSeq(s, k, n)
    OBVIOUS
  <2>3. \A i \in k..n : s[i] \in S
    <3>1. \A i \in k..n : i \in 1..Len(s)
      BY <1>3, <2>1
    <3> QED
      BY <3>1, ElementOfSeq
  <2>4. /\ t \in Seq(S)
        /\ Len(t) = IF k <= n THEN n - k + 1 ELSE 0
        /\ \A i \in 1..(n - k + 1) : t[i] = s[k + i - 1]
    <3>1. k \in Int /\ n \in Int
      OBVIOUS
    <3> QED
      BY <2>2, <2>3, <3>1, SubSeqProperties
  <2>5. Len(t) = M
    BY <1>1, <2>1, <2>4
  <2>6. ASSUME NEW i \in 1..M
        PROVE  t[i] = s[i + (n - M)]
    <3>1. i \in 1..(n - k + 1) /\ k + i - 1 = i + (n - M)
      BY <2>1
    <3> QED
      BY <2>4, <3>1
  <2>7. LastOnes(s) = t /\ Least(n, MAX_HISTORY) = M
    BY <1>1, <1>3, <2>1, <2>2 DEF LastOnes, Least
  <2> QED
    BY <2>4, <2>5, <2>6, <2>7
<1> QED
  BY <1>2, <1>3

LEMMA LastOnesElements ==
    ASSUME NEW S, NEW s \in Seq(S)
    PROVE  /\ LastOnes(s) \in Seq(S)
           /\ Len(LastOnes(s)) <= MAX_HISTORY /\ Len(LastOnes(s)) <= Len(s)
           /\ \A i \in 1..Len(LastOnes(s)) : \E j \in 1..Len(s) : LastOnes(s)[i] = s[j]
<1>1. PICK n \in Nat : n = Len(s)
  BY LenProperties
<1>2. PICK M \in Nat : M = MAX_HISTORY /\ M # 0
  BY HistoryAssumption
<1>3. PICK l \in Nat : l = Least(n, MAX_HISTORY) /\ l <= n /\ l <= M
  BY <1>2 DEF Least
<1>4. PICK t : t = LastOnes(s)
  OBVIOUS
<1>5. t \in Seq(S) /\ Len(t) = l /\ \A i \in 1..l : t[i] = s[i + (n - l)]
  BY <1>1, <1>3, <1>4, LastOnesIs
<1>6. ASSUME NEW i \in 1..l
      PROVE  \E j \in 1..n : t[i] = s[j]
  <2>1. i + (n - l) \in 1..n
    BY <1>3
  <2> QED
    BY <1>5, <2>1
<1> QED
  BY <1>1, <1>2, <1>3, <1>4, <1>5, <1>6

\* What is shifted out does not matter to the next addition.
LEMMA LastOnesAppend ==
    ASSUME NEW S, NEW s \in Seq(S), NEW e \in S
    PROVE  LastOnes(Append(LastOnes(s), e)) = LastOnes(Append(s, e))
<1>1. PICK n \in Nat : n = Len(s)
  BY LenProperties
<1>2. PICK M \in Nat : M = MAX_HISTORY /\ M # 0
  BY HistoryAssumption
<1>3. PICK l \in Nat : l = Least(n, MAX_HISTORY)
  BY <1>2 DEF Least
<1>4. PICK t : /\ t = LastOnes(s) /\ t \in Seq(S) /\ Len(t) = l
               /\ \A i \in 1..l : t[i] = s[i + (n - l)]
  BY <1>1, <1>3, LastOnesIs
<1>a. PICK a, b : a = Append(t, e) /\ b = Append(s, e)
  OBVIOUS
<1>5. a \in Seq(S) /\ Len(a) = l + 1 /\ a[l + 1] = e /\ \A i \in 1..l : a[i] = t[i]
  <2>1. /\ a \in Seq(S) /\ Len(a) = Len(t) + 1 /\ a[Len(t) + 1] = e
        /\ \A i \in 1..Len(t) : a[i] = t[i]
    BY <1>4, <1>a, AppendProperties
  <2> QED
    BY <1>4, <2>1
<1>6. b \in Seq(S) /\ Len(b) = n + 1 /\ b[n + 1] = e /\ \A i \in 1..n : b[i] = s[i]
  <2>1. /\ b \in Seq(S) /\ Len(b) = Len(s) + 1 /\ b[Len(s) + 1] = e
        /\ \A i \in 1..Len(s) : b[i] = s[i]
    BY <1>a, AppendProperties
  <2> QED
    BY <1>1, <2>1
<1>7. PICK k \in Nat : k = Least(n + 1, MAX_HISTORY) /\ k = Least(l + 1, MAX_HISTORY)
  BY <1>2, <1>3 DEF Least
<1>8. k <= l + 1 /\ k <= n + 1 /\ l <= n
  BY <1>2, <1>3, <1>7 DEF Least
<1>b. PICK c, d : c = LastOnes(a) /\ d = LastOnes(b)
  OBVIOUS
<1>9. c \in Seq(S) /\ Len(c) = k /\ \A i \in 1..k : c[i] = a[i + (l + 1 - k)]
  <2>1. PICK p \in Nat : p = l + 1
    OBVIOUS
  <2>2. p = Len(a) /\ k = Least(p, MAX_HISTORY)
    BY <1>5, <1>7, <2>1
  <2>3. c \in Seq(S) /\ Len(c) = k /\ \A i \in 1..k : c[i] = a[i + (p - k)]
    BY <1>5, <1>b, <2>2, LastOnesIs
  <2> QED
    BY <2>1, <2>3
<1>10. d \in Seq(S) /\ Len(d) = k /\ \A i \in 1..k : d[i] = b[i + (n + 1 - k)]
  <2>1. PICK p \in Nat : p = n + 1
    OBVIOUS
  <2>2. p = Len(b) /\ k = Least(p, MAX_HISTORY)
    BY <1>6, <1>7, <2>1
  <2>3. d \in Seq(S) /\ Len(d) = k /\ \A i \in 1..k : d[i] = b[i + (p - k)]
    BY <1>6, <1>b, <2>2, LastOnesIs
  <2> QED
    BY <2>1, <2>3
<1>11. ASSUME NEW i \in 1..k
       PROVE  c[i] = d[i]
  <2>1. CASE i = k
    <3>1. i + (l + 1 - k) = l + 1 /\ i + (n + 1 - k) = n + 1
      BY <2>1
    <3> QED
      BY <1>5, <1>6, <1>9, <1>10, <3>1
  <2>2. CASE i # k
    <3>1. PICK x \in 1..l : x = i + (l + 1 - k)
      BY <1>8, <2>2
    <3>2. PICK y \in 1..n : y = i + (n + 1 - k) /\ y = x + (n - l)
      BY <1>8, <2>2, <3>1
    <3>3. c[i] = t[x] /\ d[i] = s[y]
      BY <1>5, <1>6, <1>9, <1>10, <3>1, <3>2
    <3> QED
      BY <1>4, <3>2, <3>3
  <2> QED
    BY <2>1, <2>2
<1>12. c = d
  BY <1>9, <1>10, <1>11, SeqEqual
<1> QED
  BY <1>4, <1>12, <1>a, <1>b

------------------------------------------------------------------------------
(* The history a file is read as *)

PairsOf(lines) == [i \in 1..(Len(lines) \div 2) |->
                      [expression |-> lines[2 * i - 1], result |-> lines[2 * i]]]

LEMMA PairsType ==
    ASSUME NEW lines, ShortTexts(lines)
    PROVE  /\ PairsOf(lines) \in Seq(Entry)
           /\ \A i \in 1..Len(PairsOf(lines)) : /\ Len(PairsOf(lines)[i].expression) < LINE
                                                /\ Len(PairsOf(lines)[i].result) < LINE
<1>1. PICK n \in Nat : n = Len(lines)
  BY LenProperties DEF ShortTexts, Parts
<1>2. \A i \in 1..n : lines[i] \in Seq(Byte) /\ Len(lines[i]) < LINE
  BY <1>1, ElementOfSeq DEF ShortTexts, Parts
<1>3. PICK m \in Nat : m = n \div 2 /\ 2 * m <= n
  OBVIOUS
<1> DEFINE p == [i \in 1..m |-> [expression |-> lines[2 * i - 1], result |-> lines[2 * i]]]
<1>4. ASSUME NEW i \in 1..m
      PROVE  /\ lines[2 * i - 1] \in Seq(Byte) /\ Len(lines[2 * i - 1]) < LINE
             /\ lines[2 * i] \in Seq(Byte) /\ Len(lines[2 * i]) < LINE
  <2>1. 2 * i - 1 \in 1..n /\ 2 * i \in 1..n
    BY <1>3
  <2> QED
    BY <1>2, <2>1
<1>5. p \in [1..m -> Entry]
  BY <1>4 DEF Entry
<1>6. p \in Seq(Entry) /\ Len(p) = m
  <2> HIDE DEF p
  <2> QED
    BY <1>5, FunctionIsSeq
<1>7. PairsOf(lines) = p
  BY <1>1, <1>3 DEF PairsOf
<1> QED
  BY <1>4, <1>6, <1>7

\* Every line that fgets made of the file fits its buffer, whatever the file is.
LEMMA LoadedType ==
    ASSUME NEW f \in Bytes
    PROVE  /\ Loaded(f) \in Seq(Entry) /\ Len(Loaded(f)) <= MAX_HISTORY
           /\ LastOnes(Loaded(f)) = Loaded(f)
           /\ \A i \in 1..Len(Loaded(f)) : /\ Len(Loaded(f)[i].expression) < LINE
                                           /\ Len(Loaded(f)[i].result) < LINE
<1>1. PICK p : p = PairsOf(Lines[f])
  OBVIOUS
<1>2. /\ p \in Seq(Entry)
      /\ \A i \in 1..Len(p) : Len(p[i].expression) < LINE /\ Len(p[i].result) < LINE
  BY <1>1, LinesType, PairsType
<1>3. PICK l : l = LastOnes(p)
  OBVIOUS
<1>4. /\ l \in Seq(Entry) /\ Len(l) <= MAX_HISTORY
      /\ \A i \in 1..Len(l) : \E j \in 1..Len(p) : l[i] = p[j]
  BY <1>2, <1>3, LastOnesElements
<1>5. \A i \in 1..Len(l) : Len(l[i].expression) < LINE /\ Len(l[i].result) < LINE
  BY <1>2, <1>4
<1>6. LastOnes(l) = l
  BY <1>4 DEF LastOnes
<1>7. Loaded(f) = l
  BY <1>1, <1>3 DEF Loaded, PairsOf
<1> QED
  BY <1>4, <1>5, <1>6, <1>7

LEMMA LoadedEmpty == Loaded(<<>>) = <<>>
<1>1. PICK f : f = <<>> /\ f \in Bytes
  BY EmptySeq DEF Bytes
<1>2. Lines[f] = <<>>
  BY <1>1, LinesUnfold DEF Step
<1>3. PairsOf(<<>>) = <<>>
  <2>1. Len(<<>>) \div 2 = 0
    OBVIOUS
  <2> QED
    BY <2>1 DEF PairsOf
<1>4. LastOnes(<<>>) = <<>>
  BY HistoryAssumption DEF LastOnes
<1> QED
  BY <1>1, <1>2, <1>3, <1>4 DEF Loaded, PairsOf

\* A history of entries whose lines fit the buffers is read back as it was written.
THEOREM ReadAsWritten ==
    ASSUME NEW list \in Seq(Entry), Len(list) <= MAX_HISTORY,
           \A i \in 1..Len(list) : Short(list[i])
    PROVE  Loaded(Written(list)) = list
<1>1. PICK ls : LinesOf(ls, list) /\ \A g \in Bytes : Lines[Written(list) \o g] = ls \o Lines[g]
  BY WrittenReturns DEF Returns
<1>2. PICK g : g = <<>> /\ g \in Bytes
  BY EmptySeq DEF Bytes
<1>3. PICK w : w = Written(list) /\ w \in Bytes
  BY WrittenType
<1>4. w \o g = w
  BY <1>2, <1>3, ConcatEmptySeq DEF Bytes
<1>5. ls \o <<>> = ls
  BY <1>1, ConcatEmptySeq DEF LinesOf, Parts
<1>6. Lines[g] = <<>>
  BY <1>2, LinesUnfold DEF Step
<1>7. Lines[w] = ls
  BY <1>1, <1>2, <1>3, <1>4, <1>5, <1>6
<1>8. PICK n \in Nat : /\ n = Len(list) /\ Len(ls) = 2 * n /\ list \in [1..n -> Entry]
                       /\ \A i \in 1..n : /\ ls[2 * i - 1] = list[i].expression
                                          /\ ls[2 * i] = list[i].result
  BY <1>1, LenProperties DEF LinesOf
<1>9. (2 * n) \div 2 = n
  OBVIOUS
<1>10. PairsOf(ls) = [i \in 1..n |-> [expression |-> ls[2 * i - 1], result |-> ls[2 * i]]]
  BY <1>8, <1>9 DEF PairsOf
<1>11. ASSUME NEW i \in 1..n
       PROVE  [expression |-> ls[2 * i - 1], result |-> ls[2 * i]] = list[i]
  <2>1. list[i] \in Entry
    BY <1>8
  <2>2. list[i] = [expression |-> list[i].expression, result |-> list[i].result]
    BY <2>1 DEF Entry
  <2> QED
    BY <1>8, <2>2
<1>12. PairsOf(ls) = list
  BY <1>8, <1>10, <1>11
<1>13. LastOnes(list) = list
  BY DEF LastOnes
<1> QED
  BY <1>3, <1>7, <1>12, <1>13 DEF Loaded, PairsOf

\* What is left of a file whose writing was cut short.
LEMMA PrefixType ==
    ASSUME NEW f \in Bytes, NEW g \in Prefixes(f)
    PROVE  g \in Bytes
<1>1. PICK B, n : B = Byte \cup {"\n"} /\ n = Len(f)
  OBVIOUS
<1>2. f \in Seq(B) /\ n \in Nat /\ \A i \in 1..n : f[i] \in B
  BY <1>1, LenProperties, ElementOfSeq DEF Bytes
<1>3. PICK l \in 0..n : g = SubSeq(f, 1, l)
  BY <1>1 DEF Prefixes
<1>4. 1 \in Int /\ l \in Int /\ \A i \in 1..l : f[i] \in B
  BY <1>2
<1>5. SubSeq(f, 1, l) \in Seq(B)
  BY <1>4, SubSeqProperties
<1> QED
  BY <1>1, <1>3, <1>5 DEF Bytes

==============================================================================
