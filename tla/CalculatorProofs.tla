--------------------------- MODULE CalculatorProofs ---------------------------
(***************************************************************************)
(* What TLAPS proves of the calculator's window and its history, for every *)
(* length of the buffers and of the history, every set of keys, and every  *)
(* evaluation that prints the text of a double.                            *)
(***************************************************************************)
EXTENDS Calculator, HistoryProofs

LOCAL INSTANCE SequencesExt

------------------------------------------------------------------------------
(* The formula of an expression *)

LEMMA TypedBytes ==
    ASSUME NEW e \in Seq(Typed)
    PROVE  /\ e \in Seq(Byte) /\ Len(e) \in Nat
           /\ \A i \in 1..Len(e) : e[i] \in Typed
<1>1. Typed \subseteq Byte
  BY DEF Typed
<1> QED
  BY <1>1, SeqMonotonic, LenProperties, ElementOfSeq

LEMMA Texts3 ==
    ASSUME NEW S, NEW a \in S, NEW b \in S, NEW c \in S
    PROVE  <<a, b, c>> \in Seq(S)
OBVIOUS

LEMMA Texts4 ==
    ASSUME NEW S, NEW a \in S, NEW b \in S, NEW c \in S, NEW d \in S
    PROVE  <<a, b, c, d>> \in Seq(S)
OBVIOUS

Glyphs(e) == [i \in DOMAIN e |-> Glyph(e, i)]

LEMMA GlyphType ==
    ASSUME NEW e \in Seq(Byte), NEW i \in 1..Len(e)
    PROVE  Glyph(e, i) \in Seq(Byte)
<1>1. e[i] \in Byte
  BY ElementOfSeq
<1>2. PICK c : c = e[i] /\ c \in Byte
  BY <1>1
<1>3. /\ "+" \in Byte /\ "-" \in Byte /\ " " \in Byte
      /\ "c3" \in Byte /\ "97" \in Byte /\ "b7" \in Byte
  BY SignAssumption DEF Operator
<1>4. <<" ", "c3", "97", " ">> \in Seq(Byte) /\ <<" ", "c3", "b7", " ">> \in Seq(Byte)
  BY <1>3, Texts4
<1>6. <<" ", "+", " ">> \in Seq(Byte) /\ <<" ", "-", " ">> \in Seq(Byte)
  BY <1>3, Texts3
<1>7. <<c>> \in Seq(Byte)
  BY <1>2
<1> QED
  BY <1>2, <1>4, <1>6, <1>7 DEF Glyph

LEMMA GlyphsType ==
    ASSUME NEW e \in Seq(Byte)
    PROVE  Glyphs(e) \in Seq(Seq(Byte)) /\ Len(Glyphs(e)) = Len(e)
<1>1. PICK n \in Nat : n = Len(e) /\ DOMAIN e = 1..n
  BY LenProperties
<1>2. Glyphs(e) \in [1..n -> Seq(Byte)]
  BY <1>1, GlyphType DEF Glyphs
<1> QED
  BY <1>1, <1>2, FunctionIsSeq

LEMMA FormulaType ==
    ASSUME NEW e \in Seq(Byte)
    PROVE  Formula(e) \in Seq(Byte)
<1>1. Glyphs(e) \in Parts(Byte)
  BY GlyphsType DEF Parts
<1>2. FlattenSeq(Glyphs(e)) \in Seq(Byte)
  BY <1>1, FlattenType
<1> QED
  BY <1>2 DEF Formula, Glyphs

\* A byte of the expression is written by what stands before it, not after it.
LEMMA FormulaAppend ==
    ASSUME NEW e \in Seq(Byte), NEW c \in Byte
    PROVE  /\ Glyph(Append(e, c), Len(e) + 1) \in Seq(Byte)
           /\ Formula(Append(e, c)) = Formula(e) \o Glyph(Append(e, c), Len(e) + 1)
<1>1. PICK n \in Nat : n = Len(e) /\ DOMAIN e = 1..n
  BY LenProperties
<1>2. PICK d : d = Append(e, c)
  OBVIOUS
<1>3. d \in Seq(Byte) /\ Len(d) = n + 1 /\ DOMAIN d = 1..(n + 1) /\ \A i \in 1..n : d[i] = e[i]
  BY <1>1, <1>2, AppendProperties, LenProperties
<1>4. PICK g : g = Glyph(d, n + 1) /\ g \in Seq(Byte)
  <2>1. n + 1 \in 1..Len(d)
    BY <1>3
  <2> QED
    BY <1>3, <2>1, GlyphType
<1>5. PICK f, h : f = Glyphs(e) /\ h = Glyphs(d)
  OBVIOUS
<1>6. f \in Seq(Seq(Byte)) /\ Len(f) = n
  BY <1>1, <1>5, GlyphsType
<1>7. h \in Seq(Seq(Byte)) /\ Len(h) = n + 1
  BY <1>3, <1>5, GlyphsType
<1>8. ASSUME NEW i \in 1..n
      PROVE  Glyph(d, i) = Glyph(e, i)
  <2>1. d[i] = e[i]
    BY <1>3
  <2>2. Unary(d, i) = Unary(e, i)
    <3>1. CASE i = 1
      BY <3>1 DEF Unary
    <3>2. CASE i # 1
      <4>1. i - 1 \in 1..n
        BY <3>2
      <4>2. d[i - 1] = e[i - 1]
        BY <1>3, <4>1
      <4> QED
        BY <4>2 DEF Unary
    <3> QED
      BY <3>1, <3>2
  <2> QED
    BY <2>1, <2>2 DEF Glyph
<1>9. \A i \in 1..n : h[i] = f[i]
  <2>1. \A i \in 1..n : i \in 1..(n + 1)
    OBVIOUS
  <2> QED
    BY <1>1, <1>3, <1>5, <1>8, <2>1 DEF Glyphs
<1>10. h[n + 1] = g
  <2>1. n + 1 \in 1..(n + 1)
    OBVIOUS
  <2> QED
    BY <1>3, <1>4, <1>5, <2>1 DEF Glyphs
<1>11. PICK a : a = Append(f, g)
  OBVIOUS
<1>12. PICK B : B = Seq(Byte)
  OBVIOUS
<1>13. f \in Seq(B) /\ g \in B /\ h \in Seq(B)
  BY <1>4, <1>6, <1>7, <1>12
<1>14. a \in Seq(B) /\ Len(a) = n + 1 /\ a[n + 1] = g /\ \A i \in 1..n : a[i] = f[i]
  <2>1. /\ a \in Seq(B) /\ Len(a) = Len(f) + 1 /\ a[Len(f) + 1] = g
        /\ \A i \in 1..Len(f) : a[i] = f[i]
    BY <1>11, <1>13, AppendProperties
  <2> QED
    BY <1>6, <2>1
<1>15. h = a
  <2>1. \A i \in 1..Len(h) : h[i] = a[i]
    BY <1>7, <1>9, <1>10, <1>14
  <2> QED
    BY <1>7, <1>13, <1>14, <2>1, SeqEqual
<1>16. a = f \o <<g>>
  BY <1>11, <1>13, AppendIsConcat
<1>17. FlattenSeq(f \o <<g>>) = FlattenSeq(f) \o FlattenSeq(<<g>>)
  <2>1. f \in Parts(Byte)
    BY <1>6 DEF Parts
  <2>2. <<g>> \in Parts(Byte)
    BY <1>4, FlattenOne
  <2> QED
    BY <2>1, <2>2, FlattenConcat
<1>18. FlattenSeq(<<g>>) = g
  BY <1>4, FlattenOne
<1>19. Formula(d) = FlattenSeq(h) /\ Formula(e) = FlattenSeq(f)
  BY <1>5 DEF Formula, Glyphs
<1> QED
  BY <1>1, <1>2, <1>4, <1>15, <1>16, <1>17, <1>18, <1>19

------------------------------------------------------------------------------
(* The expression of a formula *)

Signs == {"97", "b7"}
Pair(f, i) == i < Len(f) /\ f[i] = "c3" /\ f[i + 1] \in Signs
Second(f, i) == i > 1 /\ Pair(f, i - 1)
Byte1(f, i) == IF Pair(f, i) THEN IF f[i + 1] = "97" THEN <<"*">> ELSE <<"/">>
               ELSE IF f[i] = " " \/ Second(f, i) THEN <<>>
               ELSE <<f[i]>>
Bytes1(f) == [i \in DOMAIN f |-> Byte1(f, i)]

LEMMA AsciiIs == \A f : Ascii(f) = FlattenSeq(Bytes1(f))
BY DEF Ascii, Bytes1, Byte1, Second, Pair, Signs

LEMMA Byte1Type ==
    ASSUME NEW f \in Seq(Byte), NEW i \in 1..Len(f)
    PROVE  Byte1(f, i) \in Seq(Byte) /\ Len(Byte1(f, i)) <= 1
<1>1. PICK c : c = f[i] /\ c \in Byte
  BY ElementOfSeq
<1>2. "*" \in Byte /\ "/" \in Byte
  BY SignAssumption DEF Operator
<1>3. <<"*">> \in Seq(Byte) /\ <<"/">> \in Seq(Byte) /\ Len(<<"*">>) = 1 /\ Len(<<"/">>) = 1
  BY <1>2
<1>4. <<c>> \in Seq(Byte) /\ Len(<<c>>) = 1
  BY <1>1
<1>5. <<>> \in Seq(Byte) /\ Len(<<>>) = 0
  BY EmptySeq
<1>6. PICK b : b = Byte1(f, i)
  OBVIOUS
<1>7. b = <<"*">> \/ b = <<"/">> \/ b = <<c>> \/ b = <<>>
  BY <1>1, <1>6 DEF Byte1
<1>8. b \in Seq(Byte) /\ Len(b) <= 1
  <2>1. CASE b = <<"*">>
    BY <1>3, <2>1
  <2>2. CASE b = <<"/">>
    BY <1>3, <2>2
  <2>3. CASE b = <<c>>
    BY <1>4, <2>3
  <2>4. CASE b = <<>>
    BY <1>5, <2>4
  <2> QED
    BY <1>7, <2>1, <2>2, <2>3, <2>4
<1> QED
  BY <1>6, <1>8

LEMMA Bytes1Type ==
    ASSUME NEW f \in Seq(Byte)
    PROVE  /\ Bytes1(f) \in Parts(Byte) /\ Len(Bytes1(f)) = Len(f)
           /\ \A i \in 1..Len(f) : Bytes1(f)[i] = Byte1(f, i)
<1>1. PICK n \in Nat : n = Len(f) /\ DOMAIN f = 1..n
  BY LenProperties
<1>2. Bytes1(f) \in [1..n -> Seq(Byte)]
  BY <1>1, Byte1Type DEF Bytes1
<1>3. Bytes1(f) \in Seq(Seq(Byte)) /\ Len(Bytes1(f)) = n
  BY <1>2, FunctionIsSeq
<1> QED
  BY <1>1, <1>3 DEF Bytes1, Parts

\* Nothing is longer than it was.
LEMMA AsciiType ==
    ASSUME NEW f \in Seq(Byte)
    PROVE  Ascii(f) \in Seq(Byte) /\ Len(Ascii(f)) <= Len(f)
<1>1. PICK ss : ss = Bytes1(f)
  OBVIOUS
<1>2. ss \in Parts(Byte) /\ Len(ss) = Len(f)
  BY <1>1, Bytes1Type
<1>3. \A i \in 1..Len(ss) : Len(ss[i]) <= 1
  BY <1>1, <1>2, Bytes1Type, Byte1Type
<1>4. FlattenSeq(ss) \in Seq(Byte)
  BY <1>2, FlattenType
<1>5. Len(FlattenSeq(ss)) <= Len(ss)
  BY <1>2, <1>3, FlattenOnes
<1> QED
  BY <1>1, <1>2, <1>4, <1>5, AsciiIs

\* Does a sign begin in f and end in g?
Meet(f, g) == f[Len(f)] = "c3" /\ g[1] \in Signs

LEMMA BytesBefore ==
    ASSUME NEW f \in Seq(Byte), NEW g \in Seq(Byte), NEW i \in 1..Len(f)
    PROVE  /\ ~Meet(f, g) \/ i # Len(f) \/ g = <<>> => Byte1(f \o g, i) = Byte1(f, i)
           /\ Len(Byte1(f \o g, i)) <= Len(Byte1(f, i))
<1>1. PICK n \in Nat : n = Len(f) /\ n # 0 /\ i \in 1..n
  BY LenProperties
<1>2. PICK m \in Nat : m = Len(g) /\ (g # <<>> => m # 0)
  BY LenProperties, EmptySeq
<1>3. PICK h : h = f \o g
  OBVIOUS
<1>4. /\ h \in Seq(Byte) /\ Len(h) = n + m
      /\ \A j \in 1..(n + m) : h[j] = IF j <= n THEN f[j] ELSE g[j - n]
  BY <1>1, <1>2, <1>3, ConcatProperties
<1>5. \A j \in 1..n : h[j] = f[j]
  <2>1. \A j \in 1..n : j \in 1..(n + m) /\ j <= n
    OBVIOUS
  <2> QED
    BY <1>4, <2>1
<1>6. \A j \in 1..(n - 1) : Pair(h, j) = Pair(f, j)
  <2> SUFFICES ASSUME NEW j \in 1..(n - 1)
               PROVE  Pair(h, j) = Pair(f, j)
    OBVIOUS
  <2>1. j \in 1..n /\ j + 1 \in 1..n /\ j < n /\ j < n + m
    OBVIOUS
  <2>2. h[j] = f[j] /\ h[j + 1] = f[j + 1]
    BY <1>5, <2>1
  <2> QED
    BY <1>1, <1>4, <2>1, <2>2 DEF Pair
<1>7. Second(h, i) = Second(f, i)
  <2>1. CASE i = 1
    BY <2>1 DEF Second
  <2>2. CASE i # 1
    <3>1. i - 1 \in 1..(n - 1)
      BY <1>1, <2>2
    <3> QED
      BY <1>6, <3>1 DEF Second
  <2> QED
    BY <2>1, <2>2
<1>8. h[i] = f[i]
  BY <1>1, <1>5
<1>9. CASE i # n
  <2>1. i \in 1..(n - 1) /\ i + 1 \in 1..n
    BY <1>1, <1>9
  <2>2. h[i + 1] = f[i + 1] /\ Pair(h, i) = Pair(f, i)
    BY <1>5, <1>6, <2>1
  <2>3. Byte1(h, i) = Byte1(f, i)
    BY <1>7, <1>8, <2>2 DEF Byte1
  <2>4. Len(Byte1(f, i)) \in Nat
    BY Byte1Type, LenProperties
  <2> QED
    BY <1>3, <2>3, <2>4
<1>10. CASE i = n
  <2>1. ~Pair(f, i)
    BY <1>1, <1>10 DEF Pair
  <2>2. CASE m # 0 /\ Meet(f, g)
    <3>1. f[i] = "c3"
      BY <1>1, <1>10, <2>2 DEF Meet
    <3>2. ~Second(f, i)
      <4>1. CASE i = 1
        BY <4>1 DEF Second
      <4>2. CASE i # 1
        <5>1. (i - 1) + 1 = i
          BY <1>1
        <5>2. f[(i - 1) + 1] \notin Signs
          BY <3>1, <5>1 DEF Signs
        <5> QED
          BY <5>2 DEF Second, Pair
      <4> QED
        BY <4>1, <4>2
    <3>3. Byte1(f, i) = <<f[i]>>
      BY <2>1, <3>1, <3>2 DEF Byte1
    <3>4. Len(Byte1(f, i)) = 1
      BY <3>3
    <3>5. Len(Byte1(h, i)) <= 1
      <4>1. i \in 1..Len(h)
        BY <1>1, <1>4
      <4> QED
        BY <1>4, <4>1, Byte1Type
    <3>6. Meet(f, g) /\ i = Len(f) /\ g # <<>>
      <4>1. Len(<<>>) = 0
        OBVIOUS
      <4> QED
        BY <1>1, <1>2, <1>10, <2>2, <4>1
    <3> QED
      BY <1>3, <3>4, <3>5, <3>6
  <2>3. CASE ~(m # 0 /\ Meet(f, g))
    <3>1. ~Pair(h, i)
      <4>1. CASE m = 0
        BY <1>1, <1>4, <1>10, <4>1 DEF Pair
      <4>2. CASE m # 0 /\ ~Meet(f, g)
        <5>1. i + 1 \in 1..(n + m) /\ ~(i + 1 <= n) /\ (i + 1) - n = 1
          BY <1>1, <1>10, <4>2
        <5>2. h[i + 1] = g[1]
          BY <1>4, <5>1
        <5> QED
          BY <1>1, <1>8, <1>10, <4>2, <5>2 DEF Pair, Meet
      <4> QED
        BY <2>3, <4>1, <4>2
    <3>2. Byte1(h, i) = Byte1(f, i)
      BY <1>7, <1>8, <2>1, <3>1 DEF Byte1
    <3>3. Len(Byte1(f, i)) \in Nat
      BY Byte1Type, LenProperties
    <3> QED
      BY <1>3, <3>2, <3>3
  <2> QED
    BY <2>2, <2>3
<1> QED
  BY <1>9, <1>10

LEMMA BytesAfter ==
    ASSUME NEW f \in Seq(Byte), NEW g \in Seq(Byte), NEW j \in 1..Len(g)
    PROVE  /\ ~Meet(f, g) \/ j # 1 \/ f = <<>> => Byte1(f \o g, Len(f) + j) = Byte1(g, j)
           /\ Len(Byte1(f \o g, Len(f) + j)) <= Len(Byte1(g, j))
<1>1. PICK n \in Nat : n = Len(f) /\ (f # <<>> => n # 0)
  BY LenProperties, EmptySeq
<1>2. PICK m \in Nat : m = Len(g) /\ m # 0 /\ j \in 1..m
  BY LenProperties
<1>3. PICK h : h = f \o g
  OBVIOUS
<1>4. /\ h \in Seq(Byte) /\ Len(h) = n + m
      /\ \A i \in 1..(n + m) : h[i] = IF i <= n THEN f[i] ELSE g[i - n]
  BY <1>1, <1>2, <1>3, ConcatProperties
<1>5. ASSUME NEW k \in 1..m
      PROVE  h[n + k] = g[k]
  <2>1. n + k \in 1..(n + m) /\ ~(n + k <= n) /\ (n + k) - n = k
    OBVIOUS
  <2> QED
    BY <1>4, <2>1
<1>6. ASSUME NEW k \in 1..m
      PROVE  Pair(h, n + k) = Pair(g, k)
  <2>1. CASE k = m
    BY <1>2, <1>4, <2>1 DEF Pair
  <2>2. CASE k # m
    <3>1. k + 1 \in 1..m /\ (n + k) + 1 = n + (k + 1) /\ n + k < n + m /\ k < m
      BY <2>2
    <3>2. h[n + k] = g[k] /\ h[(n + k) + 1] = g[k + 1]
      BY <1>5, <3>1
    <3> QED
      BY <1>2, <1>4, <3>1, <3>2 DEF Pair
  <2> QED
    BY <2>1, <2>2
<1>7. (h[(n + j) + 1] = g[j + 1]) \/ j = m
  <2>1. CASE j # m
    <3>1. j + 1 \in 1..m /\ (n + j) + 1 = n + (j + 1)
      BY <1>2, <2>1
    <3> QED
      BY <1>5, <3>1
  <2> QED
    BY <2>1
<1>8. h[n + j] = g[j] /\ Pair(h, n + j) = Pair(g, j)
  BY <1>2, <1>5, <1>6
<1>9. ~Pair(g, j) \/ j # m
  BY <1>2 DEF Pair
<1>10. Len(Byte1(g, j)) \in Nat
  BY Byte1Type, LenProperties
<1>11. CASE Second(h, n + j) = Second(g, j)
  <2>1. Byte1(h, n + j) = Byte1(g, j)
    BY <1>7, <1>8, <1>9, <1>11 DEF Byte1
  <2> QED
    BY <1>1, <1>3, <1>10, <2>1
<1>12. CASE j # 1
  <2>1. j - 1 \in 1..m /\ (n + j) - 1 = n + (j - 1) /\ n + j > 1 /\ j > 1
    BY <1>2, <1>12
  <2>2. Pair(h, (n + j) - 1) = Pair(g, j - 1)
    BY <1>6, <2>1
  <2>3. Second(h, n + j) = Second(g, j)
    BY <2>1, <2>2 DEF Second
  <2> QED
    BY <1>11, <2>3
<1>13. CASE j = 1 /\ (n = 0 \/ ~Meet(f, g))
  <2>1. ~Second(g, j)
    BY <1>13 DEF Second
  <2>2. CASE n = 0
    <3>1. ~(n + j > 1)
      BY <1>13, <2>2
    <3>2. ~Second(h, n + j)
      BY <3>1 DEF Second
    <3>3. Second(h, n + j) = Second(g, j)
      BY <2>1, <3>2 DEF Second
    <3> QED
      BY <1>11, <3>3
  <2>3. CASE n # 0 /\ ~Meet(f, g)
    <3>1. (n + j) - 1 = n /\ n + 1 = n + j /\ n \in 1..(n + m) /\ n <= n
      BY <1>13, <2>3
    <3>2. h[n] = f[n] /\ h[n + 1] = g[1]
      BY <1>4, <1>8, <1>13, <3>1
    <3>3. ~Pair(h, n)
      BY <1>1, <2>3, <3>2 DEF Pair, Meet
    <3>4. ~Second(h, n + j)
      BY <3>1, <3>3 DEF Second
    <3>5. Second(h, n + j) = Second(g, j)
      BY <2>1, <3>4 DEF Second
    <3> QED
      BY <1>11, <3>5
  <2> QED
    BY <1>13, <2>2, <2>3
<1>14. CASE j = 1 /\ n # 0 /\ Meet(f, g)
  <2>1. (n + j) - 1 = n /\ n + 1 = n + j /\ n \in 1..(n + m) /\ n <= n /\ n + j > 1 /\ n < n + m
    BY <1>2, <1>14
  <2>2. h[n] = "c3" /\ h[n + 1] = g[1] /\ g[1] \in Signs
    BY <1>1, <1>4, <1>8, <1>14, <2>1 DEF Meet
  <2>3. Pair(h, n)
    BY <1>4, <2>1, <2>2 DEF Pair
  <2>4. Second(h, n + j)
    BY <2>1, <2>3 DEF Second
  <2>5. ~Pair(h, n + j)
    <3>1. h[n + j] # "c3"
      BY <2>1, <2>2 DEF Signs
    <3> QED
      BY <3>1 DEF Pair
  <2>6. Byte1(h, n + j) = <<>>
    BY <2>4, <2>5 DEF Byte1
  <2>7. Len(Byte1(h, n + j)) = 0
    BY <2>6
  <2>8. f # <<>>
    <3>1. Len(<<>>) = 0
      OBVIOUS
    <3> QED
      BY <1>1, <1>14, <3>1
  <2>9. Len(Byte1(h, n + j)) <= Len(Byte1(g, j))
    BY <1>10, <2>7
  <2> QED
    BY <1>1, <1>3, <1>14, <2>8, <2>9
<1> QED
  BY <1>12, <1>13, <1>14

LEMMA AsciiConcat ==
    ASSUME NEW f \in Seq(Byte), NEW g \in Seq(Byte)
    PROVE  /\ g = <<>> \/ g[1] \notin Signs => Ascii(f \o g) = Ascii(f) \o Ascii(g)
           /\ Len(Ascii(f \o g)) <= Len(Ascii(f)) + Len(Ascii(g))
<1>1. PICK n \in Nat : n = Len(f)
  BY LenProperties
<1>2. PICK m \in Nat : m = Len(g)
  BY LenProperties
<1>3. PICK h : h = f \o g
  OBVIOUS
<1>4. h \in Seq(Byte) /\ Len(h) = n + m
  BY <1>1, <1>2, <1>3, ConcatProperties
<1>5. PICK a, b, c : a = Bytes1(f) /\ b = Bytes1(g) /\ c = Bytes1(h)
  OBVIOUS
<1>6. a \in Parts(Byte) /\ Len(a) = n /\ \A i \in 1..n : a[i] = Byte1(f, i)
  BY <1>1, <1>5, Bytes1Type
<1>7. b \in Parts(Byte) /\ Len(b) = m /\ \A i \in 1..m : b[i] = Byte1(g, i)
  BY <1>2, <1>5, Bytes1Type
<1>8. c \in Parts(Byte) /\ Len(c) = n + m /\ \A i \in 1..(n + m) : c[i] = Byte1(h, i)
  BY <1>4, <1>5, Bytes1Type
<1>9. PICK d : d = a \o b
  OBVIOUS
<1>10. /\ d \in Parts(Byte) /\ Len(d) = n + m
       /\ \A i \in 1..(n + m) : d[i] = IF i <= n THEN a[i] ELSE b[i - n]
  <2>1. PICK L : L = Seq(Byte)
    OBVIOUS
  <2>2. a \in Seq(L) /\ b \in Seq(L)
    BY <1>6, <1>7, <2>1 DEF Parts
  <2>3. /\ d \in Seq(L) /\ Len(d) = Len(a) + Len(b)
        /\ \A i \in 1..(Len(a) + Len(b)) : d[i] = IF i <= Len(a) THEN a[i] ELSE b[i - Len(a)]
    BY <1>9, <2>2, ConcatProperties
  <2> QED
    BY <1>6, <1>7, <2>1, <2>3 DEF Parts
<1>11. ASSUME NEW i \in 1..(n + m)
       PROVE  /\ g = <<>> \/ g[1] \notin Signs => c[i] = d[i]
              /\ Len(c[i]) <= Len(d[i])
  <2>1. c[i] = Byte1(h, i)
    BY <1>8
  <2>2. g[1] \notin Signs => ~Meet(f, g)
    BY DEF Meet
  <2>3. CASE i <= n
    <3>1. i \in 1..Len(f) /\ i \in 1..n
      BY <1>1, <2>3
    <3>2. d[i] = Byte1(f, i)
      BY <1>6, <1>10, <2>3, <3>1
    <3>3. /\ ~Meet(f, g) \/ i # Len(f) \/ g = <<>> => Byte1(h, i) = Byte1(f, i)
          /\ Len(Byte1(h, i)) <= Len(Byte1(f, i))
      BY <1>3, <3>1, BytesBefore
    <3> QED
      BY <2>1, <2>2, <3>2, <3>3
  <2>4. CASE ~(i <= n)
    <3>1. PICK j \in 1..m : j = i - n /\ i = n + j
      BY <2>4
    <3>2. d[i] = Byte1(g, j)
      BY <1>7, <1>10, <2>4, <3>1
    <3>3. /\ ~Meet(f, g) \/ j # 1 \/ f = <<>> => Byte1(h, i) = Byte1(g, j)
          /\ Len(Byte1(h, i)) <= Len(Byte1(g, j))
      BY <1>1, <1>2, <1>3, <3>1, BytesAfter
    <3>4. g # <<>>
      <4>1. Len(<<>>) = 0
        OBVIOUS
      <4> QED
        BY <1>2, <3>1, <4>1
    <3> QED
      BY <2>1, <2>2, <3>2, <3>3, <3>4
  <2> QED
    BY <2>3, <2>4
<1>12. FlattenSeq(d) = FlattenSeq(a) \o FlattenSeq(b)
  BY <1>6, <1>7, <1>9, FlattenConcat
<1>13. FlattenSeq(a) = Ascii(f) /\ FlattenSeq(b) = Ascii(g) /\ FlattenSeq(c) = Ascii(h)
  BY <1>5, AsciiIs
<1>14. ASSUME g = <<>> \/ g[1] \notin Signs
       PROVE  Ascii(h) = Ascii(f) \o Ascii(g)
  <2>1. \A i \in 1..Len(c) : c[i] = d[i]
    BY <1>8, <1>11, <1>14
  <2>2. c = d
    <3>1. PICK L : L = Seq(Byte)
      OBVIOUS
    <3>2. c \in Seq(L) /\ d \in Seq(L) /\ Len(c) = Len(d)
      BY <1>8, <1>10, <3>1 DEF Parts
    <3> QED
      BY <2>1, <3>2, SeqEqual
  <2> QED
    BY <1>12, <1>13, <2>2
<1>15. Len(Ascii(h)) <= Len(Ascii(f)) + Len(Ascii(g))
  <2>1. Len(c) = Len(d) /\ \A i \in 1..Len(d) : Len(c[i]) <= Len(d[i])
    BY <1>8, <1>10, <1>11
  <2>2. Len(FlattenSeq(c)) <= Len(FlattenSeq(d))
    BY <1>8, <1>10, <2>1, FlattenShorter
  <2>3. PICK x, y : x = Ascii(f) /\ y = Ascii(g) /\ x \in Seq(Byte) /\ y \in Seq(Byte)
    BY AsciiType
  <2>4. Len(x \o y) = Len(x) + Len(y)
    BY <2>3, ConcatProperties
  <2> QED
    BY <1>12, <1>13, <2>2, <2>3, <2>4
<1> QED
  BY <1>3, <1>14, <1>15

LEMMA FlattenSole ==
    ASSUME NEW S, NEW ss \in Parts(S), NEW k \in 1..Len(ss),
           \A i \in 1..Len(ss) : i # k => ss[i] = <<>>
    PROVE  FlattenSeq(ss) = ss[k]
<1>1. PICK n \in Nat : n = Len(ss) /\ k \in 1..n
  BY LenProperties DEF Parts
<1>2. PICK s : s = ss[k] /\ s \in Seq(S)
  BY ElementOfSeq DEF Parts
<1> DEFINE h == [i \in Nat |-> IF i < k THEN <<>> ELSE s]
<1>3. h \in [Nat -> Seq(S)]
  BY <1>2, EmptySeq
<1>4. h[0] = <<>> /\ h[n] = s
  BY <1>1
<1>5. ASSUME NEW i \in 1..n
      PROVE  h[i] = h[i - 1] \o ss[i]
  <2>1. i \in Nat /\ i - 1 \in Nat
    OBVIOUS
  <2>a. i < k \/ i = k \/ k < i
    BY <1>1
  <2>2. CASE i < k
    <3>1. h[i] = <<>> /\ h[i - 1] = <<>> /\ ss[i] = <<>>
      BY <1>1, <2>1, <2>2
    <3>2. <<>> \o <<>> = <<>>
      BY EmptySeq, ConcatEmptySeq
    <3> HIDE DEF h
    <3> QED
      BY <3>1, <3>2
  <2>3. CASE i = k
    <3>1. h[i] = s /\ h[i - 1] = <<>> /\ ss[i] = s
      BY <1>1, <1>2, <2>1, <2>3
    <3>2. <<>> \o s = s
      BY <1>2, ConcatEmptySeq
    <3> HIDE DEF h
    <3> QED
      BY <3>1, <3>2
  <2>4. CASE k < i
    <3>1. h[i] = s /\ h[i - 1] = s /\ ss[i] = <<>>
      BY <1>1, <2>1, <2>4
    <3>2. s \o <<>> = s
      BY <1>2, ConcatEmptySeq
    <3> HIDE DEF h
    <3> QED
      BY <3>1, <3>2
  <2> QED
    BY <2>2, <2>3, <2>4, <2>a
<1>6. FlattenSeq(ss) = h[Len(ss)]
  <2> HIDE DEF h
  <2> QED
    BY <1>1, <1>3, <1>4, <1>5, FlattenIs
<1> QED
  BY <1>1, <1>2, <1>4, <1>6

\* A text of which one byte, or one sign of two, is all but its spaces.
LEMMA AsciiSole ==
    ASSUME NEW f \in Seq(Byte), NEW k \in 1..Len(f),
           \A i \in 1..Len(f) : i # k => Byte1(f, i) = <<>>
    PROVE  Ascii(f) = Byte1(f, k)
<1>1. PICK ss : ss = Bytes1(f)
  OBVIOUS
<1>2. ss \in Parts(Byte) /\ Len(ss) = Len(f) /\ \A i \in 1..Len(f) : ss[i] = Byte1(f, i)
  BY <1>1, Bytes1Type
<1>3. k \in 1..Len(ss) /\ \A i \in 1..Len(ss) : i # k => ss[i] = <<>>
  BY <1>2
<1>4. FlattenSeq(ss) = ss[k]
  BY <1>2, <1>3, FlattenSole
<1> QED
  BY <1>1, <1>2, <1>4, AsciiIs

Alone(c) == <<c>>
Spaced(c) == <<" ", c, " ">>
SpacedSign(c) == <<" ", "c3", c, " ">>

LEMMA LenAlone == \A c : Len(Alone(c)) = 1 /\ Alone(c)[1] = c
BY DEF Alone

LEMMA AsciiSpacedSign ==
    ASSUME NEW c \in Signs
    PROVE  Ascii(SpacedSign(c)) = IF c = "97" THEN Alone("*") ELSE Alone("/")
<1>1. PICK f : f = SpacedSign(c)
  OBVIOUS
<1>a. f = <<" ", "c3", c, " ">> /\ (c = "97" \/ c = "b7")
  BY <1>1 DEF SpacedSign, Signs
<1>2. f \in Seq(Byte)
  <2>1. " " \in Byte /\ "c3" \in Byte /\ c \in Byte
    BY <1>a, SignAssumption
  <2> QED
    BY <1>a, <2>1, Texts4
<1>3. Len(f) = 4 /\ f[1] = " " /\ f[2] = "c3" /\ f[3] = c /\ f[4] = " "
  BY <1>a
<1>4. Byte1(f, 2) = IF c = "97" THEN Alone("*") ELSE Alone("/")
  <2>1. 2 + 1 = 3 /\ 2 < 4
    OBVIOUS
  <2>2. Pair(f, 2)
    BY <1>a, <1>3, <2>1 DEF Pair, Signs
  <2> QED
    BY <1>3, <2>1, <2>2 DEF Byte1, Alone
<1>5. Byte1(f, 1) = <<>> /\ Byte1(f, 4) = <<>>
  BY <1>3 DEF Byte1, Pair
<1>6. Byte1(f, 3) = <<>>
  <2>1. 3 - 1 = 2 /\ 2 + 1 = 3 /\ 3 > 1 /\ 2 < 4
    OBVIOUS
  <2>2. Second(f, 3)
    BY <1>a, <1>3, <2>1 DEF Second, Pair, Signs
  <2>3. ~Pair(f, 3)
    BY <1>a, <1>3 DEF Pair
  <2> QED
    BY <2>2, <2>3 DEF Byte1
<1>b. Len(f) = 4
  BY <1>a
<1>7. ASSUME NEW i \in 1..Len(f), i # 2
      PROVE  Byte1(f, i) = <<>>
  <2>1. i = 1 \/ i = 3 \/ i = 4
    BY <1>b, <1>7
  <2> QED
    BY <1>5, <1>6, <2>1
<1>8. 2 \in 1..Len(f)
  BY <1>b
<1> QED
  BY <1>1, <1>2, <1>4, <1>7, <1>8, AsciiSole

LEMMA AsciiSpaced ==
    ASSUME NEW c \in {"+", "-"}
    PROVE  Ascii(Spaced(c)) = Alone(c)
<1>1. PICK f : f = Spaced(c)
  OBVIOUS
<1>a. f = <<" ", c, " ">> /\ (c = "+" \/ c = "-")
  BY <1>1 DEF Spaced
<1>2. f \in Seq(Byte)
  <2>1. " " \in Byte /\ c \in Byte
    BY <1>a, SignAssumption DEF Operator
  <2> QED
    BY <1>a, <2>1, Texts3
<1>3. Len(f) = 3 /\ f[1] = " " /\ f[2] = c /\ f[3] = " "
  BY <1>a
<1>4. Byte1(f, 2) = Alone(c)
  <2>1. 2 - 1 = 1
    OBVIOUS
  <2> QED
    BY <1>a, <1>3, <2>1 DEF Byte1, Pair, Second, Alone
<1>5. Byte1(f, 1) = <<>> /\ Byte1(f, 3) = <<>>
  BY <1>3 DEF Byte1, Pair
<1>b. Len(f) = 3
  BY <1>a
<1>6. ASSUME NEW i \in 1..Len(f), i # 2
      PROVE  Byte1(f, i) = <<>>
  <2>1. i = 1 \/ i = 3
    BY <1>b, <1>6
  <2> QED
    BY <1>5, <2>1
<1>7. 2 \in 1..Len(f)
  BY <1>b
<1> QED
  BY <1>1, <1>2, <1>4, <1>6, <1>7, AsciiSole

LEMMA AsciiOne ==
    ASSUME NEW c \in Byte
    PROVE  Ascii(Alone(c)) = IF c = " " THEN <<>> ELSE Alone(c)
<1>1. PICK f : f = Alone(c)
  OBVIOUS
<1>a. f \in Seq(Byte) /\ Len(f) = 1 /\ f[1] = c
  <2>1. <<c>> \in Seq(Byte)
    OBVIOUS
  <2> QED
    BY <1>1, <2>1, LenAlone DEF Alone
<1>2. Byte1(f, 1) = IF c = " " THEN <<>> ELSE Alone(c)
  BY <1>a DEF Byte1, Pair, Second, Alone
<1>3. 1 \in 1..Len(f) /\ \A i \in 1..Len(f) : i # 1 => Byte1(f, i) = <<>>
  BY <1>a
<1>4. Ascii(f) = Byte1(f, 1)
  BY <1>3, <1>a, AsciiSole
<1> QED
  BY <1>1, <1>2, <1>4

LEMMA AsciiGlyph ==
    ASSUME NEW e \in Seq(Byte), NEW i \in 1..Len(e)
    PROVE  /\ Len(Ascii(Glyph(e, i))) <= 1
           /\ e[i] \in Typed => /\ Ascii(Glyph(e, i)) = Alone(e[i])
                                /\ Glyph(e, i)[1] \notin Signs
<1>1. PICK c : c = e[i] /\ c \in Byte
  BY ElementOfSeq
<1>2. PICK g, a : g = Glyph(e, i) /\ a = Ascii(g)
  OBVIOUS
<1>a. (Len(a) <= 1 /\ (c \in Typed => a = Alone(c) /\ g[1] \notin Signs))
         => /\ Len(Ascii(Glyph(e, i))) <= 1
            /\ e[i] \in Typed => /\ Ascii(Glyph(e, i)) = Alone(e[i])
                                 /\ Glyph(e, i)[1] \notin Signs
  BY <1>1, <1>2
<1>3. CASE c = "*" /\ g = SpacedSign("97")
  <2>1. a = Alone(c) /\ Len(a) = 1
    BY <1>2, <1>3, AsciiSpacedSign, LenAlone DEF Signs
  <2>2. g[1] \notin Signs
    BY <1>3 DEF Signs, SpacedSign
  <2> QED
    BY <1>a, <2>1, <2>2
<1>4. CASE c = "/" /\ g = SpacedSign("b7")
  <2>1. a = Alone(c) /\ Len(a) = 1
    BY <1>2, <1>4, AsciiSpacedSign, LenAlone DEF Signs
  <2>2. g[1] \notin Signs
    BY <1>4 DEF Signs, SpacedSign
  <2> QED
    BY <1>a, <2>1, <2>2
<1>5. CASE c \in {"+", "-"} /\ g = Spaced(c)
  <2>1. a = Alone(c) /\ Len(a) = 1
    BY <1>2, <1>5, AsciiSpaced, LenAlone
  <2>2. g[1] \notin Signs
    BY <1>5 DEF Signs, Spaced
  <2> QED
    BY <1>a, <2>1, <2>2
<1>6. CASE g = Alone(c)
  <2>1. a = IF c = " " THEN <<>> ELSE Alone(c)
    BY <1>1, <1>2, <1>6, AsciiOne
  <2>2. Len(a) <= 1
    <3>1. a = <<>> \/ a = Alone(c)
      BY <2>1
    <3>2. CASE a = <<>>
      BY <3>2
    <3>3. CASE a = Alone(c)
      <4>1. Len(a) = 1
        BY <3>3, LenAlone
      <4> QED
        BY <4>1
    <3> QED
      BY <3>1, <3>2, <3>3
  <2>3. c \in Typed => c # " " /\ c \notin Signs /\ g[1] = c
    BY <1>6, LenAlone DEF Typed, Signs
  <2> QED
    BY <1>a, <2>1, <2>2, <2>3
<1>7. \/ c = "*" /\ g = SpacedSign("97")
      \/ c = "/" /\ g = SpacedSign("b7")
      \/ c \in {"+", "-"} /\ g = Spaced(c)
      \/ g = Alone(c)
  <2>1. CASE c = "*"
    <3>1. e[i] = "*"
      BY <1>1, <2>1
    <3>2. Glyph(e, i) = <<" ", "c3", "97", " ">>
      BY <3>1 DEF Glyph
    <3>3. g = SpacedSign("97")
      BY <1>2, <3>2 DEF SpacedSign
    <3> QED
      BY <2>1, <3>3
  <2>2. CASE c = "/"
    BY <1>1, <1>2, <2>2 DEF Glyph, SpacedSign
  <2>3. CASE c = "+"
    BY <1>1, <1>2, <2>3 DEF Glyph, Spaced
  <2>4. CASE c = "-" /\ ~Unary(e, i)
    BY <1>1, <1>2, <2>4 DEF Glyph, Spaced
  <2>5. CASE c # "*" /\ c # "/" /\ c # "+" /\ (c # "-" \/ Unary(e, i))
    BY <1>1, <1>2, <2>5 DEF Glyph, Alone
  <2> QED
    BY <2>1, <2>2, <2>3, <2>4, <2>5
<1> QED
  BY <1>3, <1>4, <1>5, <1>6, <1>7

\* Of what keys and results make, the row of the history gives back the expression; of
\* anything, nothing longer.
LEMMA FormulaBack ==
    \A e \in Seq(Byte) : /\ Len(Ascii(Formula(e))) <= Len(e)
                         /\ e \in Seq(Typed) => Ascii(Formula(e)) = e
<1> DEFINE Back(e) == /\ Len(Ascii(Formula(e))) <= Len(e)
                      /\ e \in Seq(Typed) => Ascii(Formula(e)) = e
           T == {n \in Nat : \A e \in Seq(Byte) : Len(e) = n => Back(e)}
<1>1. 0 \in T
  <2> SUFFICES ASSUME NEW e \in Seq(Byte), Len(e) = 0
               PROVE  Back(e)
    OBVIOUS
  <2>1. e = <<>> /\ Len(<<>>) = 0
    BY EmptySeq
  <2>2. Glyphs(e) = <<>>
    BY <2>1 DEF Glyphs
  <2>3. Formula(e) = <<>>
    BY <2>2, FlattenEmpty DEF Formula, Glyphs
  <2>4. Bytes1(<<>>) = <<>>
    BY DEF Bytes1
  <2>5. Ascii(<<>>) = <<>>
    BY <2>4, AsciiIs, FlattenEmpty
  <2> QED
    BY <2>1, <2>3, <2>5
<1>2. ASSUME NEW n \in Nat, n \in T
      PROVE  n + 1 \in T
  <2> SUFFICES ASSUME NEW e \in Seq(Byte), Len(e) = n + 1
               PROVE  Back(e)
    OBVIOUS
  <2>1. PICK d, c : d \in Seq(Byte) /\ c \in Byte /\ e = Append(d, c)
    <3>1. e # <<>>
      BY EmptySeq
    <3> QED
      BY <3>1, SequenceEmptyOrAppend
  <2>2. Len(d) = n /\ e[n + 1] = c /\ \A i \in 1..n : e[i] = d[i]
    <3>1. PICK m \in Nat : m = Len(d)
      BY <2>1, LenProperties
    <3>2. Len(e) = m + 1 /\ e[m + 1] = c /\ \A i \in 1..m : e[i] = d[i]
      BY <2>1, <3>1, AppendProperties
    <3>3. m = n
      BY <3>2
    <3> QED
      BY <3>1, <3>2, <3>3
  <2>3. Back(d)
    BY <1>2, <2>1, <2>2
  <2>4. PICK g : g = Glyph(e, n + 1)
    OBVIOUS
  <2>5. g \in Seq(Byte) /\ Formula(e) = Formula(d) \o g
    BY <2>1, <2>2, <2>4, FormulaAppend
  <2>6. /\ Len(Ascii(g)) <= 1
        /\ c \in Typed => Ascii(g) = Alone(c) /\ g[1] \notin Signs
    <3>1. n + 1 \in 1..Len(e)
      OBVIOUS
    <3> QED
      BY <2>2, <2>4, <3>1, AsciiGlyph
  <2>7. PICK f : f = Formula(d) /\ f \in Seq(Byte)
    BY <2>1, FormulaType
  <2>8. /\ g[1] \notin Signs => Ascii(f \o g) = Ascii(f) \o Ascii(g)
        /\ Len(Ascii(f \o g)) <= Len(Ascii(f)) + Len(Ascii(g))
    BY <2>5, <2>7, AsciiConcat
  <2>9. Len(Ascii(Formula(e))) <= Len(e)
    <3>1. PICK p, q, r \in Nat : p = Len(Ascii(f)) /\ q = Len(Ascii(g)) /\ r = Len(Ascii(f \o g))
      <4>1. f \o g \in Seq(Byte)
        BY <2>5, <2>7, ConcatProperties
      <4>2. Ascii(f) \in Seq(Byte) /\ Ascii(g) \in Seq(Byte) /\ Ascii(f \o g) \in Seq(Byte)
        BY <2>5, <2>7, <4>1, AsciiType
      <4> QED
        BY <4>2, LenProperties
    <3>2. p <= n /\ q <= 1 /\ r <= p + q
      BY <2>2, <2>3, <2>6, <2>7, <2>8, <3>1
    <3>3. r <= n + 1
      BY <3>2
    <3> QED
      BY <2>5, <2>7, <3>1, <3>3
  <2>10. ASSUME e \in Seq(Typed)
         PROVE  Ascii(Formula(e)) = e
    <3>1. \A i \in 1..(n + 1) : e[i] \in Typed
      BY <2>10, ElementOfSeq
    <3>2. c \in Typed
      <4>1. n + 1 \in 1..(n + 1)
        OBVIOUS
      <4> QED
        BY <2>2, <3>1, <4>1
    <3>3. d \in Seq(Typed)
      <4>1. \A i \in 1..n : d[i] \in Typed
        <5>1. \A i \in 1..n : i \in 1..(n + 1)
          OBVIOUS
        <5> QED
          BY <2>2, <3>1, <5>1
      <4>2. d \in [1..n -> Typed]
        <5>1. d \in [1..n -> Byte]
          BY <2>1, <2>2, LenProperties
        <5> QED
          BY <4>1, <5>1
      <4> QED
        BY <4>2, FunctionIsSeq
    <3>4. Ascii(f) = d
      BY <2>3, <2>7, <3>3
    <3>5. d \o Alone(c) = e
      BY <2>1, AppendIsConcat DEF Alone
    <3> QED
      BY <2>5, <2>6, <2>7, <2>8, <3>2, <3>4, <3>5
  <2> QED
    BY <2>9, <2>10
<1>3. \A n \in Nat : n \in T
  <2> HIDE DEF T
  <2> QED
    BY <1>1, <1>2, SetInduction
<1> SUFFICES ASSUME NEW e \in Seq(Byte)
             PROVE  Back(e)
  OBVIOUS
<1>4. Len(e) \in Nat
  BY LenProperties
<1>5. Len(e) \in T
  <2> HIDE DEF T
  <2> QED
    BY <1>3, <1>4
<1> QED
  BY <1>5

------------------------------------------------------------------------------
(* The editing of an expression *)

LEMMA CutIs ==
    ASSUME NEW S, NEW text \in Seq(S), NEW size \in Nat, size # 0
    PROVE  /\ Cut(text, size) \in Seq(S) /\ Len(Cut(text, size)) < size
           /\ Len(text) < size => Cut(text, size) = text
<1>1. PICK n \in Nat : n = Len(text) /\ \A i \in 1..n : text[i] \in S
  BY LenProperties, ElementOfSeq
<1>2. CASE n < size
  BY <1>1, <1>2 DEF Cut
<1>3. CASE ~(n < size)
  <2>1. PICK t : t = SubSeq(text, 1, size - 1)
    OBVIOUS
  <2>2. 1 \in Int /\ size - 1 \in Int /\ \A i \in 1..(size - 1) : text[i] \in S
    BY <1>1, <1>3
  <2>3. t \in Seq(S) /\ Len(t) = IF 1 <= size - 1 THEN size - 1 - 1 + 1 ELSE 0
    BY <2>1, <2>2, SubSeqProperties
  <2>4. Len(t) < size
    BY <2>3
  <2>5. Cut(text, size) = t
    BY <1>1, <1>3, <2>1 DEF Cut
  <2> QED
    BY <1>1, <1>3, <2>3, <2>4, <2>5
<1> QED
  BY <1>2, <1>3

LEMMA RemoveAtIs ==
    ASSUME NEW S, NEW e \in Seq(S), NEW n, n = Len(e), NEW k \in 1..n
    PROVE  Removed(RemoveAt(e, k), e, n, k, S)
BY RemovedIs DEF RemoveAt

\* d is s with x after its k-th element.
Inserted(d, s, n, k, x, S) ==
    /\ d \in Seq(S) /\ Len(d) = n + 1
    /\ \A j \in 1..(n + 1) : d[j] = IF j <= k THEN s[j] ELSE IF j = k + 1 THEN x ELSE s[j - 1]

LEMMA InsertedIs ==
    ASSUME NEW S, NEW e \in Seq(S), NEW n, n = Len(e), NEW k \in 0..n, NEW x \in S
    PROVE  Inserted(InsertAt(e, k + 1, x), e, n, k, x, S)
<1>1. n \in Nat /\ k \in Nat /\ \A i \in 1..n : e[i] \in S
  BY LenProperties, ElementOfSeq
<1>2. PICK a : a = SubSeq(e, 1, k)
  OBVIOUS
<1>3. a \in Seq(S) /\ Len(a) = k /\ \A i \in 1..k : a[i] = e[i]
  BY <1>2, PrefixIs
<1>4. PICK b : b = SubSeq(e, k + 1, n)
  OBVIOUS
<1>5. k + 1 \in Int /\ n \in Int /\ \A i \in (k + 1)..n : e[i] \in S
  BY <1>1
<1>6. /\ b \in Seq(S) /\ Len(b) = IF k + 1 <= n THEN n - (k + 1) + 1 ELSE 0
      /\ \A i \in 1..(n - (k + 1) + 1) : b[i] = e[(k + 1) + i - 1]
  BY <1>4, <1>5, SubSeqProperties
<1>7. Len(b) = n - k
  BY <1>1, <1>6
<1>8. PICK c : c = a \o <<x>>
  OBVIOUS
<1>9. <<x>> \in Seq(S) /\ Len(<<x>>) = 1 /\ <<x>>[1] = x
  OBVIOUS
<1>10. /\ c \in Seq(S) /\ Len(c) = Len(a) + Len(<<x>>)
       /\ \A i \in 1..(Len(a) + Len(<<x>>)) : c[i] = IF i <= Len(a) THEN a[i]
                                                     ELSE <<x>>[i - Len(a)]
  BY <1>3, <1>8, <1>9, ConcatProperties
<1>11. Len(c) = k + 1 /\ c[k + 1] = x /\ \A i \in 1..k : c[i] = e[i]
  <2>1. k + 1 \in 1..(k + 1) /\ ~(k + 1 <= k) /\ (k + 1) - k = 1
    BY <1>1
  <2>2. \A i \in 1..k : i \in 1..(k + 1) /\ i <= k
    BY <1>1
  <2> QED
    BY <1>3, <1>9, <1>10, <2>1, <2>2
<1>12. PICK d : d = c \o b
  OBVIOUS
<1>13. /\ d \in Seq(S) /\ Len(d) = n + 1
       /\ \A i \in 1..(n + 1) : d[i] = IF i <= k + 1 THEN c[i] ELSE b[i - (k + 1)]
  <2>1. /\ d \in Seq(S) /\ Len(d) = Len(c) + Len(b)
        /\ \A i \in 1..(Len(c) + Len(b)) : d[i] = IF i <= Len(c) THEN c[i] ELSE b[i - Len(c)]
    <3>1. c \in Seq(S) /\ b \in Seq(S)
      BY <1>6, <1>10
    <3> QED
      BY <1>12, <3>1, ConcatProperties
  <2>2. Len(c) + Len(b) = n + 1
    BY <1>1, <1>7, <1>11
  <2> QED
    BY <1>11, <2>1, <2>2
<1>14. ASSUME NEW j \in 1..(n + 1)
       PROVE  d[j] = IF j <= k THEN e[j] ELSE IF j = k + 1 THEN x ELSE e[j - 1]
  <2>1. CASE j <= k
    <3>1. j \in 1..k /\ j <= k + 1
      BY <1>1, <2>1
    <3> QED
      BY <1>11, <1>13, <2>1, <3>1
  <2>2. CASE j = k + 1
    BY <1>1, <1>11, <1>13, <2>2
  <2>3. CASE ~(j <= k + 1)
    <3>1. PICK i \in 1..(n - k) : i = j - (k + 1) /\ (k + 1) + i - 1 = j - 1
      BY <1>1, <2>3
    <3>2. i \in 1..(n - (k + 1) + 1)
      BY <1>1
    <3>3. b[i] = e[j - 1]
      BY <1>6, <3>1, <3>2
    <3>4. ~(j <= k) /\ j # k + 1
      BY <1>1, <2>3
    <3> QED
      BY <1>13, <2>3, <3>1, <3>3, <3>4
  <2> QED
    BY <1>1, <2>1, <2>2, <2>3
<1>15. InsertAt(e, k + 1, x) = d
  <2>1. (k + 1) - 1 = k
    BY <1>1
  <2> QED
    BY <1>2, <1>4, <1>8, <1>12, <2>1 DEF InsertAt
<1> QED
  BY <1>13, <1>14, <1>15 DEF Inserted

PairApart(e, i) == e[i] \in Operator /\ e[i + 1] \in Operator =>
                      e[i + 1] = "-" /\ ~(e[i] = "-" /\ Unary(e, i))

LEMMA ApartIs == \A e : Apart(e) <=> \A i \in 1..(Len(e) - 1) : PairApart(e, i)
BY DEF Apart, PairApart

LEMMA PairSame ==
    ASSUME NEW e, NEW d, NEW i, NEW j, d[j] = e[i], d[j + 1] = e[i + 1], PairApart(e, i),
           Unary(d, j) <=> Unary(e, i)
    PROVE  PairApart(d, j)
BY DEF PairApart

LEMMA PrefixApart ==
    ASSUME NEW e \in Seq(Typed), Apart(e), NEW k \in 0..Len(e)
    PROVE  SubSeq(e, 1, k) \in Seq(Typed) /\ Apart(SubSeq(e, 1, k))
<1>1. PICK n \in Nat : n = Len(e) /\ k \in 0..n
  BY LenProperties
<1>2. PICK d : d = SubSeq(e, 1, k)
  OBVIOUS
<1>3. d \in Seq(Typed) /\ Len(d) = k /\ \A i \in 1..k : d[i] = e[i]
  BY <1>1, <1>2, PrefixIs
<1>4. ASSUME NEW i \in 1..(k - 1)
      PROVE  PairApart(d, i)
  <2>1. i \in 1..k /\ i + 1 \in 1..k /\ i \in 1..(n - 1)
    BY <1>1
  <2>2. PairApart(e, i)
    BY <1>1, <2>1, ApartIs
  <2>3. Unary(d, i) <=> Unary(e, i)
    <3>1. CASE i = 1
      BY <3>1 DEF Unary
    <3>2. CASE i # 1
      <4>1. i - 1 \in 1..k
        BY <2>1, <3>2
      <4> QED
        BY <1>3, <4>1 DEF Unary
    <3> QED
      BY <3>1, <3>2
  <2>4. d[i] = e[i] /\ d[i + 1] = e[i + 1]
    BY <1>3, <2>1
  <2> QED
    BY <2>2, <2>3, <2>4, PairSame
<1>5. Apart(d)
  BY <1>3, <1>4, ApartIs
<1> QED
  BY <1>2, <1>3, <1>5

LEMMA AppendApart ==
    ASSUME NEW e \in Seq(Typed), Apart(e), NEW c \in Typed,
           c \notin Operator \/ e = <<>> \/ e[Len(e)] \notin Operator
    PROVE  Append(e, c) \in Seq(Typed) /\ Apart(Append(e, c))
<1>1. PICK n \in Nat : n = Len(e) /\ (e = <<>> => n = 0)
  BY LenProperties, EmptySeq
<1>2. PICK d : d = Append(e, c)
  OBVIOUS
<1>3. d \in Seq(Typed) /\ Len(d) = n + 1 /\ d[n + 1] = c /\ \A i \in 1..n : d[i] = e[i]
  BY <1>1, <1>2, AppendProperties
<1>4. ASSUME NEW i \in 1..n
      PROVE  PairApart(d, i)
  <2>1. CASE i = n
    <3>1. d[i + 1] \notin Operator \/ d[i] \notin Operator
      BY <1>1, <1>3, <2>1
    <3> QED
      BY <3>1 DEF PairApart
  <2>2. CASE i # n
    <3>1. i \in 1..n /\ i + 1 \in 1..n /\ i \in 1..(n - 1)
      BY <2>2
    <3>2. PairApart(e, i)
      BY <1>1, <3>1, ApartIs
    <3>3. Unary(d, i) <=> Unary(e, i)
      <4>1. CASE i = 1
        BY <4>1 DEF Unary
      <4>2. CASE i # 1
        <5>1. i - 1 \in 1..n
          BY <3>1, <4>2
        <5> QED
          BY <1>3, <5>1 DEF Unary
      <4> QED
        BY <4>1, <4>2
    <3>4. d[i] = e[i] /\ d[i + 1] = e[i + 1]
      BY <1>3, <3>1
    <3> QED
      BY <3>2, <3>3, <3>4, PairSame
  <2> QED
    BY <2>1, <2>2
<1>5. Apart(d)
  <2>1. Len(d) - 1 = n
    BY <1>3
  <2> QED
    BY <1>4, <2>1, ApartIs
<1> QED
  BY <1>2, <1>3, <1>5

\* A prefix is left, which ends in no operator if operators are apart.
LEMMA WithoutOperatorIs ==
    ASSUME NEW S, NEW e \in Seq(S)
    PROVE  \E k \in 0..Len(e) : /\ WithoutOperator(e) = SubSeq(e, 1, k)
                                /\ Apart(e) /\ k # 0 => e[k] \notin Operator
<1>1. PICK n \in Nat : n = Len(e)
  BY LenProperties
<1>2. CASE n = 0 \/ e[n] \notin Operator
  <2>1. WithoutOperator(e) = e
    BY <1>1, <1>2 DEF WithoutOperator
  <2>2. SubSeq(e, 1, n) = e
    BY <1>1, SubSeqFull
  <2>3. n \in 0..n
    OBVIOUS
  <2> QED
    BY <1>1, <1>2, <2>1, <2>2, <2>3
<1>3. CASE n # 0 /\ e[n] \in Operator /\ n > 1 /\ e[n] = "-" /\ e[n - 1] \in Operator
  <2>1. WithoutOperator(e) = SubSeq(e, 1, n - 2)
    BY <1>1, <1>3 DEF WithoutOperator
  <2>2. n - 2 \in 0..n
    BY <1>3
  <2>3. ASSUME Apart(e), n - 2 # 0, e[n - 2] \in Operator
        PROVE  FALSE
    <3>1. PICK i \in 1..(n - 1) : i = n - 1 /\ i + 1 = n
      BY <1>3
    <3>2. PICK j \in 1..(n - 1) : j = n - 2 /\ j + 1 = i
      BY <2>3, <3>1
    <3>3. PairApart(e, i) /\ PairApart(e, j)
      BY <1>1, <2>3, ApartIs
    <3>4. e[i] = "-"
      BY <1>3, <2>3, <3>1, <3>2, <3>3 DEF PairApart
    <3>5. Unary(e, i)
      <4>1. i - 1 = j
        BY <3>2
      <4>2. e[i - 1] \in Operator
        BY <2>3, <3>2, <4>1
      <4> QED
        BY <4>2 DEF Unary
    <3>6. e[i] \in Operator /\ e[i + 1] \in Operator
      BY <1>3, <3>1
    <3> QED
      BY <3>3, <3>4, <3>5, <3>6 DEF PairApart
  <2> QED
    BY <1>1, <2>1, <2>2, <2>3
<1>4. CASE n # 0 /\ e[n] \in Operator /\ ~(n > 1 /\ e[n] = "-" /\ e[n - 1] \in Operator)
  <2>1. WithoutOperator(e) = SubSeq(e, 1, n - 1)
    BY <1>1, <1>4 DEF WithoutOperator, Front
  <2>2. n - 1 \in 0..n
    BY <1>4
  <2>3. ASSUME Apart(e), n - 1 # 0, e[n - 1] \in Operator
        PROVE  FALSE
    <3>1. PICK i \in 1..(n - 1) : i = n - 1 /\ i + 1 = n
      BY <1>4, <2>3
    <3>2. PairApart(e, i)
      BY <1>1, <2>3, ApartIs
    <3>3. e[n] = "-"
      BY <1>4, <2>3, <3>1, <3>2 DEF PairApart
    <3>4. n > 1
      BY <2>3, <1>4
    <3> QED
      BY <1>4, <2>3, <3>3, <3>4
  <2> QED
    BY <1>1, <2>1, <2>2, <2>3
<1> QED
  BY <1>2, <1>3, <1>4

------------------------------------------------------------------------------
(* The sign key *)

Before(e, i) == /\ i > 0 => e[i] \notin Figure
                /\ \A j \in (i + 1)..Len(e) : e[j] \in Figure

LEMMA BeforeNumberType ==
    ASSUME NEW S, NEW e \in Seq(S)
    PROVE  BeforeNumber(e) \in 0..Len(e) /\ Before(e, BeforeNumber(e))
<1>1. PICK n \in Nat : n = Len(e)
  BY LenProperties
<1> DEFINE U == {i \in 0..n : i = 0 \/ e[i] \notin Figure}
<1>2. U \subseteq 0..n /\ 0 \in U
  OBVIOUS
<1>3. PICK x \in U : \A y \in U : y <= x
  <2> HIDE DEF U
  <2> QED
    BY <1>2, GreatestElement
<1>4. x \in 0..n /\ (x > 0 => e[x] \notin Figure)
  OBVIOUS
<1>5. ASSUME NEW j \in (x + 1)..n
      PROVE  e[j] \in Figure
  <2>1. ~(j <= x) /\ j \in 0..n
    BY <1>4
  <2>2. j \notin U
    BY <1>3, <2>1
  <2> QED
    BY <2>1, <2>2
<1>6. Before(e, x)
  BY <1>1, <1>4, <1>5 DEF Before
<1>7. \E i \in 0..Len(e) : Before(e, i)
  BY <1>1, <1>4, <1>6
<1>8. BeforeNumber(e) = CHOOSE i \in 0..Len(e) : Before(e, i)
  BY DEF BeforeNumber, Before
<1> QED
  BY <1>7, <1>8

LEMMA BeforeNumberIs ==
    ASSUME NEW S, NEW e \in Seq(S), NEW k \in 0..Len(e), Before(e, k)
    PROVE  BeforeNumber(e) = k
<1>1. PICK n \in Nat : n = Len(e) /\ k \in 0..n
  BY LenProperties
<1>2. PICK i \in 0..n : i = BeforeNumber(e) /\ Before(e, i)
  BY <1>1, BeforeNumberType
<1>3. ~(i < k)
  <2>1. i < k => k \in (i + 1)..n /\ k > 0
    BY <1>1, <1>2
  <2> QED
    BY <1>1, <1>2, <2>1 DEF Before
<1>4. ~(k < i)
  <2>1. k < i => i \in (k + 1)..n /\ i > 0
    BY <1>1, <1>2
  <2> QED
    BY <1>1, <1>2, <2>1 DEF Before
<1> QED
  BY <1>1, <1>2, <1>3, <1>4

LEMMA MinusTyped == "-" \in Typed /\ "-" \in Operator /\ "-" \notin Figure /\ "(" \notin Figure
BY SignAssumption, KeyAssumption DEF Typed, Operator

LEMMA OperatorIs == Operator \subseteq Typed /\ Operator \cap Figure = {} /\ "(" \notin Figure
BY SignAssumption, KeyAssumption DEF Typed, Operator

LEMMA SizeIs == SIZE \in Nat /\ RESULT \in Nat /\ LINE \in Nat /\ RESULT >= 2
                /\ RESULT < SIZE /\ LINE < SIZE /\ SIZE >= 3
BY SizeAssumption, LineAssumption

\* The three things the key may do.
Removes(e, k) == k > 0 /\ e[k] = "-" /\ Unary(e, k)

LEMMA ToggledIs ==
    ASSUME NEW S, NEW e \in Seq(S), e # <<>>, NEW k, k = BeforeNumber(e)
    PROVE  Toggled(e) = IF Removes(e, k) THEN RemoveAt(e, k)
                        ELSE IF Fits(e, 1) THEN InsertAt(e, k + 1, "-") ELSE e
BY DEF Toggled, Removes

LEMMA ToggledType ==
    ASSUME NEW S, "-" \in S, NEW e \in Seq(S), Len(e) < SIZE - 1
    PROVE  Toggled(e) \in Seq(S) /\ Len(Toggled(e)) < SIZE - 1
<1>1. PICK n \in Nat : n = Len(e) /\ (e # <<>> => n # 0)
  BY LenProperties, EmptySeq
<1>2. CASE e = <<>>
  <2>1. <<"-">> \in Seq(S) /\ Len(<<"-">>) = 1
    OBVIOUS
  <2>2. Toggled(e) = <<"-">>
    BY <1>2 DEF Toggled
  <2>3. 1 < SIZE - 1
    BY SizeIs
  <2> QED
    BY <2>1, <2>2, <2>3
<1>3. CASE e # <<>>
  <2>1. PICK k \in 0..n : k = BeforeNumber(e)
    BY <1>1, BeforeNumberType
  <2>2. Toggled(e) = IF Removes(e, k) THEN RemoveAt(e, k)
                     ELSE IF Fits(e, 1) THEN InsertAt(e, k + 1, "-") ELSE e
    BY <1>3, <2>1, ToggledIs
  <2>3. CASE Removes(e, k)
    <3>1. k \in 1..n
      BY <2>3 DEF Removes
    <3>2. RemoveAt(e, k) \in Seq(S) /\ Len(RemoveAt(e, k)) = n - 1
      BY <1>1, <3>1, RemoveAtIs DEF Removed
    <3> QED
      BY <1>1, <2>2, <2>3, <3>2, SizeIs
  <2>4. CASE ~Removes(e, k) /\ Fits(e, 1)
    <3>1. InsertAt(e, k + 1, "-") \in Seq(S) /\ Len(InsertAt(e, k + 1, "-")) = n + 1
      BY <1>1, InsertedIs DEF Inserted
    <3>2. n + 1 < SIZE - 1
      BY <1>1, <2>4 DEF Fits
    <3> QED
      BY <2>2, <2>4, <3>1, <3>2
  <2>5. CASE ~Removes(e, k) /\ ~Fits(e, 1)
    BY <2>2, <2>5
  <2> QED
    BY <2>3, <2>4, <2>5
<1> QED
  BY <1>2, <1>3

LEMMA SameUnary ==
    ASSUME NEW e, NEW d, NEW i \in Nat, i = 1 \/ d[i - 1] = e[i - 1]
    PROVE  Unary(d, i) <=> Unary(e, i)
BY DEF Unary

LEMMA NotEmpty ==
    ASSUME NEW S, NEW s \in Seq(S), Len(s) # 0
    PROVE  s # <<>>
BY EmptySeq

LEMMA AloneType ==
    ASSUME NEW S, NEW c \in S
    PROVE  Alone(c) \in Seq(S)
BY DEF Alone

LEMMA ToggledApart ==
    ASSUME NEW e \in Seq(Typed), Apart(e)
    PROVE  Apart(Toggled(e))
<1>1. PICK n \in Nat : n = Len(e) /\ (e # <<>> => n # 0)
  BY LenProperties, EmptySeq
<1>2. CASE e = <<>>
  <2>1. PICK d : d = Alone("-")
    OBVIOUS
  <2>2. Len(d) = 1
    BY <2>1, LenAlone
  <2>3. Apart(d)
    <3>1. \A i \in 1..(Len(d) - 1) : PairApart(d, i)
      BY <2>2
    <3> QED
      BY <3>1, ApartIs
  <2> QED
    BY <1>2, <2>1, <2>3 DEF Toggled, Alone
<1>3. CASE e # <<>>
  <2>1. PICK k \in 0..n : k = BeforeNumber(e) /\ Before(e, k)
    BY <1>1, BeforeNumberType
  <2>2. Toggled(e) = IF Removes(e, k) THEN RemoveAt(e, k)
                     ELSE IF Fits(e, 1) THEN InsertAt(e, k + 1, "-") ELSE e
    BY <1>3, <2>1, ToggledIs
  <2>3. \A j \in (k + 1)..n : e[j] \notin Operator
    BY <1>1, <2>1, OperatorIs DEF Before
  <2>4. CASE Removes(e, k)
    <3>1. k \in 1..n
      BY <2>4 DEF Removes
    <3>2. PICK d : d = RemoveAt(e, k)
      OBVIOUS
    <3>a. Removed(d, e, n, k, Typed)
      BY <1>1, <3>1, <3>2, RemoveAtIs
    <3>3. /\ Len(d) = n - 1
          /\ \A j \in 1..(n - 1) : d[j] = IF j < k THEN e[j] ELSE e[j + 1]
      BY <3>a DEF Removed
    <3>4. ASSUME NEW i \in 1..(n - 1 - 1)
          PROVE  PairApart(d, i)
      <4>1. i \in 1..(n - 1) /\ i + 1 \in 1..(n - 1)
        OBVIOUS
      <4>2. CASE i + 1 < k
        <5>1. d[i] = e[i] /\ d[i + 1] = e[i + 1]
          BY <3>3, <4>1, <4>2
        <5>2. i = 1 \/ d[i - 1] = e[i - 1]
          <6>1. i # 1 => i - 1 \in 1..(n - 1) /\ i - 1 < k
            BY <4>1, <4>2
          <6> QED
            BY <3>3, <6>1
        <5>3. PairApart(e, i)
          BY <1>1, <4>1, ApartIs
        <5>4. Unary(d, i) <=> Unary(e, i)
          BY <5>2, SameUnary
        <5> QED
          BY <5>1, <5>3, <5>4, PairSame
      <4>3. CASE ~(i + 1 < k)
        <5>1. d[i + 1] = e[(i + 1) + 1] /\ (i + 1) + 1 \in (k + 1)..n
          BY <3>3, <4>1, <4>3
        <5>2. d[i + 1] \notin Operator
          BY <2>3, <5>1
        <5> QED
          BY <5>2 DEF PairApart
      <4> QED
        BY <4>2, <4>3
    <3>5. Apart(d)
      BY <3>3, <3>4, ApartIs
    <3> QED
      BY <2>2, <2>4, <3>2, <3>5
  <2>5. CASE ~Removes(e, k) /\ Fits(e, 1)
    <3>1. PICK d : d = InsertAt(e, k + 1, "-")
      OBVIOUS
    <3>a. Inserted(d, e, n, k, "-", Typed)
      BY <1>1, <3>1, MinusTyped, InsertedIs
    <3>2. /\ Len(d) = n + 1
          /\ \A j \in 1..(n + 1) : d[j] = IF j <= k THEN e[j]
                                          ELSE IF j = k + 1 THEN "-" ELSE e[j - 1]
      BY <3>a DEF Inserted
    <3>3. ASSUME NEW i \in 1..n
          PROVE  PairApart(d, i)
      <4>1. i \in 1..(n + 1) /\ i + 1 \in 1..(n + 1)
        OBVIOUS
      <4>2. CASE i < k
        <5>1. d[i] = e[i] /\ d[i + 1] = e[i + 1]
          BY <3>2, <4>1, <4>2
        <5>2. i = 1 \/ d[i - 1] = e[i - 1]
          <6>1. i # 1 => i - 1 \in 1..(n + 1) /\ i - 1 <= k
            BY <4>1, <4>2
          <6> QED
            BY <3>2, <6>1
        <5>3. PairApart(e, i)
          <6>1. i \in 1..(n - 1)
            BY <4>2
          <6> QED
            BY <1>1, <6>1, ApartIs
        <5>4. Unary(d, i) <=> Unary(e, i)
          BY <5>2, SameUnary
        <5> QED
          BY <5>1, <5>3, <5>4, PairSame
      <4>3. CASE i = k
        <5>1. i <= k /\ ~(i + 1 <= k) /\ i > 0
          BY <4>3
        <5>2. d[i] = e[k] /\ d[i + 1] = "-"
          BY <3>2, <4>1, <4>3, <5>1
        <5>3. Unary(d, i) <=> Unary(e, i)
          <6>1. i # 1 => i - 1 \in 1..(n + 1) /\ i - 1 <= k
            BY <4>1, <4>3
          <6>2. i = 1 \/ d[i - 1] = e[i - 1]
            BY <3>2, <6>1
          <6> QED
            BY <6>2, SameUnary
        <5>4. ~(d[i] = "-" /\ Unary(d, i))
          BY <2>5, <4>3, <5>1, <5>2, <5>3 DEF Removes
        <5> QED
          BY <5>2, <5>4 DEF PairApart
      <4>4. CASE k < i
        <5>1. ~(i + 1 <= k) /\ i + 1 # k + 1 /\ (i + 1) - 1 = i /\ i \in (k + 1)..n
          BY <4>4
        <5>2. d[i + 1] = e[i]
          BY <3>2, <4>1, <5>1
        <5>3. d[i + 1] \notin Operator
          BY <2>3, <5>1, <5>2
        <5> QED
          BY <5>3 DEF PairApart
      <4> QED
        BY <2>1, <4>2, <4>3, <4>4
    <3>4. Apart(d)
      <4>1. Len(d) - 1 = n
        BY <3>2
      <4> QED
        BY <3>3, <4>1, ApartIs
    <3> QED
      BY <2>2, <2>5, <3>1, <3>4
  <2>6. CASE ~Removes(e, k) /\ ~Fits(e, 1)
    BY <2>2, <2>6
  <2> QED
    BY <2>4, <2>5, <2>6
<1> QED
  BY <1>2, <1>3

\* The second sign key finds the place of the first.
LEMMA ToggledBack ==
    ASSUME NEW e \in Seq(Typed), Apart(e), Len(e) < SIZE - 1, NEW k, k = BeforeNumber(e),
           k > 0 => e[k] \in Operator \cup {"("}
    PROVE  Toggled(Toggled(e)) = e
<1>1. PICK n \in Nat : n = Len(e) /\ (e # <<>> => n # 0) /\ n < SIZE - 1
  BY LenProperties, EmptySeq
<1>2. CASE e = <<>>
  <2>1. PICK d : d = Alone("-")
    OBVIOUS
  <2>2. d \in Seq(Typed) /\ Len(d) = 1 /\ d[1] = "-"
    BY <2>1, MinusTyped, AloneType, LenAlone
  <2>3. d # <<>>
    <3>1. d \in Seq(Typed) /\ Len(d) # 0
      BY <2>2
    <3> QED
      BY <3>1, NotEmpty
  <2>4. BeforeNumber(d) = 1
    <3>1. Before(d, 1)
      BY <2>2, MinusTyped DEF Before
    <3>2. 1 \in 0..Len(d)
      BY <2>2
    <3> QED
      BY <2>2, <3>1, <3>2, BeforeNumberIs
  <2>5. Removes(d, 1)
    BY <2>2 DEF Removes, Unary
  <2>6. Toggled(d) = RemoveAt(d, 1)
    BY <2>2, <2>3, <2>4, <2>5, ToggledIs
  <2>7. RemoveAt(d, 1) \in Seq(Typed) /\ Len(RemoveAt(d, 1)) = 0
    <3>1. 1 \in 1..Len(d) /\ Len(d) - 1 = 0
      BY <2>2
    <3>2. Removed(RemoveAt(d, 1), d, Len(d), 1, Typed)
      BY <2>2, <3>1, RemoveAtIs
    <3> QED
      BY <3>1, <3>2 DEF Removed
  <2>8. RemoveAt(d, 1) = <<>>
    BY <2>7, EmptySeq
  <2>9. Toggled(e) = d
    BY <1>2, <2>1 DEF Toggled, Alone
  <2> QED
    BY <1>2, <2>6, <2>8, <2>9
<1>3. CASE e # <<>>
  <2>1. k \in 0..n /\ Before(e, k)
    BY <1>1, BeforeNumberType
  <2>2. Toggled(e) = IF Removes(e, k) THEN RemoveAt(e, k)
                     ELSE IF Fits(e, 1) THEN InsertAt(e, k + 1, "-") ELSE e
    BY <1>3, ToggledIs
  <2>3. \A j \in (k + 1)..n : e[j] \in Figure
    BY <1>1, <2>1 DEF Before
  <2>4. CASE Removes(e, k)
    <3>1. k \in 1..n /\ e[k] = "-" /\ Unary(e, k)
      BY <2>1, <2>4 DEF Removes
    <3>2. PICK d : d = RemoveAt(e, k)
      OBVIOUS
    <3>a. Removed(d, e, n, k, Typed)
      BY <1>1, <3>1, <3>2, RemoveAtIs
    <3>3. /\ d \in Seq(Typed) /\ Len(d) = n - 1
          /\ \A j \in 1..(n - 1) : d[j] = IF j < k THEN e[j] ELSE e[j + 1]
      BY <3>a DEF Removed
    <3>4. Toggled(e) = d
      BY <2>2, <2>4, <3>2
    <3>5. CASE d = <<>>
      <4>1. n = 1
        <5>1. Len(d) = 0
          BY <3>5
        <5> QED
          BY <3>3, <5>1
      <4>2. PICK m : m = Alone("-")
        OBVIOUS
      <4>3. m \in Seq(Typed) /\ Len(m) = 1 /\ m[1] = "-"
        BY <4>2, MinusTyped, AloneType, LenAlone
      <4>4. e[1] = "-"
        BY <3>1, <4>1
      <4>5. e = m
        <5>1. \A j \in 1..Len(e) : e[j] = m[j]
          BY <1>1, <4>1, <4>3, <4>4
        <5> QED
          BY <1>1, <4>1, <4>3, <5>1, SeqEqual
      <4>6. Toggled(d) = m
        BY <3>5, <4>2 DEF Toggled, Alone
      <4> QED
        BY <3>4, <4>5, <4>6
    <3>6. CASE d # <<>>
      <4>1. PICK i \in 0..(n - 1) : i = k - 1 /\ i + 1 = k
        BY <3>1
      <4>2. Before(d, i)
        <5>1. i > 0 => d[i] = e[k - 1]
          BY <3>3, <4>1
        <5>2. i > 0 => e[k - 1] \in Operator \cup {"("}
          BY <3>1, <4>1 DEF Unary
        <5>3. i > 0 => d[i] \notin Figure
          BY <5>1, <5>2, OperatorIs
        <5>4. ASSUME NEW j \in (i + 1)..(n - 1)
              PROVE  d[j] \in Figure
          <6>1. j \in 1..(n - 1) /\ ~(j < k) /\ j + 1 \in (k + 1)..n
            BY <4>1
          <6> QED
            BY <2>3, <3>3, <6>1
        <5> QED
          BY <3>3, <5>3, <5>4 DEF Before
      <4>3. BeforeNumber(d) = i
        BY <3>3, <4>2, BeforeNumberIs
      <4>4. ~Removes(d, i)
        <5> SUFFICES ASSUME i > 0, d[i] = "-", Unary(d, i)
                     PROVE  FALSE
          BY DEF Removes
        <5>1. i \in 1..(n - 1) /\ i < k /\ d[i] = e[i]
          BY <3>3, <4>1
        <5>2. PairApart(e, i)
          BY <1>1, <5>1, ApartIs
        <5>3. i = 1 \/ d[i - 1] = e[i - 1]
          <6>1. i # 1 => i - 1 \in 1..(n - 1) /\ i - 1 < k
            BY <3>1, <5>1
          <6> QED
            BY <3>3, <6>1
        <5>4. Unary(e, i)
          BY <5>1, <5>3, SameUnary
        <5> QED
          BY <3>1, <4>1, <5>1, <5>2, <5>4, MinusTyped DEF PairApart
      <4>5. Fits(d, 1)
        BY <1>1, <3>3, SizeIs DEF Fits
      <4>6. Toggled(d) = InsertAt(d, i + 1, "-")
        BY <3>3, <3>6, <4>3, <4>4, <4>5, ToggledIs
      <4>7. PICK m : m = InsertAt(d, i + 1, "-")
        OBVIOUS
      <4>a. Inserted(m, d, n - 1, i, "-", Typed)
        BY <3>3, <4>7, MinusTyped, InsertedIs
      <4>8. /\ m \in Seq(Typed) /\ Len(m) = n - 1 + 1
            /\ \A j \in 1..(n - 1 + 1) : m[j] = IF j <= i THEN d[j]
                                                ELSE IF j = i + 1 THEN "-" ELSE d[j - 1]
        BY <4>a DEF Inserted
      <4>9. ASSUME NEW j \in 1..n
            PROVE  m[j] = e[j]
        <5>1. j \in 1..(n - 1 + 1)
          BY <3>1
        <5>2. CASE j < k
          <6>1. j <= i /\ j \in 1..(n - 1)
            BY <3>1, <4>1, <5>2
          <6> QED
            BY <3>3, <4>8, <5>1, <5>2, <6>1
        <5>3. CASE j = k
          <6>1. ~(j <= i) /\ j = i + 1
            BY <4>1, <5>3
          <6> QED
            BY <3>1, <4>8, <5>1, <5>3, <6>1
        <5>4. CASE k < j
          <6>1. /\ ~(j <= i) /\ j # i + 1
                /\ j - 1 \in 1..(n - 1) /\ ~(j - 1 < k) /\ (j - 1) + 1 = j
            BY <3>1, <4>1, <5>4
          <6> QED
            BY <3>3, <4>8, <5>1, <6>1
        <5> QED
          BY <3>1, <5>2, <5>3, <5>4
      <4>10. m = e
        <5>1. Len(m) = n
          BY <4>8
        <5> QED
          BY <1>1, <4>8, <4>9, <5>1, SeqEqual
      <4> QED
        BY <3>4, <4>6, <4>7, <4>10
    <3> QED
      BY <3>5, <3>6
  <2>5. CASE ~Removes(e, k) /\ Fits(e, 1)
    <3>1. PICK d : d = InsertAt(e, k + 1, "-")
      OBVIOUS
    <3>a. Inserted(d, e, n, k, "-", Typed)
      BY <1>1, <2>1, <3>1, MinusTyped, InsertedIs
    <3>2. /\ d \in Seq(Typed) /\ Len(d) = n + 1
          /\ \A j \in 1..(n + 1) : d[j] = IF j <= k THEN e[j]
                                          ELSE IF j = k + 1 THEN "-" ELSE e[j - 1]
      BY <3>a DEF Inserted
    <3>3. Toggled(e) = d
      BY <2>2, <2>5, <3>1
    <3>4. d # <<>>
      <4>1. n + 1 # 0
        OBVIOUS
      <4> QED
        BY <3>2, <4>1, NotEmpty
    <3>5. PICK i \in 1..(n + 1) : i = k + 1
      BY <2>1
    <3>6. d[i] = "-"
      BY <2>1, <3>2, <3>5
    <3>7. Before(d, i)
      <4>1. ASSUME NEW j \in (i + 1)..(n + 1)
            PROVE  d[j] \in Figure
        <5>1. j \in 1..(n + 1) /\ ~(j <= k) /\ j # k + 1 /\ j - 1 \in (k + 1)..n
          BY <2>1, <3>5
        <5> QED
          BY <2>3, <3>2, <5>1
      <4> QED
        BY <3>2, <3>6, <4>1, MinusTyped DEF Before
    <3>8. BeforeNumber(d) = i
      <4>1. i \in 0..Len(d)
        BY <3>2
      <4> QED
        BY <3>2, <3>7, <4>1, BeforeNumberIs
    <3>9. Unary(d, i)
      <4>1. k > 0 => i - 1 = k /\ k \in 1..(n + 1) /\ k <= k
        BY <2>1, <3>5
      <4>2. k > 0 => d[i - 1] = e[k]
        BY <3>2, <4>1
      <4>3. k = 0 => i = 1
        BY <3>5
      <4>4. k = 0 \/ k > 0
        BY <2>1
      <4> QED
        BY <4>2, <4>3, <4>4 DEF Unary
    <3>10. Toggled(d) = RemoveAt(d, i)
      <4>1. Removes(d, i)
        BY <3>6, <3>9 DEF Removes
      <4> QED
        BY <3>2, <3>4, <3>8, <4>1, ToggledIs
    <3>11. PICK m : m = RemoveAt(d, i)
      OBVIOUS
    <3>a1. Removed(m, d, n + 1, i, Typed)
      BY <3>2, <3>11, RemoveAtIs
    <3>12. /\ m \in Seq(Typed) /\ Len(m) = n + 1 - 1
           /\ \A j \in 1..(n + 1 - 1) : m[j] = IF j < i THEN d[j] ELSE d[j + 1]
      BY <3>a1 DEF Removed
    <3>13. ASSUME NEW j \in 1..n
           PROVE  m[j] = e[j]
      <4>1. j \in 1..(n + 1 - 1) /\ j \in 1..(n + 1) /\ j + 1 \in 1..(n + 1)
        OBVIOUS
      <4>2. CASE j < i
        <5>1. j <= k
          BY <2>1, <3>5, <4>2
        <5> QED
          BY <3>2, <3>12, <4>1, <4>2, <5>1
      <4>3. CASE ~(j < i)
        <5>1. ~(j + 1 <= k) /\ j + 1 # k + 1 /\ (j + 1) - 1 = j
          BY <2>1, <3>5, <4>3
        <5> QED
          BY <3>2, <3>12, <4>1, <4>3, <5>1
      <4> QED
        BY <4>2, <4>3
    <3>14. m = e
      <4>1. Len(m) = n
        BY <3>12
      <4> QED
        BY <1>1, <3>12, <3>13, <4>1, SeqEqual
    <3> QED
      BY <3>3, <3>10, <3>11, <3>14
  <2>6. CASE ~Removes(e, k) /\ ~Fits(e, 1)
    <3>1. Toggled(e) = e
      BY <2>2, <2>6
    <3> QED
      BY <3>1
  <2> QED
    BY <2>4, <2>5, <2>6
<1> QED
  BY <1>2, <1>3

------------------------------------------------------------------------------
(* The invariant *)

\* Could a row of the history go to the expression?
RowFits(h) == Len(Ascii(h.expression)) < SIZE - 1

\* Is it what = has made of an expression of keys and results?
IsAnswer(h) == \E e \in Seq(Typed) : /\ Len(e) < SIZE - 1 /\ Apart(e)
                                     /\ h.expression = Formula(e)
                                     /\ h.result = Evaluate(e) /\ h.result \in Result

AreAnswers(list) == \A i \in 1..Len(list) : IsAnswer(list[i])

Typing ==
    /\ running \in BOOLEAN /\ has_error \in BOOLEAN /\ clear_on_next_input \in BOOLEAN
    /\ expression \in Seq(Byte) /\ Len(expression) < SIZE - 1
    /\ last_result \in Seq(Byte) /\ Len(last_result) < RESULT
    /\ input_label \in Seq(Byte) \cup {Error}
    /\ module \in {"absent", "spawned", "serving"}

Lists ==
    /\ history_list \in Seq(Entry) /\ Len(history_list) <= MAX_HISTORY
    /\ done \in Seq(Entry)
    /\ history_file \in Bytes
    /\ \A i \in 1..Len(history_list) : RowFits(history_list[i])

Display == DisplayAgrees /\ (has_error => clear_on_next_input)

Answered == clear_on_next_input /\ ~has_error =>
               expression = last_result \/ Evaluate(expression) = last_result

Genuine ==
    genuine => /\ expression \in Seq(Typed) /\ Apart(expression)
               /\ last_result \in Result \cup {<<>>}
               /\ AreAnswers(history_list) /\ AreAnswers(done)
               /\ Answered

Inv == Typing /\ Lists /\ Display /\ HistoryKept /\ Genuine

------------------------------------------------------------------------------
(* What the steps keep needing *)

LEMMA EmptyText ==
    \A S : <<>> \in Seq(S) /\ Len(<<>>) = 0
BY EmptySeq

LEMMA EmptyApart == Apart(<<>>)
<1>1. Len(<<>>) - 1 = -1
  BY EmptyText
<1>2. \A i \in 1..(Len(<<>>) - 1) : PairApart(<<>>, i)
  BY <1>1
<1> QED
  BY <1>2, ApartIs

LEMMA ShownType ==
    ASSUME NEW e \in Seq(Byte)
    PROVE  Shown(e) \in Seq(Byte)
<1>1. "0" \in Byte
  BY SignAssumption
<1>2. <<"0">> \in Seq(Byte)
  BY <1>1
<1> QED
  BY <1>2 DEF Shown

LEMMA ResultIs ==
    ASSUME NEW r \in Result
    PROVE  /\ r \in Seq(Typed) /\ r \in Seq(Byte) /\ Len(r) < RESULT /\ Len(r) < SIZE - 1
           /\ r # <<>> /\ Apart(r) /\ Negated(r) \in Result
<1>1. r \in Seq(Typed) /\ Len(r) \in 1..(RESULT - 1) /\ Apart(r) /\ Negated(r) \in Result
  BY ResultAssumption
<1>2. r \in Seq(Byte)
  BY <1>1, TypedBytes
<1>3. Len(r) < RESULT /\ Len(r) < SIZE - 1 /\ Len(r) # 0
  BY <1>1, SizeIs
<1>4. r # <<>>
  BY <1>3, EmptyText
<1> QED
  BY <1>1, <1>2, <1>3, <1>4

LEMMA NegatedIs ==
    ASSUME PrintsResults, NEW r \in Seq(Byte)
    PROVE  /\ Negated(r) \in Result
           /\ Cut(Negated(r), RESULT) = Negated(r)
<1>1. PICK n : n = Negated(r) /\ n \in Result
  BY DEF PrintsResults
<1>2. n \in Seq(Byte) /\ Len(n) < RESULT
  BY <1>1, ResultIs
<1>3. Cut(n, RESULT) = n
  BY <1>2 DEF Cut
<1> QED
  BY <1>1, <1>3

\* A byte is put at the end if it fits.
LEMMA PutType ==
    ASSUME NEW S, NEW e \in Seq(S), Len(e) < SIZE - 1, NEW c \in S,
           NEW d, d = IF Fits(e, 1) THEN Append(e, c) ELSE e
    PROVE  d \in Seq(S) /\ Len(d) < SIZE - 1
<1>1. PICK n \in Nat : n = Len(e)
  BY LenProperties
<1>2. CASE Fits(e, 1)
  <2>1. n + 1 < SIZE - 1
    BY <1>1, <1>2 DEF Fits
  <2>2. Append(e, c) \in Seq(S) /\ Len(Append(e, c)) = n + 1
    BY <1>1, AppendProperties
  <2> QED
    BY <1>2, <2>1, <2>2
<1>3. CASE ~Fits(e, 1)
  BY <1>3
<1> QED
  BY <1>2, <1>3

Adds(list, h, new) ==
    /\ new \in Seq(Entry) /\ Len(new) <= MAX_HISTORY
    /\ \A i \in 1..Len(new) : new[i] = h \/ \E j \in 1..Len(list) : new[i] = list[j]

LEMMA AddedIs ==
    ASSUME NEW list \in Seq(Entry), NEW h \in Entry
    PROVE  Adds(list, h, LastOnes(Append(list, h)))
<1>1. PICK n \in Nat : n = Len(list)
  BY LenProperties
<1>2. PICK l : l = Append(list, h)
  OBVIOUS
<1>3. PICK new : new = LastOnes(l)
  OBVIOUS
<1>4. l \in Seq(Entry) /\ Len(l) = n + 1 /\ l[n + 1] = h /\ \A i \in 1..n : l[i] = list[i]
  BY <1>1, <1>2, AppendProperties
<1>5. /\ new \in Seq(Entry) /\ Len(new) <= MAX_HISTORY
      /\ \A i \in 1..Len(new) : \E j \in 1..Len(l) : new[i] = l[j]
  BY <1>4, <1>3, LastOnesElements
<1>6. ASSUME NEW i \in 1..Len(new)
      PROVE  new[i] = h \/ \E j \in 1..n : new[i] = list[j]
  <2>1. PICK j \in 1..(n + 1) : new[i] = l[j]
    BY <1>4, <1>5
  <2>2. j = n + 1 \/ j \in 1..n
    OBVIOUS
  <2> QED
    BY <1>4, <2>1, <2>2
<1> QED
  BY <1>1, <1>2, <1>5, <1>6, <1>3 DEF Adds

------------------------------------------------------------------------------
(* The steps that leave the history alone *)

LEMMA HistorySame ==
    ASSUME Inv, UNCHANGED history, running' = running
    PROVE  Lists' /\ HistoryKept'
BY DEF Inv, Lists, HistoryKept, history

\* The keys that change the expression take an answer or an error off the display.
Edited ==
    /\ expression' \in Seq(Byte) /\ Len(expression') < SIZE - 1
    /\ genuine => expression' \in Seq(Typed) /\ Apart(expression')
    /\ clear_on_next_input' = FALSE
    /\ has_error' = (has_error /\ ~clear_on_next_input)
    /\ update_display
    /\ UNCHANGED <<last_result, history, running, module>>

LEMMA EditedStep ==
    ASSUME Inv, Edited
    PROVE  Inv'
<1>1. has_error' = FALSE /\ clear_on_next_input' = FALSE
  BY DEF Inv, Typing, Display, Edited
<1>2. input_label' = Shown(expression')
  BY <1>1 DEF Edited, update_display
<1>3. Typing'
  <2>1. Shown(expression') \in Seq(Byte)
    BY ShownType DEF Edited
  <2> QED
    BY <1>1, <1>2, <2>1 DEF Inv, Typing, Edited
<1>4. Lists' /\ HistoryKept'
  BY HistorySame DEF Edited
<1>5. Display'
  BY <1>1, <1>2 DEF Display, DisplayAgrees
<1>6. Genuine'
  <2>1. Answered'
    BY <1>1 DEF Answered
  <2> QED
    BY <2>1 DEF Inv, Genuine, Edited, history
<1> QED
  BY <1>3, <1>4, <1>5, <1>6 DEF Inv

LEMMA AppendStep ==
    ASSUME Inv, NEW key \in Key, append_to_expression(key)
    PROVE  Inv'
<1>1. PICK e : e = IF clear_on_next_input THEN <<>> ELSE expression
  OBVIOUS
<1>2. expression' = IF Fits(e, 1) THEN Append(e, key) ELSE e
  BY <1>1 DEF append_to_expression
<1>3. key \in Byte /\ key \in Typed /\ key \notin Operator
  BY KeyAssumption DEF Typed
<1>4. e \in Seq(Byte) /\ Len(e) < SIZE - 1
  BY <1>1, EmptyText, SizeIs DEF Inv, Typing
<1>5. expression' \in Seq(Byte) /\ Len(expression') < SIZE - 1
  BY <1>2, <1>3, <1>4, PutType
<1>6. ASSUME genuine
      PROVE  expression' \in Seq(Typed) /\ Apart(expression')
  <2>1. e \in Seq(Typed) /\ Apart(e)
    BY <1>1, <1>6, EmptyText, EmptyApart DEF Inv, Genuine
  <2>2. Append(e, key) \in Seq(Typed) /\ Apart(Append(e, key))
    BY <1>3, <2>1, AppendApart
  <2> QED
    BY <1>2, <2>1, <2>2
<1>7. Edited
  BY <1>5, <1>6 DEF Edited, append_to_expression, Event, engine
<1> QED
  BY <1>7, EditedStep

LEMMA OperatorStep ==
    ASSUME Inv, NEW op \in Operator, append_operator(op)
    PROVE  Inv'
<1>1. PICK d : d = IF ~clear_on_next_input THEN expression
                   ELSE IF has_error THEN <<>> ELSE last_result
  OBVIOUS
<1>2. PICK e : e = WithoutOperator(d)
  OBVIOUS
<1>3. expression' = IF Fits(e, 1) THEN Append(e, op) ELSE e
  BY <1>1, <1>2 DEF append_operator
<1>4. op \in Byte /\ op \in Typed
  BY OperatorIs DEF Typed
<1>5. d \in Seq(Byte) /\ Len(d) < SIZE - 1
  <2>1. Len(last_result) < SIZE - 1
    <3>1. Len(last_result) \in Nat /\ Len(last_result) < RESULT
      BY LenProperties DEF Inv, Typing
    <3> QED
      BY <3>1, SizeIs
  <2> QED
    BY <1>1, <2>1, EmptyText, SizeIs DEF Inv, Typing
<1>6. PICK n \in Nat : n = Len(d)
  BY <1>5, LenProperties
<1>7. PICK k \in 0..n : e = SubSeq(d, 1, k) /\ (Apart(d) /\ k # 0 => d[k] \notin Operator)
  BY <1>2, <1>5, <1>6, WithoutOperatorIs
<1>8. e \in Seq(Byte) /\ Len(e) = k /\ \A i \in 1..k : e[i] = d[i]
  BY <1>5, <1>6, <1>7, PrefixIs
<1>9. Len(e) < SIZE - 1
  BY <1>5, <1>6, <1>8, SizeIs
<1>10. expression' \in Seq(Byte) /\ Len(expression') < SIZE - 1
  BY <1>3, <1>4, <1>8, <1>9, PutType
<1>11. ASSUME genuine
       PROVE  expression' \in Seq(Typed) /\ Apart(expression')
  <2>1. d \in Seq(Typed) /\ Apart(d)
    BY <1>1, <1>11, EmptyText, EmptyApart, ResultIs DEF Inv, Genuine
  <2>2. e \in Seq(Typed) /\ Apart(e)
    BY <1>6, <1>7, <2>1, PrefixApart
  <2>3. e = <<>> \/ e[Len(e)] \notin Operator
    <3>1. CASE k = 0
      BY <1>8, <3>1, EmptySeq
    <3>2. CASE k # 0
      <4>1. k \in 1..k
        BY <3>2
      <4>2. e[k] = d[k] /\ d[k] \notin Operator
        BY <1>7, <1>8, <2>1, <3>2, <4>1
      <4> QED
        BY <1>8, <4>2
    <3> QED
      BY <3>1, <3>2
  <2>4. Append(e, op) \in Seq(Typed) /\ Apart(Append(e, op))
    BY <1>4, <2>2, <2>3, AppendApart
  <2> QED
    BY <1>3, <2>2, <2>4
<1>12. Edited
  BY <1>10, <1>11 DEF Edited, append_operator, Event, engine
<1> QED
  BY <1>12, EditedStep

LEMMA BackspaceStep ==
    ASSUME Inv, perform_backspace
    PROVE  Inv'
<1>1. PICK n \in Nat : n = Len(expression) /\ (expression # <<>> => n # 0)
  BY LenProperties, EmptySeq DEF Inv, Typing
<1>2. CASE clear_on_next_input \/ expression = <<>>
  <2>1. expression' = <<>>
    BY <1>2 DEF perform_backspace
  <2>2. 0 < SIZE - 1
    BY SizeIs
  <2>3. Edited
    BY <2>1, <2>2, EmptyText, EmptyApart DEF Edited, perform_backspace, Event, engine
  <2> QED
    BY <2>3, EditedStep
<1>3. CASE ~(clear_on_next_input \/ expression = <<>>)
  <2>1. n - 1 \in 0..n /\ n - 1 < n
    BY <1>1, <1>3
  <2>2. expression' = SubSeq(expression, 1, n - 1)
    BY <1>1, <1>3 DEF perform_backspace, Front
  <2>3. expression' \in Seq(Byte) /\ Len(expression') = n - 1
    BY <1>1, <2>1, <2>2, PrefixIs DEF Inv, Typing
  <2>4. Len(expression') < SIZE - 1
    BY <1>1, <2>3, SizeIs DEF Inv, Typing
  <2>5. genuine => expression' \in Seq(Typed) /\ Apart(expression')
    BY <1>1, <2>1, <2>2, PrefixApart DEF Inv, Genuine
  <2>6. Edited
    BY <2>3, <2>4, <2>5 DEF Edited, perform_backspace, Event, engine
  <2> QED
    BY <2>6, EditedStep
<1> QED
  BY <1>2, <1>3

LEMMA SignStep ==
    ASSUME PrintsResults, Inv, toggle_sign
    PROVE  Inv'
<1>1. /\ UNCHANGED history /\ running' = running /\ module' = module
      /\ has_error' = has_error /\ clear_on_next_input' = clear_on_next_input
  BY DEF toggle_sign, Event, engine
<1>2. Lists' /\ HistoryKept'
  BY <1>1, HistorySame
<1>3. genuine' = genuine /\ history_list' = history_list /\ done' = done
  BY <1>1 DEF history
<1>4. CASE clear_on_next_input /\ ~has_error /\ last_result # <<>>
  <2>1. PICK r : r = Negated(last_result) /\ r \in Result /\ Cut(r, RESULT) = r
    BY NegatedIs DEF Inv, Typing
  <2>2. expression' = r /\ last_result' = r /\ input_label' = r
    BY <1>4, <2>1 DEF toggle_sign
  <2>3. /\ r \in Seq(Typed) /\ r \in Seq(Byte) /\ Len(r) < RESULT /\ Len(r) < SIZE - 1
        /\ Apart(r)
    BY <2>1, ResultIs
  <2>4. Typing'
    BY <1>1, <2>2, <2>3 DEF Inv, Typing
  <2>5. Display'
    BY <1>1, <1>4, <2>1, <2>2 DEF Display, DisplayAgrees
  <2>6. Genuine'
    BY <1>3, <2>1, <2>2, <2>3 DEF Inv, Genuine, Answered
  <2> QED
    BY <1>2, <2>4, <2>5, <2>6 DEF Inv
<1>5. CASE clear_on_next_input /\ ~(~has_error /\ last_result # <<>>)
  <2>1. UNCHANGED <<expression, last_result, input_label>>
    BY <1>5 DEF toggle_sign
  <2>2. Typing' /\ Display'
    BY <1>1, <2>1 DEF Inv, Typing, Display, DisplayAgrees
  <2>3. Genuine'
    BY <1>1, <1>3, <2>1 DEF Inv, Genuine, Answered
  <2> QED
    BY <1>2, <2>2, <2>3 DEF Inv
<1>6. CASE ~clear_on_next_input
  <2>1. ~has_error
    BY <1>6 DEF Inv, Display
  <2>2. /\ expression' = Toggled(expression) /\ last_result' = last_result
        /\ input_label' = Shown(expression')
    BY <1>6, <2>1 DEF toggle_sign
  <2>3. expression' \in Seq(Byte) /\ Len(expression') < SIZE - 1
    <3>1. "-" \in Byte
      BY MinusTyped DEF Typed
    <3> QED
      BY <2>2, <3>1, ToggledType DEF Inv, Typing
  <2>4. genuine => expression' \in Seq(Typed) /\ Apart(expression')
    <3>1. ASSUME genuine
          PROVE  expression \in Seq(Typed) /\ Apart(expression) /\ Len(expression) < SIZE - 1
      BY <3>1 DEF Inv, Genuine, Typing
    <3> QED
      BY <2>2, <3>1, ToggledType, ToggledApart, MinusTyped
  <2>5. Typing'
    <3>1. Shown(expression') \in Seq(Byte)
      BY <2>3, ShownType
    <3> QED
      BY <1>1, <2>2, <2>3, <3>1 DEF Inv, Typing
  <2>6. Display'
    BY <1>1, <1>6, <2>1, <2>2 DEF Display, DisplayAgrees
  <2>7. Genuine'
    BY <1>1, <1>3, <1>6, <2>2, <2>4 DEF Inv, Genuine, Answered
  <2> QED
    BY <1>2, <2>5, <2>6, <2>7 DEF Inv
<1> QED
  BY <1>4, <1>5, <1>6

LEMMA Zero == <<"0">> \in Seq(Byte) /\ Shown(<<>>) = <<"0">>
<1>1. "0" \in Byte
  BY SignAssumption
<1> QED
  BY <1>1 DEF Shown

LEMMA EntryStep ==
    ASSUME Inv, clear_entry
    PROVE  Inv'
<1>1. 0 < SIZE - 1
  BY SizeIs
<1>2. /\ expression' = <<>> /\ clear_on_next_input' = FALSE /\ has_error' = FALSE
      /\ input_label' = <<"0">> /\ UNCHANGED <<last_result, history, running, module>>
  BY DEF clear_entry, Event, engine
<1>3. Typing'
  BY <1>1, <1>2, EmptyText, Zero DEF Inv, Typing
<1>4. Lists' /\ HistoryKept'
  BY <1>2, HistorySame
<1>5. Display'
  BY <1>2, Zero DEF Display, DisplayAgrees
<1>6. Genuine'
  BY <1>2, EmptyText, EmptyApart DEF Inv, Genuine, Answered, history
<1> QED
  BY <1>3, <1>4, <1>5, <1>6 DEF Inv

LEMMA LaunchStep ==
    ASSUME Inv, launch_precision_engine
    PROVE  Inv'
<1>1. 0 < SIZE - 1
  BY SizeIs
<1>2. /\ expression' = <<>> /\ clear_on_next_input' = FALSE /\ has_error' = FALSE
      /\ input_label' = <<"0">> /\ UNCHANGED <<last_result, history, running>>
      /\ module' \in {"absent", "spawned", "serving"}
  BY DEF launch_precision_engine, engine, Inv, Typing
<1>3. Typing'
  BY <1>1, <1>2, EmptyText, Zero DEF Inv, Typing
<1>4. Lists' /\ HistoryKept'
  BY <1>2, HistorySame
<1>5. Display'
  BY <1>2, Zero DEF Display, DisplayAgrees
<1>6. Genuine'
  BY <1>2, EmptyText, EmptyApart DEF Inv, Genuine, Answered, history
<1> QED
  BY <1>3, <1>4, <1>5, <1>6 DEF Inv

LEMMA ErrorStep ==
    ASSUME Inv, evaluate_error
    PROVE  Inv'
<1>1. /\ has_error' = TRUE /\ input_label' = Error /\ clear_on_next_input' = TRUE
      /\ UNCHANGED <<expression, last_result, history, running, module>>
  BY DEF evaluate_error, Event, engine
<1>2. Typing'
  BY <1>1 DEF Inv, Typing
<1>3. Lists' /\ HistoryKept'
  BY <1>1, HistorySame
<1>4. Display'
  BY <1>1 DEF Display, DisplayAgrees
<1>5. Genuine'
  BY <1>1 DEF Inv, Genuine, Answered, history
<1> QED
  BY <1>2, <1>3, <1>4, <1>5 DEF Inv

LEMMA RowStep ==
    ASSUME Inv, NEW i \in DOMAIN history_list, on_history_row_activated(i)
    PROVE  Inv'
<1>1. PICK h : h = history_list[i]
  OBVIOUS
<1>2. i \in 1..Len(history_list) /\ h \in Entry
  <2>1. history_list \in Seq(Entry)
    BY DEF Inv, Lists
  <2>2. DOMAIN history_list = 1..Len(history_list)
    BY <2>1
  <2> QED
    BY <1>1, <2>1, <2>2, ElementOfSeq
<1>3. PICK f, r : f = h.expression /\ r = h.result /\ f \in Seq(Byte) /\ r \in Seq(Byte)
  BY <1>2 DEF Entry
<1>4. PICK a : a = Ascii(f)
  OBVIOUS
<1>5. a \in Seq(Byte) /\ Len(a) < SIZE - 1
  <2>1. RowFits(h)
    BY <1>1, <1>2 DEF Inv, Lists
  <2> QED
    BY <1>3, <1>4, <2>1, AsciiType DEF RowFits
<1>6. Cut(a, SIZE) = a
  <2>1. PICK n \in Nat : n = Len(a)
    BY <1>5, LenProperties
  <2>2. n < SIZE
    BY <1>5, <2>1, SizeIs
  <2> QED
    BY <2>1, <2>2 DEF Cut
<1>7. Cut(r, RESULT) \in Seq(Byte) /\ Len(Cut(r, RESULT)) < RESULT
  <2>1. RESULT \in Nat /\ RESULT # 0
    BY SizeIs
  <2> QED
    BY <1>3, <2>1, CutIs
<1>8. /\ expression' = a /\ last_result' = Cut(r, RESULT) /\ input_label' = r
      /\ has_error' = FALSE /\ clear_on_next_input' = TRUE
      /\ UNCHANGED <<history, running, module>>
  BY <1>1, <1>3, <1>4, <1>6 DEF on_history_row_activated, Event, engine
<1>9. Typing'
  BY <1>3, <1>5, <1>7, <1>8 DEF Inv, Typing
<1>10. Lists' /\ HistoryKept'
  BY <1>8, HistorySame
<1>11. Display'
  BY <1>8 DEF Display, DisplayAgrees
<1>12. ASSUME genuine
       PROVE  /\ a \in Seq(Typed) /\ Apart(a) /\ Cut(r, RESULT) \in Result
              /\ Evaluate(a) = Cut(r, RESULT)
  <2>1. IsAnswer(h)
    BY <1>1, <1>2, <1>12 DEF Inv, Genuine, AreAnswers
  <2>2. PICK e \in Seq(Typed) : Apart(e) /\ f = Formula(e) /\ r = Evaluate(e) /\ r \in Result
    BY <1>3, <2>1 DEF IsAnswer
  <2>3. a = e
    BY <1>4, <2>2, TypedBytes, FormulaBack
  <2>4. Cut(r, RESULT) = r
    BY <2>2, ResultIs DEF Cut
  <2> QED
    BY <2>2, <2>3, <2>4
<1>13. Genuine'
  BY <1>8, <1>12 DEF Inv, Genuine, Answered, history
<1> QED
  BY <1>9, <1>10, <1>11, <1>13 DEF Inv

------------------------------------------------------------------------------
(* The steps that change the history *)

\* What = adds to it.
LEMMA AnswerEntry ==
    ASSUME PrintsResults, Inv, Evaluate(expression) # Error,
           NEW h, h = [expression |-> Formula(expression), result |-> Evaluate(expression)]
    PROVE  /\ h \in Entry /\ RowFits(h) /\ h.result \in Result
           /\ genuine => IsAnswer(h)
<1>1. expression \in Seq(Byte) /\ Len(expression) < SIZE - 1
  BY DEF Inv, Typing
<1>2. PICK r : r = Evaluate(expression) /\ r \in Result
  BY <1>1 DEF PrintsResults
<1>3. PICK f : f = Formula(expression)
  OBVIOUS
<1>4. f \in Seq(Byte) /\ r \in Seq(Byte)
  BY <1>1, <1>2, <1>3, FormulaType, ResultIs
<1>5. h.expression = f /\ h.result = r /\ h \in Entry
  BY <1>2, <1>3, <1>4 DEF Entry
<1>6. Len(Ascii(f)) < SIZE - 1
  <2>1. Len(Ascii(f)) <= Len(expression)
    BY <1>1, <1>3, FormulaBack
  <2>2. Ascii(f) \in Seq(Byte)
    BY <1>4, AsciiType
  <2>3. Len(Ascii(f)) \in Nat /\ Len(expression) \in Nat
    BY <1>1, <2>2, LenProperties
  <2> QED
    BY <1>1, <2>1, <2>3, SizeIs
<1>7. genuine => IsAnswer(h)
  BY <1>1, <1>2, <1>3, <1>5 DEF Inv, Genuine, IsAnswer
<1> QED
  BY <1>2, <1>5, <1>6, <1>7 DEF RowFits

LEMMA AddedFit ==
    ASSUME NEW list \in Seq(Entry), NEW h \in Entry,
           NEW new, new = LastOnes(Append(list, h)),
           \A i \in 1..Len(list) : RowFits(list[i]), RowFits(h)
    PROVE  \A i \in 1..Len(new) : RowFits(new[i])
<1>1. Adds(list, h, new)
  BY AddedIs
<1> QED
  BY <1>1 DEF Adds

LEMMA AddedAnswers ==
    ASSUME NEW list \in Seq(Entry), NEW h \in Entry,
           NEW new, new = LastOnes(Append(list, h)), AreAnswers(list), IsAnswer(h)
    PROVE  AreAnswers(new)
<1>1. Adds(list, h, new)
  BY AddedIs
<1> QED
  BY <1>1 DEF Adds, AreAnswers

LEMMA AppendAnswers ==
    ASSUME NEW list \in Seq(Entry), NEW h \in Entry, AreAnswers(list), IsAnswer(h)
    PROVE  AreAnswers(Append(list, h))
<1>1. PICK n \in Nat : n = Len(list)
  BY LenProperties
<1>2. PICK l : l = Append(list, h)
  OBVIOUS
<1>3. l \in Seq(Entry) /\ Len(l) = n + 1 /\ l[n + 1] = h /\ \A i \in 1..n : l[i] = list[i]
  BY <1>1, <1>2, AppendProperties
<1>4. ASSUME NEW i \in 1..(n + 1)
      PROVE  IsAnswer(l[i])
  <2>1. i = n + 1 \/ i \in 1..n
    OBVIOUS
  <2> QED
    BY <1>1, <1>3, <2>1 DEF AreAnswers
<1> QED
  BY <1>2, <1>3, <1>4 DEF AreAnswers

LEMMA FittingShort ==
    ASSUME NEW list \in Seq(Entry), Fitting(list)
    PROVE  \A i \in 1..Len(list) : Short(list[i])
<1>1. DOMAIN list = 1..Len(list)
  OBVIOUS
<1> QED
  BY <1>1 DEF Fitting, Short

LEMMA LastOnesEmpty == LastOnes(<<>>) = <<>>
BY EmptyText, HistoryAssumption DEF LastOnes

LEMMA NoAnswers == AreAnswers(<<>>) /\ \A i \in 1..Len(<<>>) : RowFits((<<>>)[i])
<1>1. 1..Len(<<>>) = {}
  BY EmptyText
<1> QED
  BY <1>1 DEF AreAnswers

LEMMA ResultStep ==
    ASSUME PrintsResults, Inv, evaluate_result
    PROVE  Inv'
<1>1. PICK h : h = [expression |-> Formula(expression), result |-> Evaluate(expression)]
  OBVIOUS
<1>2. PICK r : r = Evaluate(expression)
  OBVIOUS
<1>3. running /\ r # Error /\ has_error = FALSE
  BY <1>2 DEF evaluate_result, Evaluates, Inv, Typing
<1>4. /\ h \in Entry /\ RowFits(h) /\ r \in Result
      /\ genuine => IsAnswer(h)
  BY <1>1, <1>2, <1>3, AnswerEntry
<1>5. r \in Seq(Byte) /\ Len(r) < RESULT
  BY <1>4, ResultIs
<1>6. Cut(r, RESULT) = r
  BY <1>5 DEF Cut
<1>7. /\ input_label' = r /\ last_result' = r /\ clear_on_next_input' = TRUE
      /\ UNCHANGED <<running, expression, has_error, genuine, module>>
      /\ done' = Append(done, h)
  BY <1>1, <1>2, <1>6 DEF evaluate_result, engine
<1>8. history_list' = LastOnes(Append(history_list, h))
  BY <1>1 DEF evaluate_result, history_add, Added
<1>9. history_list \in Seq(Entry) /\ done \in Seq(Entry) /\ history_list = LastOnes(done)
  BY <1>3 DEF Inv, Lists, HistoryKept
<1>10. /\ history_list' \in Seq(Entry) /\ Len(history_list') <= MAX_HISTORY
       /\ \A i \in 1..Len(history_list') : RowFits(history_list'[i])
  <2>1. \A i \in 1..Len(history_list) : RowFits(history_list[i])
    BY DEF Inv, Lists
  <2>2. Adds(history_list, h, history_list')
    BY <1>4, <1>8, <1>9, AddedIs
  <2> QED
    BY <1>4, <1>8, <1>9, <2>1, <2>2, AddedFit DEF Adds
<1>11. done' \in Seq(Entry)
  BY <1>4, <1>7, <1>9, AppendProperties
<1>12. history_list' = LastOnes(done')
  BY <1>4, <1>7, <1>8, <1>9, LastOnesAppend
<1>13. /\ history_file' \in Bytes
       /\ sound' => Loaded(history_file') = history_list'
  <2>1. PICK w : w = Written(history_list') /\ w \in Bytes
    BY <1>10, WrittenType
  <2>2. CASE Saved /\ sound' = Fitting(history_list')
    <3>1. history_file' = w
      BY <2>1, <2>2 DEF Saved
    <3>2. sound' => Loaded(w) = history_list'
      BY <1>10, <2>1, <2>2, FittingShort, ReadAsWritten
    <3> QED
      BY <2>1, <3>1, <3>2
  <2>3. CASE NotOpened /\ sound' = FALSE
    BY <2>3 DEF NotOpened, Inv, Lists
  <2>4. CASE CutShort /\ sound' = FALSE
    <3>1. history_file' \in Prefixes(w)
      BY <2>1, <2>4 DEF CutShort
    <3> QED
      BY <2>1, <2>4, <3>1, PrefixType
  <2> QED
    BY <2>2, <2>3, <2>4 DEF evaluate_result, save_history_to_file
<1>14. Lists' /\ HistoryKept'
  BY <1>10, <1>11, <1>12, <1>13 DEF Lists, HistoryKept
<1>15. Typing'
  BY <1>5, <1>7 DEF Inv, Typing
<1>16. Display'
  BY <1>3, <1>6, <1>7 DEF Display, DisplayAgrees
<1>17. Genuine'
  <2>1. ASSUME genuine
        PROVE  AreAnswers(history_list') /\ AreAnswers(done')
    <3>1. AreAnswers(history_list) /\ AreAnswers(done) /\ IsAnswer(h)
      BY <1>4, <2>1 DEF Inv, Genuine
    <3> QED
      BY <1>4, <1>7, <1>8, <1>9, <3>1, AddedAnswers, AppendAnswers
  <2>2. Answered'
    BY <1>2, <1>7 DEF Answered
  <2> QED
    BY <1>4, <1>7, <2>1, <2>2 DEF Inv, Genuine
<1> QED
  BY <1>14, <1>15, <1>16, <1>17 DEF Inv

LEMMA ClearStep ==
    ASSUME Inv, on_clear_history_clicked
    PROVE  Inv'
<1>1. /\ history_list' = <<>> /\ done' = <<>> /\ sound' = (history_file' = <<>>)
      /\ UNCHANGED <<app_state, genuine, running, module>>
  BY DEF on_clear_history_clicked, history_clear, Event, engine
<1>2. history_file' \in Bytes
  BY EmptyText DEF on_clear_history_clicked, history_clear, NotOpened, Inv, Lists, Bytes
<1>3. 0 <= MAX_HISTORY
  BY HistoryAssumption
<1>4. Lists'
  BY <1>1, <1>2, <1>3, EmptyText, NoAnswers DEF Lists
<1>5. HistoryKept'
  BY <1>1, LoadedEmpty, LastOnesEmpty DEF HistoryKept
<1>6. Typing' /\ Display'
  BY <1>1 DEF Inv, Typing, Display, DisplayAgrees, app_state
<1>7. Genuine'
  BY <1>1, NoAnswers DEF Inv, Genuine, Answered, app_state
<1> QED
  BY <1>4, <1>5, <1>6, <1>7 DEF Inv

\* A window that is blank, and the history of a process that has ended or that starts.
LEMMA BlankStep ==
    ASSUME Inv, Blank, running' \in BOOLEAN, module' = module
    PROVE  /\ Typing' /\ Display'
           /\ Answered' /\ expression' \in Seq(Typed) /\ Apart(expression')
<1>1. 0 < SIZE - 1 /\ 0 < RESULT
  BY SizeIs
<1>2. /\ expression' = <<>> /\ last_result' = <<>> /\ has_error' = FALSE
      /\ clear_on_next_input' = FALSE /\ input_label' = <<"0">>
  BY DEF Blank
<1>3. Typing'
  BY <1>1, <1>2, EmptyText, Zero DEF Inv, Typing
<1>4. Display' /\ Answered'
  BY <1>2, Zero DEF Display, DisplayAgrees, Answered
<1> QED
  BY <1>2, <1>3, <1>4, EmptyText, EmptyApart

LEMMA QuitStep ==
    ASSUME Inv, Quit
    PROVE  Inv'
<1>1. /\ running' = FALSE /\ history_list' = <<>> /\ Blank
      /\ UNCHANGED <<history_file, done, sound, genuine, module>>
  BY DEF Quit, history_free, engine
<1>2. /\ Typing' /\ Display'
      /\ Answered' /\ expression' \in Seq(Typed) /\ Apart(expression')
  BY <1>1, BlankStep
<1>3. 0 <= MAX_HISTORY
  BY HistoryAssumption
<1>4. Lists' /\ HistoryKept'
  BY <1>1, <1>3, EmptyText, NoAnswers DEF Inv, Lists, HistoryKept
<1>5. Genuine'
  BY <1>1, <1>2, NoAnswers DEF Inv, Genuine, Blank
<1> QED
  BY <1>2, <1>4, <1>5 DEF Inv

LEMMA KilledStep ==
    ASSUME PrintsResults, Inv, KilledSaving
    PROVE  Inv'
<1>1. /\ running' = FALSE /\ history_list' = <<>> /\ Blank /\ sound' = FALSE
      /\ UNCHANGED <<done, genuine, module>>
  BY DEF KilledSaving, engine
<1>2. /\ Typing' /\ Display'
      /\ Answered' /\ expression' \in Seq(Typed) /\ Apart(expression')
  BY <1>1, BlankStep
<1>3. history_file' \in Bytes
  <2>1. PICK h : h = [expression |-> Formula(expression), result |-> Evaluate(expression)]
    OBVIOUS
  <2>2. h \in Entry
    BY <2>1, AnswerEntry DEF KilledSaving
  <2>3. PICK list : list = LastOnes(Append(history_list, h))
    OBVIOUS
  <2>4. list \in Seq(Entry)
    BY <2>2, <2>3, AddedIs DEF Adds, Inv, Lists
  <2>5. PICK w : w = Written(list) /\ w \in Bytes
    BY <2>4, WrittenType
  <2>6. history_file' \in Prefixes(w)
    BY <2>1, <2>3, <2>5 DEF KilledSaving, Added
  <2> QED
    BY <2>5, <2>6, PrefixType
<1>4. 0 <= MAX_HISTORY
  BY HistoryAssumption
<1>5. Lists' /\ HistoryKept'
  BY <1>1, <1>3, <1>4, EmptyText, NoAnswers DEF Inv, Lists, HistoryKept
<1>6. Genuine'
  BY <1>1, <1>2, NoAnswers DEF Inv, Genuine, Blank
<1> QED
  BY <1>2, <1>5, <1>6 DEF Inv

LEMMA MainStep ==
    ASSUME Inv, main
    PROVE  Inv'
<1>1. /\ running' = TRUE /\ Blank /\ history_list' = Loaded(history_file)
      /\ done' = IF sound THEN done ELSE Loaded(history_file)
      /\ genuine' = (genuine /\ sound)
      /\ UNCHANGED <<history_file, sound, module>>
  BY DEF main, history_init, engine
<1>2. /\ Typing' /\ Display'
      /\ Answered' /\ expression' \in Seq(Typed) /\ Apart(expression')
  BY <1>1, BlankStep
<1>3. PICK l : l = Loaded(history_file)
  OBVIOUS
<1>4. /\ l \in Seq(Entry) /\ Len(l) <= MAX_HISTORY /\ LastOnes(l) = l
      /\ \A i \in 1..Len(l) : Len(l[i].expression) < LINE
  BY <1>3, LoadedType DEF Inv, Lists
<1>5. ASSUME NEW i \in 1..Len(l)
      PROVE  RowFits(l[i])
  <2>1. PICK f : f = l[i].expression /\ f \in Seq(Byte) /\ Len(f) < LINE
    <3>1. l[i] \in Entry
      BY <1>4, ElementOfSeq
    <3> QED
      BY <1>4, <3>1 DEF Entry
  <2>2. Ascii(f) \in Seq(Byte) /\ Len(Ascii(f)) <= Len(f)
    BY <2>1, AsciiType
  <2>3. Len(Ascii(f)) \in Nat /\ Len(f) \in Nat
    BY <2>1, <2>2, LenProperties
  <2>4. Len(Ascii(f)) < SIZE - 1
    BY <2>1, <2>2, <2>3, SizeIs
  <2> QED
    BY <2>1, <2>4 DEF RowFits
<1>6. Lists'
  BY <1>1, <1>3, <1>4, <1>5 DEF Inv, Lists
<1>7. l = LastOnes(done')
  BY <1>1, <1>3, <1>4 DEF Inv, HistoryKept
<1>8. HistoryKept'
  BY <1>1, <1>3, <1>7 DEF Inv, HistoryKept
<1>9. Genuine'
  <2>1. ASSUME genuine, sound
        PROVE  AreAnswers(l) /\ AreAnswers(done')
    <3>1. AreAnswers(done) /\ done \in Seq(Entry) /\ done' = done
      BY <1>1, <2>1 DEF Inv, Lists, Genuine
    <3>2. \A i \in 1..Len(l) : \E j \in 1..Len(done) : l[i] = done[j]
      BY <1>7, <3>1, LastOnesElements
    <3> QED
      BY <3>1, <3>2 DEF AreAnswers
  <2>2. last_result' = <<>>
    BY <1>1 DEF Blank
  <2> QED
    BY <1>1, <1>2, <1>3, <2>1, <2>2 DEF Genuine
<1> QED
  BY <1>2, <1>6, <1>8, <1>9 DEF Inv

\* The module's process shares nothing with the calculator's.
LEMMA ModuleStep ==
    ASSUME Inv, RunModule \/ module_main \/ ModuleEnds
    PROVE  Inv'
<1>1. module' \in {"absent", "spawned", "serving"} /\ UNCHANGED <<running, app_state, history>>
  BY DEF RunModule, module_main, ModuleEnds
<1>2. Typing' /\ Display'
  BY <1>1 DEF Inv, Typing, Display, DisplayAgrees, app_state
<1>3. Lists' /\ HistoryKept'
  BY <1>1, HistorySame
<1>4. Genuine'
  BY <1>1 DEF Inv, Genuine, Answered, app_state, history
<1> QED
  BY <1>2, <1>3, <1>4 DEF Inv

LEMMA StillStep ==
    ASSUME Inv, UNCHANGED vars
    PROVE  Inv'
<1>1. UNCHANGED <<running, app_state, history, module>>
  BY DEF vars, engine
<1>2. Typing' /\ Display'
  BY <1>1 DEF Inv, Typing, Display, DisplayAgrees, app_state
<1>3. Lists' /\ HistoryKept'
  BY <1>1, HistorySame
<1>4. Genuine'
  BY <1>1 DEF Inv, Genuine, Answered, app_state, history
<1> QED
  BY <1>2, <1>3, <1>4 DEF Inv

LEMMA InitInv ==
    ASSUME Init
    PROVE  Inv
<1>1. 0 < SIZE - 1 /\ 0 < RESULT /\ 0 <= MAX_HISTORY
  BY SizeIs, HistoryAssumption
<1>2. /\ running = TRUE /\ expression = <<>> /\ last_result = <<>> /\ has_error = FALSE
      /\ clear_on_next_input = FALSE /\ input_label = <<"0">>
      /\ history_list = <<>> /\ history_file = <<>> /\ done = <<>> /\ module = "absent"
  BY DEF Init, HistoryInit
<1>3. Typing
  BY <1>1, <1>2, EmptyText, Zero DEF Typing
<1>4. Lists
  BY <1>1, <1>2, EmptyText, NoAnswers DEF Lists, Bytes
<1>5. HistoryKept
  BY <1>2, LoadedEmpty, LastOnesEmpty DEF HistoryKept
<1>6. Display
  BY <1>2, Zero DEF Display, DisplayAgrees
<1>7. Genuine
  BY <1>2, EmptyText, EmptyApart, NoAnswers DEF Genuine, Answered
<1> QED
  BY <1>3, <1>4, <1>5, <1>6, <1>7 DEF Inv

LEMMA StepInv ==
    ASSUME PrintsResults, Inv, [Next]_vars
    PROVE  Inv'
<1>1. ASSUME NEW key \in Key, append_to_expression(key)
      PROVE  Inv'
  BY <1>1, AppendStep
<1>2. ASSUME NEW op \in Operator, append_operator(op)
      PROVE  Inv'
  BY <1>2, OperatorStep
<1>3. CASE toggle_sign
  BY <1>3, SignStep
<1>4. CASE perform_backspace
  BY <1>4, BackspaceStep
<1>5. CASE clear_entry
  BY <1>5, EntryStep
<1>6. CASE evaluate_result
  BY <1>6, ResultStep
<1>7. CASE evaluate_error
  BY <1>7, ErrorStep
<1>8. CASE launch_precision_engine
  BY <1>8, LaunchStep
<1>9. ASSUME NEW i \in DOMAIN history_list, on_history_row_activated(i)
      PROVE  Inv'
  BY <1>9, RowStep
<1>10. CASE on_clear_history_clicked
  BY <1>10, ClearStep
<1>11. CASE Quit
  BY <1>11, QuitStep
<1>12. CASE KilledSaving
  BY <1>12, KilledStep
<1>13. CASE main
  BY <1>13, MainStep
<1>14. CASE RunModule \/ module_main \/ ModuleEnds
  BY <1>14, ModuleStep
<1>15. CASE UNCHANGED vars
  BY <1>15, StillStep
<1> QED
  BY <1>1, <1>2, <1>3, <1>4, <1>5, <1>6, <1>7, <1>8, <1>9, <1>10, <1>11, <1>12, <1>13, <1>14,
     <1>15 DEF Next

------------------------------------------------------------------------------
(* The theorems *)

LEMMA Invariance ==
    ASSUME PrintsResults
    PROVE  Spec => []Inv
<1>1. Init => Inv
  BY InitInv
<1>2. Inv /\ [Next]_vars => Inv'
  BY StepInv
<1> QED
  BY <1>1, <1>2, PTL DEF Spec

\* The types, and the room left in the buffers of the expression and of the result, for
\* every size of them: app_state.expression is never filled beyond its last byte but one.
THEOREM TypeCorrect ==
    ASSUME PrintsResults
    PROVE  Spec => []TypeOK
<1>1. Inv => TypeOK
  BY DEF Inv, Typing, Lists, Genuine, TypeOK
<1> QED
  BY <1>1, Invariance, PTL

\* Keys, results and rows of the history, in any order: two operators meet in the
\* expression only where the second is a sign and the first is none.
THEOREM OperatorsStayApart ==
    ASSUME PrintsResults
    PROVE  Spec => []OperatorsApart
<1>1. Inv => OperatorsApart
  BY DEF Inv, Genuine, OperatorsApart
<1> QED
  BY <1>1, Invariance, PTL

\* The display shows the error, the result or the expression that the next key works on.
THEOREM DisplayAlwaysAgrees ==
    ASSUME PrintsResults
    PROVE  Spec => []DisplayAgrees
<1>1. Inv => DisplayAgrees
  BY DEF Inv, Display
<1> QED
  BY <1>1, Invariance, PTL

\* A result on the display, also one that came back from the history and its file, is
\* what = makes of the expression beneath it.
THEOREM AnswersStand ==
    ASSUME PrintsResults
    PROVE  Spec => []AnswerStands
<1>1. Inv => AnswerStands
  BY DEF Inv, Genuine, Answered, AnswerStands
<1> QED
  BY <1>1, Invariance, PTL

\* The +/- key undoes itself wherever the number follows an operator or a parenthesis.
THEOREM SignsToggleBack ==
    ASSUME PrintsResults
    PROVE  Spec => []ToggleRestores
<1>1. ASSUME Inv
      PROVE  ToggleRestores
  <2>1. CASE clear_on_next_input
    <3>1. ASSUME genuine, last_result # <<>>
          PROVE  \/ Last(Negated(last_result)) = "f"
                 \/ Negated(Negated(last_result)) = last_result
      <4>1. last_result \in Result
        BY <1>1, <3>1 DEF Inv, Genuine
      <4> QED
        BY <4>1, ResultAssumption
    <3> QED
      BY <2>1, <3>1 DEF ToggleRestores
  <2>2. CASE ~clear_on_next_input
    <3>1. PICK k : k = BeforeNumber(expression)
      OBVIOUS
    <3>2. ASSUME genuine, k > 0 => expression[k] \in Operator \cup {"("}
          PROVE  Toggled(Toggled(expression)) = expression
      <4>1. expression \in Seq(Typed) /\ Apart(expression) /\ Len(expression) < SIZE - 1
        BY <1>1, <3>2 DEF Inv, Typing, Genuine
      <4> QED
        BY <3>1, <3>2, <4>1, ToggledBack
    <3> QED
      BY <2>2, <3>1, <3>2 DEF ToggleRestores
  <2> QED
    BY <1>1, <2>1, <2>2 DEF Inv, Typing
<1>2. Inv => ToggleRestores
  BY <1>1
<1> QED
  BY <1>2, Invariance, PTL

\* The history of the process is the last MAX_HISTORY evaluations, and the file gives them
\* back to the next process if its last writing ended and its lines fit.
THEOREM HistoryIsKept ==
    ASSUME PrintsResults
    PROVE  Spec => []HistoryKept
<1>1. Inv => HistoryKept
  BY DEF Inv
<1> QED
  BY <1>1, Invariance, PTL

==============================================================================
