--------------------------------- MODULE Calc ---------------------------------
(***************************************************************************)
(* The expression parser of the calculator (src/calc.c), on sequences of   *)
(* characters, and the grammar it is to parse.                             *)
(*                                                                         *)
(* A double is a decimal floating-point number of Digits digits with an    *)
(* exponent of at most Exponents either way, signed zeros, infinities and  *)
(* NaN: the shape of an IEEE double, small enough for its limits to be     *)
(* reached by short expressions.                                           *)
(***************************************************************************)
EXTENDS Integers, Sequences

LOCAL INSTANCE SequencesExt
LOCAL INSTANCE FiniteSetsExt

CONSTANTS Digits,     \* of a double
          Exponents,  \* bound on a double's exponent
          Precision   \* digits printed: the 10 of "%.10g"

ASSUME DoubleAssumption == Digits \in 1..3 /\ Exponents \in Nat /\ Precision \in 1..Digits

Digit == <<"0", "1", "2", "3", "4", "5", "6", "7", "8", "9">>
IsDigit(c) == \E i \in DOMAIN Digit : Digit[i] = c
DigitValue(c) == (CHOOSE i \in DOMAIN Digit : Digit[i] = c) - 1

At(s, p) == IF p \in DOMAIN s THEN s[p] ELSE "end"

------------------------------------------------------------------------------
(* Doubles: m * 10^e, with exactly Digits digits in m unless it is 0 *)

Finite(neg, m, e) == [kind |-> "finite", neg |-> neg, m |-> m, e |-> e]
Zero(neg) == Finite(neg, 0, 0)
Infinity(neg) == [kind |-> "inf", neg |-> neg, m |-> 0, e |-> 0]
NaN(neg) == [kind |-> "nan", neg |-> neg, m |-> 0, e |-> 0]

IsZero(x) == x.kind = "finite" /\ x.m = 0

Width(m) == CHOOSE n \in 1..10 : m < 10^n /\ (n > 1 => m >= 10^(n - 1))

\* m * 10^e to n digits, ties to even.
ToDigits(m, e, n) ==
    LET k == Width(m) - n
        q == m \div 10^k
        r == m % 10^k
        up == IF 2 * r > 10^k \/ (2 * r = 10^k /\ q % 2 = 1) THEN q + 1 ELSE q
    IN  IF k <= 0 THEN [m |-> m * 10^(-k), e |-> e + k]
        ELSE IF up = 10^n THEN [m |-> 10^(n - 1), e |-> e + k + 1]
        ELSE [m |-> up, e |-> e + k]

Rounded(neg, m, e) ==
    LET r == ToDigits(m, e, Digits)
    IN  IF m = 0 \/ r.e < -Exponents THEN Zero(neg)
        ELSE IF r.e > Exponents THEN Infinity(neg)
        ELSE Finite(neg, r.m, r.e)

Negate(x) == [x EXCEPT !.neg = ~@]

Signed(x) == IF x.neg THEN -x.m ELSE x.m

Add(x, y) ==
    LET low == IF x.e < y.e THEN x.e ELSE y.e
        sum == Signed(x) * 10^(x.e - low) + Signed(y) * 10^(y.e - low)
    IN  CASE x.kind = "nan" -> x
          [] x.kind # "nan" /\ y.kind = "nan" -> y
          [] x.kind = "inf" /\ y.kind = "inf" -> IF x.neg = y.neg THEN x ELSE NaN(TRUE)
          [] x.kind = "inf" /\ y.kind = "finite" -> x
          [] x.kind = "finite" /\ y.kind = "inf" -> y
          [] OTHER -> IF IsZero(x) /\ IsZero(y) THEN Zero(x.neg /\ y.neg)
                      ELSE IF IsZero(y) \/ x.e - y.e > Digits + 1 THEN x
                      ELSE IF IsZero(x) \/ y.e - x.e > Digits + 1 THEN y
                      ELSE Rounded(sum < 0, IF sum < 0 THEN -sum ELSE sum, low)

Multiply(x, y) ==
    LET neg == x.neg # y.neg
    IN  CASE x.kind = "nan" -> x
          [] x.kind # "nan" /\ y.kind = "nan" -> y
          [] x.kind = "finite" /\ y.kind = "finite" -> Rounded(neg, x.m * y.m, x.e + y.e)
          [] OTHER -> IF IsZero(x) \/ IsZero(y) THEN NaN(TRUE) ELSE Infinity(neg)

\* Division by a number other than 0; a last digit 1 stands for a remainder.
Divide(x, y) ==
    LET neg == x.neg # y.neg
        n == x.m * 10^(Digits + 2)
        q == 10 * (n \div y.m) + (IF n % y.m = 0 THEN 0 ELSE 1)
    IN  CASE x.kind = "nan" -> x
          [] x.kind # "nan" /\ y.kind = "nan" -> y
          [] x.kind = "inf" -> IF y.kind = "inf" THEN NaN(TRUE) ELSE Infinity(neg)
          [] x.kind = "finite" /\ y.kind = "inf" -> Zero(neg)
          [] OTHER -> Rounded(neg, q, x.e - y.e - Digits - 3)

Hundred == Rounded(FALSE, 100, 0)

------------------------------------------------------------------------------
(* strtod, atof and "%.10g" *)

\* The first place from p on where s has no digit.
DigitsEnd(s, p) == CHOOSE q \in p..(Len(s) + 1) :
                      ~IsDigit(At(s, q)) /\ \A i \in p..(q - 1) : IsDigit(s[i])

Natural(s) == FoldLeft(LAMBDA n, c : 10 * n + DigitValue(c), 0, s)

strtod(s, p) ==
    LET point == DigitsEnd(s, p)
        mantissa == IF At(s, point) = "." THEN DigitsEnd(s, point + 1) ELSE point
        figures == SelectSeq(SubSeq(s, p, mantissa - 1), IsDigit)
        decimals == IF mantissa > point THEN mantissa - point - 1 ELSE 0
        sign == At(s, mantissa + 1)
        first == IF sign \in {"+", "-"} THEN mantissa + 2 ELSE mantissa + 1
        last == DigitsEnd(s, first)
        scaled == At(s, mantissa) = "e" /\ IsDigit(At(s, first))
        power == IF ~scaled THEN 0
                 ELSE IF sign = "-" THEN -Natural(SubSeq(s, first, last - 1))
                 ELSE Natural(SubSeq(s, first, last - 1))
    IN  IF figures = <<>> THEN [end |-> p, val |-> Zero(FALSE)]
        ELSE [end |-> IF scaled THEN last ELSE mantissa,
              val |-> Rounded(FALSE, Natural(figures), power - decimals)]

\* Of the texts "%.10g" prints.
atof(s) ==
    LET neg == At(s, 1) = "-"
        t == IF neg THEN Tail(s) ELSE s
    IN  CASE t = <<"i", "n", "f">> -> Infinity(neg)
          [] t = <<"n", "a", "n">> -> NaN(neg)
          [] OTHER -> [strtod(t, 1).val EXCEPT !.neg = neg]

Figures(m, n) == [i \in 1..n |-> Digit[((m \div 10^(n - i)) % 10) + 1]]
Zeros(n) == [i \in 1..n |-> "0"]

\* The digits without the zeros at the end.
Trimmed(d) == SubSeq(d, 1, Max({1} \cup {i \in DOMAIN d : d[i] # "0"}))

Pointed(whole, fraction) == IF fraction = <<>> THEN whole ELSE whole \o <<".">> \o fraction

Text(x) ==
    LET r == ToDigits(x.m, x.e, Precision)
        X == r.e + Precision - 1
        d == Trimmed(Figures(r.m, Precision))
        power == <<"e", IF X < 0 THEN "-" ELSE "+">> \o Figures(IF X < 0 THEN -X ELSE X, 2)
        sign == IF x.neg THEN <<"-">> ELSE <<>>
    IN  sign \o
        CASE x.kind = "inf" -> <<"i", "n", "f">>
          [] x.kind = "nan" -> <<"n", "a", "n">>
          [] IsZero(x) -> <<"0">>
          [] x.kind = "finite" /\ x.m # 0 ->
                IF X < -4 \/ X >= Precision THEN Pointed(<<d[1]>>, Tail(d)) \o power
                ELSE IF X < 0 THEN Pointed(<<"0">>, Zeros(-X - 1) \o d)
                ELSE IF Len(d) <= X THEN d \o Zeros(X + 1 - Len(d))
                ELSE Pointed(SubSeq(d, 1, X + 1), SubSeq(d, X + 2, Len(d)))

------------------------------------------------------------------------------
(* The parser: what a function returns, and where it leaves the text *)

Parsed(val, p) == [ok |-> TRUE, val |-> val, p |-> p]
Failed == [ok |-> FALSE, val |-> Zero(FALSE), p |-> 0]

skip_whitespace(s, p) == CHOOSE q \in p..(Len(s) + 1) :
                            At(s, q) # " " /\ \A i \in p..(q - 1) : s[i] = " "

RECURSIVE parse_expression(_, _), parse_primary(_, _), Sum(_, _), Product(_, _)

\* Mutant: only the digits are passed over.
parse_number_digits(s, q) ==
    LET number == strtod(s, q)
    IN  IF number.end = q THEN Failed ELSE Parsed(number.val, DigitsEnd(s, q))

parse_number(s, q) ==
    LET number == strtod(s, q)
    IN  IF number.end = q THEN Failed ELSE Parsed(number.val, number.end)

parse_primary(s, p) ==
    LET q == skip_whitespace(s, p)
        c == At(s, q)
        operand == parse_primary(s, q + 1)
        inner == parse_expression(s, q + 1)
        close == skip_whitespace(s, inner.p)
    IN  CASE c = "-" -> [operand EXCEPT !.val = Negate(@)]
          [] c = "+" -> operand
          [] c = "(" -> IF inner.ok /\ At(s, close) = ")" THEN Parsed(inner.val, close + 1)
                        ELSE Failed
          [] IsDigit(c) \/ c = "." -> parse_number(s, q)
          [] OTHER -> Failed

\* Mutant: the '%' is not passed over.
parse_factor_stays(s, p) ==
    LET r == parse_primary(s, p)
        q == skip_whitespace(s, r.p)
    IN  IF ~r.ok THEN Failed
        ELSE IF At(s, q) = "%" THEN Parsed(Divide(r.val, Hundred), q)
        ELSE Parsed(r.val, q)

parse_factor(s, p) ==
    LET r == parse_primary(s, p)
        q == skip_whitespace(s, r.p)
    IN  IF ~r.ok THEN Failed
        ELSE IF At(s, q) = "%" THEN Parsed(Divide(r.val, Hundred), q + 1)
        ELSE Parsed(r.val, q)

\* The loop of parse_term; r is what has been parsed.
Product(s, r) ==
    LET q == skip_whitespace(s, r.p)
        next == parse_factor(s, q + 1)
    IN  IF ~r.ok \/ At(s, q) \notin {"*", "/"} THEN r
        ELSE IF ~next.ok \/ (At(s, q) = "/" /\ IsZero(next.val)) THEN Failed
        ELSE Product(s, Parsed(IF At(s, q) = "*" THEN Multiply(r.val, next.val)
                               ELSE Divide(r.val, next.val), next.p))

parse_term(s, p) == Product(s, parse_factor(s, p))

\* The loop of parse_expression.
Sum(s, r) ==
    LET q == skip_whitespace(s, r.p)
        next == parse_term(s, q + 1)
    IN  IF ~r.ok \/ At(s, q) \notin {"+", "-"} THEN r
        ELSE IF ~next.ok THEN Failed
        ELSE Sum(s, Parsed(IF At(s, q) = "+" THEN Add(r.val, next.val)
                           ELSE Add(r.val, Negate(next.val)), next.p))

parse_expression(s, p) == Sum(s, parse_term(s, p))

evaluate_expression(s) ==
    LET r == parse_expression(s, 1)
    IN  IF r.ok /\ skip_whitespace(s, r.p) = Len(s) + 1 THEN r ELSE Failed

------------------------------------------------------------------------------
(***************************************************************************)
(* The grammar: the values of the derivations of a text.                   *)
(*                                                                         *)
(*   sum     ::= term | sum + term | sum - term                            *)
(*   term    ::= factor | term * factor | term / factor                    *)
(*   factor  ::= primary | primary %                                       *)
(*   primary ::= number | + primary | - primary | ( sum )                  *)
(***************************************************************************)
RECURSIVE Sums(_), Terms(_), Primaries(_)

Before(s, i) == SubSeq(s, 1, i - 1)
After(s, i) == SubSeq(s, i + 1, Len(s))
Places(s, c) == {i \in DOMAIN s : s[i] = c}

Primaries(s) ==
    LET n == Len(s)
    IN  IF s = <<>> THEN {}
        ELSE IF s[1] = "+" THEN Primaries(Tail(s))
        ELSE IF s[1] = "-" THEN {Negate(v) : v \in Primaries(Tail(s))}
        ELSE IF s[1] = "(" THEN IF n > 1 /\ s[n] = ")" THEN Sums(SubSeq(s, 2, n - 1)) ELSE {}
        ELSE IF strtod(s, 1).end = n + 1 THEN {strtod(s, 1).val} ELSE {}

Factors(s) ==
    Primaries(s) \cup
    IF At(s, Len(s)) = "%" THEN {Divide(v, Hundred) : v \in Primaries(Front(s))} ELSE {}

Terms(s) ==
    Factors(s)
    \cup UNION {{Multiply(v, w) : v \in Terms(Before(s, i)), w \in Factors(After(s, i))}
                   : i \in Places(s, "*")}
    \cup UNION {{Divide(v, w) : v \in Terms(Before(s, i)),
                                w \in {x \in Factors(After(s, i)) : ~IsZero(x)}}
                   : i \in Places(s, "/")}

Sums(s) ==
    Terms(s)
    \cup UNION {{Add(v, w) : v \in Sums(Before(s, i)), w \in Terms(After(s, i))}
                   : i \in Places(s, "+")}
    \cup UNION {{Add(v, Negate(w)) : v \in Sums(Before(s, i)), w \in Terms(After(s, i))}
                   : i \in Places(s, "-")}

\* The parser accepts exactly what the grammar derives, with the value of its only
\* derivation.
FollowsGrammar(s) ==
    LET r == evaluate_expression(s)
    IN  Sums(s) = IF r.ok THEN {r.val} ELSE {}

===============================================================================
