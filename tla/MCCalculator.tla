----------------------------- MODULE MCCalculator -----------------------------
(* Calculator with the parser of Calc. *)
EXTENDS Calculator, Calc

LOCAL INSTANCE SequencesExt

CONSTANT Conforms(_)   \* FollowsGrammar

MCByte == {Digit[i] : i \in DOMAIN Digit} \cup
          {".", "+", "-", "*", "/", "%", "(", ")", "e", "i", "n", "f", "a", " ", "c3", "97", "b7"}
MCFigure == {Digit[i] : i \in DOMAIN Digit} \cup {"."}
MCEngineering == <<"9", "9">>

\* Every double is printed as one with zeros after the digits printed, the largest as more.
Texts ==
    {Text(Finite(neg, k * 10^(Digits - Precision), e)) :
        neg \in BOOLEAN, k \in 10^(Precision - 1)..(10^Precision - 1), e \in -Exponents..Exponents}
    \cup {Text(x) : x \in UNION {{Zero(neg), Infinity(neg), NaN(neg),
                                 Finite(neg, 10^(Digits - 1), Exponents + 1)} : neg \in BOOLEAN}}
MCResult == Texts

MCEvaluate(e) == LET r == evaluate_expression(e) IN IF r.ok THEN Text(r.val) ELSE Error
MCNegated(t) == Text(Negate(atof(t)))

\* PrintsResults, of the texts of at most three bytes; TypeOK checks the longer ones of the run.
ASSUME MCPrintsAssumption ==
    \A e \in BoundedSeq(Byte, 3) : /\ Evaluate(e) \in Result \cup {Error}
                                   /\ Negated(e) \in Result

\* calc.c accepts exactly the expressions of its grammar, and gives them the value of
\* their only derivation: precedence, left association, one '%' after a primary, signs
\* in a row, numbers in strtod's longest form, division by zero refused.
ParserFollowsGrammar == genuine => Conforms(expression)
==============================================================================
