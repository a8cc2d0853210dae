--------------------------------- MODULE Arrays ---------------------------------
(* Arrays as the C code fills them, and the order in which TLC does. *)
EXTENDS Integers, Sequences

\* The array of n elements whose element i, from 0 on, is Element(i).
Array(n, Element(_)) == SubSeq([i \in 1..n |-> Element(i - 1)], 1, n)

\* F(x); TLC evaluates x first.
With(x, F(_)) == CHOOSE y \in {F(z) : z \in {x}} : TRUE

\* x after n rounds of a loop.
Loop(n, x, Step(_, _)) ==
    LET after[i \in 0..n] == IF i = 0 THEN x ELSE With(after[i - 1], LAMBDA y : Step(y, i))
    IN  after[n]

===============================================================================
