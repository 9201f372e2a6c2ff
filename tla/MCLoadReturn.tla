---------------------------- MODULE MCLoadReturn -----------------------------
(* Two lanes, one in each half, and two lines.                             *)
EXTENDS LoadReturn

CONSTANTS a, b

Words(re, en, x, y) == [re |-> re, simd |-> FALSE, en |-> en, line |-> [i \in Lanes |-> IF i \in Lower THEN x ELSE y]]
Load(x, y) == Words(TRUE, Lanes, x, y)
LoadOf(en, x, y) == Words(TRUE, en, x, y)
Store(x, y) == Words(FALSE, Lanes, x, y)
Vector(x, y) == [Load(x, y) EXCEPT !.simd = TRUE]

\* one line or two, in both orders, with a lane left out, of words and vectors
MCPrograms ==
  {<<p, q, r>> : p \in {Load(a, b), Vector(a, b), Store(a, b)},
                 q \in {Load(b, a), LoadOf(Lower, b, b), Vector(b, a), Store(b, b)},
                 r \in {Load(a, b), Vector(b, b)}}

\* a line is loaded, stored to and loaded again
MCReload == {<<Load(a, a), Store(a, a), Load(a, a)>>}
=============================================================================
