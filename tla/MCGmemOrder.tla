---------------------------- MODULE MCGmemOrder -----------------------------
EXTENDS GmemOrder

R == "read"
W == "write"
Pair(a, b) == [i \in CUs |-> IF i = 0 THEN a ELSE b]

\* every order of four loads and stores of unit 0 beside a store and a load of
\* unit 1, whose data comes first in the chain; of five alone
Short == {Pair(p, <<W, R>>) : p \in [1..4 -> {R, W}]}
        \cup {Pair(p, << >>) : p \in [1..5 -> {R, W}]}

\* longer ones: both units with stores on both sides of a load; three loads between
\* the stores that wait in the chain; no two loads in a row
Long == {Pair(<<R, W, W>>, <<W, R, W>>),
         Pair(<<R, W, R, R, R, W>>, << >>),
         Pair(<<W, R, W, R, W>>, <<R, W, W>>)}

MCPrograms == Short \cup Long

\* a load, a store, two loads and a store, which wait in the chain together
MCStuck == {Pair(<<R, W, R, R, W>>, << >>)}
=============================================================================
