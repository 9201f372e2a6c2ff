---------------------------- MODULE MCReadMerge -----------------------------
EXTENDS ReadMerge

\* three loads of two lines in every order, beside one of the other unit
MCPrograms == {[i \in Units |-> IF i = 0 THEN <<"a", m, n>> ELSE <<l>>] : l, m, n \in Lines}
=============================================================================
