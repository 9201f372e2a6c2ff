----------------------------- MODULE LoadService -----------------------------
(***************************************************************************)
(* What a memory controller promises the compute units it serves: a load   *)
(* is answered once, with the number it was given and the line it asked    *)
(* for, and nothing else is answered.  The order is free.                  *)
(***************************************************************************)
CONSTANTS Units,
          Loads,   \* a number and a line
          None     \* no answer in this cycle

VARIABLES outstanding,   \* each unit's loads that have no answer yet
          answer         \* what each unit is told in this cycle

Init == /\ outstanding = [i \in Units |-> {}]
        /\ answer = [i \in Units |-> None]

\* units may ask for new loads while others are answered
Next ==
  /\ DOMAIN outstanding' = Units /\ DOMAIN answer' = Units
  /\ \A i \in Units :
       LET asked == outstanding'[i] \ outstanding[i]
       IN /\ asked \subseteq Loads
          /\ answer'[i] \in outstanding[i] \cup {None}
          /\ outstanding'[i] = (outstanding[i] \ {answer'[i]}) \cup asked

Spec == Init /\ [][Next]_<<outstanding, answer>>
=============================================================================
