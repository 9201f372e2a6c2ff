---------------------------- MODULE InOrderQueue ----------------------------
(***************************************************************************)
(* What the RTL expects of each of its small first-in first-out stores: a  *)
(* bounded queue that may take one element and give one element in a step, *)
(* and that never loses, invents, duplicates or reorders an element.       *)
(* It is the abstract specification Fifo2 implements.                      *)
(***************************************************************************)
EXTENDS Naturals, Sequences

CONSTANTS Data,    \* the words the queue holds
          Depth    \* how many of them

VARIABLE queue     \* the words inside, oldest first

Init == queue = << >>

(* One step may put d in and may take the oldest word out; a full queue     *)
(* takes nothing, not even while it gives a word away.                      *)
Step(put, take, d) ==
  /\ put => Len(queue) < Depth
  /\ take => queue # << >>
  /\ LET rest == IF take THEN Tail(queue) ELSE queue
     IN queue' = IF put THEN Append(rest, d) ELSE rest

Next == \E put, take \in BOOLEAN, d \in Data : Step(put, take, d)

Spec == Init /\ [][Next]_queue
=============================================================================
