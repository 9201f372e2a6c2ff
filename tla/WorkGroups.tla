----------------------------- MODULE WorkGroups -----------------------------
(***************************************************************************)
(* What dispatching a kernel promises, whatever the hardware that does it: *)
(* every work-group of the launched grid is given to a compute unit once,  *)
(* a unit holds one work-group at a time, and the kernel is over only when *)
(* every work-group has been given out and completed.                      *)
(***************************************************************************)
EXTENDS Naturals

CONSTANTS Units,   \* the compute units
          Grids,   \* the grids a kernel may be launched with: sets of work-groups
          None     \* not a work-group

VARIABLES busy,      \* a kernel is running
          todo,      \* its work-groups that no unit has been given
          running    \* the work-group of each unit, or None

vars == <<busy, todo, running>>

Init == /\ busy = FALSE
        /\ todo = {}
        /\ running = [u \in Units |-> None]

Launch == /\ ~busy
          /\ busy' = TRUE
          /\ todo' \in Grids
          /\ UNCHANGED running

\* the work-groups of the units in done are over
Completed(done) == [u \in Units |-> IF u \in done THEN None ELSE running[u]]

Occupied == {u \in Units : running[u] # None}

Complete(done) == /\ done \subseteq Occupied
                  /\ running' = Completed(done)
                  /\ UNCHANGED <<busy, todo>>

\* a free unit gets a work-group, while the units in done complete theirs
Dispatch(wg, u, done) == /\ wg \in todo
                         /\ running[u] = None
                         /\ done \subseteq Occupied
                         /\ todo' = todo \ {wg}
                         /\ running' = [Completed(done) EXCEPT ![u] = wg]
                         /\ UNCHANGED busy

Finish == /\ busy
          /\ todo = {}
          /\ Occupied = {}
          /\ busy' = FALSE
          /\ UNCHANGED <<todo, running>>

Next == \/ Launch \/ Finish
        \/ \E done \in SUBSET Units :
             \/ Complete(done)
             \/ \E u \in Units, wg \in todo : Dispatch(wg, u, done)

Spec == Init /\ [][Next]_vars
=============================================================================
