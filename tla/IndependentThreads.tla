------------------------- MODULE IndependentThreads -------------------------
(***************************************************************************)
(* What running a wavefront promises: each work-item runs the program on   *)
(* its own, with its own program counter and its own stack of return       *)
(* addresses, and is done when it returns from the kernel.  A step lets    *)
(* some work-items that stand at the same place execute one instruction.   *)
(***************************************************************************)
EXTENDS Naturals, Sequences, SequencesExt

CONSTANTS Threads,   \* the work-items a wavefront may have
          Code,      \* the instruction at each program counter
          Done       \* where a work-item is before and after the kernel

VARIABLE at          \* where each work-item is: [pc, calls], or Done

Init == at = [t \in Threads |-> Done]

Place(pc, calls) == [pc |-> pc, calls |-> calls]

Start(live) == /\ \A t \in Threads : at[t] = Done
               /\ at' = [t \in Threads |-> IF t \in live THEN Place(0, << >>) ELSE Done]

\* the places a work-item at p may be at after its instruction
Follow(p) ==
  CASE Code[p.pc].op = "alu"    -> {Place(p.pc + 1, p.calls)}
    [] Code[p.pc].op = "branch" -> {Place(p.pc + 1, p.calls), Place(Code[p.pc].to, p.calls)}
    [] Code[p.pc].op = "jump"   -> {Place(Code[p.pc].to, Append(p.calls, p.pc + 1))}
    [] Code[p.pc].op = "ret"    -> {IF p.calls = << >> THEN Done
                                    ELSE Place(Last(p.calls), Front(p.calls))}

Execute(ts) ==
  /\ \E p \in {at[t] : t \in ts} : p # Done /\ \A t \in ts : at[t] = p
  /\ \A t \in ts : at'[t] \in Follow(at[t])
  /\ \A t \in Threads \ ts : at'[t] = at[t]
  /\ DOMAIN at' = Threads

Next == \E ts \in SUBSET Threads : ts # {} /\ (Start(ts) \/ Execute(ts))

Spec == Init /\ [][Next]_at
=============================================================================
