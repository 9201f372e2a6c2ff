---------------------------- MODULE ReadReorder -----------------------------
(***************************************************************************)
(* The read-return reorder buffer of a compute unit, at the end of         *)
(* RTL/CU_mem_cntrl.vhd with RTL/reorder_validQ.v.                         *)
(*                                                                         *)
(* Every cache line the CU asks for is numbered with mem_rqsts_cntrl, the  *)
(* memory answers in any order, and an answer is stored in dataQ at its    *)
(* number.  The reader takes the slots in the order of their numbers.  A   *)
(* slot is never cleared: its bit in validQ says which lap of the counter  *)
(* wrote it, and valid_value, which flips each time the reader wraps,      *)
(* says which lap counts as full.                                          *)
(***************************************************************************)
EXTENDS Naturals, Sequences, FiniteSets

CONSTANTS NTags,            \* 2^N_CU_STATIONS_W slots
          Lines,            \* what a slot may hold
          MaxOutstanding,   \* requests numbered and not yet read out
          None              \* no request, no answer in this cycle

ASSUME NTagsAssumption == NTags \in Nat \ {0}
\* The RTL has no credit counter; that no more requests are numbered than there
\* are slots is assumed of the rest of the unit.
ASSUME CreditAssumption == MaxOutstanding \in 1..NTags

ASSUME NoneAssumption == None \notin Lines /\ None \notin Nat

Tags == 0..NTags-1

VARIABLES
  mem_rqsts_cntrl,   \* the number the next request gets
  pending,           \* numbers the memory has not answered yet
  requested,         \* the line last asked for under each number
  outstanding,       \* requests numbered and not yet read out of dataQ
  dataQ,             \* the slots
  validQ,            \* the lap bit of each slot (ram of reorder_validQ)
  dataQ_notEmpty,    \* validQ read one cycle late (q_a of reorder_validQ)
  dataQ_rdAddr,      \* the slot the reader waits for
  valid_value,       \* the lap bit that means full at dataQ_rdAddr
  dataQ_rdData_n, dataQ_valid_i,    \* first output register
  dataQ_rdData, dataQ_valid         \* second one, what the register file sees

rqstVars == <<mem_rqsts_cntrl, pending, requested, outstanding>>
slotVars == <<dataQ, validQ, dataQ_notEmpty, dataQ_rdAddr, valid_value>>
outVars  == <<dataQ_rdData_n, dataQ_valid_i, dataQ_rdData, dataQ_valid>>
vars     == <<rqstVars, slotVars, outVars>>

Init ==
  /\ mem_rqsts_cntrl = 0
  /\ pending = {}
  /\ \E zero \in Lines : /\ dataQ = [t \in Tags |-> zero]
                         /\ dataQ_rdData_n = zero
  /\ requested = dataQ
  /\ outstanding = 0
  /\ validQ = [t \in Tags |-> FALSE]
  /\ dataQ_notEmpty = FALSE
  /\ dataQ_rdAddr = 0
  /\ valid_value = TRUE
  /\ dataQ_valid_i = FALSE
  /\ dataQ_rdData = dataQ_rdData_n
  /\ dataQ_valid = FALSE

-----------------------------------------------------------------------------
(* The combinational signals *)

\* fault: the register is too wide
SuccWide(t) == t + 1

\* an unsigned register of N_CU_STATIONS_W bits, plus one
Succ(t) == IF t = NTags - 1 THEN 0 ELSE t + 1

SlotSeenFull == dataQ_notEmpty = valid_value

dataQ_re(deq) == SlotSeenFull /\ (~dataQ_valid \/ deq)

\* the slot whose bit is looked up now: the next one if the current is full
dataQ_rdAddr_p0 == IF SlotSeenFull THEN Succ(dataQ_rdAddr) ELSE dataQ_rdAddr

\* fault: the reader's own slot counted to the next lap
LapStrict(r, v, t) == IF t > r THEN v ELSE ~v

\* the lap bit of a number: one below the reader's belongs to the next lap
Lap(r, v, t) == IF t >= r THEN v ELSE ~v

write_value(tag) == Lap(dataQ_rdAddr, valid_value, tag)

-----------------------------------------------------------------------------
(* One clock edge: st_cv_side may number a request for line new, the       *)
(* memory may answer number tag, the register-file side may take a line.   *)

Request(new, deq) ==
  /\ mem_rqsts_cntrl' = IF new = None THEN mem_rqsts_cntrl ELSE Succ(mem_rqsts_cntrl)
  /\ requested' = IF new = None THEN requested
                  ELSE [requested EXCEPT ![mem_rqsts_cntrl] = new]
  /\ outstanding' = outstanding + (IF new = None THEN 0 ELSE 1)
                                - (IF dataQ_re(deq) THEN 1 ELSE 0)

Answer(new, tag) ==
  /\ pending' = (pending \ {tag}) \cup (IF new = None THEN {} ELSE {mem_rqsts_cntrl})
  /\ dataQ' = IF tag = None THEN dataQ ELSE [dataQ EXCEPT ![tag] = requested[tag]]
  /\ validQ' = IF tag = None THEN validQ ELSE [validQ EXCEPT ![tag] = write_value(tag)]
  /\ dataQ_notEmpty' = validQ[dataQ_rdAddr_p0]

\* fault: the lap bit that means full does not change when the reader wraps
AdvanceNoFlip(deq) ==
  IF dataQ_re(deq)
  THEN dataQ_rdAddr' = Succ(dataQ_rdAddr) /\ UNCHANGED valid_value
  ELSE UNCHANGED <<dataQ_rdAddr, valid_value>>

Advance(deq) ==
  IF dataQ_re(deq)
  THEN /\ dataQ_rdAddr' = Succ(dataQ_rdAddr)
       /\ valid_value' = IF dataQ_rdAddr = NTags - 1 THEN ~valid_value ELSE valid_value
  ELSE UNCHANGED <<dataQ_rdAddr, valid_value>>

\* fault: the first output register keeps its valid bit when it moves on
OutputTwice(deq) ==
  /\ dataQ_rdData_n' = IF dataQ_re(deq) THEN dataQ[dataQ_rdAddr] ELSE dataQ_rdData_n
  /\ dataQ_valid_i' = (dataQ_re(deq) \/ dataQ_valid_i)
  /\ IF deq \/ ~dataQ_valid
     THEN dataQ_rdData' = dataQ_rdData_n /\ dataQ_valid' = dataQ_valid_i
     ELSE UNCHANGED <<dataQ_rdData, dataQ_valid>>

Output(deq) ==
  /\ dataQ_rdData_n' = IF dataQ_re(deq) THEN dataQ[dataQ_rdAddr] ELSE dataQ_rdData_n
  /\ dataQ_valid_i' = IF dataQ_re(deq) THEN TRUE
                      ELSE IF deq \/ ~dataQ_valid THEN FALSE ELSE dataQ_valid_i
  /\ IF deq \/ ~dataQ_valid
     THEN dataQ_rdData' = dataQ_rdData_n /\ dataQ_valid' = dataQ_valid_i
     ELSE UNCHANGED <<dataQ_rdData, dataQ_valid>>

Clock(new, tag, deq) ==
  Request(new, deq) /\ Answer(new, tag) /\ Advance(deq) /\ Output(deq)

(* The surroundings number a request only within the credit, the memory    *)
(* answers what was asked, and a line is taken only when one is shown.     *)
Offered(new, tag, deq) ==
  /\ new # None => outstanding < MaxOutstanding
  /\ tag # None => tag \in pending
  /\ deq => dataQ_valid

Next == \E new \in Lines \cup {None}, tag \in Tags \cup {None}, deq \in BOOLEAN :
          Offered(new, tag, deq) /\ Clock(new, tag, deq)

Spec == Init /\ [][Next]_vars

-----------------------------------------------------------------------------
(* Properties *)

TypeOK ==
  /\ mem_rqsts_cntrl \in Tags
  /\ pending \subseteq Tags
  /\ requested \in [Tags -> Lines]
  /\ outstanding \in 0..MaxOutstanding
  /\ dataQ \in [Tags -> Lines]
  /\ validQ \in [Tags -> BOOLEAN]
  /\ dataQ_notEmpty \in BOOLEAN
  /\ dataQ_rdAddr \in Tags
  /\ valid_value \in BOOLEAN
  /\ dataQ_rdData_n \in Lines /\ dataQ_valid_i \in BOOLEAN
  /\ dataQ_rdData \in Lines   /\ dataQ_valid \in BOOLEAN

\* how far ahead of slot r, around the ring, slot t is
Ahead(r, t) == IF t >= r THEN t - r ELSE t + NTags - r

\* the numbers of the requests that have not been read out yet
Window == {t \in Tags : Ahead(dataQ_rdAddr, t) < outstanding}

\* Whenever the lap bits make the reader take a slot, that slot belongs to a
\* request not yet served, the memory has answered it, and the slot holds the
\* line that request asked for: a line of an earlier lap is never passed on.
ReadsOnlyAnswered ==
  SlotSeenFull => /\ dataQ_rdAddr \in Window \ pending
                  /\ dataQ[dataQ_rdAddr] = requested[dataQ_rdAddr]

\* The lines asked for and not yet taken, oldest first: the two output
\* registers and then the slots from the reader's on.
Undelivered ==
  (IF dataQ_valid THEN <<dataQ_rdData>> ELSE << >>)
    \o (IF dataQ_valid_i THEN <<dataQ_rdData_n>> ELSE << >>)
    \o [i \in 1..outstanding |-> requested[(dataQ_rdAddr + i - 1) % NTags]]

InOrder == INSTANCE InOrderQueue
             WITH Data <- Lines, Depth <- NTags + 2, queue <- Undelivered

\* Lines reach the register file in the order they were asked for, each once,
\* although the memory answers in any order and the slots are reused.
DeliversInOrder == InOrder!Spec

(* The memory answers every request, and the register-file side takes what *)
(* it is shown; the clock itself never stops.                              *)
AnswerStep(t) == \E new \in Lines \cup {None}, deq \in BOOLEAN :
                   Offered(new, t, deq) /\ Clock(new, t, deq)
TakeStep == \E new \in Lines \cup {None}, tag \in Tags \cup {None} :
              Offered(new, tag, TRUE) /\ Clock(new, tag, TRUE)

FairSpec == /\ Spec
            /\ WF_vars(Next)
            /\ WF_vars(TakeStep)
            /\ \A t \in Tags : WF_vars(AnswerStep(t))

\* No request is stuck behind the one-cycle-late look at validQ: as long as
\* there are requests, the reader goes on from slot to slot.
EveryRequestServed ==
  []<>(outstanding = 0) \/ []<><<TRUE>>_<<dataQ_rdAddr, valid_value>>
=============================================================================
