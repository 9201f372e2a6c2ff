----------------------------- MODULE Divergence -----------------------------
(***************************************************************************)
(* How one wavefront slot of a compute unit runs the diverging paths of    *)
(* its work-items: the records of divStack (which work-items are enabled), *)
(* the PC stack, and the wavefront FSM's handling of branches, calls and   *)
(* RET in RTL/CU_scheduler_vliw.vhd.                                       *)
(*                                                                         *)
(* When the work-items of the active record disagree on a branch, the      *)
(* larger part overwrites the record and its PC is pushed; the smaller     *)
(* part gets the next record and runs first.  The first divergence leaves  *)
(* record 0 alone and pushes the PC twice: popping the second copy is how  *)
(* the end of the last path is noticed.  Paths meet again only at a RET.   *)
(*                                                                         *)
(* One step is one instruction.  From the moment it issues a branch, call  *)
(* or RET until it gets its new PC the wavefront issues nothing else, and  *)
(* branch_in_executoin keeps the other wavefronts of the unit from         *)
(* branching, so the clock cycles inside are one action.                   *)
(***************************************************************************)
EXTENDS Integers, FiniteSets, Sequences, SequencesExt

CONSTANTS Threads,       \* the work-items of a full wavefront (WF_SIZE)
          NRecords,      \* records of a wavefront in divStack: 2^N_RECORDS_WF_W
          PCStackSize,   \* entries of a wavefront in the PC stack
          Code,          \* the program: an instruction for every PC
          MaxCalls,      \* nesting of calls in the program
          Done

ASSUME SizesAssumption == /\ IsFiniteSet(Threads)
                          /\ NRecords \in Nat \ {0}
                          /\ PCStackSize \in Nat \ {0}
                          /\ MaxCalls \in Nat

PCs == DOMAIN Code

\* a well-formed program: control never runs off its end
ASSUME CodeAssumption ==
  /\ 0 \in PCs /\ PCs \subseteq Nat
  /\ \A p \in PCs : /\ Code[p].op \in {"alu", "branch", "jump", "ret"}
                    /\ Code[p].op # "ret" => p + 1 \in PCs
                    /\ Code[p].op \in {"branch", "jump"} => Code[p].to \in PCs

\* being done is not a place in the program
ASSUME DoneAssumption == Done \notin [pc : PCs, calls : Seq(PCs)]

Records == 0..NRecords-1
Slots == 0..PCStackSize-1

VARIABLES st_wf,              \* "idle" or "active"
          live,               \* work-items the init RAM of the ALU enables
          pc,
          divStack,           \* the work-items each record leaves enabled
          wf_active_record,
          PC_stack,           \* entries [pc, jump]
          PC_stack_addr       \* the first free one

vars == <<st_wf, live, pc, divStack, wf_active_record, PC_stack, PC_stack_addr>>

Init == /\ st_wf = "idle"
        /\ live = {}
        /\ pc = 0
        /\ divStack = [r \in Records |-> Threads]
        /\ wf_active_record = 0
        /\ PC_stack = [s \in Slots |-> [pc |-> 0, jump |-> FALSE]]
        /\ PC_stack_addr = 0

\* registers of N_RECORDS_WF_W and N_RECORDS_PC_STACK_W bits
Wrap(n, size) == IF n >= size THEN n - size ELSE n
\* fault: the record number does not wrap
RecWide(n) == n

Rec(n) == Wrap(n, NRecords)
Slot(n) == Wrap(n, PCStackSize)

alu_en == live \cap divStack[wf_active_record]

Entry(p, jump) == [pc |-> p, jump |-> jump]

At(op) == st_wf = "active" /\ Code[pc].op = op

-----------------------------------------------------------------------------
\* The unit's allocation FSM starts a wavefront; nothing is reset here.
Activate(ts) ==
  /\ st_wf = "idle"
  /\ st_wf' = "active"
  /\ live' = ts
  /\ pc' = 0
  /\ UNCHANGED <<divStack, wf_active_record, PC_stack, PC_stack_addr>>

Step ==
  /\ At("alu")
  /\ pc' = pc + 1
  /\ UNCHANGED <<st_wf, live, divStack, wf_active_record, PC_stack, PC_stack_addr>>

Call ==
  /\ At("jump")
  /\ PC_stack' = [PC_stack EXCEPT ![PC_stack_addr] = Entry(pc + 1, TRUE)]
  /\ PC_stack_addr' = Slot(PC_stack_addr + 1)
  /\ pc' = Code[pc].to
  /\ UNCHANGED <<st_wf, live, divStack, wf_active_record>>

\* every enabled work-item goes the same way
BranchTogether(taken) ==
  /\ At("branch")
  /\ taken = alu_en \/ taken = {}
  /\ pc' = IF taken = {} THEN pc + 1 ELSE Code[pc].to
  /\ UNCHANGED <<st_wf, live, divStack, wf_active_record, PC_stack, PC_stack_addr>>

(* The two parts: which is put off, which runs now, and where they continue *)
\* fault: the larger part runs first
TruePathLaterSwapped(taken) == Cardinality(taken) < Cardinality(alu_en \ taken)

TruePathLater(taken) == Cardinality(taken) >= Cardinality(alu_en \ taken)
Later(taken) == IF TruePathLater(taken) THEN taken ELSE alu_en \ taken
\* fault: the other part is taken from the whole wavefront
SoonerUnmasked(taken) == live \ Later(taken)
Sooner(taken) == alu_en \ Later(taken)
LaterPC(taken) == IF TruePathLater(taken) THEN Code[pc].to ELSE pc + 1
SoonerPC(taken) == IF TruePathLater(taken) THEN pc + 1 ELSE Code[pc].to

\* record 0 is left as it is: the first divergence starts at record 1
FirstRecord == IF wf_active_record = 0 THEN 1 ELSE wf_active_record
\* fault: the extra copy is pushed at every divergence
CopiesAlwaysTwo == 2
\* fault: the extra copy is not pushed
CopiesAlwaysOne == 1
Copies == IF wf_active_record = 0 THEN 2 ELSE 1

Diverge(taken) ==
  /\ At("branch")
  /\ taken # {} /\ taken # alu_en
  /\ divStack' = [divStack EXCEPT ![Rec(FirstRecord)] = Later(taken),
                                  ![Rec(FirstRecord + 1)] = Sooner(taken)]
  /\ wf_active_record' = Rec(FirstRecord + 1)
  /\ PC_stack' = [PC_stack EXCEPT ![PC_stack_addr] = Entry(LaterPC(taken), FALSE),
                                  ![Slot(PC_stack_addr + Copies - 1)] = Entry(LaterPC(taken), FALSE)]
  /\ PC_stack_addr' = Slot(PC_stack_addr + Copies)
  /\ pc' = SoonerPC(taken)
  /\ UNCHANGED <<st_wf, live>>

(* RET: the wavefront retires if the stack is empty; otherwise it pops an   *)
(* entry, which says what has ended: a call, a path with another one still  *)
(* to run, or the last path, whose entry is the extra copy.                 *)
Return ==
  /\ At("ret")
  /\ st_wf' = IF PC_stack_addr = 0 THEN "idle" ELSE "read_PC_stack"
  /\ UNCHANGED <<live, pc, divStack, wf_active_record, PC_stack, PC_stack_addr>>

Top == Slot(PC_stack_addr - 1 + PCStackSize)
Popped == PC_stack[Top]
\* fault: the return from a call made on the last path taken for its end
EndsLastPathAnyEntry == wf_active_record = 1
EndsLastPath == ~Popped.jump /\ wf_active_record = 1

Pop ==
  /\ st_wf = "read_PC_stack"
  /\ pc' = Popped.pc
  /\ PC_stack_addr' = Top
  /\ wf_active_record' = IF Popped.jump THEN wf_active_record
                                        ELSE Rec(wf_active_record - 1 + NRecords)
  /\ st_wf' = IF ~EndsLastPath THEN "active"
              ELSE IF Top = 0 THEN "idle" ELSE "read_PC_stack"   \* there is a call to end too
  /\ UNCHANGED <<live, divStack, PC_stack>>

-----------------------------------------------------------------------------
(* What the compiler has to respect: the paths of a branch meet again only  *)
(* at the RET of the function they are in, so a function called on one path *)
(* alone (record 1 or above) must not diverge; and calls are bounded.       *)
CalledOnOnePath == wf_active_record > 0 /\ PC_stack_addr > 0 /\ Popped.jump
Calls == PC_stack_addr - wf_active_record   \* the other entries are those of paths

Next == \/ \E ts \in SUBSET Threads : ts # {} /\ Activate(ts)
        \/ Step
        \/ Calls < MaxCalls /\ Call
        \/ \E taken \in SUBSET alu_en : \/ BranchTogether(taken)
                                        \/ ~CalledOnOnePath /\ Diverge(taken)
        \/ Return
        \/ Pop

Spec == Init /\ [][Next]_vars

-----------------------------------------------------------------------------
(* Properties *)

Entries == [pc : PCs, jump : BOOLEAN]

TypeOK ==
  /\ st_wf \in {"idle", "active", "read_PC_stack"}
  /\ live \subseteq Threads
  /\ pc \in PCs
  /\ divStack \in [Records -> SUBSET Threads]
  /\ wf_active_record \in Records
  /\ PC_stack \in [Slots -> Entries]
  /\ PC_stack_addr \in Slots

\* The records in use are pairwise disjoint, nonempty parts of the wavefront:
\* whatever was left in divStack by earlier branches, no work-item is on two
\* paths that will both be run.
NoWorkItemOnTwoPaths ==
  \A r \in 1..wf_active_record :
    /\ divStack[r] # {} /\ divStack[r] \subseteq live
    /\ \A q \in 1..wf_active_record : q # r => divStack[q] \cap divStack[r] = {}

\* the entries from the bottom: calls up to b, a path per record, calls
ShapeAt(b) == /\ b + wf_active_record <= PC_stack_addr
              /\ \A s \in 0..PC_stack_addr-1 :
                   PC_stack[s].jump <=> (s < b \/ s >= b + wf_active_record)

\* The two stacks, one filled by st_branch and one also by calls, stay in step,
\* so that a RET pops the entry that fits the active record; and an idle
\* wavefront leaves both empty for the next one, for nothing resets them.
StacksInStep == /\ \E b \in 0..PC_stack_addr : ShapeAt(b)
                /\ st_wf = "idle" => PC_stack_addr = 0

\* The number of the active record never wraps: where the enabled work-items
\* can still disagree on a branch there are records left for both parts.
RecordsSuffice ==
  st_wf = "active" /\ Cardinality(alu_en) >= 2 => FirstRecord + 1 < NRecords

\* Nor does the stack pointer: the paths and the calls the program may still
\* make fit.
PCStackSuffices ==
  st_wf = "active" => /\ Cardinality(alu_en) >= 2 => PC_stack_addr + Copies < PCStackSize
                      /\ Calls < MaxCalls => PC_stack_addr + 1 < PCStackSize

(* Where each work-item stands in its own run of the program *)

\* how many calls were made before the paths parted: entries below the first path
CommonDepth == CHOOSE b \in 0..PC_stack_addr :
                 /\ \A s \in 0..b-1 : PC_stack[s].jump
                 /\ b < PC_stack_addr => ~PC_stack[b].jump

\* the return addresses of the paths put off, and of the one that runs, whose
\* own calls lie above the entries of the paths
CommonCalls == [i \in 1..CommonDepth |-> PC_stack[i - 1].pc]
ActiveCalls == [i \in 1..Calls |->
                  PC_stack[IF i <= CommonDepth THEN i - 1 ELSE i - 1 + wf_active_record].pc]

Place(p, calls) == [pc |-> p, calls |-> calls]
Returned(calls) == IF calls = << >> THEN Done ELSE Place(Last(calls), Front(calls))

\* the place of the work-items put off in record r: its path entry lies above
\* those of the records below and the extra copy
PutOff(r) == Place(PC_stack[CommonDepth + r].pc, CommonCalls)

Where(t) ==
  IF st_wf = "idle" \/ t \notin live THEN Done
  ELSE IF t \in divStack[wf_active_record]
       THEN IF st_wf = "active" THEN Place(pc, ActiveCalls) ELSE Returned(ActiveCalls)
  ELSE IF \E r \in 1..wf_active_record-1 : t \in divStack[r]
       THEN PutOff(CHOOSE r \in 1..wf_active_record-1 : t \in divStack[r])
  ELSE Returned(CommonCalls)

Alone == INSTANCE IndependentThreads WITH at <- [t \in Threads |-> Where(t)]

\* A wavefront is as good as independent work-items: each one executes exactly
\* the instructions its own branches lead it through, resumes where it was put
\* off, returns to its own caller, and none is dropped when the wavefront retires.
RunsEveryWorkItem == Alone!Spec
=============================================================================
