-------------------------- MODULE DivergenceProofs --------------------------
(***************************************************************************)
(* For every wavefront, every program and every sizes of the two stacks    *)
(* that DivergenceSizes accepts: the records in use stay disjoint, neither *)
(* stack overflows, and the wavefront runs as its work-items would alone.  *)
(*                                                                         *)
(* The argument: the PC stack is calls, then exactly as many path entries  *)
(* as the number of the active record, then calls again, so that a RET     *)
(* always pops the entry that fits the active record.  The part that runs  *)
(* first is at most half of the one it comes from, so record r holds at    *)
(* most WF_SIZE / 2^(r-1) work-items, and one that can still split is not  *)
(* the last.  As record 0 always enables the whole wavefront, a work-item  *)
(* is on the path that runs, on one path put off, or has returned to where *)
(* the paths parted; what each instruction does to the three gives the     *)
(* step of the work-items.                                                 *)
(***************************************************************************)
EXTENDS DivergenceSizes, FiniteSetTheorems, SequenceTheorems, TLAPS

StackShape == \E b \in Nat : ShapeAt(b)

StateFits == /\ st_wf = "idle" => PC_stack_addr = 0
             /\ st_wf = "read_PC_stack" => PC_stack_addr > 0

CallsBounded == PC_stack_addr <= wf_active_record + MaxCalls

RecordsBounded(w) == \A r \in 1..wf_active_record : Cardinality(divStack[r]) <= w[r]

IInv(w) == TypeOK /\ StackShape /\ StateFits /\ CallsBounded
             /\ NoWorkItemOnTwoPaths /\ RecordsBounded(w)

IsWidth(w) == w \in [1..NRecords-1 -> 0..Cardinality(Threads)] /\ Width(w)

-----------------------------------------------------------------------------
(* What a branch finds *)

LEMMA ThreadsFinite ==
  /\ Cardinality(Threads) \in Nat
  /\ \A S \in SUBSET Threads : /\ IsFiniteSet(S) /\ Cardinality(S) \in Nat
                               /\ Cardinality(S) <= Cardinality(Threads)
                               /\ Cardinality(S) = 0 <=> S = {}
<1>1. Cardinality(Threads) \in Nat
  BY SizesAssumption, FS_CardinalityType
<1>2. ASSUME NEW S \in SUBSET Threads
      PROVE  /\ IsFiniteSet(S) /\ Cardinality(S) \in Nat
             /\ Cardinality(S) <= Cardinality(Threads)
             /\ Cardinality(S) = 0 <=> S = {}
  <2>1. IsFiniteSet(S) /\ Cardinality(S) <= Cardinality(Threads)
    BY SizesAssumption, FS_Subset
  <2>2. Cardinality(S) \in Nat
    BY <2>1, FS_CardinalityType
  <2>3. Cardinality(S) = 0 <=> S = {}
    BY <2>1, FS_EmptySet
  <2> QED BY <2>1, <2>2, <2>3
<1> QED BY <1>1, <1>2

\* the enabled work-items are bounded by the width of the record they are
\* going to overwrite
LEMMA EnabledBounded ==
  ASSUME NEW w, IsWidth(w), IInv(w)
  PROVE  /\ alu_en \in SUBSET live
         /\ FirstRecord \in 1..NRecords-1
         /\ Cardinality(alu_en) <= w[FirstRecord]
<1>1. wf_active_record \in 0..NRecords-1 /\ live \in SUBSET Threads
  BY DEF IInv, TypeOK, Records
<1>2. alu_en \in SUBSET live
  BY DEF alu_en
<1>3. FirstRecord \in 1..NRecords-1
  BY <1>1, SizesAssumption, RecordsAssumption DEF FirstRecord
<1>4. CASE wf_active_record = 0
  <2>1. w[FirstRecord] = Cardinality(Threads)
    BY <1>4 DEF FirstRecord, IsWidth, Width
  <2> QED BY <1>1, <1>2, <1>3, <2>1, ThreadsFinite
<1>5. CASE wf_active_record # 0
  <2>1. alu_en = divStack[wf_active_record]
    BY <1>1, <1>5 DEF alu_en, IInv, NoWorkItemOnTwoPaths
  <2>2. FirstRecord = wf_active_record /\ wf_active_record \in 1..wf_active_record
    BY <1>1, <1>5 DEF FirstRecord
  <2> QED BY <1>2, <1>3, <2>1, <2>2 DEF IInv, RecordsBounded
<1> QED BY <1>4, <1>5

\* a record whose work-items can still disagree is not the last one
LEMMA RoomForTwo ==
  ASSUME NEW w, IsWidth(w), IInv(w), Cardinality(alu_en) >= 2
  PROVE  /\ FirstRecord + 1 \in 2..NRecords-1
         /\ w[FirstRecord + 1] = w[FirstRecord] \div 2
         /\ PC_stack_addr + Copies < PCStackSize
<1>1. FirstRecord \in 1..NRecords-1 /\ Cardinality(alu_en) <= w[FirstRecord]
  BY EnabledBounded
<1>2. w[FirstRecord] \in Nat /\ Cardinality(alu_en) \in Nat
  <2>1. alu_en \in SUBSET Threads
    BY DEF alu_en, IInv, TypeOK
  <2> QED BY <1>1, <2>1, ThreadsFinite DEF IsWidth
<1>3. FirstRecord # NRecords - 1
  BY <1>1, <1>2 DEF IsWidth, Width
<1>4. FirstRecord + 1 \in 2..NRecords-1
  BY <1>1, <1>3, SizesAssumption
<1>5. w[FirstRecord + 1] = w[FirstRecord] \div 2
  BY <1>1, <1>3, SizesAssumption DEF IsWidth, Width
<1>6. PC_stack_addr + Copies < PCStackSize
  <2>1. /\ wf_active_record \in Nat /\ PC_stack_addr \in Nat
        /\ PC_stack_addr <= wf_active_record + MaxCalls
    BY SizesAssumption DEF IInv, TypeOK, CallsBounded, Records, Slots
  <2> QED BY <1>4, <2>1, SizesAssumption, EntriesAssumption DEF FirstRecord, Copies
<1> QED BY <1>4, <1>5, <1>6

\* the part that runs first is at most half of the whole
LEMMA PartsOfABranch ==
  ASSUME NEW taken \in SUBSET alu_en, taken # {}, taken # alu_en, live \in SUBSET Threads
  PROVE  /\ Later(taken) # {} /\ Sooner(taken) # {}
         /\ Later(taken) \in SUBSET alu_en /\ Sooner(taken) \in SUBSET alu_en
         /\ Later(taken) \cap Sooner(taken) = {}
         /\ Cardinality(Later(taken)) <= Cardinality(alu_en)
         /\ Cardinality(Sooner(taken)) <= Cardinality(alu_en) \div 2
         /\ Cardinality(alu_en) >= 2
<1> DEFINE rest == alu_en \ taken
<1>1. /\ alu_en \in SUBSET Threads /\ taken \in SUBSET Threads /\ rest \in SUBSET Threads
      /\ rest # {} /\ taken \cap rest = {} /\ taken \cup rest = alu_en /\ alu_en \ rest = taken
  BY DEF alu_en
<1>2. /\ IsFiniteSet(taken) /\ Cardinality(taken) \in Nat /\ Cardinality(taken) # 0
      /\ IsFiniteSet(rest) /\ Cardinality(rest) \in Nat /\ Cardinality(rest) # 0
  BY <1>1, ThreadsFinite
<1>3. Cardinality(alu_en) = Cardinality(taken) + Cardinality(rest)
  <2>1. Cardinality(taken \cup rest)
          = Cardinality(taken) + Cardinality(rest) - Cardinality(taken \cap rest)
    BY <1>2, FS_Union
  <2>2. taken \cap rest = {} /\ taken \cup rest = alu_en
    BY <1>1
  <2>3. Cardinality(taken \cap rest) = 0
    BY <2>2, FS_EmptySet, Zenon
  <2>4. Cardinality(alu_en) = Cardinality(taken) + Cardinality(rest) - 0
    BY <2>1, <2>2, <2>3, Zenon
  <2> HIDE DEF rest
  <2> QED BY <1>2, <2>4
<1>4. CASE TruePathLater(taken)
  <2>1. Later(taken) = taken /\ Sooner(taken) = rest
    BY <1>4 DEF Later, Sooner
  <2>2. Cardinality(taken) >= Cardinality(rest)
    BY <1>4 DEF TruePathLater
  <2> HIDE DEF rest
  <2> QED BY <1>1, <1>2, <1>3, <2>1, <2>2
<1>5. CASE ~TruePathLater(taken)
  <2>1. Later(taken) = rest /\ Sooner(taken) = taken
    BY <1>1, <1>5 DEF Later, Sooner
  <2>2. Cardinality(taken) <= Cardinality(rest)
    BY <1>2, <1>5 DEF TruePathLater
  <2> HIDE DEF rest
  <2> QED BY <1>1, <1>2, <1>3, <2>1, <2>2
<1> QED BY <1>4, <1>5

-----------------------------------------------------------------------------
(* The invariant holds at first and every instruction keeps it *)

LEMMA InitInv == ASSUME NEW w, IsWidth(w), Init PROVE IInv(w)
<1>1. TypeOK
  <2>1. 0 \in Records /\ 0 \in Slots
    BY SizesAssumption DEF Records, Slots
  <2> QED BY <2>1, CodeAssumption DEF Init, TypeOK, Entries
<1>2. StackShape
  <2>1. ShapeAt(0)
    BY DEF Init, ShapeAt
  <2> QED BY <2>1 DEF StackShape
<1>3. StateFits /\ CallsBounded
  BY SizesAssumption DEF Init, StateFits, CallsBounded
<1>4. NoWorkItemOnTwoPaths /\ RecordsBounded(w)
  BY DEF Init, NoWorkItemOnTwoPaths, RecordsBounded
<1> QED BY <1>1, <1>2, <1>3, <1>4 DEF IInv

\* a step that leaves records and PC stack alone keeps what is said of them
LEMMA StacksUntouched ==
  ASSUME NEW w, IInv(w), UNCHANGED <<divStack, wf_active_record, PC_stack, PC_stack_addr>>,
         wf_active_record > 0 => live' = live
  PROVE  /\ StackShape' /\ CallsBounded' /\ NoWorkItemOnTwoPaths' /\ RecordsBounded(w)'
<1>1. /\ PC_stack' = PC_stack /\ PC_stack_addr' = PC_stack_addr
      /\ divStack' = divStack /\ wf_active_record' = wf_active_record
  OBVIOUS
<1>2. StackShape'
  <2>1. PICK b \in Nat : ShapeAt(b)
    BY DEF IInv, StackShape
  <2>2. ShapeAt(b)'
    BY <1>1, <2>1 DEF ShapeAt
  <2> QED BY <2>2 DEF StackShape
<1>3. CallsBounded'
  BY <1>1 DEF IInv, CallsBounded
<1>4. NoWorkItemOnTwoPaths'
  <2>1. CASE wf_active_record > 0
    BY <1>1, <2>1 DEF IInv, NoWorkItemOnTwoPaths
  <2>2. CASE ~(wf_active_record > 0)
    <3>1. 1..wf_active_record = {}
      BY <2>2 DEF IInv, TypeOK, Records
    <3> QED BY <1>1, <3>1 DEF NoWorkItemOnTwoPaths
  <2> QED BY <2>1, <2>2
<1>5. RecordsBounded(w)'
  BY <1>1 DEF IInv, RecordsBounded
<1> QED BY <1>2, <1>3, <1>4, <1>5

LEMMA ActivateInv ==
  ASSUME NEW w, IInv(w), NEW ts \in SUBSET Threads, Activate(ts)
  PROVE  IInv(w)'
<1>1. PC_stack_addr = 0 /\ wf_active_record = 0
  <2>1. PICK b \in Nat : b + wf_active_record <= PC_stack_addr
    BY DEF IInv, StackShape, ShapeAt
  <2>2. PC_stack_addr = 0
    BY DEF Activate, IInv, StateFits
  <2> QED BY <2>1, <2>2 DEF IInv, TypeOK, Records
<1>2. TypeOK'
  BY CodeAssumption DEF IInv, TypeOK, Activate
<1>3. StateFits'
  BY DEF Activate, StateFits
<1>4. StackShape' /\ CallsBounded' /\ NoWorkItemOnTwoPaths' /\ RecordsBounded(w)'
  BY <1>1, StacksUntouched DEF Activate
<1> QED BY <1>2, <1>3, <1>4 DEF IInv

\* an ALU instruction, a branch all work-items agree on, and the start of a RET
LEMMA QuietInv ==
  ASSUME NEW w, IInv(w), Step \/ Return \/ \E taken \in SUBSET alu_en : BranchTogether(taken)
  PROVE  IInv(w)'
<1>1. UNCHANGED <<live, divStack, wf_active_record, PC_stack, PC_stack_addr>>
  BY DEF Step, Return, BranchTogether
<1>2. TypeOK'
  <2>1. pc' \in PCs
    BY CodeAssumption DEF IInv, TypeOK, Step, Return, BranchTogether, At
  <2>2. st_wf' \in {"idle", "active", "read_PC_stack"}
    BY DEF IInv, TypeOK, Step, Return, BranchTogether
  <2> QED BY <1>1, <2>1, <2>2 DEF IInv, TypeOK
<1>3. StateFits'
  <2>1. CASE Step \/ \E taken \in SUBSET alu_en : BranchTogether(taken)
    BY <2>1 DEF Step, BranchTogether, At, StateFits
  <2>2. CASE Return
    BY <2>2 DEF Return, StateFits, IInv, TypeOK, Slots
  <2> QED BY <2>1, <2>2
<1>4. StackShape' /\ CallsBounded' /\ NoWorkItemOnTwoPaths' /\ RecordsBounded(w)'
  BY <1>1, StacksUntouched
<1> QED BY <1>2, <1>3, <1>4 DEF IInv

LEMMA CallInv ==
  ASSUME NEW w, IInv(w), Calls < MaxCalls, Call
  PROVE  IInv(w)'
<1>1. /\ wf_active_record \in 0..NRecords-1 /\ PC_stack_addr \in 0..PCStackSize-1
      /\ PC_stack \in [Slots -> Entries]
  BY DEF IInv, TypeOK, Records, Slots
<1>2. PC_stack_addr + 1 < PCStackSize
  BY <1>1, SizesAssumption, EntriesAssumption DEF Calls
<1>3. PC_stack_addr' = PC_stack_addr + 1
  BY <1>1, <1>2, SizesAssumption DEF Call, Slot, Wrap
<1>4. UNCHANGED <<st_wf, live, divStack, wf_active_record>> /\ st_wf = "active"
  BY DEF Call, At
<1>5. TypeOK'
  <2>1. pc' \in PCs /\ pc + 1 \in PCs
    BY CodeAssumption DEF IInv, TypeOK, Call, At
  <2>2. PC_stack' \in [Slots -> Entries]
    BY <1>1, <2>1 DEF Call, Entry, Entries
  <2>3. PC_stack_addr' \in Slots
    BY <1>1, <1>2, <1>3, SizesAssumption DEF Slots
  <2> QED BY <1>4, <2>1, <2>2, <2>3 DEF IInv, TypeOK
<1>6. StackShape'
  <2>1. PICK b \in Nat : ShapeAt(b)
    BY DEF IInv, StackShape
  <2>2. PC_stack' = [PC_stack EXCEPT ![PC_stack_addr] = Entry(pc + 1, TRUE)]
    BY DEF Call
  <2>3. ASSUME NEW s \in 0..PC_stack_addr'-1
        PROVE  PC_stack'[s].jump <=> (s < b \/ s >= b + wf_active_record')
    <3>0. PC_stack_addr \in Slots
      BY DEF IInv, TypeOK
    <3>1. CASE s = PC_stack_addr
      BY <1>1, <1>4, <2>1, <2>2, <3>0, <3>1 DEF Entry, ShapeAt
    <3>2. CASE s # PC_stack_addr
      <4>1. s \in 0..PC_stack_addr-1 /\ s \in Slots
        BY <1>1, <1>2, <1>3, <3>2, SizesAssumption DEF Slots
      <4> QED BY <1>1, <1>4, <2>1, <2>2, <3>2, <4>1 DEF ShapeAt
    <3> QED BY <3>1, <3>2
  <2>4. b + wf_active_record' <= PC_stack_addr'
    BY <1>1, <1>3, <1>4, <2>1 DEF ShapeAt
  <2> QED BY <2>3, <2>4 DEF StackShape, ShapeAt
<1>7. CallsBounded' /\ StateFits'
  BY <1>1, <1>3, <1>4, SizesAssumption DEF CallsBounded, StateFits, Calls
<1>8. NoWorkItemOnTwoPaths' /\ RecordsBounded(w)'
  BY <1>4 DEF IInv, NoWorkItemOnTwoPaths, RecordsBounded
<1> QED BY <1>5, <1>6, <1>7, <1>8 DEF IInv

LEMMA DivergeDoes ==
  ASSUME NEW w, IsWidth(w), IInv(w), NEW taken \in SUBSET alu_en, Diverge(taken)
  PROVE  /\ FirstRecord + 1 \in 2..NRecords-1 /\ PC_stack_addr + Copies < PCStackSize
         /\ Copies \in 1..2 /\ FirstRecord + 1 = wf_active_record + Copies
         /\ FirstRecord = IF wf_active_record = 0 THEN 1 ELSE wf_active_record
         /\ w[FirstRecord + 1] = w[FirstRecord] \div 2
         /\ divStack' = [divStack EXCEPT ![FirstRecord] = Later(taken),
                                         ![FirstRecord + 1] = Sooner(taken)]
         /\ wf_active_record' = FirstRecord + 1 /\ PC_stack_addr' = PC_stack_addr + Copies
         /\ PC_stack' = [PC_stack EXCEPT
                           ![PC_stack_addr] = Entry(LaterPC(taken), FALSE),
                           ![PC_stack_addr + Copies - 1] = Entry(LaterPC(taken), FALSE)]
         /\ pc' = SoonerPC(taken) /\ live' = live /\ st_wf' = st_wf /\ st_wf = "active"
<1>1. /\ wf_active_record \in 0..NRecords-1 /\ PC_stack_addr \in 0..PCStackSize-1
      /\ NRecords \in Nat /\ PCStackSize \in Nat /\ live \in SUBSET Threads
  BY SizesAssumption DEF IInv, TypeOK, Records, Slots
<1>2. Cardinality(alu_en) >= 2
  BY <1>1, PartsOfABranch DEF Diverge
<1>3. /\ FirstRecord + 1 \in 2..NRecords-1 /\ w[FirstRecord + 1] = w[FirstRecord] \div 2
      /\ PC_stack_addr + Copies < PCStackSize /\ FirstRecord \in 1..NRecords-1
  BY <1>2, RoomForTwo, EnabledBounded
<1>4. /\ Copies \in 1..2 /\ FirstRecord + 1 = wf_active_record + Copies
      /\ FirstRecord = IF wf_active_record = 0 THEN 1 ELSE wf_active_record
  BY <1>1 DEF FirstRecord, Copies
<1>5. /\ Rec(FirstRecord) = FirstRecord /\ Rec(FirstRecord + 1) = FirstRecord + 1
      /\ Slot(PC_stack_addr + Copies) = PC_stack_addr + Copies
      /\ Slot(PC_stack_addr + Copies - 1) = PC_stack_addr + Copies - 1
  BY <1>1, <1>3, <1>4 DEF Rec, Slot, Wrap
<1> QED BY <1>3, <1>4, <1>5 DEF Diverge, At

\* the last entry is that of the active path, or there are only calls
LEMMA PathOnTop ==
  ASSUME NEW w, IInv(w), ~CalledOnOnePath
  PROVE  \E c \in Nat : c + wf_active_record = PC_stack_addr /\ ShapeAt(c)
<1> DEFINE A == PC_stack_addr
<1>1. /\ wf_active_record \in Nat /\ A \in 0..PCStackSize-1 /\ PCStackSize \in Nat
  BY SizesAssumption DEF IInv, TypeOK, Records, Slots
<1>2. PICK b \in Nat : ShapeAt(b)
  BY DEF IInv, StackShape
<1>3. CASE wf_active_record = 0
  <2>1. ShapeAt(A)
    BY <1>1, <1>2, <1>3 DEF ShapeAt
  <2> QED BY <1>1, <1>3, <2>1
<1>4. CASE wf_active_record # 0
  <2>1. A > 0
    BY <1>1, <1>2, <1>4 DEF ShapeAt
  <2>2. ~PC_stack[A - 1].jump
    BY <1>1, <1>4, <2>1 DEF CalledOnOnePath, Popped, Top, Slot, Wrap
  <2>3. b + wf_active_record = A
    BY <1>1, <1>2, <2>1, <2>2 DEF ShapeAt
  <2> QED BY <1>2, <2>3
<1> QED BY <1>3, <1>4

LEMMA DivergeInv ==
  ASSUME NEW w, IsWidth(w), IInv(w),
         NEW taken \in SUBSET alu_en, ~CalledOnOnePath, Diverge(taken)
  PROVE  IInv(w)'
<1> DEFINE F == FirstRecord
           A == PC_stack_addr
<1>1. /\ wf_active_record \in 0..NRecords-1 /\ A \in 0..PCStackSize-1 /\ live \in SUBSET Threads
      /\ PC_stack \in [Slots -> Entries] /\ divStack \in [Records -> SUBSET Threads]
      /\ NRecords \in Nat /\ PCStackSize \in Nat
  BY SizesAssumption DEF IInv, TypeOK, Records, Slots
<1>2. /\ Later(taken) # {} /\ Sooner(taken) # {}
      /\ Later(taken) \in SUBSET alu_en /\ Sooner(taken) \in SUBSET alu_en
      /\ Later(taken) \cap Sooner(taken) = {}
      /\ Cardinality(Later(taken)) <= Cardinality(alu_en)
      /\ Cardinality(Sooner(taken)) <= Cardinality(alu_en) \div 2
      /\ Cardinality(alu_en) >= 2
  BY <1>1, PartsOfABranch DEF Diverge
<1>3. F + 1 \in 2..NRecords-1 /\ w[F + 1] = w[F] \div 2 /\ A + Copies < PCStackSize
  BY DivergeDoes
<1>4. F \in 1..NRecords-1 /\ Cardinality(alu_en) <= w[F] /\ alu_en \in SUBSET live
  BY EnabledBounded
<1>5. /\ Copies \in 1..2 /\ F + 1 = wf_active_record + Copies
      /\ F = IF wf_active_record = 0 THEN 1 ELSE wf_active_record
  BY DivergeDoes
<1>6. PICK c \in Nat : c + wf_active_record = A /\ ShapeAt(c)
  BY PathOnTop
<1>7. /\ divStack' = [divStack EXCEPT ![F] = Later(taken), ![F + 1] = Sooner(taken)]
      /\ wf_active_record' = F + 1 /\ PC_stack_addr' = A + Copies
      /\ PC_stack' = [PC_stack EXCEPT ![A] = Entry(LaterPC(taken), FALSE),
                                      ![A + Copies - 1] = Entry(LaterPC(taken), FALSE)]
      /\ pc' = SoonerPC(taken) /\ live' = live /\ st_wf' = st_wf /\ st_wf = "active"
  BY DivergeDoes
<1> HIDE DEF F, A
<1>8. TypeOK'
  <2>1. LaterPC(taken) \in PCs /\ SoonerPC(taken) \in PCs
    BY CodeAssumption DEF IInv, TypeOK, Diverge, At, LaterPC, SoonerPC
  <2>2. PC_stack' \in [Slots -> Entries]
    BY <1>1, <1>7, <2>1 DEF Entry, Entries
  <2>3. divStack' \in [Records -> SUBSET Threads]
    BY <1>1, <1>2, <1>4, <1>7
  <2>4. wf_active_record' \in Records /\ PC_stack_addr' \in Slots
    BY <1>1, <1>3, <1>5, <1>7 DEF Records, Slots
  <2> QED BY <1>7, <2>1, <2>2, <2>3, <2>4 DEF IInv, TypeOK
<1>9. StackShape'
  <2>1. ASSUME NEW s \in 0..PC_stack_addr'-1
        PROVE  PC_stack'[s].jump <=> (s < c \/ s >= c + wf_active_record')
    <3>1. s \in Slots /\ A \in Slots /\ A + Copies - 1 \in Slots
      BY <1>1, <1>3, <1>5, <1>7 DEF Slots
    <3>2. CASE s = A \/ s = A + Copies - 1
      <4>1. ~PC_stack'[s].jump
        BY <1>1, <1>7, <3>1, <3>2 DEF Entry
      <4>2. ~(s < c \/ s >= c + wf_active_record')
        BY <1>1, <1>5, <1>7, <1>6, <3>2
      <4> QED BY <4>1, <4>2
    <3>3. CASE s # A /\ s # A + Copies - 1
      <4>1. s \in 0..A-1
        BY <1>1, <1>5, <1>7, <3>3
      <4>2. PC_stack'[s] = PC_stack[s]
        BY <1>1, <1>7, <3>1, <3>3
      <4>3. s < c + wf_active_record'
        BY <1>1, <1>5, <1>7, <1>6, <4>1
      <4>4. PC_stack[s].jump <=> (s < c \/ s >= c + wf_active_record)
        BY <1>6, <4>1 DEF ShapeAt, A
      <4>5. ~(s >= c + wf_active_record) /\ ~(s >= c + wf_active_record')
        BY <1>1, <1>5, <1>7, <1>6, <4>1, <4>3
      <4> QED BY <4>2, <4>4, <4>5, Zenon
    <3> QED BY <3>2, <3>3
  <2>2. c + wf_active_record' <= PC_stack_addr'
    BY <1>1, <1>5, <1>7, <1>6
  <2> QED BY <2>1, <2>2 DEF StackShape, ShapeAt
<1>10. StateFits'
  BY <1>7 DEF StateFits
<1>11. CallsBounded'
  BY <1>1, <1>5, <1>7, SizesAssumption DEF IInv, CallsBounded, A
<1>12. \A r \in 1..F-1 : /\ divStack'[r] = divStack[r] /\ r \in 1..wf_active_record
                         /\ divStack[r] \cap alu_en = {}
  <2> TAKE r \in 1..F-1
  <2>1. r \in 1..wf_active_record /\ F = wf_active_record /\ r # F
    BY <1>1, <1>5
  <2>2. divStack'[r] = divStack[r]
    BY <1>1, <1>4, <1>7, <2>1 DEF Records
  <2>3. divStack[r] \cap divStack[wf_active_record] = {}
    BY <1>1, <2>1 DEF IInv, NoWorkItemOnTwoPaths
  <2> QED BY <2>1, <2>2, <2>3 DEF alu_en
<1>13. divStack'[F] = Later(taken) /\ divStack'[F + 1] = Sooner(taken)
  BY <1>1, <1>3, <1>4, <1>7 DEF Records
<1>14. \A r \in 1..wf_active_record' : r \in 1..F-1 \/ r = F \/ r = F + 1
  BY <1>4, <1>7
<1>15. NoWorkItemOnTwoPaths'
  <2>1. ASSUME NEW r \in 1..wf_active_record'
        PROVE  divStack'[r] # {} /\ divStack'[r] \subseteq live'
    BY <1>2, <1>4, <1>7, <1>12, <1>13, <1>14 DEF IInv, NoWorkItemOnTwoPaths
  <2>2. ASSUME NEW r \in 1..wf_active_record', NEW q \in 1..wf_active_record', q # r
        PROVE  divStack'[q] \cap divStack'[r] = {}
    <3>1. CASE r \in 1..F-1 /\ q \in 1..F-1
      BY <1>12, <2>2, <3>1 DEF IInv, NoWorkItemOnTwoPaths
    <3>2. CASE r \in 1..F-1 /\ q \in {F, F + 1}
      BY <1>2, <1>12, <1>13, <3>2
    <3>3. CASE q \in 1..F-1 /\ r \in {F, F + 1}
      BY <1>2, <1>12, <1>13, <3>3
    <3>4. CASE q \in {F, F + 1} /\ r \in {F, F + 1}
      BY <1>2, <1>13, <2>2, <3>4
    <3> QED BY <1>14, <3>1, <3>2, <3>3, <3>4
  <2> QED BY <2>1, <2>2 DEF NoWorkItemOnTwoPaths
<1>16. RecordsBounded(w)'
  <2>1. Cardinality(divStack'[F]) <= w[F] /\ Cardinality(divStack'[F + 1]) <= w[F + 1]
    <3>1. /\ alu_en \in SUBSET Threads /\ Later(taken) \in SUBSET Threads
          /\ Sooner(taken) \in SUBSET Threads
      BY <1>1, <1>2, <1>4
    <3>2. /\ Cardinality(alu_en) \in Nat /\ Cardinality(Later(taken)) \in Nat
          /\ Cardinality(Sooner(taken)) \in Nat
      BY <3>1, ThreadsFinite
    <3>3. w[F] \in Nat
      BY <1>4, ThreadsFinite DEF IsWidth
    <3> QED BY <1>2, <1>3, <1>4, <1>13, <3>2, <3>3
  <2>2. \A r \in 1..F-1 : Cardinality(divStack'[r]) <= w[r]
    BY <1>12 DEF IInv, RecordsBounded
  <2> QED BY <1>14, <2>1, <2>2 DEF RecordsBounded
<1> QED BY <1>8, <1>9, <1>10, <1>11, <1>15, <1>16 DEF IInv

LEMMA PopInv == ASSUME NEW w, IInv(w), Pop PROVE IInv(w)'
<1> DEFINE A == PC_stack_addr
           R == wf_active_record
<1>1. /\ R \in 0..NRecords-1 /\ A \in 1..PCStackSize-1 /\ A - 1 \in Slots
      /\ PC_stack \in [Slots -> Entries] /\ NRecords \in Nat /\ PCStackSize \in Nat
  BY SizesAssumption DEF IInv, TypeOK, Records, Slots, StateFits, Pop
<1>2. Top = A - 1
  BY <1>1 DEF Top, Slot, Wrap
<1>3. /\ PC_stack_addr' = A - 1 /\ PC_stack' = PC_stack /\ divStack' = divStack
      /\ live' = live /\ pc' = PC_stack[A - 1].pc
  BY <1>2 DEF Pop, Popped
<1>4. PICK b \in Nat : ShapeAt(b)
  BY DEF IInv, StackShape
\* the entry on top tells which stack the shape loses it from
<1>5. /\ PC_stack[A - 1].jump => R' = R /\ \E c \in Nat : c + R <= A - 1 /\ ShapeAt(c)
      /\ ~PC_stack[A - 1].jump => R > 0 /\ R' = R - 1 /\ b + R = A
  <2>1. CASE PC_stack[A - 1].jump
    <3>1. R' = R
      BY <1>2, <2>1 DEF Pop, Popped
    <3>2. CASE b + R <= A - 1
      BY <1>4, <2>1, <3>1, <3>2
    <3>3. CASE ~(b + R <= A - 1)
      <4>1. R = 0
        BY <1>1, <1>4, <2>1, <3>3 DEF ShapeAt
      <4>2. ShapeAt(A - 1)
        BY <1>1, <1>4, <4>1 DEF ShapeAt
      <4> QED BY <1>1, <2>1, <3>1, <4>1, <4>2
    <3> QED BY <3>2, <3>3
  <2>2. CASE ~PC_stack[A - 1].jump
    <3>1. R > 0 /\ b + R = A
      BY <1>1, <1>4, <2>2 DEF ShapeAt
    <3>2. Rec(R - 1 + NRecords) = R - 1
      BY <1>1, <3>1 DEF Rec, Wrap
    <3>3. R' = Rec(R - 1 + NRecords)
      BY <1>2, <2>2 DEF Pop, Popped
    <3> QED BY <2>2, <3>1, <3>2, <3>3
  <2> QED BY <2>1, <2>2
<1>6. R' \in 0..R
  BY <1>1, <1>5
<1>7. TypeOK'
  <2>1. st_wf' \in {"idle", "active", "read_PC_stack"}
    BY DEF Pop
  <2>2. R' \in Records /\ A' \in Slots
    BY <1>1, <1>3, <1>6 DEF Records
  <2>3. pc' \in PCs
    BY <1>1, <1>3 DEF Entries
  <2> QED BY <1>3, <2>1, <2>2, <2>3 DEF IInv, TypeOK
<1>8. StackShape'
  <2>1. CASE PC_stack[A - 1].jump
    <3>1. PICK c \in Nat : c + R <= A - 1 /\ ShapeAt(c) /\ R' = R
      BY <1>5, <2>1
    <3>2. \A s \in 0..A-2 : PC_stack[s].jump <=> (s < c \/ s >= c + R)
      BY <1>1, <3>1 DEF ShapeAt
    <3>3. ShapeAt(c)'
      BY <1>1, <1>3, <3>1, <3>2 DEF ShapeAt
    <3> QED BY <3>3 DEF StackShape
  <2>2. CASE ~PC_stack[A - 1].jump
    <3>1. R > 0 /\ R' = R - 1 /\ b + R = A
      BY <1>5, <2>2
    <3>2. \A s \in 0..A-2 : PC_stack[s].jump <=> (s < b \/ s >= b + R - 1)
      <4> TAKE s \in 0..A-2
      <4>1. PC_stack[s].jump <=> (s < b \/ s >= b + R)
        BY <1>1, <1>4 DEF ShapeAt
      <4>2. ~(s >= b + R) /\ ~(s >= b + R - 1)
        BY <1>1, <3>1
      <4> QED BY <4>1, <4>2, Zenon
    <3>3. ShapeAt(b)'
      BY <1>1, <1>3, <3>1, <3>2 DEF ShapeAt
    <3> QED BY <3>3 DEF StackShape
  <2> QED BY <2>1, <2>2
<1>9. StateFits'
  BY <1>1, <1>2, <1>3 DEF Pop, StateFits
<1>10. CallsBounded'
  BY <1>1, <1>3, <1>5, SizesAssumption DEF IInv, CallsBounded
<1>11. NoWorkItemOnTwoPaths' /\ RecordsBounded(w)'
  <2>1. \A r \in 1..R' : r \in 1..R
    BY <1>1, <1>6
  <2> QED BY <1>3, <2>1 DEF IInv, NoWorkItemOnTwoPaths, RecordsBounded
<1> QED BY <1>7, <1>8, <1>9, <1>10, <1>11 DEF IInv

LEMMA NextInv == ASSUME NEW w, IsWidth(w), IInv(w), [Next]_vars PROVE IInv(w)'
<1>1. CASE Next
  <2>1. ASSUME NEW ts \in SUBSET Threads, Activate(ts) PROVE IInv(w)'
    BY <2>1, ActivateInv
  <2>2. ASSUME Step \/ Return \/ \E taken \in SUBSET alu_en : BranchTogether(taken)
        PROVE  IInv(w)'
    BY <2>2, QuietInv
  <2>3. ASSUME Calls < MaxCalls, Call PROVE IInv(w)'
    BY <2>3, CallInv
  <2>4. ASSUME NEW taken \in SUBSET alu_en, ~CalledOnOnePath, Diverge(taken) PROVE IInv(w)'
    BY <2>4, DivergeInv
  <2>5. ASSUME Pop PROVE IInv(w)'
    BY <2>5, PopInv
  <2> QED BY <1>1, <2>1, <2>2, <2>3, <2>4, <2>5 DEF Next
<1>2. CASE UNCHANGED vars
  BY <1>2 DEF vars, IInv, TypeOK, StackShape, ShapeAt, StateFits, CallsBounded,
              NoWorkItemOnTwoPaths, RecordsBounded
<1> QED BY <1>1, <1>2

-----------------------------------------------------------------------------
\* all of it at once: one invariant has them all
LEMMA DivergenceSafe ==
  Spec => [](TypeOK /\ StacksInStep /\ NoWorkItemOnTwoPaths
               /\ RecordsSuffice /\ PCStackSuffices)
<1>1. PICK w : IsWidth(w)
  BY RecordsAssumption DEF IsWidth
<1>2. Init => IInv(w)
  BY <1>1, InitInv
<1>3. IInv(w) /\ [Next]_vars => IInv(w)'
  BY <1>1, NextInv
<1>4. IInv(w) => TypeOK /\ StacksInStep /\ NoWorkItemOnTwoPaths
                   /\ RecordsSuffice /\ PCStackSuffices
  <2> SUFFICES ASSUME IInv(w)
               PROVE  TypeOK /\ StacksInStep /\ NoWorkItemOnTwoPaths
                        /\ RecordsSuffice /\ PCStackSuffices
    OBVIOUS
  <2>3. StacksInStep
    <3>1. PICK b \in Nat : ShapeAt(b)
      BY DEF IInv, StackShape
    <3>2. wf_active_record \in Nat /\ PC_stack_addr \in Nat
      BY SizesAssumption DEF IInv, TypeOK, Records, Slots
    <3>3. b \in 0..PC_stack_addr
      BY <3>1, <3>2 DEF ShapeAt
    <3> QED BY <3>1, <3>3 DEF StacksInStep, IInv, StateFits
  <2>1. RecordsSuffice
    BY <1>1, RoomForTwo, SizesAssumption DEF RecordsSuffice
  <2>2. PCStackSuffices
    <3>1. /\ wf_active_record \in 0..NRecords-1 /\ PC_stack_addr \in 0..PCStackSize-1
          /\ NRecords \in Nat /\ PCStackSize \in Nat
      BY SizesAssumption DEF IInv, TypeOK, Records, Slots
    <3>2. Calls < MaxCalls => PC_stack_addr + 1 < PCStackSize
      BY <3>1, SizesAssumption, EntriesAssumption DEF Calls
    <3> QED BY <1>1, <3>2, RoomForTwo DEF PCStackSuffices
  <2> QED BY <2>1, <2>2, <2>3 DEF IInv
<1> QED BY <1>2, <1>3, <1>4, PTL DEF Spec

\* With the sizes of DivergenceSizes the registers hold what they are declared to hold,
\* and the program counter stays in the program.
THEOREM TypeCorrect == Spec => []TypeOK
  BY DivergenceSafe, PTL

\* The records in use are disjoint nonempty parts of the wavefront (divStack,
\* CU_scheduler_vliw.vhd 480-540), for every program, wavefront and size of the stacks.
THEOREM PathsDisjoint == Spec => []NoWorkItemOnTwoPaths
  BY DivergenceSafe, PTL

\* A RET always pops the entry that fits the active record, and a wavefront that retires
\* leaves the PC stack empty for the next one.
THEOREM StacksFit == Spec => []StacksInStep
  BY DivergenceSafe, PTL

\* log2(WF_SIZE) + 2 records suffice: one each for both parts of
\* every branch on which the enabled work-items can still disagree.
THEOREM RecordsEnough == Spec => []RecordsSuffice
  BY DivergenceSafe, PTL

\* The PC stack has room for the paths and for the calls the program may nest.
THEOREM StackEnough == Spec => []PCStackSuffices
  BY DivergenceSafe, PTL

-----------------------------------------------------------------------------
(* The wavefront as independent work-items.  The mapping reads the return  *)
(* addresses off the PC stack by position, so each instruction only has to *)
(* be followed at the entries it touches: the one that runs takes the      *)
(* enabled work-items one instruction further, and the pops in between are *)
(* stuttering.                                                             *)

LEMMA CallSeq ==
  ASSUME NEW n \in Nat, NEW S, NEW f \in [1..n -> S]
  PROVE  /\ f \in Seq(S) /\ Len(f) = n
         /\ f = << >> <=> n = 0
         /\ n > 0 => Last(f) = f[n] /\ Front(f) = [i \in 1..n-1 |-> f[i]]
         /\ \A x \in S : Append(f, x) = [i \in 1..n+1 |-> IF i <= n THEN f[i] ELSE x]
<1>1. f \in Seq(S)
  BY IsASeq
<1>2. Len(f) = n
  BY <1>1, LenProperties
<1>3. f = << >> <=> n = 0
  BY <1>1, <1>2, EmptySeq
<1>4. ASSUME n > 0 PROVE Last(f) = f[n] /\ Front(f) = [i \in 1..n-1 |-> f[i]]
  <2>1. Last(f) = f[n]
    BY <1>2 DEF Last
  <2>2. Front(f) = [i \in 1..n-1 |-> f[i]]
    <3>1. Front(f) = SubSeq(f, 1, n - 1)
      BY <1>2 DEF Front
    <3>2. /\ SubSeq(f, 1, n - 1) \in Seq(S) /\ Len(SubSeq(f, 1, n - 1)) = n - 1
          /\ \A i \in 1..n-1 : SubSeq(f, 1, n - 1)[i] = f[i]
      BY <1>1, <1>2, <1>4, SubSeqProperties
    <3> QED BY <3>1, <3>2, LenProperties
  <2> QED BY <2>1, <2>2
<1>5. ASSUME NEW x \in S
      PROVE  Append(f, x) = [i \in 1..n+1 |-> IF i <= n THEN f[i] ELSE x]
  <2>1. /\ Append(f, x) \in Seq(S) /\ Len(Append(f, x)) = n + 1
        /\ \A i \in 1..n : Append(f, x)[i] = f[i]
        /\ Append(f, x)[n + 1] = x
    BY <1>1, <1>2, AppendProperties
  <2>2. Append(f, x) \in [1..n+1 -> S]
    BY <2>1, LenProperties
  <2>3. \A i \in 1..n+1 : Append(f, x)[i] = IF i <= n THEN f[i] ELSE x
    BY <2>1
  <2> QED BY <2>2, <2>3
<1> QED BY <1>1, <1>2, <1>3, <1>4, <1>5

LEMMA DepthIs ==
  ASSUME NEW stack, NEW n \in Nat, NEW b \in 0..n,
         \A s \in 0..b-1 : stack[s].jump, b < n => ~stack[b].jump
  PROVE  b = CHOOSE d \in 0..n : /\ \A s \in 0..d-1 : stack[s].jump
                                 /\ d < n => ~stack[d].jump
<1> DEFINE P(d) == /\ \A s \in 0..d-1 : stack[s].jump
                   /\ d < n => ~stack[d].jump
<1>1. P(b)
  OBVIOUS
<1>2. ASSUME NEW d \in 0..n, P(d) PROVE d = b
  <2>1. CASE d < b
    BY <1>2, <2>1
  <2>2. CASE b < d
    BY <1>2, <2>2
  <2> QED BY <2>1, <2>2
<1> QED BY <1>1, <1>2

Running == st_wf # "idle"

\* where a work-item stands, by the record it is in
WhereOf(t) ==
  /\ ~Running \/ t \notin live => Where(t) = Done
  /\ Running /\ t \in live =>
       /\ t \in divStack[wf_active_record] =>
            Where(t) = IF st_wf = "active" THEN Place(pc, ActiveCalls) ELSE Returned(ActiveCalls)
       /\ \A r \in 1..wf_active_record-1 : t \in divStack[r] => Where(t) = PutOff(r)
       /\ wf_active_record > 0 /\ (\A r \in 1..wf_active_record : t \notin divStack[r])
            => Where(t) = Returned(CommonCalls)

LEMMA WhereIs == TypeOK /\ NoWorkItemOnTwoPaths => \A t \in Threads : WhereOf(t)
<1> SUFFICES ASSUME TypeOK, NoWorkItemOnTwoPaths, NEW t \in Threads PROVE WhereOf(t)
  OBVIOUS
<1>1. wf_active_record \in Nat
  BY SizesAssumption DEF TypeOK, Records
<1>2. ASSUME Running, t \in live, NEW r \in 1..wf_active_record-1, t \in divStack[r]
      PROVE  Where(t) = PutOff(r)
  <2>1. t \notin divStack[wf_active_record]
    BY <1>1, <1>2 DEF NoWorkItemOnTwoPaths
  <2>2. r = CHOOSE q \in 1..wf_active_record-1 : t \in divStack[q]
    BY <1>1, <1>2 DEF NoWorkItemOnTwoPaths
  <2> QED BY <1>2, <2>1, <2>2 DEF Where, Running
<1>3. ASSUME Running, t \in live, wf_active_record > 0,
             \A r \in 1..wf_active_record : t \notin divStack[r]
      PROVE  Where(t) = Returned(CommonCalls)
  BY <1>1, <1>3 DEF Where, Running
<1>4. ASSUME Running, t \in live, t \in divStack[wf_active_record]
      PROVE  Where(t) = IF st_wf = "active" THEN Place(pc, ActiveCalls) ELSE Returned(ActiveCalls)
  BY <1>4 DEF Where, Running
<1>5. ASSUME ~Running \/ t \notin live PROVE Where(t) = Done
  BY <1>5 DEF Where, Running
<1> QED BY <1>2, <1>3, <1>4, <1>5 DEF WhereOf

LEMMA WhereNext == TypeOK' /\ NoWorkItemOnTwoPaths' => (\A t \in Threads : WhereOf(t))'
  BY WhereIs, PTL

LEMMA Executes ==
  ASSUME NEW ts \in SUBSET Threads, ts # {}, NEW p, p # Done,
         \A t \in ts : Where(t) = p /\ Where(t)' \in Alone!Follow(p),
         \A t \in Threads \ ts : Where(t)' = Where(t)
  PROVE  Alone!Next
<1>1. Alone!Execute(ts)
  BY DEF Alone!Execute
<1> QED BY <1>1 DEF Alone!Next

LEMMA FollowIs ==
  ASSUME NEW p
  PROVE  /\ Code[p.pc].op = "alu" => Alone!Follow(p) = {Place(p.pc + 1, p.calls)}
         /\ Code[p.pc].op = "branch" =>
              Alone!Follow(p) = {Place(p.pc + 1, p.calls), Place(Code[p.pc].to, p.calls)}
         /\ Code[p.pc].op = "jump" =>
              Alone!Follow(p) = {Place(Code[p.pc].to, Append(p.calls, p.pc + 1))}
         /\ Code[p.pc].op = "ret" => Alone!Follow(p) = {Returned(p.calls)}
<1>1. Code[p.pc].op = "alu" => Alone!Follow(p) = {Place(p.pc + 1, p.calls)}
  BY DEF Alone!Follow, Alone!Place, Place
<1>2. Code[p.pc].op = "branch" =>
        Alone!Follow(p) = {Place(p.pc + 1, p.calls), Place(Code[p.pc].to, p.calls)}
  BY DEF Alone!Follow, Alone!Place, Place
<1>3. Code[p.pc].op = "jump" =>
        Alone!Follow(p) = {Place(Code[p.pc].to, Append(p.calls, p.pc + 1))}
  BY DEF Alone!Follow, Alone!Place, Place
<1>4. Code[p.pc].op = "ret" => Alone!Follow(p) = {Returned(p.calls)}
  BY DEF Alone!Follow, Alone!Place, Place, Returned, Last, Front, Alone!Last, Alone!Front
<1> QED BY <1>1, <1>2, <1>3, <1>4

\* record 0 always enables the whole wavefront, and one that runs has a work-item
AllStart == divStack[0] = Threads /\ (Running => live # {})

\* the PC stack as the mapping reads it
Laid == /\ CommonDepth \in Nat /\ ShapeAt(CommonDepth)
        /\ wf_active_record = 0 => CommonDepth = PC_stack_addr
        /\ CommonCalls \in [1..CommonDepth -> PCs]
        /\ Calls \in Nat /\ CommonDepth <= Calls
        /\ ActiveCalls \in [1..Calls -> PCs]

LEMMA LaidIs == TypeOK /\ StackShape => Laid
<1> SUFFICES ASSUME TypeOK, StackShape PROVE Laid
  OBVIOUS
<1>1. /\ wf_active_record \in Nat /\ PC_stack_addr \in 0..PCStackSize-1
      /\ PC_stack \in [0..PCStackSize-1 -> Entries] /\ PCStackSize \in Nat
  BY SizesAssumption DEF TypeOK, Records, Slots
<1>2. PICK c \in Nat : ShapeAt(c)
  BY DEF StackShape
<1>3. PICK b \in 0..PC_stack_addr : ShapeAt(b) /\ (wf_active_record = 0 => b = PC_stack_addr)
  <2>1. CASE wf_active_record = 0
    <3>1. ShapeAt(PC_stack_addr)
      BY <1>1, <1>2, <2>1 DEF ShapeAt
    <3> QED BY <1>1, <2>1, <3>1
  <2>2. CASE wf_active_record # 0
    <3>1. c \in 0..PC_stack_addr
      BY <1>1, <1>2 DEF ShapeAt
    <3> QED BY <1>2, <2>2, <3>1
  <2> QED BY <2>1, <2>2
<1>4. CommonDepth = b
  <2>1. \A s \in 0..b-1 : PC_stack[s].jump
    BY <1>1, <1>3 DEF ShapeAt
  <2>2. b < PC_stack_addr => ~PC_stack[b].jump
    BY <1>1, <1>3 DEF ShapeAt
  <2> QED BY <1>1, <2>1, <2>2, DepthIs DEF CommonDepth
<1>5. b + wf_active_record <= PC_stack_addr
  BY <1>3 DEF ShapeAt
<1>6. \A s \in 0..PC_stack_addr-1 : PC_stack[s].pc \in PCs
  BY <1>1 DEF Entries
<1>7. CommonCalls \in [1..CommonDepth -> PCs]
  BY <1>1, <1>4, <1>6 DEF CommonCalls
<1>8. Calls \in Nat /\ b <= Calls
  BY <1>1, <1>5 DEF Calls
<1>9. ActiveCalls \in [1..Calls -> PCs]
  <2>1. ASSUME NEW i \in 1..Calls
        PROVE  (IF i <= b THEN i - 1 ELSE i - 1 + wf_active_record) \in 0..PC_stack_addr-1
    BY <1>1, <1>5 DEF Calls
  <2> QED BY <1>4, <1>6, <2>1 DEF ActiveCalls
<1> QED BY <1>1, <1>3, <1>4, <1>7, <1>8, <1>9 DEF Laid

LEMMA LaidNext == TypeOK' /\ StackShape' => Laid'
  BY LaidIs, PTL

LEMMA NextDepth ==
  ASSUME TypeOK', NEW b \in 0..PC_stack_addr',
         \A s \in 0..b-1 : PC_stack'[s].jump, b < PC_stack_addr' => ~PC_stack'[b].jump
  PROVE  CommonDepth' = b
<1>1. PC_stack_addr' \in Nat
  BY SizesAssumption DEF TypeOK, Slots
<1> QED BY <1>1, DepthIs DEF CommonDepth

Good(w) == IInv(w) /\ AllStart

LEMMA GoodNext ==
  ASSUME NEW w, IsWidth(w), Good(w), [Next]_vars
  PROVE  Good(w)'
<1>1. IInv(w)'
  BY NextInv DEF Good
<1>2. AllStart'
  <2>1. ASSUME NEW ts \in SUBSET Threads, ts # {}, Activate(ts) PROVE AllStart'
    BY <2>1 DEF Good, AllStart, Activate, Running
  <2>2. ASSUME Step \/ Call \/ Return \/ Pop \/ \E taken \in SUBSET alu_en : BranchTogether(taken)
        PROVE  AllStart'
    BY <2>2 DEF Good, AllStart, Step, Call, Return, Pop, BranchTogether, Running, At
  <2>3. ASSUME NEW taken \in SUBSET alu_en, Diverge(taken) PROVE AllStart'
    <3>1. /\ divStack' = [divStack EXCEPT ![FirstRecord] = Later(taken),
                                          ![FirstRecord + 1] = Sooner(taken)]
          /\ FirstRecord + 1 \in 2..NRecords-1
          /\ live' = live /\ st_wf' = st_wf /\ st_wf = "active"
      BY <2>3, DivergeDoes DEF Good
    <3>2. FirstRecord \in 1..NRecords-1
      BY EnabledBounded DEF Good
    <3>3. FirstRecord # 0 /\ FirstRecord + 1 # 0
      BY <3>1, <3>2
    <3>4. divStack \in [Records -> SUBSET Threads] /\ 0 \in Records
      BY SizesAssumption DEF Good, IInv, TypeOK, Records
    <3>5. divStack'[0] = divStack[0]
      <4> HIDE DEF FirstRecord
      <4> QED BY <3>1, <3>3, <3>4
    <3> QED BY <3>1, <3>5 DEF Good, AllStart, Running
  <2>4. CASE UNCHANGED vars
    BY <2>4 DEF vars, Good, AllStart, Running
  <2> QED BY <2>1, <2>2, <2>3, <2>4 DEF Next
<1> QED BY <1>1, <1>2 DEF Good

LEMMA WhatRuns ==
  ASSUME NEW w, Good(w), st_wf = "active"
  PROVE  /\ alu_en \in SUBSET Threads /\ alu_en # {}
         /\ Place(pc, ActiveCalls) # Done
         /\ \A t \in alu_en : Where(t) = Place(pc, ActiveCalls)
<1>1. TypeOK /\ StackShape /\ NoWorkItemOnTwoPaths /\ AllStart /\ wf_active_record \in Nat
  BY SizesAssumption DEF Good, IInv, TypeOK, Records
<1>2. alu_en \in SUBSET Threads /\ alu_en # {}
  <2>1. CASE wf_active_record = 0
    BY <1>1, <2>1 DEF alu_en, TypeOK, AllStart, Running
  <2>2. CASE wf_active_record # 0
    BY <1>1, <2>2 DEF alu_en, TypeOK, NoWorkItemOnTwoPaths
  <2> QED BY <2>1, <2>2
<1>3. Place(pc, ActiveCalls) # Done
  <2>1. pc \in PCs /\ ActiveCalls \in Seq(PCs)
    BY <1>1, LaidIs, CallSeq DEF TypeOK, Laid
  <2> QED BY <2>1, DoneAssumption DEF Place
<1>4. \A t \in alu_en : Where(t) = Place(pc, ActiveCalls)
  BY <1>1, <1>2, WhereIs DEF WhereOf, alu_en, Running
<1> QED BY <1>2, <1>3, <1>4

\* where the others of a running wavefront can be
LEMMA WhoWaits ==
  ASSUME NEW w, Good(w), NEW t \in live \ alu_en
  PROVE  /\ wf_active_record > 0
         /\ \/ \E r \in 1..wf_active_record-1 : t \in divStack[r]
            \/ \A r \in 1..wf_active_record : t \notin divStack[r]
<1>1. wf_active_record \in Nat /\ t \in Threads /\ t \notin divStack[wf_active_record]
  BY SizesAssumption DEF Good, IInv, TypeOK, Records, alu_en
<1>2. wf_active_record # 0
  BY <1>1 DEF Good, AllStart
<1> QED BY <1>1, <1>2

LEMMA ActivateRefines ==
  ASSUME NEW w, Good(w), Good(w)', NEW ts \in SUBSET Threads, ts # {}, Activate(ts)
  PROVE  Alone!Next
<1>1. \A t \in Threads : Where(t) = Done
  BY DEF Where, Activate
<1>2. PC_stack_addr = 0 /\ wf_active_record = 0
  <2>1. PC_stack_addr = 0
    BY DEF Activate, Good, IInv, StateFits
  <2>2. PICK b \in Nat : b + wf_active_record <= PC_stack_addr
    BY DEF Good, IInv, StackShape, ShapeAt
  <2> QED BY <2>1, <2>2 DEF Good, IInv, TypeOK, Records
<1>3. /\ wf_active_record' = 0 /\ PC_stack_addr' = 0 /\ divStack' = divStack
      /\ live' = ts /\ pc' = 0 /\ st_wf' = "active"
  BY <1>2 DEF Activate
<1>4. ActiveCalls' = << >>
  <2>1. Laid'
    BY LaidNext DEF Good, IInv
  <2>2. ActiveCalls' \in [1..0 -> PCs]
    BY <1>3, <2>1 DEF Laid, Calls
  <2> QED BY <2>2, CallSeq
<1>5. \A t \in Threads : Where(t)' = IF t \in ts THEN Place(0, << >>) ELSE Done
  <2> TAKE t \in Threads
  <2>1. WhereOf(t)'
    BY WhereNext DEF Good, IInv
  <2>2. t \in divStack'[wf_active_record']
    BY <1>2, <1>3 DEF Good, AllStart
  <2> QED BY <1>3, <1>4, <2>1, <2>2 DEF WhereOf, Running
<1>6. Alone!Start(ts)
  BY <1>1, <1>5 DEF Alone!Start, Alone!Place, Place
<1> QED BY <1>6 DEF Alone!Next

LEMMA QuietRefines ==
  ASSUME NEW w, Good(w), Good(w)', Step \/ \E taken \in SUBSET alu_en : BranchTogether(taken)
  PROVE  Alone!Next
<1>1. /\ UNCHANGED <<st_wf, live, divStack, wf_active_record, PC_stack, PC_stack_addr>>
      /\ st_wf = "active"
  BY DEF Step, BranchTogether, At
<1>2. /\ CommonDepth' = CommonDepth /\ CommonCalls' = CommonCalls /\ ActiveCalls' = ActiveCalls
      /\ \A r : PutOff(r)' = PutOff(r)
  BY <1>1 DEF CommonDepth, CommonCalls, ActiveCalls, Calls, PutOff
<1>3. \A t \in alu_en : Where(t)' = Place(pc', ActiveCalls)
  BY <1>1, <1>2 DEF Where, alu_en
<1>4. \A t \in Threads \ alu_en : Where(t)' = Where(t)
  BY <1>1, <1>2 DEF Where, alu_en
<1>5. Place(pc', ActiveCalls) \in Alone!Follow(Place(pc, ActiveCalls))
  <2>1. Place(pc, ActiveCalls).pc = pc /\ Place(pc, ActiveCalls).calls = ActiveCalls
    BY DEF Place
  <2>2. CASE Step
    BY <2>1, <2>2, FollowIs DEF Step, At
  <2>3. CASE \E taken \in SUBSET alu_en : BranchTogether(taken)
    BY <2>1, <2>3, FollowIs DEF BranchTogether, At
  <2> QED BY <2>2, <2>3
<1> QED BY <1>1, <1>3, <1>4, <1>5, WhatRuns, Executes

LEMMA ReturnRefines ==
  ASSUME NEW w, Good(w), Good(w)', Return
  PROVE  Alone!Next
<1>1. /\ UNCHANGED <<live, pc, divStack, wf_active_record, PC_stack, PC_stack_addr>>
      /\ st_wf = "active" /\ Code[pc].op = "ret"
      /\ st_wf' = IF PC_stack_addr = 0 THEN "idle" ELSE "read_PC_stack"
  BY DEF Return, At
<1>2. /\ CommonDepth' = CommonDepth /\ CommonCalls' = CommonCalls /\ ActiveCalls' = ActiveCalls
      /\ \A r : PutOff(r)' = PutOff(r)
  BY <1>1 DEF CommonDepth, CommonCalls, ActiveCalls, Calls, PutOff
<1>3. Laid /\ wf_active_record \in Nat /\ PC_stack_addr \in Nat
  BY LaidIs, SizesAssumption DEF Good, IInv, TypeOK, Records, Slots
<1>4. PC_stack_addr = 0 => wf_active_record = 0 /\ ActiveCalls = << >>
  <2>1. ASSUME PC_stack_addr = 0 PROVE wf_active_record = 0 /\ Calls = 0
    BY <1>3, <2>1 DEF Laid, ShapeAt, Calls
  <2> QED BY <1>3, <2>1, CallSeq DEF Laid
<1>5. \A t \in alu_en : Where(t)' = Returned(ActiveCalls)
  <2>1. CASE PC_stack_addr = 0
    BY <1>1, <1>4, <2>1 DEF Where, Returned
  <2>2. CASE PC_stack_addr # 0
    BY <1>1, <1>2, <2>2 DEF Where, alu_en
  <2> QED BY <2>1, <2>2
<1>6. \A t \in Threads \ alu_en : Where(t)' = Where(t)
  <2>1. CASE PC_stack_addr = 0
    <3>1. \A t \in Threads \ alu_en : t \notin live
      BY <1>4, <2>1 DEF Good, AllStart, alu_en
    <3> QED BY <1>1, <2>1, <3>1 DEF Where
  <2>2. CASE PC_stack_addr # 0
    BY <1>1, <1>2, <2>2 DEF Where, alu_en
  <2> QED BY <2>1, <2>2
<1>7. Returned(ActiveCalls) \in Alone!Follow(Place(pc, ActiveCalls))
  <2>1. Place(pc, ActiveCalls).pc = pc /\ Place(pc, ActiveCalls).calls = ActiveCalls
    BY DEF Place
  <2> QED BY <1>1, <2>1, FollowIs
<1> QED BY <1>1, <1>5, <1>6, <1>7, WhatRuns, Executes

LEMMA CallRefines ==
  ASSUME NEW w, Good(w), Good(w)', Calls < MaxCalls, Call
  PROVE  Alone!Next
<1> DEFINE A == PC_stack_addr
           R == wf_active_record
           b == CommonDepth
<1>1. /\ R \in Nat /\ A \in Nat /\ PC_stack \in [Slots -> Entries] /\ Laid
      /\ A \in Slots /\ \A s \in 0..A : s \in Slots
  BY LaidIs, SizesAssumption DEF Good, IInv, TypeOK, Records, Slots
<1>2. A + 1 < PCStackSize
  BY <1>1, SizesAssumption, EntriesAssumption DEF Calls, Good, IInv, TypeOK, Records
<1>3. /\ PC_stack_addr' = A + 1 /\ wf_active_record' = R /\ st_wf' = st_wf /\ live' = live
      /\ divStack' = divStack /\ pc' = Code[pc].to /\ st_wf = "active" /\ Code[pc].op = "jump"
      /\ PC_stack' = [PC_stack EXCEPT ![A] = Entry(pc + 1, TRUE)]
  BY <1>1, <1>2, SizesAssumption DEF Call, At, Slot, Wrap
<1>4. /\ \A s \in 0..A-1 : PC_stack'[s] = PC_stack[s]
      /\ PC_stack'[A].jump /\ PC_stack'[A].pc = pc + 1
  BY <1>1, <1>3 DEF Entry
<1>5. /\ b \in Nat /\ b + R <= A
      /\ \A s \in 0..A-1 : PC_stack[s].jump <=> (s < b \/ s >= b + R)
      /\ R = 0 => b = A
  BY <1>1 DEF Laid, ShapeAt
<1> HIDE DEF A, R, b
<1>6. CommonDepth' = IF R = 0 THEN b + 1 ELSE b
  <2>1. CASE R = 0
    <3>1. \A s \in 0..b : PC_stack'[s].jump
      BY <1>1, <1>4, <1>5, <2>1
    <3>2. b + 1 \in 0..PC_stack_addr' /\ ~(b + 1 < PC_stack_addr') /\ (b + 1) - 1 = b
      BY <1>1, <1>3, <1>5, <2>1
    <3>3. TypeOK'
      BY DEF Good, IInv
    <3> QED BY <2>1, <3>1, <3>2, <3>3, NextDepth
  <2>2. CASE R # 0
    <3>1. b \in 0..A-1 /\ \A s \in 0..b-1 : s \in 0..A-1
      BY <1>1, <1>5, <2>2
    <3>2. ~PC_stack'[b].jump /\ \A s \in 0..b-1 : PC_stack'[s].jump
      BY <1>1, <1>4, <1>5, <2>2, <3>1
    <3>3. b \in 0..PC_stack_addr'
      BY <1>1, <1>3, <3>1
    <3> QED BY <2>2, <3>2, <3>3, NextDepth DEF Good, IInv
  <2> QED BY <2>1, <2>2
<1>7. ActiveCalls' = Append(ActiveCalls, pc + 1)
  <2> DEFINE n == Calls
             place(i) == IF i <= b THEN i - 1 ELSE i - 1 + R
             place1(i) == IF i <= CommonDepth' THEN i - 1 ELSE i - 1 + R
  <2>1. n \in Nat /\ n = A - R /\ Calls' = n + 1
    BY <1>1, <1>3, <1>5 DEF Calls, A, R
  <2>2. pc + 1 \in PCs
    BY <1>3, CodeAssumption DEF Good, IInv, TypeOK
  <2>3. Append(ActiveCalls, pc + 1) = [i \in 1..n+1 |-> IF i <= n THEN ActiveCalls[i] ELSE pc + 1]
    <3>1. ActiveCalls \in [1..n -> PCs]
      BY <1>1 DEF Laid
    <3> HIDE DEF n
    <3> QED BY <2>1, <2>2, <3>1, CallSeq
  <2>4. /\ ActiveCalls = [i \in 1..n |-> PC_stack[place(i)].pc]
        /\ ActiveCalls' = [i \in 1..n+1 |-> PC_stack'[place1(i)].pc]
    BY <1>3, <2>1 DEF ActiveCalls, R, b
  <2> HIDE DEF n
  <2>5. ASSUME NEW i \in 1..n PROVE place1(i) = place(i) /\ place(i) \in 0..A-1
    BY <1>1, <1>5, <1>6, <2>1
  <2>6. place1(n + 1) = A
    BY <1>1, <1>5, <1>6, <2>1
  <2>7. ASSUME NEW i \in 1..n+1
        PROVE  PC_stack'[place1(i)].pc = IF i <= n THEN ActiveCalls[i] ELSE pc + 1
    <3>1. CASE i = n + 1
      BY <1>4, <2>1, <2>6, <3>1
    <3>2. CASE i # n + 1
      <4>1. i \in 1..n
        BY <2>1, <3>2
      <4> HIDE DEF place, place1
      <4> QED BY <1>4, <2>4, <2>5, <4>1
    <3> QED BY <3>1, <3>2
  <2> HIDE DEF place1, place
  <2> QED BY <2>3, <2>4, <2>7
<1>8. \A t \in alu_en : Where(t)' = Place(pc', ActiveCalls')
  BY <1>3 DEF Where, alu_en, R
<1>9. \A t \in Threads \ alu_en : Where(t)' = Where(t)
  <2>1. ASSUME R # 0 PROVE CommonCalls' = CommonCalls /\ \A r \in 1..R-1 : PutOff(r)' = PutOff(r)
    <3>1. CommonDepth' = b
      BY <1>6, <2>1
    <3>2. CommonCalls' = CommonCalls
      <4>1. \A i \in 1..b : PC_stack'[i - 1].pc = PC_stack[i - 1].pc
        BY <1>1, <1>4, <1>5
      <4> QED BY <3>1, <4>1 DEF CommonCalls, b
    <3>3. ASSUME NEW r \in 1..R-1 PROVE PC_stack'[b + r].pc = PC_stack[b + r].pc
      BY <1>1, <1>4, <1>5
    <3> QED BY <3>1, <3>2, <3>3 DEF PutOff, b
  <2> TAKE t \in Threads \ alu_en
  <2>2. CASE t \notin live
    BY <1>3, <2>2 DEF Where
  <2>3. CASE t \in live
    <3>1. /\ R > 0
          /\ (\E r \in 1..R-1 : t \in divStack[r]) \/ (\A r \in 1..R : t \notin divStack[r])
      BY <1>3, <2>3, WhoWaits DEF Running, R
    <3>2. WhereOf(t) /\ WhereOf(t)'
      BY WhereIs, WhereNext DEF Good, IInv
    <3> QED BY <1>1, <1>3, <2>1, <2>3, <3>1, <3>2 DEF WhereOf, Running, R
  <2> QED BY <2>2, <2>3
<1>10. Place(pc', ActiveCalls') \in Alone!Follow(Place(pc, ActiveCalls))
  <2>1. Place(pc, ActiveCalls).pc = pc /\ Place(pc, ActiveCalls).calls = ActiveCalls
    BY DEF Place
  <2> QED BY <1>3, <1>7, <2>1, FollowIs
<1> QED BY <1>3, <1>8, <1>9, <1>10, WhatRuns, Executes

LEMMA DivergeRefines ==
  ASSUME NEW w, IsWidth(w), Good(w), Good(w)',
         NEW taken \in SUBSET alu_en, ~CalledOnOnePath, Diverge(taken)
  PROVE  Alone!Next
<1> DEFINE A == PC_stack_addr
           R == wf_active_record
           k == Copies
           c == CommonDepth
<1>1. /\ R \in Nat /\ A \in Nat /\ PC_stack \in [Slots -> Entries] /\ Laid
      /\ \A s \in 0..A : s \in Slots
      /\ divStack \in [Records -> SUBSET Threads] /\ live \in SUBSET Threads
  BY LaidIs, SizesAssumption DEF Good, IInv, TypeOK, Records, Slots
<1>2. PICK F \in Int : /\ F = FirstRecord
                       /\ F + 1 \in 2..NRecords-1 /\ A + k < PCStackSize
                       /\ k \in 1..2 /\ F + 1 = R + k /\ F = IF R = 0 THEN 1 ELSE R
  <2>1. /\ FirstRecord + 1 \in 2..NRecords-1 /\ A + k < PCStackSize
        /\ k \in 1..2 /\ FirstRecord + 1 = R + k /\ FirstRecord = IF R = 0 THEN 1 ELSE R
    BY DivergeDoes DEF Good
  <2>2. FirstRecord \in Int
    <3> HIDE DEF k, R
    <3> QED BY <1>1, <2>1
  <2> HIDE DEF A, k, R
  <2> QED BY <2>1, <2>2
<1>3. /\ divStack' = [divStack EXCEPT ![F] = Later(taken), ![F + 1] = Sooner(taken)]
      /\ wf_active_record' = F + 1 /\ PC_stack_addr' = A + k
      /\ PC_stack' = [PC_stack EXCEPT ![A] = Entry(LaterPC(taken), FALSE),
                                      ![A + k - 1] = Entry(LaterPC(taken), FALSE)]
      /\ pc' = SoonerPC(taken) /\ live' = live /\ st_wf' = st_wf /\ st_wf = "active"
  BY <1>2, DivergeDoes DEF Good
<1>4. c \in Nat /\ c + R = A /\ \A s \in 0..A-1 : PC_stack[s].jump <=> s < c
  <2>1. PICK b \in Nat : b + R = A /\ ShapeAt(b)
    BY PathOnTop DEF Good
  <2>2. /\ c \in Nat /\ c + R <= A
        /\ \A s \in 0..A-1 : PC_stack[s].jump <=> (s < c \/ s >= c + R)
        /\ R = 0 => c = A
    BY <1>1 DEF Laid, ShapeAt
  <2>3. c + R = A
    <3>1. CASE R = 0
      BY <1>1, <2>2, <3>1
    <3>2. CASE R # 0
      <4>1. ~PC_stack[A - 1].jump
        BY <1>1, <2>1, <3>2 DEF ShapeAt
      <4> HIDE DEF A, R, c
      <4> QED BY <1>1, <2>2, <3>2, <4>1
    <3> QED BY <3>1, <3>2
  <2> HIDE DEF A, R, c
  <2> QED BY <1>1, <2>2, <2>3
<1> HIDE DEF A, R, k, c
<1>5. /\ \A s \in 0..A-1 : PC_stack'[s] = PC_stack[s]
      /\ PC_stack'[A] = Entry(LaterPC(taken), FALSE)
      /\ PC_stack'[A + k - 1] = Entry(LaterPC(taken), FALSE)
  <2>1. A \in Slots /\ A + k - 1 \in Slots
    BY <1>1, <1>2, SizesAssumption DEF Slots
  <2>2. ASSUME NEW s \in 0..A-1 PROVE s \in Slots /\ s # A /\ s # A + k - 1
    BY <1>1, <1>2
  <2>3. \A s \in 0..A-1 : PC_stack'[s] = PC_stack[s]
    BY <1>1, <1>3, <2>1, <2>2
  <2>4. PC_stack'[A + k - 1] = Entry(LaterPC(taken), FALSE)
    BY <1>1, <1>3, <2>1
  <2>5. PC_stack'[A] = Entry(LaterPC(taken), FALSE)
    BY <1>1, <1>3, <2>1
  <2> QED BY <2>3, <2>4, <2>5
<1>6. CommonDepth' = c
  <2>1. \A s \in 0..c-1 : PC_stack'[s].jump
    BY <1>1, <1>4, <1>5
  <2>2. ~PC_stack'[c].jump
    <3>1. CASE R = 0
      BY <1>1, <1>4, <1>5, <3>1 DEF Entry
    <3>2. CASE R # 0
      BY <1>1, <1>4, <1>5, <3>2
    <3> QED BY <3>1, <3>2
  <2>3. c \in 0..PC_stack_addr'
    BY <1>1, <1>2, <1>3, <1>4
  <2>4. TypeOK'
    BY DEF Good, IInv
  <2> QED BY <2>1, <2>2, <2>3, <2>4, NextDepth
<1>7. CommonCalls' = CommonCalls /\ ActiveCalls = CommonCalls /\ ActiveCalls' = CommonCalls
  <2>1. Calls = c /\ Calls' = c
    BY <1>1, <1>2, <1>3, <1>4 DEF Calls, A, R
  <2>2. \A i \in 1..c : PC_stack'[i - 1].pc = PC_stack[i - 1].pc
    BY <1>1, <1>4, <1>5
  <2>3. CommonCalls' = CommonCalls
    BY <1>6, <2>2 DEF CommonCalls, c
  <2>4. ActiveCalls = CommonCalls
    BY <1>4, <2>1 DEF ActiveCalls, CommonCalls, c
  <2>5. ActiveCalls' = CommonCalls'
    BY <1>4, <1>6, <2>1 DEF ActiveCalls, CommonCalls
  <2> QED BY <2>3, <2>4, <2>5
<1>8. /\ PutOff(F)' = Place(LaterPC(taken), CommonCalls)
      /\ \A r \in 1..F-1 : r \in 1..R-1 /\ PutOff(r)' = PutOff(r)
  <2>1. PC_stack'[c + F].pc = LaterPC(taken)
    <3>1. c + F = A + k - 1
      BY <1>1, <1>2, <1>4
    <3> QED BY <1>5, <3>1 DEF Entry
  <2>2. ASSUME NEW r \in 1..F-1 PROVE r \in 1..R-1 /\ PC_stack'[c + r].pc = PC_stack[c + r].pc
    <3>1. r \in 1..R-1
      BY <1>1, <1>2
    <3>2. c + r \in 0..A-1
      BY <1>1, <1>4, <3>1
    <3> QED BY <1>5, <3>1, <3>2
  <2> QED BY <1>6, <1>7, <2>1, <2>2 DEF PutOff, c
<1>9. /\ divStack'[F] = Later(taken) /\ divStack'[F + 1] = Sooner(taken)
      /\ \A r \in 1..F-1 : divStack'[r] = divStack[r]
  <2>1. F \in Records /\ F + 1 \in Records /\ F \in Nat /\ F # F + 1 /\ \A r \in 1..F-1 : r # F /\ r # F + 1
    BY <1>1, <1>2, SizesAssumption DEF Records
  <2>2. \A r \in 1..F-1 : r \in Records
    BY <1>1, <1>2, SizesAssumption DEF Records
  <2> QED BY <1>1, <1>3, <2>1, <2>2
<1>10. /\ Later(taken) \in SUBSET alu_en /\ Sooner(taken) = alu_en \ Later(taken)
       /\ alu_en \in SUBSET live
  BY <1>1, PartsOfABranch DEF Diverge, alu_en, Sooner
<1>11. ASSUME NEW t \in Threads PROVE WhereOf(t) /\ WhereOf(t)'
  BY WhereIs, WhereNext DEF Good, IInv
<1>12. \A t \in Later(taken) : Where(t)' = Place(LaterPC(taken), ActiveCalls)
  <2> TAKE t \in Later(taken)
  <2>1. F \in 1..wf_active_record'-1 /\ t \in divStack'[F] /\ t \in Threads /\ t \in live
    BY <1>1, <1>2, <1>3, <1>9, <1>10
  <2> QED BY <1>3, <1>7, <1>8, <1>11, <2>1 DEF WhereOf, Running
<1>13. \A t \in Sooner(taken) : Where(t)' = Place(SoonerPC(taken), ActiveCalls)
  <2> TAKE t \in Sooner(taken)
  <2>1. t \in divStack'[wf_active_record'] /\ t \in Threads /\ t \in live
    BY <1>1, <1>3, <1>9, <1>10
  <2> QED BY <1>3, <1>7, <1>11, <2>1 DEF WhereOf, Running
<1>14. \A t \in Threads \ alu_en : Where(t)' = Where(t)
  <2> TAKE t \in Threads \ alu_en
  <2>1. CASE t \notin live
    BY <1>3, <1>11, <2>1 DEF WhereOf
  <2>2. CASE t \in live
    <3>1. /\ R > 0
          /\ (\E r \in 1..R-1 : t \in divStack[r]) \/ (\A r \in 1..R : t \notin divStack[r])
      BY <1>3, <2>2, WhoWaits DEF Running, R
    <3>2. F = R
      BY <1>1, <1>2, <3>1
    <3>3. ASSUME NEW r \in 1..R-1, t \in divStack[r] PROVE Where(t)' = Where(t)
      <4>1. Where(t) = PutOff(r)
        BY <1>3, <1>11, <2>2, <3>3 DEF WhereOf, Running, R
      <4>2. r \in 1..wf_active_record'-1 /\ t \in divStack'[r]
        <5>1. r \in 1..F-1 /\ r \in 1..F
          BY <1>1, <3>2, <3>3
        <5>2. F + 1 - 1 = F
          BY <1>2
        <5>3. wf_active_record'-1 = F
          BY <1>3, <5>2
        <5> QED BY <1>9, <3>3, <5>1, <5>3
      <4>3. Where(t)' = PutOff(r)'
        BY <1>3, <1>11, <2>2, <4>2 DEF WhereOf, Running
      <4> QED BY <1>8, <3>2, <4>1, <4>3
    <3>4. ASSUME \A r \in 1..R : t \notin divStack[r] PROVE Where(t)' = Where(t)
      <4>1. Where(t) = Returned(CommonCalls)
        BY <1>3, <1>11, <2>2, <3>1, <3>4 DEF WhereOf, Running, R
      <4>2. \A r \in 1..wf_active_record' : t \notin divStack'[r]
        <5> TAKE r \in 1..wf_active_record'
        <5>1. r \in 1..F-1 \/ r = F \/ r = F + 1
          BY <1>1, <1>2, <1>3
        <5>2. \A q \in 1..F-1 : q \in 1..R
          BY <1>1, <3>2
        <5> QED BY <1>9, <1>10, <3>4, <5>1, <5>2
      <4>3. wf_active_record' > 0
        BY <1>2, <1>3
      <4>4. Where(t)' = Returned(CommonCalls)'
        BY <1>3, <1>11, <2>2, <4>2, <4>3 DEF WhereOf, Running
      <4> QED BY <1>7, <4>1, <4>4
    <3> QED BY <3>1, <3>3, <3>4
  <2> QED BY <2>1, <2>2
<1>15. /\ Place(LaterPC(taken), ActiveCalls) \in Alone!Follow(Place(pc, ActiveCalls))
       /\ Place(SoonerPC(taken), ActiveCalls) \in Alone!Follow(Place(pc, ActiveCalls))
  <2>1. Place(pc, ActiveCalls).pc = pc /\ Place(pc, ActiveCalls).calls = ActiveCalls
    BY DEF Place
  <2>2. Alone!Follow(Place(pc, ActiveCalls))
          = {Place(pc + 1, ActiveCalls), Place(Code[pc].to, ActiveCalls)}
    BY <2>1, FollowIs DEF Diverge, At
  <2> QED BY <2>2 DEF LaterPC, SoonerPC
<1>16. \A t \in alu_en : Where(t)' \in Alone!Follow(Place(pc, ActiveCalls))
  BY <1>10, <1>12, <1>13, <1>15
<1> QED BY <1>3, <1>14, <1>16, WhatRuns, Executes

LEMMA PopDoes ==
  ASSUME NEW w, Good(w), Pop
  PROVE  /\ PC_stack_addr > 0 /\ PC_stack_addr' = PC_stack_addr - 1 /\ PC_stack' = PC_stack
         /\ divStack' = divStack /\ live' = live /\ pc' = PC_stack[PC_stack_addr - 1].pc
         /\ \/ /\ PC_stack[PC_stack_addr - 1].jump
               /\ st_wf' = "active" /\ wf_active_record' = wf_active_record
               /\ wf_active_record # 0 => CommonDepth + wf_active_record < PC_stack_addr
            \/ /\ ~PC_stack[PC_stack_addr - 1].jump
               /\ wf_active_record > 0 /\ wf_active_record' = wf_active_record - 1
               /\ CommonDepth + wf_active_record = PC_stack_addr
               /\ st_wf' = IF wf_active_record # 1 THEN "active"
                           ELSE IF PC_stack_addr = 1 THEN "idle" ELSE "read_PC_stack"
<1> DEFINE A == PC_stack_addr
           R == wf_active_record
<1>1. /\ R \in 0..NRecords-1 /\ A \in 1..PCStackSize-1 /\ Laid
      /\ NRecords \in Nat /\ PCStackSize \in Nat
  BY LaidIs, SizesAssumption DEF Good, IInv, TypeOK, Records, Slots, StateFits, Pop
<1>2. Top = A - 1 /\ Popped = PC_stack[A - 1]
  BY <1>1 DEF Top, Popped, Slot, Wrap
<1>3. /\ CommonDepth \in Nat /\ CommonDepth + R <= A /\ (R = 0 => CommonDepth = A)
      /\ PC_stack[A - 1].jump <=> (A - 1 < CommonDepth \/ A - 1 >= CommonDepth + R)
  BY <1>1 DEF Laid, ShapeAt
<1>4. CASE PC_stack[A - 1].jump
  <2>1. R # 0 => CommonDepth + R < A
    BY <1>1, <1>3, <1>4
  <2> QED BY <1>1, <1>2, <1>4, <2>1 DEF Pop, EndsLastPath
<1>5. CASE ~PC_stack[A - 1].jump
  <2>1. R > 0 /\ CommonDepth + R = A
    BY <1>1, <1>3, <1>5
  <2>2. Rec(R - 1 + NRecords) = R - 1
    BY <1>1, <2>1 DEF Rec, Wrap
  <2>3. Top = 0 <=> A = 1
    BY <1>1, <1>2
  <2> QED BY <1>1, <1>2, <1>5, <2>1, <2>2, <2>3 DEF Pop, EndsLastPath
<1> QED BY <1>4, <1>5

LEMMA ReturnFromCallStutters ==
  ASSUME NEW w, Good(w), Good(w)', Pop, PC_stack[PC_stack_addr - 1].jump,
         NEW t \in Threads
  PROVE  Where(t)' = Where(t)
<1> DEFINE A == PC_stack_addr
           R == wf_active_record
           b == CommonDepth
           n == Calls
           place(i) == IF i <= b THEN i - 1 ELSE i - 1 + R
           place1(i) == IF i <= CommonDepth' THEN i - 1 ELSE i - 1 + R
<1>1. /\ R \in Nat /\ A \in Nat /\ A > 0 /\ Laid /\ n = A - R
  BY LaidIs, PopDoes, SizesAssumption DEF Good, IInv, TypeOK, Records, Slots, Calls
<1>2. /\ PC_stack_addr' = A - 1 /\ PC_stack' = PC_stack /\ divStack' = divStack /\ live' = live
      /\ pc' = PC_stack[A - 1].pc /\ st_wf' = "active" /\ wf_active_record' = R
      /\ R # 0 => b + R < A
      /\ st_wf = "read_PC_stack"
  BY PopDoes DEF Pop
<1>3. /\ b \in Nat /\ (R = 0 => b = A) /\ b + R <= A /\ n \in Nat
      /\ \A s \in 0..A-1 : PC_stack[s].jump <=> (s < b \/ s >= b + R)
      /\ ActiveCalls \in [1..n -> PCs]
  BY <1>1 DEF Laid, ShapeAt
<1>4. Calls' = n - 1 /\ n > 0
  <2>1. Calls' = A - 1 - R
    BY <1>2 DEF Calls
  <2> HIDE DEF A, R, b, n
  <2> QED BY <1>1, <1>2, <1>3, <2>1
<1>5. /\ ActiveCalls = [i \in 1..n |-> PC_stack[place(i)].pc]
      /\ ActiveCalls' = [i \in 1..n-1 |-> PC_stack[place1(i)].pc]
  BY <1>2, <1>4 DEF ActiveCalls
<1> HIDE DEF A, R, b, n
<1>6. CommonDepth' = IF R = 0 THEN A - 1 ELSE b
  <2>1. TypeOK'
    BY DEF Good, IInv
  <2>2. CASE R = 0
    <3>1. A - 1 \in 0..PC_stack_addr' /\ ~(A - 1 < PC_stack_addr')
      BY <1>1, <1>2
    <3>2. \A s \in 0..A-1-1 : PC_stack'[s].jump
      BY <1>1, <1>2, <1>3, <2>2
    <3> QED BY <2>1, <2>2, <3>1, <3>2, NextDepth
  <2>3. CASE R # 0
    <3>1. b \in 0..PC_stack_addr' /\ b \in 0..A-1 /\ \A s \in 0..b-1 : s \in 0..A-1
      BY <1>1, <1>2, <1>3, <2>3
    <3>2. ~PC_stack'[b].jump /\ \A s \in 0..b-1 : PC_stack'[s].jump
      BY <1>1, <1>2, <1>3, <2>3, <3>1
    <3> QED BY <2>1, <2>3, <3>1, <3>2, NextDepth
  <2> QED BY <2>2, <2>3
<1>7. Returned(ActiveCalls) = Place(pc', ActiveCalls')
  <2>1. ActiveCalls # << >> /\ Last(ActiveCalls) = ActiveCalls[n]
          /\ Front(ActiveCalls) = [i \in 1..n-1 |-> ActiveCalls[i]]
    <3>1. n \in Nat /\ n > 0 /\ n # 0 /\ ActiveCalls \in [1..n -> PCs]
      BY <1>3, <1>4
    <3>2. /\ ActiveCalls = << >> <=> n = 0
          /\ n > 0 => /\ Last(ActiveCalls) = ActiveCalls[n]
                      /\ Front(ActiveCalls) = [i \in 1..n-1 |-> ActiveCalls[i]]
      BY <3>1, CallSeq
    <3> QED BY <3>1, <3>2
  <2>2. place(n) = A - 1 /\ n \in 1..n
    BY <1>1, <1>2, <1>3, <1>4
  <2>3. ASSUME NEW i \in 1..n-1 PROVE place1(i) = place(i) /\ i \in 1..n
    BY <1>1, <1>3, <1>6
  <2> HIDE DEF place, place1
  <2>4. ActiveCalls[n] = pc'
    BY <1>2, <1>5, <2>2
  <2>5. Front(ActiveCalls) = ActiveCalls'
    BY <1>5, <2>1, <2>3
  <2> QED BY <2>1, <2>4, <2>5 DEF Returned
<1>8. WhereOf(t) /\ WhereOf(t)'
  BY WhereIs, WhereNext DEF Good, IInv
<1>9. CASE t \notin live
  BY <1>2, <1>8, <1>9 DEF WhereOf
<1>10. CASE t \in alu_en
  BY <1>2, <1>7, <1>8, <1>10 DEF WhereOf, Running, alu_en, R
<1>11. CASE t \in live \ alu_en
  <2>1. /\ R > 0
        /\ (\E r \in 1..R-1 : t \in divStack[r]) \/ (\A r \in 1..R : t \notin divStack[r])
    BY <1>11, WhoWaits DEF R
  <2>2. CommonDepth' = b
    BY <1>6, <2>1
  <2>3. CommonCalls' = CommonCalls /\ \A r \in 1..R-1 : PutOff(r)' = PutOff(r)
    BY <1>2, <2>2 DEF CommonCalls, PutOff, b
  <2> QED BY <1>2, <1>8, <1>11, <2>1, <2>3 DEF WhereOf, Running, R
<1> QED BY <1>9, <1>10, <1>11

LEMMA EndOfPathStutters ==
  ASSUME NEW w, Good(w), Good(w)', Pop, ~PC_stack[PC_stack_addr - 1].jump,
         NEW t \in Threads
  PROVE  Where(t)' = Where(t)
<1> DEFINE A == PC_stack_addr
           R == wf_active_record
           b == CommonDepth
<1>1. /\ R \in Nat /\ R > 0 /\ A \in Nat /\ Laid
      /\ PC_stack_addr' = A - 1 /\ PC_stack' = PC_stack /\ divStack' = divStack /\ live' = live
      /\ pc' = PC_stack[A - 1].pc /\ wf_active_record' = R - 1 /\ b + R = A
      /\ st_wf' = IF R # 1 THEN "active" ELSE IF A = 1 THEN "idle" ELSE "read_PC_stack"
      /\ st_wf = "read_PC_stack"
  BY LaidIs, PopDoes, SizesAssumption DEF Good, IInv, TypeOK, Records, Slots, Pop
<1>2. b \in Nat /\ \A s \in 0..A-1 : PC_stack[s].jump <=> (s < b \/ s >= b + R)
  BY <1>1 DEF Laid, ShapeAt
<1>3. Calls = b /\ Calls' = b
  <2>1. Calls = A - R /\ Calls' = A - 1 - (R - 1)
    BY <1>1 DEF Calls
  <2> HIDE DEF A, R, b
  <2> QED BY <1>1, <1>2, <2>1
<1> HIDE DEF A, R, b
<1>4. CommonDepth' = b
  <2>1. b \in 0..PC_stack_addr' /\ \A s \in 0..b-1 : PC_stack'[s].jump
    BY <1>1, <1>2
  <2>2. b < PC_stack_addr' => ~PC_stack'[b].jump
    BY <1>1, <1>2
  <2>3. TypeOK'
    BY DEF Good, IInv
  <2> QED BY <2>1, <2>2, <2>3, NextDepth
<1>5. /\ CommonCalls' = CommonCalls /\ ActiveCalls = CommonCalls /\ ActiveCalls' = CommonCalls
      /\ \A r \in 1..R-1 : PutOff(r)' = PutOff(r)
  <2>1. CommonCalls' = CommonCalls
    BY <1>1, <1>4 DEF CommonCalls, b
  <2>2. ActiveCalls = CommonCalls
    BY <1>2, <1>3 DEF ActiveCalls, CommonCalls, b
  <2>3. ActiveCalls' = CommonCalls'
    BY <1>2, <1>3, <1>4 DEF ActiveCalls, CommonCalls
  <2>4. \A r \in 1..R-1 : PutOff(r)' = PutOff(r)
    BY <1>1, <1>4, <2>1 DEF PutOff, b
  <2> QED BY <2>1, <2>2, <2>3, <2>4
<1>6. WhereOf(t) /\ WhereOf(t)'
  BY WhereIs, WhereNext DEF Good, IInv
<1>7. CASE t \notin live
  BY <1>1, <1>6, <1>7 DEF WhereOf
\* of the work-items not put off, all have returned to the common caller
<1>8. ASSUME t \in live, \A r \in 1..R-1 : t \notin divStack[r]
      PROVE  Where(t) = Returned(CommonCalls)
  <2>1. CASE t \in divStack[R]
    BY <1>1, <1>5, <1>6, <1>8, <2>1 DEF WhereOf, Running, R
  <2>2. CASE t \notin divStack[R]
    <3>1. \A r \in 1..R : t \notin divStack[r]
      BY <1>1, <1>8, <2>2
    <3> QED BY <1>1, <1>6, <1>8, <3>1 DEF WhereOf, Running, R
  <2> QED BY <2>1, <2>2
<1>9. CASE t \in live /\ R = 1
  <2>1. Where(t) = Returned(CommonCalls)
    BY <1>1, <1>8, <1>9
  <2>2. CASE A = 1
    <3>1. b = 0 /\ st_wf' = "idle"
      BY <1>1, <1>2, <1>9, <2>2
    <3>2. CommonCalls = << >>
      BY <1>1, <3>1, CallSeq DEF Laid, b
    <3> QED BY <1>6, <2>1, <3>1, <3>2 DEF WhereOf, Running, Returned
  <2>3. CASE A # 1
    <3>1. t \in divStack'[wf_active_record']
      BY <1>1, <1>9 DEF Good, AllStart
    <3>2. Where(t)' = Returned(ActiveCalls')
      BY <1>1, <1>6, <1>9, <2>3, <3>1 DEF WhereOf, Running
    <3> QED BY <1>5, <2>1, <3>2
  <2> QED BY <2>2, <2>3
<1>10. CASE t \in live /\ R # 1
  <2>1. st_wf' = "active" /\ wf_active_record' > 0 /\ wf_active_record' = R - 1
    BY <1>1, <1>10
  <2>2. CASE \A r \in 1..R-1 : t \notin divStack[r]
    <3>1. Where(t)' = Returned(CommonCalls)'
      BY <1>1, <1>6, <1>10, <2>1, <2>2 DEF WhereOf, Running
    <3> QED BY <1>5, <1>8, <1>10, <2>2, <3>1
  <2>3. ASSUME NEW r \in 1..R-1, t \in divStack[r] PROVE Where(t)' = Where(t)
    <3>1. Where(t) = PutOff(r)
      BY <1>1, <1>6, <1>10, <2>3 DEF WhereOf, Running, R
    <3>2. CASE r = R - 1
      <4>1. Where(t)' = Place(pc', ActiveCalls')
        BY <1>1, <1>6, <1>10, <2>1, <2>3, <3>2 DEF WhereOf, Running
      <4>2. b + r = A - 1
        BY <1>1, <1>2, <3>2
      <4> QED BY <1>1, <1>5, <3>1, <4>1, <4>2 DEF PutOff, b
    <3>3. CASE r # R - 1
      <4>1. r \in 1..wf_active_record'-1
        BY <1>1, <2>1, <3>3
      <4>2. Where(t)' = PutOff(r)'
        BY <1>1, <1>6, <1>10, <2>1, <2>3, <4>1 DEF WhereOf, Running
      <4> QED BY <1>5, <3>1, <4>2
    <3> QED BY <3>2, <3>3
  <2> QED BY <2>2, <2>3
<1> QED BY <1>7, <1>9, <1>10

LEMMA NextRefines ==
  ASSUME NEW w, IsWidth(w), Good(w), Good(w)', [Next]_vars
  PROVE  [Alone!Next]_([t \in Threads |-> Where(t)])
<1>1. ASSUME NEW ts \in SUBSET Threads, ts # {}, Activate(ts) PROVE Alone!Next
  BY <1>1, ActivateRefines
<1>2. ASSUME Step \/ \E taken \in SUBSET alu_en : BranchTogether(taken) PROVE Alone!Next
  BY <1>2, QuietRefines
<1>3. ASSUME Calls < MaxCalls, Call PROVE Alone!Next
  BY <1>3, CallRefines
<1>4. ASSUME NEW taken \in SUBSET alu_en, ~CalledOnOnePath, Diverge(taken) PROVE Alone!Next
  BY <1>4, DivergeRefines
<1>5. ASSUME Return PROVE Alone!Next
  BY <1>5, ReturnRefines
<1>6. ASSUME Pop PROVE UNCHANGED [t \in Threads |-> Where(t)]
  <2>1. \A t \in Threads : Where(t)' = Where(t)
    BY <1>6, ReturnFromCallStutters, EndOfPathStutters
  <2> QED BY <2>1
<1>7. ASSUME UNCHANGED vars PROVE UNCHANGED [t \in Threads |-> Where(t)]
  BY <1>7 DEF vars, Where, ActiveCalls, CommonCalls, CommonDepth, Calls, PutOff
<1> QED BY <1>1, <1>2, <1>3, <1>4, <1>5, <1>6, <1>7 DEF Next

\* A wavefront is as good as independent work-items (st_wf and the PC stack,
\* CU_scheduler_vliw.vhd 612-700 and 940-1150): for every program, wavefront and size
\* of the stacks, each work-item executes exactly the instructions its own branches
\* lead it through, and the wavefront retires when the last one is done.
THEOREM WavefrontIsItsWorkItems == Spec => RunsEveryWorkItem
<1>1. PICK w : IsWidth(w)
  BY RecordsAssumption DEF IsWidth
<1>2. Init => Good(w) /\ Alone!Init
  <2> SUFFICES ASSUME Init PROVE Good(w) /\ Alone!Init
    OBVIOUS
  <2>1. IInv(w)
    BY <1>1, InitInv
  <2>2. AllStart
    BY SizesAssumption DEF Init, AllStart, Running, Records
  <2>3. \A t \in Threads : Where(t) = Done
    BY DEF Init, Where
  <2> QED BY <2>1, <2>2, <2>3 DEF Good, Alone!Init
<1>3. Good(w) /\ [Next]_vars => Good(w)'
  BY <1>1, GoodNext
<1>4. Good(w) /\ Good(w)' /\ [Next]_vars => [Alone!Next]_([t \in Threads |-> Where(t)])
  BY <1>1, NextRefines
<1> QED BY <1>2, <1>3, <1>4, PTL DEF Spec, RunsEveryWorkItem, Alone!Spec
=============================================================================
