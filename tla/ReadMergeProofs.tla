-------------------------- MODULE ReadMergeProofs ---------------------------
(***************************************************************************)
(* A memory controller answers every load once, with its number and its    *)
(* line, for every number of receivers, every program and every depth of   *)
(* metaQ above what the memory takes in.                                   *)
(*                                                                         *)
(* The argument: metaQ and the reads in the memory, each with the register *)
(* in front of it, move in lockstep, so that entry and line of the same    *)
(* place belong together; and a number is in one place at a time, in one   *)
(* waiting receiver or in one entry, because a receiver that was told      *)
(* counts as waiting no more in the cycle in which its entry is made.      *)
(***************************************************************************)
EXTENDS ReadMerge, SequenceTheorems, WellFoundedInduction, TLAPS

Receiving == [st : {"idle", "back"}, load : {None}] \cup [st : {"go", "read"}, load : Loads]
Entries == [Units -> Tags \cup {None}]

\* the receivers of a unit whose load has no entry yet
Waits(i) == {q \in RcvsOf(i) : rcv[q].st \in {"go", "read"}} \ read_ack

\* an entry's number for a unit
Has(i, k) == k \in 1..Len(Metas) /\ Metas[k][i] # None

\* the numbers of a unit: each is in one place, in a waiting receiver or in an entry
Numbers(i) ==
  /\ \A r \in Waits(i) : rcv[r].load.tag <= issued[i]
  /\ \A k \in 1..Len(Metas) : Has(i, k) => Metas[k][i] <= issued[i]
  /\ \A q, r \in Waits(i) : rcv[q].load.tag = rcv[r].load.tag => q = r
  /\ \A r \in Waits(i), k \in 1..Len(Metas) : Has(i, k) => rcv[r].load.tag # Metas[k][i]
  /\ \A j, k \in 1..Len(Metas) : Has(i, j) /\ Metas[j][i] = Metas[k][i] => j = k

RInv == TypeOK /\ EntryForEveryRead

-----------------------------------------------------------------------------
(* Choices *)

LEMMA Smallest ==
  ASSUME NEW T \in SUBSET Nat, T # {}
  PROVE  \E x \in T : \A y \in T : x <= y
<1> DEFINE R == OpToRel(<, Nat)
<1>1. \E x \in T : \A y \in T : ~(<<y, x>> \in R)
  <2>1. IsWellFoundedOn(R, Nat)
    BY NatLessThanWellFounded
  <2> HIDE DEF R
  <2> QED
    BY <2>1, WFMin
<1>2. \A x, y \in Nat : <<y, x>> \in R <=> y < x
  BY DEF OpToRel
<1> HIDE DEF R
<1>3. \A x \in T : x \in Nat
  OBVIOUS
<1>4. \A x, y \in Nat : ~(y < x) => x <= y
  OBVIOUS
<1> QED
  BY <1>1, <1>2, <1>3, <1>4

LEMMA MinIn == ASSUME NEW T \in SUBSET Rcvs, T # {} PROVE MinOf(T) \in T
<1>1. T \in SUBSET Nat
  BY DEF Rcvs
<1>2. \E x \in T : \A y \in T : x <= y
  BY <1>1, Smallest
<1> QED
  BY <1>2 DEF MinOf

LEMMA MaxIn == ASSUME NEW T \in SUBSET Rcvs, T # {} PROVE MaxOf(T) \in T
<1> DEFINE U == {NAll - x : x \in T}
<1>1. NAll \in Nat
  BY SizesAssumption DEF NAll
<1>2. \A x \in T : x \in Nat /\ NAll - x \in Nat
  BY <1>1 DEF Rcvs
<1>3. U \in SUBSET Nat /\ U # {}
  BY <1>2
<1>4. PICK u \in U : \A y \in U : u <= y
  BY <1>3, Smallest
<1>5. PICK x \in T : u = NAll - x
  BY <1>4
<1>6. \A y \in T : NAll - x <= NAll - y
  BY <1>4, <1>5
<1>7. \A y \in T : y <= x
  BY <1>1, <1>2, <1>6
<1> QED
  BY <1>7 DEF MaxOf

LEMMA UnitsOfReceivers ==
  /\ Units = {0, 1} /\ NReceivers \in Nat /\ NReceivers > 0
  /\ \A i \in Units : RcvsOf(i) \subseteq Rcvs
  /\ \A i \in Units : \A r \in RcvsOf(i) : UnitOf(r) = i
  /\ \A r \in Rcvs : UnitOf(r) \in Units /\ r \in RcvsOf(UnitOf(r))
  /\ RcvsOf(0) \cap RcvsOf(1) = {}
<1>1. NReceivers \in Nat /\ NReceivers > 0
  BY SizesAssumption
<1>2. RcvsOf(0) = 0..NReceivers-1 /\ RcvsOf(1) = NReceivers..2*NReceivers-1
  BY <1>1 DEF RcvsOf
<1>3. \A r \in 0..NReceivers-1 : r \div NReceivers = 0
  BY <1>1
<1>4. \A r \in NReceivers..2*NReceivers-1 : r \div NReceivers = 1
  BY <1>1
<1>5. Rcvs = RcvsOf(0) \cup RcvsOf(1)
  BY <1>1, <1>2 DEF Rcvs, NAll
<1>6. \A i \in Units : \A r \in RcvsOf(i) : UnitOf(r) = i
  BY <1>2, <1>3, <1>4 DEF UnitOf, Units
<1> QED
  BY <1>1, <1>2, <1>5, <1>6 DEF Units

-----------------------------------------------------------------------------
(* Types *)

LEMMA ReceiverTypes ==
  ASSUME TypeOK, NEW r \in Rcvs
  PROVE  /\ rcv[r] \in Receiving
         /\ rcv[r].st \in {"idle", "back", "go", "read"}
         /\ rcv[r].st \in {"go", "read"} =>
              rcv[r].load \in Loads /\ rcv[r].load.tag \in Nat /\ rcv[r].load.line \in Lines
<1>1. rcv[r] \in Receiving
  BY DEF TypeOK, Receiving
<1> QED
  BY <1>1 DEF Receiving, Loads, Tags

LEMMA NewLoad ==
  ASSUME TypeOK, NEW i \in Units, issued[i] < Len(program[i])
  PROVE  Load(i) \in Loads /\ Load(i).tag = issued[i] + 1 /\ issued[i] + 1 \in 0..Len(program[i])
<1>1. program[i] \in Seq(Lines) /\ issued[i] \in 0..Len(program[i])
  BY ProgramsAssumption DEF TypeOK
<1>2. Len(program[i]) \in Nat /\ issued[i] + 1 \in 1..Len(program[i])
  BY <1>1
<1>3. program[i][issued[i] + 1] \in Lines
  BY <1>1, <1>2, ElementOfSeq
<1> QED
  BY <1>1, <1>2, <1>3 DEF Load, Loads, Tags

\* how a receiver moves
Goes(r, asked) ==
  LET s == rcv[r]
      n == Receiver(r, asked)
  IN /\ n \in Receiving
     /\ s.st = "back" => n = Idle
     /\ s.st = "idle" =>
          \/ n = Idle
          \/ /\ UnitOf(r) \in asked /\ r = MaxOf(Free(UnitOf(r)))
             /\ n.st = "go" /\ n.load = Load(UnitOf(r))
     /\ s.st = "go" => n.st = "read" /\ n.load = s.load
     /\ s.st = "read" /\ r \in read_ack => n = Back
     /\ s.st = "read" /\ r \notin read_ack => n.st = "read" /\ n.load = s.load

LEMMA ReceiverStep ==
  ASSUME TypeOK, NEW asked \in SUBSET Units, NEW r \in Rcvs,
         \A i \in asked : issued[i] < Len(program[i])
  PROVE  Goes(r, asked)
<1> SUFFICES ASSUME NEW s, s = rcv[r], NEW n, n = Receiver(r, asked)
             PROVE  /\ n \in Receiving
                    /\ s.st = "back" => n = Idle
                    /\ s.st = "idle" =>
                         \/ n = Idle
                         \/ /\ UnitOf(r) \in asked /\ r = MaxOf(Free(UnitOf(r)))
                            /\ n.st = "go" /\ n.load = Load(UnitOf(r))
                    /\ s.st = "go" => n.st = "read" /\ n.load = s.load
                    /\ s.st = "read" /\ r \in read_ack => n = Back
                    /\ s.st = "read" /\ r \notin read_ack => n.st = "read" /\ n.load = s.load
  BY DEF Goes
<1>1. /\ s \in Receiving /\ s.st \in {"idle", "back", "go", "read"}
      /\ s.st \in {"go", "read"} => s.load \in Loads
  BY ReceiverTypes
<1>2. Idle \in Receiving /\ Back \in Receiving
  BY DEF Idle, Back, Receiving
<1>3. CASE s.st = "back"
  BY <1>2, <1>3 DEF Receiver
<1>4. CASE s.st = "idle"
  <2>1. \/ n = Idle
        \/ /\ UnitOf(r) \in asked /\ r = MaxOf(Free(UnitOf(r)))
           /\ n = [st |-> "go", load |-> Load(UnitOf(r))]
    BY <1>4 DEF Receiver
  <2>2. UnitOf(r) \in asked => Load(UnitOf(r)) \in Loads
    BY NewLoad
  <2> QED
    BY <1>2, <1>4, <2>1, <2>2 DEF Receiving
<1>5. CASE s.st = "go"
  <2>1. n = [s EXCEPT !.st = "read"]
    BY <1>5 DEF Receiver
  <2> QED
    BY <1>1, <1>5, <2>1 DEF Receiving
<1>6. CASE s.st = "read"
  BY <1>1, <1>2, <1>6 DEF Receiver
<1> QED
  BY <1>1, <1>3, <1>4, <1>5, <1>6

LEMMA Picked ==
  ASSUME TypeOK
  PROVE  /\ Pick \in Rcvs \cup {None}
         /\ Pick # None => Pick \in perform_read /\ rcv[Pick].load.line \in Lines
<1>1. Candidates \in SUBSET Rcvs /\ Candidates \subseteq perform_read
  BY DEF Candidates, perform_read
<1>2. Pick = None \/ Pick \in Candidates
  BY <1>1, MaxIn DEF Pick
<1> QED
  BY <1>1, <1>2, ReceiverTypes, NoneAssumption DEF perform_read

\* who is told
LEMMA AcknowledgedAre ==
  ASSUME TypeOK, NEW arready \in BOOLEAN
  PROVE  /\ Acknowledged(arready) \subseteq perform_read \ read_ack
         /\ \A r \in Acknowledged(arready) : arready /\ axi_rd # None /\ rcv[r].load.line = axi_rd
         /\ \A i \in Units : \A q, r \in Acknowledged(arready) \cap RcvsOf(i) : q = r
<1>1. ASSUME NEW i \in Units, Matching(i) # {}
      PROVE  MinOf(Matching(i)) \in Matching(i)
  <2>1. Matching(i) \in SUBSET Rcvs
    BY UnitsOfReceivers DEF Matching
  <2> QED
    BY <1>1, <2>1, MinIn
<1>2. \A r \in Acknowledged(arready) : \E i \in Units :
        arready /\ axi_rd # None /\ r \in Matching(i) /\ r = MinOf(Matching(i))
  BY <1>1 DEF Acknowledged
<1>3. \A i \in Units : \A r \in Acknowledged(arready) \cap RcvsOf(i) : r = MinOf(Matching(i))
  <2> SUFFICES ASSUME NEW i \in Units, NEW r \in Acknowledged(arready), r \in RcvsOf(i)
               PROVE  r = MinOf(Matching(i))
    OBVIOUS
  <2>1. PICK j \in Units : r \in Matching(j) /\ r = MinOf(Matching(j))
    BY <1>2
  <2>2. UnitOf(r) = i /\ UnitOf(r) = j
    BY <2>1, UnitsOfReceivers DEF Matching
  <2> QED
    BY <2>1, <2>2
<1> QED
  BY <1>2, <1>3 DEF Matching

LEMMA TagsOfAcknowledged ==
  ASSUME TypeOK, NEW arready \in BOOLEAN, NEW i \in Units
  PROVE  LET t == TagOf(i, Acknowledged(arready))
         IN \/ t = None /\ Acknowledged(arready) \cap RcvsOf(i) = {}
            \/ \E r \in Acknowledged(arready) \cap RcvsOf(i) :
                 t = rcv[r].load.tag /\ Acknowledged(arready) \cap RcvsOf(i) = {r} /\ t \in Nat
<1> DEFINE A == Acknowledged(arready) \cap RcvsOf(i)
<1>1. CASE A = {}
  BY <1>1 DEF TagOf
<1>2. CASE A # {}
  <2>1. A \in SUBSET Rcvs
    BY UnitsOfReceivers
  <2>2. PICK r \in A : r = MinOf(A)
    BY <1>2, <2>1, MinIn
  <2>3. A = {r}
    BY <2>2, AcknowledgedAre
  <2>4. r \in Rcvs /\ rcv[r].st = "read"
    BY <2>1, <2>2, AcknowledgedAre DEF perform_read
  <2>5. rcv[r].load.tag \in Nat
    BY <2>4, ReceiverTypes
  <2> QED
    BY <1>2, <2>2, <2>3, <2>5 DEF TagOf
<1> QED
  BY <1>1, <1>2

-----------------------------------------------------------------------------
(* metaQ and the reads move in lockstep *)

LEMMA TailConcat ==
  ASSUME NEW S, NEW q \in Seq(S), NEW x \in Seq(S), q # <<>>
  PROVE  Tail(q \o x) = Tail(q) \o x /\ q \o x # <<>>
<1>1. /\ q \o x \in Seq(S) /\ Len(q \o x) = Len(q) + Len(x)
      /\ \A i \in 1..Len(q) + Len(x) : (q \o x)[i] = IF i <= Len(q) THEN q[i] ELSE x[i - Len(q)]
  BY ConcatProperties
<1>2. Len(q) \in Nat /\ Len(x) \in Nat /\ Len(q) > 0
  BY EmptySeq, LenProperties
<1>3. q \o x # <<>>
  BY <1>1, <1>2
<1>4. /\ Tail(q \o x) \in Seq(S) /\ Len(Tail(q \o x)) = Len(q) + Len(x) - 1
      /\ \A i \in 1..Len(q) + Len(x) - 1 : Tail(q \o x)[i] = (q \o x)[i + 1]
  BY <1>1, <1>3, HeadTailProperties
<1>5. /\ Tail(q) \in Seq(S) /\ Len(Tail(q)) = Len(q) - 1
      /\ \A i \in 1..Len(q) - 1 : Tail(q)[i] = q[i + 1]
  BY HeadTailProperties
<1>6. /\ Tail(q) \o x \in Seq(S) /\ Len(Tail(q) \o x) = Len(q) - 1 + Len(x)
      /\ \A i \in 1..Len(q) - 1 + Len(x) :
           (Tail(q) \o x)[i] = IF i <= Len(q) - 1 THEN Tail(q)[i] ELSE x[i - (Len(q) - 1)]
  BY <1>5, ConcatProperties
<1>7. \A i \in 1..Len(q) + Len(x) - 1 : Tail(q \o x)[i] = (Tail(q) \o x)[i]
  <2> SUFFICES ASSUME NEW i \in 1..Len(q) + Len(x) - 1 PROVE Tail(q \o x)[i] = (Tail(q) \o x)[i]
    OBVIOUS
  <2>1. /\ i + 1 \in 1..Len(q) + Len(x) /\ i \in 1..Len(q) - 1 + Len(x)
        /\ i + 1 <= Len(q) <=> i <= Len(q) - 1
        /\ i + 1 - Len(q) = i - (Len(q) - 1)
    BY <1>2
  <2>2. CASE i + 1 <= Len(q)
    <3>1. i \in 1..Len(q) - 1
      BY <1>2, <2>1, <2>2
    <3> QED
      BY <1>1, <1>4, <1>5, <1>6, <2>1, <2>2, <3>1
  <2>3. CASE ~(i + 1 <= Len(q))
    BY <1>1, <1>4, <1>6, <2>1, <2>3
  <2> QED
    BY <2>2, <2>3
<1>8. Len(Tail(q \o x)) = Len(Tail(q) \o x)
  BY <1>2, <1>4, <1>6
<1>9. Tail(q \o x) = Tail(q) \o x
  <2>1. \A i \in 1..Len(Tail(q \o x)) : Tail(q \o x)[i] = (Tail(q) \o x)[i]
    BY <1>4, <1>7
  <2> QED
    BY <1>4, <1>6, <1>8, <2>1, SeqEqual
<1> QED
  BY <1>3, <1>9

LEMMA Register ==
  ASSUME NEW S, NEW x \in S \cup {None}
  PROVE  /\ In(x) \in Seq(S) /\ Len(In(x)) = IF x = None THEN 0 ELSE 1
         /\ x # None => In(x)[1] = x
  BY DEF In

\* the registers in front of metaQ and of the memory
LEMMA Registers ==
  ASSUME TypeOK
  PROVE  /\ Metas \in Seq(Entries) /\ Reads \in Seq(Lines)
         /\ Len(Metas) = Len(metaQ) + Len(In(meta_fifo_in))
         /\ Len(Reads) = Len(memory) + Len(In(axi_ar))
         /\ metaQ \in Seq(Entries) /\ In(meta_fifo_in) \in Seq(Entries)
         /\ memory \in Seq(Lines) /\ In(axi_ar) \in Seq(Lines)
         /\ Len(In(meta_fifo_in)) = IF meta_fifo_in = None THEN 0 ELSE 1
         /\ Len(In(axi_ar)) = IF axi_ar = None THEN 0 ELSE 1
         /\ Len(metaQ) \in Nat /\ Len(memory) \in Nat /\ Len(metaQ) <= MetaDepth /\ Len(memory) <= MaxReads
<1>1. /\ metaQ \in Seq(Entries) /\ memory \in Seq(Lines)
      /\ meta_fifo_in \in Entries \cup {None} /\ axi_ar \in Lines \cup {None}
      /\ Len(metaQ) <= MetaDepth /\ Len(memory) <= MaxReads
  BY DEF TypeOK, Entries
<1>2. /\ In(meta_fifo_in) \in Seq(Entries) /\ Len(In(meta_fifo_in)) = IF meta_fifo_in = None THEN 0 ELSE 1
      /\ In(axi_ar) \in Seq(Lines) /\ Len(In(axi_ar)) = IF axi_ar = None THEN 0 ELSE 1
  BY <1>1, Register
<1>3. Metas \in Seq(Entries) /\ Len(Metas) = Len(metaQ) + Len(In(meta_fifo_in))
  BY <1>1, <1>2, ConcatProperties DEF Metas
<1>4. Reads \in Seq(Lines) /\ Len(Reads) = Len(memory) + Len(In(axi_ar))
  BY <1>1, <1>2, ConcatProperties DEF Reads
<1> QED
  BY <1>1, <1>2, <1>3, <1>4, LenProperties

LEMMA NewEntry ==
  ASSUME TypeOK, NEW arready \in BOOLEAN, PushMeta(arready)
  PROVE  /\ meta_fifo_in' \in Entries \cup {None}
         /\ meta_fifo_in' # None <=> arready /\ axi_rd # None
         /\ meta_fifo_in' # None =>
              \A i \in Units : meta_fifo_in'[i] = TagOf(i, Acknowledged(arready))
<1> DEFINE e == [i \in Units |-> TagOf(i, Acknowledged(arready))]
<1>1. \A i \in Units : TagOf(i, Acknowledged(arready)) \in Tags \cup {None}
  BY TagsOfAcknowledged DEF Tags
<1>2. e \in Entries
  BY <1>1 DEF Entries
<1>3. e # None
  BY <1>2, NoneAssumption DEF Entries
<1>4. meta_fifo_in' = IF arready /\ axi_rd # None THEN e ELSE None
  BY DEF PushMeta
<1>5. \A i \in Units : e[i] = TagOf(i, Acknowledged(arready))
  OBVIOUS
<1> HIDE DEF e
<1> QED
  BY <1>2, <1>3, <1>4, <1>5

\* the memory has an entry for what it answers, and room for the next one
LEMMA Room ==
  ASSUME RInv, NEW rvalid \in BOOLEAN, rvalid => memory # <<>>
  PROVE  /\ rvalid => metaQ # <<>>
         /\ meta_fifo_in # None => Len(metaQ) < MetaDepth
         /\ Len(metaQ) >= Len(memory)
<1>1. /\ Len(metaQ) \in Nat /\ Len(memory) \in Nat /\ Len(memory) <= MaxReads
      /\ Len(Metas) = Len(metaQ) + Len(In(meta_fifo_in))
      /\ Len(Reads) = Len(memory) + Len(In(axi_ar))
      /\ Len(In(meta_fifo_in)) = IF meta_fifo_in = None THEN 0 ELSE 1
      /\ Len(In(axi_ar)) = IF axi_ar = None THEN 0 ELSE 1
      /\ metaQ \in Seq(Entries) /\ memory \in Seq(Lines)
  BY Registers DEF RInv
<1>2. Len(Metas) = Len(Reads) /\ Len(metaQ) >= Len(memory)
  BY DEF RInv, EntryForEveryRead
<1>3. rvalid => Len(memory) > 0
  BY <1>1, EmptySeq
<1>4. rvalid => metaQ # <<>>
  BY <1>1, <1>2, <1>3, EmptySeq
<1>5. meta_fifo_in # None => Len(metaQ) < MetaDepth
  BY <1>1, <1>2, SizesAssumption, MetaAssumption
<1> QED
  BY <1>2, <1>4, <1>5

\* without its first t entries: the head goes when the memory answers
Off(q, t) == IF t = 1 THEN Tail(q) ELSE q

\* taking t entries off q and putting x behind it
OffThen(S, q, x, t) ==
  /\ Off(q, t) \in Seq(S) /\ Len(Off(q, t)) = Len(q) - t
  /\ \A k \in 1..Len(q) - t : Off(q, t)[k] = q[k + t]
  /\ Off(q \o x, t) = Off(q, t) \o x
  /\ Off(q, t) \o x \in Seq(S) /\ Len(Off(q, t) \o x) = Len(q) - t + Len(x)

LEMMA OffConcat ==
  ASSUME NEW S, NEW q \in Seq(S), NEW x \in Seq(S), NEW t \in {0, 1}, t = 1 => q # <<>>
  PROVE  OffThen(S, q, x, t)
<1>1. /\ Off(q, t) \in Seq(S) /\ Len(Off(q, t)) = Len(q) - t
      /\ \A k \in 1..Len(q) - t : Off(q, t)[k] = q[k + t]
      /\ Off(q \o x, t) = Off(q, t) \o x
  <2>1. CASE t = 1
    <3>1. /\ Tail(q) \in Seq(S) /\ Len(Tail(q)) = Len(q) - 1
          /\ \A k \in 1..Len(q) - 1 : Tail(q)[k] = q[k + 1]
      BY <2>1, HeadTailProperties
    <3>2. Tail(q \o x) = Tail(q) \o x
      BY <2>1, TailConcat
    <3> QED
      BY <2>1, <3>1, <3>2 DEF Off
  <2>2. CASE t = 0
    BY <2>2 DEF Off
  <2> QED
    BY <2>1, <2>2
<1>2. Off(q, t) \o x \in Seq(S) /\ Len(Off(q, t) \o x) = Len(Off(q, t)) + Len(x)
  BY <1>1, ConcatProperties
<1> QED
  BY <1>1, <1>2 DEF OffThen

\* metaQ and the reads: what comes in, and the head that goes
LEMMA Lockstep ==
  ASSUME RInv, NEW asked, NEW arready \in BOOLEAN, NEW rvalid \in BOOLEAN,
         NEW t, t = IF rvalid THEN 1 ELSE 0,
         Inputs(asked, arready, rvalid),
         PushMeta(arready), ReadChannel(arready), Memory(arready, rvalid), MetaQ(rvalid)
  PROVE  /\ t \in {0, 1} /\ t = 1 => Metas # <<>> /\ Reads # <<>>
         /\ metaQ' = Off(Metas, t) /\ metaQ' \in Seq(Entries) /\ Len(metaQ') <= MetaDepth
         /\ memory' \in Seq(Lines) /\ Len(memory') <= MaxReads
         /\ meta_fifo_in' \in Entries \cup {None} /\ axi_ar' \in Lines \cup {None}
         /\ Metas' = Off(Metas, t) \o In(meta_fifo_in')
         /\ Reads' = Off(Reads, t) \o (IF arready THEN In(axi_rd) ELSE <<>>)
         /\ Len(In(meta_fifo_in')) = Len(IF arready THEN In(axi_rd) ELSE <<>>)
         /\ EntryForEveryRead'
<1> DEFINE m == In(meta_fifo_in)
           a == In(axi_ar)
           n == IF arready THEN In(axi_rd) ELSE <<>>
<1>0. t \in {0, 1} /\ (t = 1 <=> rvalid)
  OBVIOUS
<1>1. /\ metaQ \in Seq(Entries) /\ m \in Seq(Entries) /\ memory \in Seq(Lines) /\ a \in Seq(Lines)
  BY Registers DEF RInv
<1>2. /\ Len(metaQ) \in Nat /\ Len(memory) \in Nat
      /\ Len(metaQ) <= MetaDepth /\ Len(memory) <= MaxReads
      /\ Len(Metas) = Len(metaQ) + Len(m) /\ Len(Reads) = Len(memory) + Len(a)
      /\ Len(m) = (IF meta_fifo_in = None THEN 0 ELSE 1)
      /\ Len(a) = (IF axi_ar = None THEN 0 ELSE 1)
      /\ Len(Metas) = Len(Reads)
  BY Registers DEF RInv, EntryForEveryRead
<1>3. Metas = metaQ \o m /\ Reads = memory \o a
  BY DEF Metas, Reads
<1>4. Metas \in Seq(Entries) /\ Reads \in Seq(Lines)
  BY Registers DEF RInv
<1>5. /\ t = 1 => memory # <<>> /\ metaQ # <<>>
      /\ meta_fifo_in # None => Len(metaQ) < MetaDepth
      /\ Len(metaQ) >= Len(memory)
  <2>1. rvalid => memory # <<>>
    BY DEF Inputs
  <2> QED
    BY <1>0, <2>1, Room
<1>6. t = 1 => Len(metaQ) >= 1 /\ Len(memory) >= 1
  BY <1>1, <1>2, <1>5, EmptySeq
<1>7. t = 1 => Metas # <<>> /\ Reads # <<>>
  <2>1. Len(m) >= 0 /\ Len(a) >= 0
    BY <1>2
  <2>2. t = 1 => Len(Metas) >= 1 /\ Len(Reads) >= 1
    BY <1>2, <1>6, <2>1
  <2> QED
    BY <2>2, <1>4, EmptySeq
<1>8. axi_rd \in Lines \cup {None} /\ axi_ar \in Lines \cup {None}
  BY DEF RInv, TypeOK
<1>9. n \in Seq(Lines) /\ Len(n) = IF arready /\ axi_rd # None THEN 1 ELSE 0
  <2>1. In(axi_rd) \in Seq(Lines) /\ Len(In(axi_rd)) = IF axi_rd = None THEN 0 ELSE 1
    BY <1>8, Register
  <2>2. CASE arready
    BY <2>1, <2>2
  <2>3. CASE ~arready
    BY <2>3
  <2> QED
    BY <2>2, <2>3
<1>10. /\ meta_fifo_in' \in Entries \cup {None}
       /\ meta_fifo_in' # None <=> arready /\ axi_rd # None
  BY NewEntry DEF RInv
<1>11. In(meta_fifo_in') \in Seq(Entries) /\ Len(In(meta_fifo_in')) = Len(n)
  <2>1. /\ In(meta_fifo_in') \in Seq(Entries)
        /\ Len(In(meta_fifo_in')) = IF meta_fifo_in' = None THEN 0 ELSE 1
    BY <1>10, Register
  <2> QED
    BY <1>9, <1>10, <2>1
<1>12. metaQ' = Off(metaQ, t) \o m
  <2>1. (IF Len(metaQ) < MetaDepth THEN m ELSE <<>>) = m
    BY <1>5 DEF In
  <2>2. (IF rvalid /\ metaQ # <<>> THEN Tail(metaQ) ELSE metaQ) = Off(metaQ, t)
    BY <1>0, <1>5 DEF Off
  <2> QED
    BY <2>1, <2>2 DEF MetaQ
<1>13. memory' = Off(memory, t) \o (IF arready THEN a ELSE <<>>)
  BY <1>0 DEF Memory, Off
<1>14. axi_ar' \in Lines \cup {None} /\ In(axi_ar') = IF arready THEN In(axi_rd) ELSE In(axi_ar)
  BY <1>8 DEF ReadChannel, In
<1> HIDE DEF m, a, n
<1>15. /\ metaQ' = Off(Metas, t) /\ metaQ' \in Seq(Entries)
       /\ Len(metaQ') = Len(metaQ) - t + Len(m)
  <2>1. /\ Off(metaQ \o m, t) = Off(metaQ, t) \o m
        /\ Off(metaQ, t) \o m \in Seq(Entries) /\ Len(Off(metaQ, t) \o m) = Len(metaQ) - t + Len(m)
    <3>1. t = 1 => metaQ # <<>>
      BY <1>5
    <3>2. OffThen(Entries, metaQ, m, t)
      BY <1>0, <1>1, <3>1, OffConcat
    <3> QED
      BY <3>2 DEF OffThen
  <2> QED
    BY <1>3, <1>12, <2>1
<1>16. Metas' = Off(Metas, t) \o In(meta_fifo_in') /\ Len(Metas') = Len(metaQ') + Len(n)
  <2>1. Metas' = metaQ' \o In(meta_fifo_in')
    BY DEF Metas, In
  <2>2. Len(metaQ' \o In(meta_fifo_in')) = Len(metaQ') + Len(In(meta_fifo_in'))
    BY <1>11, <1>15, ConcatProperties
  <2> QED
    BY <1>11, <1>15, <2>1, <2>2
<1>17. /\ Off(memory, t) \in Seq(Lines) /\ Len(Off(memory, t)) = Len(memory) - t
       /\ Off(Reads, t) = Off(memory, t) \o a
       /\ Off(memory, t) \o a \in Seq(Lines) /\ Len(Off(memory, t) \o a) = Len(memory) - t + Len(a)
  <2>1. t = 1 => memory # <<>>
    BY <1>5
  <2>2. OffThen(Lines, memory, a, t)
    BY <1>0, <1>1, <2>1, OffConcat
  <2> QED
    BY <1>3, <2>2 DEF OffThen
<1>18. Reads' = memory' \o In(axi_ar')
  BY DEF Reads, In
<1>19. /\ memory' \in Seq(Lines)
       /\ Len(memory') = Len(memory) - t + (IF arready THEN Len(a) ELSE 0)
       /\ Reads' = Off(Reads, t) \o n
  <2>1. CASE arready
    <3>1. memory' = Off(memory, t) \o a /\ In(axi_ar') = n
      BY <1>13, <1>14, <2>1 DEF n
    <3> QED
      BY <1>17, <1>18, <2>1, <3>1
  <2>2. CASE ~arready
    <3>1. memory' = Off(memory, t) \o <<>> /\ n = <<>> /\ In(axi_ar') = a
      BY <1>13, <1>14, <2>2 DEF n, a
    <3>2. Off(memory, t) \o <<>> = Off(memory, t)
      BY <1>17, ConcatEmptySeq
    <3>3. Off(Reads, t) \o <<>> = Off(Reads, t)
      BY <1>17, ConcatEmptySeq
    <3> QED
      BY <1>17, <1>18, <2>2, <3>1, <3>2, <3>3
  <2> QED
    BY <2>1, <2>2
<1>20. Len(Reads') = Len(memory) - t + Len(a) + Len(n)
  <2>1. Off(Reads, t) \in Seq(Lines) /\ Len(Off(Reads, t)) = Len(memory) - t + Len(a)
    BY <1>17
  <2>2. Len(Off(Reads, t) \o n) = Len(Off(Reads, t)) + Len(n)
    BY <1>9, <2>1, ConcatProperties
  <2> QED
    BY <1>19, <2>1, <2>2
<1>21. Len(metaQ') <= MetaDepth
  BY <1>0, <1>2, <1>5, <1>15, SizesAssumption
<1>22. Len(memory') <= MaxReads
  <2>1. arready /\ axi_ar # None => Len(memory) < MaxReads
    BY DEF Inputs
  <2> QED
    BY <1>0, <1>2, <1>19, <2>1, SizesAssumption
<1>23. Len(Metas') = Len(Reads') /\ Len(metaQ') >= Len(memory')
  <2>1. /\ t \in Int /\ Len(m) \in Nat /\ Len(a) \in Nat /\ Len(n) \in Nat
        /\ Len(metaQ) + Len(m) = Len(memory) + Len(a)
    BY <1>0, <1>2, <1>9
  <2>2. /\ Len(metaQ') = Len(metaQ) - t + Len(m) /\ Len(Metas') = Len(metaQ') + Len(n)
        /\ Len(Reads') = Len(memory) - t + Len(a) + Len(n)
        /\ Len(memory') = Len(memory) - t + Len(a) \/ Len(memory') = Len(memory) - t
    BY <1>2, <1>15, <1>16, <1>19, <1>20
  <2> QED
    BY <1>2, <2>1, <2>2
<1>24. EntryForEveryRead'
  BY <1>23 DEF EntryForEveryRead
<1> QED
  BY <1>0, <1>7, <1>10, <1>11, <1>14, <1>15, <1>16, <1>19, <1>21, <1>22, <1>24 DEF n

-----------------------------------------------------------------------------
(* A cycle keeps the types *)

LEMMA ReceiversStep ==
  ASSUME TypeOK, NEW asked \in SUBSET Units, NEW arready \in BOOLEAN,
         \A i \in asked : issued[i] < Len(program[i]),
         Receivers(asked), Acknowledge(arready)
  PROVE  /\ \A r \in Rcvs : rcv'[r] = Receiver(r, asked)
         /\ \A i \in Units : issued'[i] = IF i \in asked THEN issued[i] + 1 ELSE issued[i]
         /\ program' \in Programs /\ \A i \in Units : issued'[i] \in 0..Len(program'[i])
         /\ rcv' \in [Rcvs -> Receiving]
         /\ read_ack' = Acknowledged(arready) /\ read_ack' \subseteq perform_read'
<1>1. /\ \A r \in Rcvs : rcv'[r] = Receiver(r, asked)
      /\ rcv' = [r \in Rcvs |-> Receiver(r, asked)]
      /\ \A i \in Units : issued'[i] = IF i \in asked THEN issued[i] + 1 ELSE issued[i]
      /\ program' = program
  BY DEF Receivers
<1>2. \A r \in Rcvs : Goes(r, asked)
  BY ReceiverStep
<1>3. \A r \in Rcvs : Receiver(r, asked) \in Receiving
  BY <1>2 DEF Goes
<1>4. program \in Programs /\ \A i \in Units : issued[i] \in 0..Len(program[i])
  BY DEF TypeOK
<1>5. \A i \in Units : issued'[i] \in 0..Len(program'[i])
  BY <1>1, <1>4, NewLoad
<1>6. read_ack' = Acknowledged(arready)
  BY DEF Acknowledge
<1>7. \A r \in Acknowledged(arready) : r \in Rcvs /\ rcv[r].st = "read" /\ r \notin read_ack
  BY AcknowledgedAre DEF perform_read
<1>8. \A r \in Acknowledged(arready) : r \in Rcvs /\ rcv'[r].st = "read"
  BY <1>1, <1>2, <1>7 DEF Goes
<1> QED
  BY <1>1, <1>3, <1>4, <1>5, <1>6, <1>8 DEF perform_read

LEMMA ResponderStep ==
  ASSUME TypeOK, NEW arready \in BOOLEAN, Priority(arready), SelectRead(arready)
  PROVE  /\ pri_enc' \in Rcvs
         /\ axi_rd' \in Lines \cup {None} /\ rcv_to_read' \in Rcvs \cup {None}
         /\ masked' \subseteq Rcvs
<1>1. pri_enc' \in Rcvs
  <2>1. NAll \in Nat /\ NAll > 0 /\ pri_enc \in 0..NAll-1
    BY SizesAssumption DEF TypeOK, NAll, Rcvs
  <2>2. (pri_enc + 1) % NAll \in 0..NAll-1
    BY <2>1
  <2> QED
    BY <2>1, <2>2 DEF Priority, NextPri, Rcvs
<1>2. /\ axi_rd \in Lines \cup {None} /\ rcv_to_read \in Rcvs \cup {None}
      /\ masked \subseteq Rcvs
  BY DEF TypeOK
<1>3. CASE arready
  <2>1. /\ axi_rd' = IF Pick = None THEN None ELSE rcv[Pick].load.line
        /\ rcv_to_read' = Pick /\ masked' = {rcv_to_read, Pick} \ {None}
    BY <1>3 DEF SelectRead
  <2>2. Pick \in Rcvs \cup {None} /\ (Pick # None => rcv[Pick].load.line \in Lines)
    BY Picked
  <2> QED
    BY <1>1, <1>2, <2>1, <2>2
<1>4. CASE ~arready
  <2>1. UNCHANGED <<axi_rd, rcv_to_read, masked>>
    BY <1>4 DEF SelectRead
  <2> QED
    BY <1>1, <1>2, <2>1
<1> QED
  BY <1>1, <1>3, <1>4

\* what the memory answers belongs to the first entry
LEMMA AnswerStep ==
  ASSUME RInv, NEW rvalid \in BOOLEAN, rvalid => memory # <<>>, Respond(rvalid)
  PROVE  /\ answer' \in [Units -> Loads \cup {None}]
         /\ rvalid => Len(Metas) >= 1 /\ Len(Reads) >= 1
         /\ \A i \in Units : answer'[i] = IF rvalid /\ Metas[1][i] # None
                                          THEN [tag |-> Metas[1][i], line |-> Reads[1]] ELSE None
<1>1. /\ metaQ \in Seq(Entries) /\ memory \in Seq(Lines)
      /\ In(meta_fifo_in) \in Seq(Entries) /\ In(axi_ar) \in Seq(Lines)
      /\ Len(metaQ) \in Nat /\ Len(memory) \in Nat
  BY Registers DEF RInv
<1>2. rvalid => metaQ # <<>>
  BY Room
<1>3. CASE rvalid
  <2>1. Len(metaQ) >= 1 /\ Len(memory) >= 1
    BY <1>1, <1>2, <1>3, EmptySeq
  <2>2. Head(metaQ) \in Entries /\ Head(memory) \in Lines
    BY <1>1, <1>2, <1>3, HeadTailProperties
  <2>3. Head(metaQ) = metaQ[1] /\ Head(memory) = memory[1]
    BY <1>1, <1>2, <1>3
  <2>4. Metas[1] = metaQ[1] /\ Len(Metas) >= 1
    BY <1>1, <2>1, ConcatProperties DEF Metas
  <2>5. Reads[1] = memory[1] /\ Len(Reads) >= 1
    BY <1>1, <2>1, ConcatProperties DEF Reads
  <2>6. \A i \in Units : Head(metaQ)[i] \in Tags \cup {None}
    BY <2>2 DEF Entries
  <2>7. answer' = [i \in Units |->
                     IF Head(metaQ)[i] # None
                     THEN [tag |-> Head(metaQ)[i], line |-> Head(memory)] ELSE None]
    BY <1>2, <1>3 DEF Respond
  <2>8. \A i \in Units : answer'[i] \in Loads \cup {None}
    BY <2>2, <2>6, <2>7 DEF Loads
  <2> QED
    BY <1>3, <2>3, <2>4, <2>5, <2>7, <2>8
<1>4. CASE ~rvalid
  BY <1>4 DEF Respond
<1> QED
  BY <1>3, <1>4

LEMMA Step ==
  ASSUME RInv, NEW asked \in SUBSET Units, NEW arready \in BOOLEAN, NEW rvalid \in BOOLEAN,
         Inputs(asked, arready, rvalid), Clock(asked, arready, rvalid)
  PROVE  RInv'
<1> TypeOK
  BY DEF RInv
<1>1. /\ \A i \in asked : issued[i] < Len(program[i])
      /\ rvalid => memory # <<>>
  BY DEF Inputs
<1>2. /\ program' \in Programs /\ \A i \in Units : issued'[i] \in 0..Len(program'[i])
      /\ rcv' \in [Rcvs -> Receiving] /\ read_ack' \subseteq perform_read'
  BY <1>1, ReceiversStep DEF Clock
<1>3. /\ pri_enc' \in Rcvs
      /\ axi_rd' \in Lines \cup {None} /\ rcv_to_read' \in Rcvs \cup {None}
      /\ masked' \subseteq Rcvs
  BY ResponderStep DEF Clock
<1>4. answer' \in [Units -> Loads \cup {None}]
  BY <1>1, AnswerStep DEF Clock
<1> DEFINE t == IF rvalid THEN 1 ELSE 0
<1>5. PushMeta(arready) /\ ReadChannel(arready) /\ Memory(arready, rvalid) /\ MetaQ(rvalid)
  BY DEF Clock, Acknowledge
<1>6. /\ metaQ' \in Seq(Entries) /\ Len(metaQ') <= MetaDepth
      /\ memory' \in Seq(Lines) /\ Len(memory') <= MaxReads
      /\ meta_fifo_in' \in Entries \cup {None} /\ axi_ar' \in Lines \cup {None}
      /\ EntryForEveryRead'
  BY <1>5, Lockstep
<1>7. TypeOK'
  BY <1>2, <1>3, <1>4, <1>6 DEF TypeOK, Receiving, Entries
<1> QED
  BY <1>6, <1>7 DEF RInv

LEMMA Start == Init => RInv
<1> SUFFICES ASSUME Init PROVE RInv
  OBVIOUS
<1>1. Rcvs # {} /\ 0 \in Rcvs
  BY SizesAssumption DEF Rcvs, NAll
<1>2. \A i \in Units : program[i] \in Seq(Lines)
  BY ProgramsAssumption DEF Init
<1>3. \A i \in Units : issued[i] \in 0..Len(program[i])
  <2>1. \A i \in Units : Len(program[i]) \in Nat /\ issued[i] = 0
    BY <1>2 DEF Init
  <2> QED
    BY <2>1
<1>4. rcv \in [Rcvs -> [st : {"idle", "back"}, load : {None}]
                        \cup [st : {"go", "read"}, load : Loads]]
  BY DEF Init, Back
<1>5. memory = <<>> /\ metaQ = <<>> /\ In(meta_fifo_in) = <<>> /\ In(axi_ar) = <<>>
  BY DEF Init, In
<1>6. Len(memory) = 0 /\ Len(metaQ) = 0 /\ <<>> \o <<>> = <<>>
  BY <1>5
<1>7. EntryForEveryRead
  BY <1>5, <1>6 DEF EntryForEveryRead, Metas, Reads
<1>8. Len(metaQ) <= MetaDepth /\ Len(memory) <= MaxReads
  BY <1>6, SizesAssumption
<1> QED
  BY <1>1, <1>3, <1>4, <1>7, <1>8 DEF RInv, TypeOK, Init

LEMMA Invariant == Spec => []RInv
<1>1. RInv /\ UNCHANGED vars => RInv'
  BY DEF RInv, TypeOK, EntryForEveryRead, perform_read, Metas, Reads, In, vars
<1>2. RInv /\ Next => RInv'
  BY Step DEF Next
<1> QED
  BY <1>1, <1>2, Start, PTL DEF Spec

\* Every register and queue stays within its type and its depth; only receivers
\* that wait are ever told that their line comes.
THEOREM TypeCorrect == Spec => []TypeOK
<1>1. RInv => TypeOK
  BY DEF RInv
<1> QED
  BY <1>1, Invariant, PTL

\* Whatever pauses the memory makes, an answer finds its entry in metaQ, which
\* is never full when one is pushed.
THEOREM EntriesKept == Spec => []EntryForEveryRead
<1>1. RInv => EntryForEveryRead
  BY DEF RInv
<1> QED
  BY <1>1, Invariant, PTL

-----------------------------------------------------------------------------
(* Where the loads are a cycle later *)

\* the entries and reads of the next cycle: those behind the answered one in
\* their order, then the one that is made
EntriesMove(t, arready) ==
  /\ t \in {0, 1} /\ Len(Metas) \in Nat /\ t <= Len(Metas)
  /\ Len(Metas') = Len(Metas) - t + (IF arready /\ axi_rd # None THEN 1 ELSE 0)
  /\ \A k \in 1..Len(Metas) - t : Metas'[k] = Metas[k + t] /\ Reads'[k] = Reads[k + t]
  /\ arready /\ axi_rd # None =>
       /\ Reads'[Len(Metas')] = axi_rd
       /\ \A i \in Units : Metas'[Len(Metas')][i] = TagOf(i, Acknowledged(arready))

LEMMA EntriesStep ==
  ASSUME RInv, NEW asked \in SUBSET Units, NEW arready \in BOOLEAN, NEW rvalid \in BOOLEAN,
         NEW t, t = IF rvalid THEN 1 ELSE 0,
         Inputs(asked, arready, rvalid), Clock(asked, arready, rvalid)
  PROVE  EntriesMove(t, arready)
<1> DEFINE x == In(meta_fifo_in')
           n == IF arready THEN In(axi_rd) ELSE <<>>
<1>1. PushMeta(arready) /\ ReadChannel(arready) /\ Memory(arready, rvalid) /\ MetaQ(rvalid)
  BY DEF Clock, Acknowledge
<1>2. /\ t \in {0, 1} /\ t = 1 => Metas # <<>> /\ Reads # <<>>
      /\ meta_fifo_in' \in Entries \cup {None}
      /\ Metas' = Off(Metas, t) \o x /\ Reads' = Off(Reads, t) \o n
      /\ Len(x) = Len(n)
  BY <1>1, Lockstep
<1>3. /\ meta_fifo_in' # None <=> arready /\ axi_rd # None
      /\ meta_fifo_in' # None => \A i \in Units : meta_fifo_in'[i] = TagOf(i, Acknowledged(arready))
  BY <1>1, NewEntry DEF RInv
<1>4. /\ x \in Seq(Entries) /\ Len(x) = (IF meta_fifo_in' = None THEN 0 ELSE 1)
      /\ meta_fifo_in' # None => x[1] = meta_fifo_in'
  BY <1>2, Register
<1>5. n \in Seq(Lines) /\ (arready /\ axi_rd # None => n[1] = axi_rd)
  <2>1. axi_rd \in Lines \cup {None}
    BY DEF RInv, TypeOK
  <2>2. In(axi_rd) \in Seq(Lines) /\ (axi_rd # None => In(axi_rd)[1] = axi_rd)
    BY <2>1, Register
  <2>3. CASE arready
    BY <2>2, <2>3
  <2>4. CASE ~arready
    BY <2>4
  <2> QED
    BY <2>3, <2>4
<1>6. Metas \in Seq(Entries) /\ Reads \in Seq(Lines) /\ Len(Metas) = Len(Reads) /\ Len(Metas) \in Nat
  BY Registers, LenProperties DEF RInv, EntryForEveryRead
<1> HIDE DEF x, n
<1>7. /\ OffThen(Entries, Metas, x, t)
      /\ OffThen(Lines, Reads, n, t)
  BY <1>2, <1>4, <1>5, <1>6, OffConcat
<1>8. t <= Len(Metas)
  BY <1>2, <1>6, EmptySeq
<1> DEFINE L == Len(Metas) - t
<1>9. L \in Nat /\ Len(x) \in Nat
  BY <1>2, <1>4, <1>6, <1>8
<1>10. /\ Off(Metas, t) \in Seq(Entries) /\ Len(Off(Metas, t)) = L
       /\ \A k \in 1..L : Off(Metas, t)[k] = Metas[k + t]
       /\ Len(Metas') = L + Len(x)
  BY <1>2, <1>7 DEF OffThen
<1>11. /\ Off(Reads, t) \in Seq(Lines) /\ Len(Off(Reads, t)) = L
       /\ \A k \in 1..L : Off(Reads, t)[k] = Reads[k + t]
  BY <1>6, <1>7 DEF OffThen
<1> HIDE DEF L
<1>12. \A k \in 1..L + Len(x) : Metas'[k] = IF k <= L THEN Off(Metas, t)[k] ELSE x[k - L]
  BY <1>2, <1>4, <1>10, ConcatProperties
<1>13. \A k \in 1..L + Len(x) : Reads'[k] = IF k <= L THEN Off(Reads, t)[k] ELSE n[k - L]
  BY <1>2, <1>5, <1>11, ConcatProperties
<1>14. \A k \in 1..L : Metas'[k] = Metas[k + t] /\ Reads'[k] = Reads[k + t]
  BY <1>9, <1>10, <1>11, <1>12, <1>13
<1>15. ASSUME arready, axi_rd # None
       PROVE  /\ Reads'[Len(Metas')] = axi_rd
              /\ \A i \in Units : Metas'[Len(Metas')][i] = TagOf(i, Acknowledged(arready))
  <2>1. PICK k \in 1..L + Len(x) : k = L + 1 /\ ~(k <= L) /\ k - L = 1 /\ Len(Metas') = k
    BY <1>3, <1>4, <1>9, <1>10, <1>15
  <2>2. Metas'[k] = x[k - L] /\ Reads'[k] = n[k - L]
    BY <1>12, <1>13, <2>1
  <2> QED
    BY <1>3, <1>4, <1>5, <1>15, <2>1, <2>2
<1>16. Len(x) = IF arready /\ axi_rd # None THEN 1 ELSE 0
  BY <1>3, <1>4
<1> QED
  BY <1>2, <1>6, <1>8, <1>10, <1>14, <1>15, <1>16 DEF EntriesMove, L

\* the loads that wait in the next cycle: those that were not told, and the new one
WaitsMove(i, asked, arready) ==
  /\ \A r \in Waits(i) \ Acknowledged(arready) : r \in Waits(i)' /\ rcv'[r].load = rcv[r].load
  /\ \A r \in Waits(i)' :
       \/ r \in Waits(i) \ Acknowledged(arready) /\ rcv'[r].load = rcv[r].load
       \/ /\ i \in asked /\ r = MaxOf(Free(i)) /\ rcv'[r].load = Load(i)
          /\ Load(i).tag = issued[i] + 1
  /\ Acknowledged(arready) \cap RcvsOf(i) \subseteq Waits(i)

LEMMA WaitsStep ==
  ASSUME RInv, NEW asked \in SUBSET Units, NEW arready \in BOOLEAN, NEW rvalid \in BOOLEAN,
         Inputs(asked, arready, rvalid), Clock(asked, arready, rvalid), NEW i \in Units
  PROVE  WaitsMove(i, asked, arready)
<1> TypeOK
  BY DEF RInv
<1>1. \A j \in asked : issued[j] < Len(program[j])
  BY DEF Inputs
<1>2. /\ \A r \in Rcvs : rcv'[r] = Receiver(r, asked)
      /\ read_ack' = Acknowledged(arready)
  BY <1>1, ReceiversStep DEF Clock
<1>3. \A r \in Rcvs : Goes(r, asked)
  BY <1>1, ReceiverStep
<1>4. \A r \in RcvsOf(i) : r \in Rcvs /\ UnitOf(r) = i
  BY UnitsOfReceivers
<1>5. \A r \in Acknowledged(arready) : rcv[r].st = "read" /\ r \notin read_ack
  BY AcknowledgedAre DEF perform_read
<1>6. \A r \in read_ack : rcv[r].st = "read"
  BY DEF TypeOK, perform_read
<1>7. Acknowledged(arready) \cap RcvsOf(i) \subseteq Waits(i)
  BY <1>5 DEF Waits
<1>8. ASSUME NEW r \in Waits(i) \ Acknowledged(arready)
      PROVE  r \in Waits(i)' /\ rcv'[r].load = rcv[r].load
  <2>1. r \in Rcvs /\ r \in RcvsOf(i) /\ rcv[r].st \in {"go", "read"} /\ r \notin read_ack
    BY <1>4 DEF Waits
  <2>2. Receiver(r, asked).st = "read" /\ Receiver(r, asked).load = rcv[r].load
    BY <1>3, <2>1 DEF Goes
  <2> QED
    BY <1>2, <2>1, <2>2 DEF Waits
<1>9. ASSUME NEW r \in Waits(i)'
      PROVE  \/ r \in Waits(i) \ Acknowledged(arready) /\ rcv'[r].load = rcv[r].load
             \/ i \in asked /\ r = MaxOf(Free(i)) /\ rcv'[r].load = Load(i)
  <2>1. /\ r \in RcvsOf(i) /\ r \in Rcvs /\ UnitOf(r) = i
        /\ Receiver(r, asked).st \in {"go", "read"} /\ rcv'[r] = Receiver(r, asked)
        /\ r \notin Acknowledged(arready)
    BY <1>2, <1>4 DEF Waits
  <2>2. rcv[r].st \in {"idle", "back", "go", "read"}
    BY <2>1, ReceiverTypes
  <2>3. Receiver(r, asked) # Idle /\ Receiver(r, asked) # Back
    BY <2>1 DEF Idle, Back
  <2>4. CASE rcv[r].st = "idle"
    BY <1>3, <2>1, <2>3, <2>4 DEF Goes
  <2>5. CASE rcv[r].st = "go"
    BY <1>3, <1>6, <2>1, <2>5 DEF Goes, Waits
  <2>6. CASE rcv[r].st = "read"
    BY <1>3, <2>1, <2>3, <2>6 DEF Goes, Waits
  <2>7. CASE rcv[r].st = "back"
    BY <1>3, <2>1, <2>3, <2>7 DEF Goes
  <2> QED
    BY <2>2, <2>4, <2>5, <2>6, <2>7
<1>10. i \in asked => Load(i).tag = issued[i] + 1
  BY <1>1, NewLoad
<1> QED
  BY <1>7, <1>8, <1>9, <1>10 DEF WaitsMove

-----------------------------------------------------------------------------
(* A number is in one place *)

\* an entry of the next cycle: one of this cycle, or the load of a receiver that is told
EntryFrom(i, t, arready, k) ==
  \/ /\ k \in 1..Len(Metas) - t /\ k + t \in 1..Len(Metas)
     /\ Metas'[k][i] = Metas[k + t][i] /\ Reads'[k] = Reads[k + t]
  \/ /\ k = Len(Metas) - t + 1 /\ k = Len(Metas') /\ arready /\ Reads'[k] = axi_rd
     /\ \E r \in Acknowledged(arready) \cap RcvsOf(i) :
          /\ Acknowledged(arready) \cap RcvsOf(i) = {r}
          /\ Metas'[k][i] = rcv[r].load.tag

LEMMA EntrySources ==
  ASSUME TypeOK, NEW arready \in BOOLEAN, NEW t, EntriesMove(t, arready), NEW i \in Units,
         NEW k, Has(i, k)'
  PROVE  EntryFrom(i, t, arready, k)
<1>1. k \in 1..Len(Metas') /\ Metas'[k][i] # None
  BY DEF Has
<1>2. /\ t \in {0, 1} /\ Len(Metas) \in Nat /\ t <= Len(Metas)
      /\ Len(Metas') = Len(Metas) - t + (IF arready /\ axi_rd # None THEN 1 ELSE 0)
      /\ \A j \in 1..Len(Metas) - t : Metas'[j] = Metas[j + t] /\ Reads'[j] = Reads[j + t]
  BY DEF EntriesMove
<1>3. CASE k \in 1..Len(Metas) - t
  BY <1>2, <1>3 DEF EntryFrom
<1>4. CASE k \notin 1..Len(Metas) - t
  <2>1. k = Len(Metas) - t + 1 /\ k = Len(Metas') /\ arready /\ axi_rd # None
    BY <1>1, <1>2, <1>4
  <2>2. Reads'[k] = axi_rd /\ Metas'[k][i] = TagOf(i, Acknowledged(arready))
    BY <2>1 DEF EntriesMove
  <2>3. \E r \in Acknowledged(arready) \cap RcvsOf(i) :
          /\ Acknowledged(arready) \cap RcvsOf(i) = {r}
          /\ TagOf(i, Acknowledged(arready)) = rcv[r].load.tag
    BY <1>1, <2>2, TagsOfAcknowledged
  <2> QED
    BY <2>1, <2>2, <2>3 DEF EntryFrom
<1> QED
  BY <1>3, <1>4

LEMMA TagsAreNumbers ==
  ASSUME TypeOK, NEW i \in Units
  PROVE  /\ \A r \in Waits(i) : rcv[r].load.tag \in Nat
         /\ \A k \in 1..Len(Metas) : Has(i, k) => Metas[k][i] \in Nat
         /\ issued[i] \in Nat
<1>1. \A r \in Waits(i) : rcv[r].load.tag \in Nat
  BY ReceiverTypes, UnitsOfReceivers DEF Waits
<1>2. Metas \in Seq(Entries)
  BY Registers
<1>3. \A k \in 1..Len(Metas) : Metas[k] \in Entries
  BY <1>2, ElementOfSeq
<1>4. \A k \in 1..Len(Metas) : Has(i, k) => Metas[k][i] \in Nat
  BY <1>3 DEF Entries, Tags, Has
<1>5. program[i] \in Seq(Lines) /\ issued[i] \in 0..Len(program[i])
  BY ProgramsAssumption DEF TypeOK
<1> QED
  BY <1>1, <1>4, <1>5

LEMMA NumbersStep ==
  ASSUME RInv, NEW asked \in SUBSET Units, NEW arready \in BOOLEAN, NEW rvalid \in BOOLEAN,
         Inputs(asked, arready, rvalid), Clock(asked, arready, rvalid),
         NEW i \in Units, Numbers(i)
  PROVE  Numbers(i)'
<1> DEFINE t == IF rvalid THEN 1 ELSE 0
           A == Acknowledged(arready)
<1>1. EntriesMove(t, arready)
  BY EntriesStep
<1>2. WaitsMove(i, asked, arready)
  BY WaitsStep
<1>3. issued'[i] = IF i \in asked THEN issued[i] + 1 ELSE issued[i]
  BY DEF Clock, Receivers
<1>4. /\ \A r \in Waits(i) : rcv[r].load.tag \in Nat
      /\ \A k \in 1..Len(Metas) : Has(i, k) => Metas[k][i] \in Nat
      /\ issued[i] \in Nat
  BY TagsAreNumbers DEF RInv
<1>5. /\ \A r \in Waits(i) : rcv[r].load.tag <= issued[i]
      /\ \A k \in 1..Len(Metas) : Has(i, k) => Metas[k][i] <= issued[i]
      /\ \A q, r \in Waits(i) : rcv[q].load.tag = rcv[r].load.tag => q = r
      /\ \A r \in Waits(i), k \in 1..Len(Metas) : Has(i, k) => rcv[r].load.tag # Metas[k][i]
      /\ \A j, k \in 1..Len(Metas) : Has(i, j) /\ Metas[j][i] = Metas[k][i] => j = k
  BY DEF Numbers
<1>6. \A k : Has(i, k)' => EntryFrom(i, t, arready, k)
  BY <1>1, EntrySources DEF RInv
<1>7. /\ t \in {0, 1} /\ Len(Metas) \in Nat
  BY <1>1 DEF EntriesMove
<1> HIDE DEF t, A
<1>8. /\ A \cap RcvsOf(i) \subseteq Waits(i)
      /\ \A r \in Waits(i)' :
           \/ r \in Waits(i) \ A /\ rcv'[r].load.tag = rcv[r].load.tag
           \/ i \in asked /\ r = MaxOf(Free(i)) /\ rcv'[r].load.tag = issued[i] + 1
  BY <1>2 DEF WaitsMove, A
\* where an entry of the next cycle has its number from
<1>9. \A k : Has(i, k)' =>
        \/ /\ k \in 1..Len(Metas) - t /\ Has(i, k + t) /\ Metas'[k][i] = Metas[k + t][i]
        \/ /\ k = Len(Metas) - t + 1
           /\ \E r \in A \cap RcvsOf(i) : Metas'[k][i] = rcv[r].load.tag
  <2> SUFFICES ASSUME NEW k, Has(i, k)'
               PROVE \/ /\ k \in 1..Len(Metas) - t /\ Has(i, k + t) /\ Metas'[k][i] = Metas[k + t][i]
                     \/ /\ k = Len(Metas) - t + 1
                        /\ \E r \in A \cap RcvsOf(i) : Metas'[k][i] = rcv[r].load.tag
    OBVIOUS
  <2>1. EntryFrom(i, t, arready, k) /\ Metas'[k][i] # None
    BY <1>6 DEF Has
  <2> QED
    BY <2>1 DEF EntryFrom, Has, A
<1>10. \A r \in Waits(i)' : rcv'[r].load.tag <= issued'[i]
  BY <1>3, <1>4, <1>5, <1>8
<1>11. \A k : Has(i, k)' => Metas'[k][i] <= issued[i] /\ Metas'[k][i] \in Nat
  <2>1. \A k : Has(i, k) => k \in 1..Len(Metas)
    BY DEF Has
  <2> QED
    BY <1>4, <1>5, <1>8, <1>9, <2>1
<1>12. \A q, r \in Waits(i)' : rcv'[q].load.tag = rcv'[r].load.tag => q = r
  BY <1>4, <1>5, <1>8
<1>13. ASSUME NEW r \in Waits(i)', NEW k, Has(i, k)'
       PROVE  rcv'[r].load.tag # Metas'[k][i]
  <2>1. CASE i \in asked /\ rcv'[r].load.tag = issued[i] + 1
    BY <1>4, <1>11, <1>13, <2>1
  <2>2. CASE r \in Waits(i) \ A /\ rcv'[r].load.tag = rcv[r].load.tag
    <3>1. CASE Has(i, k + t) /\ Metas'[k][i] = Metas[k + t][i]
      BY <1>5, <2>2, <3>1 DEF Has
    <3>2. ASSUME NEW q \in A \cap RcvsOf(i), Metas'[k][i] = rcv[q].load.tag
          PROVE  rcv'[r].load.tag # Metas'[k][i]
      BY <1>5, <1>8, <2>2, <3>2
    <3> QED
      BY <1>9, <1>13, <3>1, <3>2
  <2> QED
    BY <1>8, <2>1, <2>2
<1>14. ASSUME NEW j, NEW k, Has(i, j)', Has(i, k)', Metas'[j][i] = Metas'[k][i]
       PROVE  j = k
  <2> DEFINE Old(n) == /\ n \in 1..Len(Metas) - t /\ Has(i, n + t)
                       /\ Metas'[n][i] = Metas[n + t][i]
             New(n) == /\ n = Len(Metas) - t + 1
                       /\ \E r \in A \cap RcvsOf(i) : Metas'[n][i] = rcv[r].load.tag
  <2>1. (Old(j) \/ New(j)) /\ (Old(k) \/ New(k))
    BY <1>9, <1>14
  <2>2. ASSUME Old(j), Old(k) PROVE j = k
    <3>1. j + t \in 1..Len(Metas) /\ k + t \in 1..Len(Metas) /\ j \in Int /\ k \in Int
      BY <2>2 DEF Has
    <3>2. j + t = k + t
      BY <1>5, <1>14, <2>2, <3>1
    <3> QED
      BY <1>7, <3>1, <3>2
  <2>3. ASSUME NEW n, NEW o, Old(n), New(o), Metas'[n][i] = Metas'[o][i] PROVE FALSE
    <3>1. PICK r \in A \cap RcvsOf(i) : Metas'[o][i] = rcv[r].load.tag
      BY <2>3
    <3>2. r \in Waits(i) /\ n + t \in 1..Len(Metas) /\ Has(i, n + t)
      BY <1>8, <2>3 DEF Has
    <3> QED
      BY <1>5, <2>3, <3>1, <3>2
  <2>4. ASSUME New(j), New(k) PROVE j = k
    BY <2>4
  <2> HIDE DEF Old, New
  <2> QED
    BY <1>14, <2>1, <2>2, <2>3, <2>4
<1>15. \A k \in 1..Len(Metas') : Metas'[k][i] # None => Has(i, k)'
  BY DEF Has
<1>16. \A j, k \in 1..Len(Metas') : Has(i, j)' /\ Metas'[j][i] = Metas'[k][i] => j = k
  <2>1. \A j, k \in 1..Len(Metas') : Has(i, j)' /\ Metas'[j][i] = Metas'[k][i] => Has(i, k)'
    BY <1>15 DEF Has
  <2> QED
    BY <1>14, <2>1
<1>17. \A k \in 1..Len(Metas') : Has(i, k)' => Metas'[k][i] <= issued'[i]
  BY <1>3, <1>4, <1>11
<1> QED
  BY <1>10, <1>12, <1>13, <1>16, <1>17 DEF Numbers

NInv == RInv /\ \A i \in Units : Numbers(i)

LEMMA NumbersStart == Init => \A i \in Units : Numbers(i)
<1> SUFFICES ASSUME Init, NEW i \in Units PROVE Numbers(i)
  OBVIOUS
<1>1. Waits(i) = {}
  BY UnitsOfReceivers DEF Init, Waits, Back
<1>2. Metas = <<>> /\ Len(Metas) = 0
  BY DEF Init, Metas, In
<1> QED
  BY <1>1, <1>2 DEF Numbers, Has

LEMMA NumbersInvariant == Spec => []NInv
<1>1. NInv /\ UNCHANGED vars => NInv'
  BY DEF NInv, RInv, TypeOK, EntryForEveryRead, perform_read, Metas, Reads, In, vars,
         Numbers, Waits, Has
<1>2. NInv /\ Next => NInv'
  <2> SUFFICES ASSUME NInv, NEW asked \in SUBSET Units, NEW arready \in BOOLEAN,
                      NEW rvalid \in BOOLEAN,
                      Inputs(asked, arready, rvalid), Clock(asked, arready, rvalid)
               PROVE  NInv'
    BY DEF Next
  <2>1. RInv'
    BY Step DEF NInv
  <2>2. \A i \in Units : Numbers(i)'
    BY NumbersStep DEF NInv
  <2> QED
    BY <2>1, <2>2 DEF NInv
<1>3. Init => NInv
  BY Start, NumbersStart DEF NInv
<1> QED
  BY <1>1, <1>2, <1>3, PTL DEF Spec

-----------------------------------------------------------------------------
(* The responder serves loads *)

\* what is outstanding: the loads that wait and the entries
LEMMA OutstandingIs ==
  ASSUME RInv, NEW i \in Units
  PROVE  /\ Outstanding[i] = Waiting(i) \cup Read(i)
         /\ \A x : x \in Waiting(i) <=> \E r \in Waits(i) : x = rcv[r].load
         /\ \A x : x \in Read(i) <=> \E k \in 1..Len(Metas) :
                     Has(i, k) /\ x = [tag |-> Metas[k][i], line |-> Reads[k]]
         /\ Outstanding[i] \subseteq Loads
<1>1. Len(Metas) = Len(Reads) /\ Reads \in Seq(Lines) /\ Len(Metas) \in Nat
  BY Registers, LenProperties DEF RInv, EntryForEveryRead
<1>2. \A x : x \in Waiting(i) <=> \E r \in Waits(i) : x = rcv[r].load
  BY DEF Waiting, Waits
<1>3. \A k \in 1..Len(Metas) : k <= Len(Reads) /\ Reads[k] \in Lines
  BY <1>1, ElementOfSeq
<1>4. \A x : x \in Read(i) <=> \E k \in 1..Len(Metas) :
                Has(i, k) /\ x = [tag |-> Metas[k][i], line |-> Reads[k]]
  BY <1>3 DEF Read, Has
<1>5. Read(i) \subseteq Loads
  <2>1. \A k \in 1..Len(Metas) : Has(i, k) => Metas[k][i] \in Nat
    BY TagsAreNumbers DEF RInv
  <2> QED
    BY <1>3, <1>4, <2>1 DEF Loads, Tags
<1>6. Waiting(i) \subseteq Loads
  BY <1>2, ReceiverTypes, UnitsOfReceivers DEF Waits, RInv
<1> QED
  BY <1>2, <1>4, <1>5, <1>6 DEF Outstanding

\* a load that is outstanding is answered or still outstanding
LEMMA NothingLost ==
  ASSUME RInv, NEW asked \in SUBSET Units, NEW arready \in BOOLEAN, NEW rvalid \in BOOLEAN,
         Inputs(asked, arready, rvalid), Clock(asked, arready, rvalid), RInv',
         NEW i \in Units, NEW x \in Outstanding[i], x # answer'[i]
  PROVE  x \in Outstanding'[i]
<1> DEFINE t == IF rvalid THEN 1 ELSE 0
           A == Acknowledged(arready)
<1>1. EntriesMove(t, arready)
  BY EntriesStep
<1>2. WaitsMove(i, asked, arready)
  BY WaitsStep
<1>3. /\ t \in {0, 1} /\ Len(Metas) \in Nat /\ t <= Len(Metas) /\ (t = 1 <=> rvalid)
      /\ Len(Metas') = Len(Metas) - t + (IF arready /\ axi_rd # None THEN 1 ELSE 0)
      /\ \A k \in 1..Len(Metas) - t : Metas'[k] = Metas[k + t] /\ Reads'[k] = Reads[k + t]
  BY <1>1 DEF EntriesMove
<1>4. Outstanding'[i] = Waiting(i)' \cup Read(i)'
  BY DEF Outstanding
<1>5. \A r \in Waits(i)' : rcv'[r].load \in Outstanding'[i]
  BY <1>4 DEF Waiting, Waits
<1>6. \A k \in 1..Len(Metas') : Metas'[k][i] # None =>
        [tag |-> Metas'[k][i], line |-> Reads'[k]] \in Outstanding'[i]
  <2>1. Len(Metas') = Len(Reads')
    BY DEF RInv, EntryForEveryRead
  <2>2. Len(Metas') \in Nat
    BY <1>3
  <2> QED
    BY <1>4, <2>1, <2>2 DEF Read
<1>7. ASSUME NEW r \in Waits(i), x = rcv[r].load
      PROVE  x \in Outstanding'[i]
  <2>1. CASE r \notin A
    BY <1>2, <1>5, <1>7, <2>1 DEF WaitsMove
  <2>2. CASE r \in A
    <3>1. r \in RcvsOf(i)
      BY DEF Waits
    <3>2. arready /\ axi_rd # None /\ rcv[r].load.line = axi_rd
      BY <2>2, AcknowledgedAre DEF RInv
    <3>3. A \cap RcvsOf(i) = {r} /\ TagOf(i, A) = rcv[r].load.tag /\ TagOf(i, A) \in Nat
      BY <2>2, <3>1, TagsOfAcknowledged DEF RInv
    <3>4. PICK k \in 1..Len(Metas') : k = Len(Metas')
      BY <1>3, <3>2
    <3>5. Metas'[k][i] = rcv[r].load.tag /\ Reads'[k] = axi_rd
      BY <1>1, <3>2, <3>3, <3>4 DEF EntriesMove
    <3>6. [tag |-> rcv[r].load.tag, line |-> axi_rd] \in Outstanding'[i]
      BY <1>6, <3>3, <3>5, NoneAssumption DEF Tags
    <3>7. x \in Loads
      BY <1>7, OutstandingIs
    <3> QED
      BY <1>7, <3>2, <3>6, <3>7 DEF Loads
  <2> QED
    BY <2>1, <2>2
<1>8. ASSUME NEW k \in 1..Len(Metas), Has(i, k), x = [tag |-> Metas[k][i], line |-> Reads[k]]
      PROVE  x \in Outstanding'[i]
  <2>1. CASE k = 1 /\ rvalid
    <3>1. rvalid => memory # <<>>
      BY DEF Inputs
    <3>2. answer'[i] = [tag |-> Metas[1][i], line |-> Reads[1]]
      BY <1>8, <2>1, <3>1, AnswerStep DEF Clock, Has
    <3> QED
      BY <1>8, <2>1, <3>2
  <2>2. CASE ~(k = 1 /\ rvalid)
    <3>1. PICK j \in 1..Len(Metas) - t : j + t = k
      <4>1. k - t \in 1..Len(Metas) - t /\ k - t + t = k
        BY <1>3, <2>2
      <4> QED
        BY <4>1
    <3>2. Metas'[j] = Metas[k] /\ Reads'[j] = Reads[k] /\ j \in 1..Len(Metas')
      BY <1>3, <3>1
    <3> QED
      BY <1>6, <1>8, <3>2 DEF Has
  <2> QED
    BY <2>1, <2>2
<1> QED
  BY <1>7, <1>8, OutstandingIs

\* what is answered was outstanding, and is not any more
LEMMA AnsweredOnce ==
  ASSUME RInv, NEW asked \in SUBSET Units, NEW arready \in BOOLEAN, NEW rvalid \in BOOLEAN,
         Inputs(asked, arready, rvalid), Clock(asked, arready, rvalid), RInv',
         NEW i \in Units, Numbers(i), answer'[i] # None
  PROVE  answer'[i] \in Outstanding[i] /\ answer'[i] \notin Outstanding'[i]
<1> DEFINE t == IF rvalid THEN 1 ELSE 0
           A == Acknowledged(arready)
           z == answer'[i]
<1>1. rvalid => memory # <<>>
  BY DEF Inputs
<1>2. /\ rvalid /\ Len(Metas) >= 1 /\ Metas[1][i] # None
      /\ z = [tag |-> Metas[1][i], line |-> Reads[1]]
  BY <1>1, AnswerStep DEF Clock
<1>3. EntriesMove(t, arready) /\ t = 1 /\ Len(Metas) \in Nat
  BY <1>2, EntriesStep DEF EntriesMove
<1>4. 1 \in 1..Len(Metas) /\ Has(i, 1)
  BY <1>2, <1>3 DEF Has
<1>5. z \in Outstanding[i]
  BY <1>2, <1>4, OutstandingIs
<1>6. /\ \A k \in 1..Len(Metas) : Has(i, k) => Metas[k][i] <= issued[i]
      /\ \A r \in Waits(i), k \in 1..Len(Metas) : Has(i, k) => rcv[r].load.tag # Metas[k][i]
      /\ \A j, k \in 1..Len(Metas) : Has(i, j) /\ Metas[j][i] = Metas[k][i] => j = k
  BY DEF Numbers
<1>7. Metas[1][i] \in Nat /\ issued[i] \in Nat
  BY <1>4, TagsAreNumbers DEF RInv
<1>8. WaitsMove(i, asked, arready)
  BY WaitsStep
<1>9. ASSUME NEW r \in Waits(i)' PROVE rcv'[r].load # z
  <2>1. CASE r \in Waits(i) /\ rcv'[r].load = rcv[r].load
    BY <1>2, <1>4, <1>6, <2>1
  <2>2. CASE rcv'[r].load = Load(i) /\ Load(i).tag = issued[i] + 1
    BY <1>2, <1>4, <1>6, <1>7, <2>2
  <2> QED
    BY <1>8, <1>9, <2>1, <2>2 DEF WaitsMove
<1>10. ASSUME NEW k, Has(i, k)' PROVE Metas'[k][i] # Metas[1][i]
  <2>1. EntryFrom(i, t, arready, k)
    BY <1>3, <1>10, EntrySources DEF RInv
  <2>2. CASE k \in 1..Len(Metas) - t /\ k + t \in 1..Len(Metas) /\ Metas'[k][i] = Metas[k + t][i]
    <3>1. k + t # 1
      BY <1>3, <2>2
    <3> QED
      BY <1>4, <1>6, <2>2, <3>1
  <2>3. ASSUME NEW r \in A \cap RcvsOf(i), Metas'[k][i] = rcv[r].load.tag
        PROVE  Metas'[k][i] # Metas[1][i]
    <3>1. r \in Waits(i)
      BY <1>8, <2>3 DEF WaitsMove
    <3> QED
      BY <1>4, <1>6, <2>3, <3>1
  <2> QED
    BY <2>1, <2>2, <2>3 DEF EntryFrom
<1>11. z \notin Waiting(i)'
  BY <1>9 DEF Waiting, Waits
<1>12. z \notin Read(i)'
  <2>1. \A k \in 1..Len(Metas') : Metas'[k][i] # None =>
          [tag |-> Metas'[k][i], line |-> Reads'[k]] # z
    BY <1>2, <1>10 DEF Has
  <2> QED
    BY <2>1 DEF Read
<1>13. Outstanding'[i] = Waiting(i)' \cup Read(i)'
  BY DEF Outstanding
<1> QED
  BY <1>5, <1>11, <1>12, <1>13

OutstandingLoads == \A i \in Units : Outstanding[i] \subseteq Loads

LEMMA Serves ==
  ASSUME NInv, NInv', OutstandingLoads', Next
  PROVE  Service!Next
<1>1. PICK asked \in SUBSET Units, arready \in BOOLEAN, rvalid \in BOOLEAN :
        Inputs(asked, arready, rvalid) /\ Clock(asked, arready, rvalid)
  BY DEF Next
<1>2. DOMAIN Outstanding' = Units /\ DOMAIN answer' = Units
  BY DEF Outstanding, NInv, RInv, TypeOK
<1>3. ASSUME NEW i \in Units
      PROVE  /\ Outstanding'[i] \ Outstanding[i] \subseteq Loads
             /\ answer'[i] \in Outstanding[i] \cup {None}
             /\ Outstanding'[i] = (Outstanding[i] \ {answer'[i]})
                                    \cup (Outstanding'[i] \ Outstanding[i])
  <2>1. \A x \in Outstanding[i] : x # answer'[i] => x \in Outstanding'[i]
    BY <1>1, NothingLost DEF NInv
  <2>2. answer'[i] # None => answer'[i] \in Outstanding[i] /\ answer'[i] \notin Outstanding'[i]
    BY <1>1, AnsweredOnce DEF NInv
  <2>3. Outstanding[i] \subseteq Loads /\ None \notin Loads
    BY OutstandingIs, NoneAssumption DEF NInv
  <2>4. Outstanding'[i] \subseteq Loads
    BY DEF OutstandingLoads
  <2> QED
    BY <2>1, <2>2, <2>3, <2>4
<1> QED
  BY <1>2, <1>3 DEF Service!Next

\* While loads come, receivers of both units are told together, one read serves
\* several and the memory takes and answers in its own time, every load is
\* answered once, with its own number and its own line.
THEOREM LoadsServed == Spec => AnswersEachLoadOnce
<1>1. Init => Service!Init
  <2> SUFFICES ASSUME Init PROVE Service!Init
    OBVIOUS
  <2>1. RInv
    BY Start
  <2>2. \A i \in Units : Waits(i) = {}
    BY UnitsOfReceivers DEF Init, Waits, Back
  <2>3. Len(Metas) = 0
    BY DEF Init, Metas, In
  <2>4. \A i \in Units : Waiting(i) = {} /\ Read(i) = {}
    BY <2>1, <2>2, <2>3, OutstandingIs
  <2>5. Outstanding = [i \in Units |-> {}]
    BY <2>4 DEF Outstanding
  <2> QED
    BY <2>5 DEF Init, Service!Init
<1>2. NInv => OutstandingLoads
  BY OutstandingIs DEF NInv, OutstandingLoads
<1>3. NInv /\ NInv' /\ OutstandingLoads' /\ [Next]_vars
        => [Service!Next]_<<Outstanding, answer>>
  <2>1. CASE Next
    BY <2>1, Serves
  <2>2. CASE UNCHANGED vars
    BY <2>2 DEF vars, Outstanding, Waiting, Read, Metas, Reads, In
  <2> QED
    BY <2>1, <2>2
<1>4. Service!Init /\ [][Service!Next]_<<Outstanding, answer>> => AnswersEachLoadOnce
  BY DEF AnswersEachLoadOnce, Service!Spec
<1> QED
  BY <1>1, <1>2, <1>3, <1>4, NumbersInvariant, PTL DEF Spec
=============================================================================
