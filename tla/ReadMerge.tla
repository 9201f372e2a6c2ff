------------------------------ MODULE ReadMerge ------------------------------
(***************************************************************************)
(* How a memory controller answers loads (RTL/gmem_cntrl_hbm.vhd).  A load *)
(* waits in a receiver of its unit.  The responder picks a waiting         *)
(* receiver and reads its line; a cycle later, and only then, it looks     *)
(* which receivers wait for that line: one of each unit is acknowledged    *)
(* and its number goes into metaQ.  The memory answers in order, so the    *)
(* head of metaQ says whose answer a line is.  A receiver that was picked  *)
(* is not picked in the next two cycles, which is the time its             *)
(* acknowledge takes; one that another's read served is read in vain.      *)
(*                                                                         *)
(* One step is one clock edge.  Loads that come, arready and the time of   *)
(* the memory's answers are inputs.                                        *)
(***************************************************************************)
EXTENDS Integers, Sequences, SequencesExt

CONSTANTS NReceivers,   \* of each unit (N_RECEIVERS_CU)
          Programs,     \* the lines the units load, one after the other
          Lines,
          MaxReads,     \* reads the memory takes before it answers one
          MetaDepth,    \* of gmem_metaQ
          None

ASSUME SizesAssumption == /\ NReceivers \in Nat \ {0}
                          /\ MaxReads \in Nat \ {0} /\ MetaDepth \in Nat \ {0}
ASSUME MetaAssumption == MaxReads < MetaDepth

Units == {0, 1}

ASSUME ProgramsAssumption == Programs \subseteq [Units -> Seq(Lines)]

Tags == Nat   \* the number of a load in its unit's program
Loads == [tag : Tags, line : Lines]
NAll == 2 * NReceivers
Rcvs == 0..NAll-1

ASSUME NoneAssumption == /\ None \notin Lines /\ None \notin Loads /\ None \notin Tags
                         /\ None \notin Rcvs /\ None \notin [Units -> Tags \cup {None}]

UnitOf(r) == r \div NReceivers
RcvsOf(i) == i * NReceivers .. (i + 1) * NReceivers - 1

VARIABLES
  program, issued, \* what the units load, and how much of it has come
  rcv,             \* the receivers: [st, load]
  pri_enc,         \* the receiver the responder prefers
  axi_rd,          \* axi_rd_addr if axi_read_v: the line picked
  rcv_to_read,     \* the receiver picked with it
  masked,          \* receivers not to be picked: the zeros of rcv_to_read_d0
  read_ack,        \* the receivers acknowledged
  meta_fifo_in,    \* what is pushed into metaQ: a number or None for each unit
  metaQ,
  axi_ar,          \* axi_araddr if axi_arvalid
  memory,          \* the reads the memory has taken
  answer           \* rdAck, rdCntrl, rdData

vars == <<program, issued, rcv, pri_enc, axi_rd, rcv_to_read, masked, read_ack,
          meta_fifo_in, metaQ, axi_ar, memory, answer>>

Idle == [st |-> "idle", load |-> None]
Back == [st |-> "back", load |-> None]

Init ==
  /\ program \in Programs
  /\ issued = [i \in Units |-> 0]
  /\ rcv = [r \in Rcvs |-> Back]
  /\ pri_enc = 0
  /\ axi_rd = None /\ rcv_to_read = None /\ masked = {}
  /\ read_ack = {}
  /\ meta_fifo_in = None /\ metaQ = << >>
  /\ axi_ar = None /\ memory = << >>
  /\ answer = [i \in Units |-> None]

-----------------------------------------------------------------------------
(* The receivers *)

Free(i) == {r \in RcvsOf(i) : rcv[r].st = "idle"}
MaxOf(s) == CHOOSE r \in s : \A q \in s : q <= r
MinOf(s) == CHOOSE r \in s : \A q \in s : r <= q

perform_read == {r \in Rcvs : rcv[r].st = "read"}

\* the next load of a unit
Load(i) == [tag |-> issued[i] + 1, line |-> program[i][issued[i] + 1]]

Receiver(r, asked) ==
  LET i == UnitOf(r)
  IN CASE rcv[r].st = "back" -> Idle
       [] rcv[r].st = "idle" -> IF i \in asked /\ r = MaxOf(Free(i))
                                THEN [st |-> "go", load |-> Load(i)] ELSE Idle
       [] rcv[r].st = "go"   -> [rcv[r] EXCEPT !.st = "read"]
       [] rcv[r].st = "read" -> IF r \in read_ack THEN Back ELSE rcv[r]

Receivers(asked) ==
  /\ rcv' = [r \in Rcvs |-> Receiver(r, asked)]
  /\ issued' = [i \in Units |-> IF i \in asked THEN issued[i] + 1 ELSE issued[i]]
  /\ UNCHANGED program

-----------------------------------------------------------------------------
(* The responder *)

\* the preferred receiver if it waits, else the highest one that does
Candidates == perform_read \ masked
Pick == IF Candidates = {} THEN None
        ELSE IF pri_enc \in Candidates THEN pri_enc ELSE MaxOf(Candidates)

\* fault: it wraps one too late
NextPriLate == IF pri_enc = NAll THEN 0 ELSE pri_enc + 1

NextPri == (pri_enc + 1) % NAll

Priority(arready) ==
  pri_enc' = IF arready \/ pri_enc \notin perform_read THEN NextPri ELSE pri_enc

\* fault: a receiver that was picked stays masked
SelectReadMasking(arready) ==
  IF arready
  THEN /\ axi_rd' = IF Pick = None THEN None ELSE rcv[Pick].load.line
       /\ rcv_to_read' = Pick
       /\ masked' = (masked \cup {Pick}) \ {None}
  ELSE UNCHANGED <<axi_rd, rcv_to_read, masked>>

SelectRead(arready) ==
  IF arready
  THEN /\ axi_rd' = IF Pick = None THEN None ELSE rcv[Pick].load.line
       /\ rcv_to_read' = Pick
       /\ masked' = {rcv_to_read, Pick} \ {None}
  ELSE UNCHANGED <<axi_rd, rcv_to_read, masked>>

\* fault: a receiver is acknowledged again in the cycle it is told
MatchingTwice(i) == {r \in RcvsOf(i) \cap perform_read : rcv[r].load.line = axi_rd}

Matching(i) == {r \in RcvsOf(i) \cap perform_read : rcv[r].load.line = axi_rd} \ read_ack

Acknowledged(arready) ==
  {r \in Rcvs : \E i \in Units : arready /\ axi_rd # None
                                   /\ Matching(i) # {} /\ r = MinOf(Matching(i))}

TagOf(i, acks) == IF acks \cap RcvsOf(i) = {} THEN None
                  ELSE rcv[MinOf(acks \cap RcvsOf(i))].load.tag

\* fault: the entry is made when a read is picked, also while the memory waits
PushMetaEager(arready) ==
  meta_fifo_in' = IF axi_rd # None
                  THEN [i \in Units |-> TagOf(i, Acknowledged(arready))] ELSE None

PushMeta(arready) ==
  meta_fifo_in' = IF arready /\ axi_rd # None
                  THEN [i \in Units |-> TagOf(i, Acknowledged(arready))] ELSE None

Acknowledge(arready) == read_ack' = Acknowledged(arready) /\ PushMeta(arready)

-----------------------------------------------------------------------------
(* The memory's side *)

In(x) == IF x = None THEN << >> ELSE <<x>>

ReadChannel(arready) == axi_ar' = IF arready THEN axi_rd ELSE axi_ar

Memory(arready, rvalid) ==
  memory' = (IF rvalid THEN Tail(memory) ELSE memory)
              \o (IF arready THEN In(axi_ar) ELSE << >>)

MetaQ(rvalid) ==
  metaQ' = (IF rvalid /\ metaQ # << >> THEN Tail(metaQ) ELSE metaQ)
             \o (IF Len(metaQ) < MetaDepth THEN In(meta_fifo_in) ELSE << >>)

\* the head of metaQ, whatever it is, gives the number
Respond(rvalid) ==
  answer' = [i \in Units |->
               IF rvalid /\ metaQ # << >> /\ Head(metaQ)[i] # None
               THEN [tag |-> Head(metaQ)[i], line |-> Head(memory)] ELSE None]

-----------------------------------------------------------------------------
Clock(asked, arready, rvalid) ==
  /\ Receivers(asked)
  /\ Priority(arready) /\ SelectRead(arready) /\ Acknowledge(arready)
  /\ ReadChannel(arready) /\ Memory(arready, rvalid) /\ MetaQ(rvalid) /\ Respond(rvalid)

\* a unit's loads that are not in metaQ, and those that are
Waiting(i) == {rcv[r].load : r \in {q \in RcvsOf(i) : rcv[q].st \in {"go", "read"}} \ read_ack}

\* the lines of metaQ's entries, the one being pushed last
Reads == memory \o In(axi_ar)
Metas == metaQ \o In(meta_fifo_in)
Read(i) == {[tag |-> Metas[k][i], line |-> Reads[k]] :
              k \in {j \in 1..Len(Metas) : j <= Len(Reads) /\ Metas[j][i] # None}}

Outstanding == [i \in Units |-> Waiting(i) \cup Read(i)]

Inputs(asked, arready, rvalid) ==
  /\ \A i \in asked : Free(i) # {} /\ issued[i] < Len(program[i])
  /\ arready /\ axi_ar # None => Len(memory) < MaxReads
  /\ rvalid => memory # << >>

Next == \E asked \in SUBSET Units, arready, rvalid \in BOOLEAN :
          Inputs(asked, arready, rvalid) /\ Clock(asked, arready, rvalid)

Spec == Init /\ [][Next]_vars

-----------------------------------------------------------------------------
(* Properties *)

TypeOK ==
  /\ program \in Programs
  /\ \A i \in Units : issued[i] \in 0..Len(program[i])
  /\ rcv \in [Rcvs -> [st : {"idle", "back"}, load : {None}]
                        \cup [st : {"go", "read"}, load : Loads]]
  /\ pri_enc \in Rcvs
  /\ axi_rd \in Lines \cup {None} /\ axi_ar \in Lines \cup {None}
  /\ rcv_to_read \in Rcvs \cup {None}
  /\ masked \subseteq Rcvs /\ read_ack \subseteq perform_read
  /\ meta_fifo_in \in [Units -> Tags \cup {None}] \cup {None}
  /\ metaQ \in Seq([Units -> Tags \cup {None}]) /\ Len(metaQ) <= MetaDepth
  /\ memory \in Seq(Lines) /\ Len(memory) <= MaxReads
  /\ answer \in [Units -> Loads \cup {None}]

Service == INSTANCE LoadService WITH outstanding <- Outstanding

\* Although the responder looks for the receivers of a line a cycle after it
\* picked it, while new loads come, earlier ones are told and the memory pauses,
\* every load is answered once, with its own number and its own line.
AnswersEachLoadOnce == Service!Spec

\* An answer of the memory always finds its entry in metaQ: reads and entries go
\* in at different times and neither is ever lost or left over.
EntryForEveryRead == Len(Metas) = Len(Reads) /\ Len(metaQ) >= Len(memory)

(* The memory takes a read some time, and answers every one it took.        *)
StepWhere(P(_, _)) ==
  \E asked \in SUBSET Units, arready, rvalid \in BOOLEAN :
    P(arready, rvalid) /\ Inputs(asked, arready, rvalid) /\ Clock(asked, arready, rvalid)

FairSpec == /\ Spec
            /\ WF_vars(StepWhere(LAMBDA a, r : a))
            /\ WF_vars(StepWhere(LAMBDA a, r : r))

\* No load waits for ever in a receiver, although one read serves only one
\* receiver of a unit, and not the one that was picked.
EveryLoadAnswered == \A i \in Units : []<>(Outstanding[i] = {})
=============================================================================
