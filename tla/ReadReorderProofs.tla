------------------------- MODULE ReadReorderProofs --------------------------
(***************************************************************************)
(* The reorder buffer never passes on a slot the memory has not answered,  *)
(* nor a line of an earlier lap, for every number of slots and every       *)
(* interleaving of requests, answers and reads.                            *)
(*                                                                         *)
(* The argument: the slots ahead of the reader, `outstanding' of them, are *)
(* exactly those whose requests are open (Window).  A slot's lap bit is    *)
(* its own lap value if and only if it is in the window and answered; when *)
(* the reader leaves a slot, the lap value the slot is compared with flips *)
(* and the slot counts as empty without being written.                     *)
(*                                                                         *)
(* It follows that the buffer is a queue: the lines shown, in between and  *)
(* asked for (Shown, Between, Asked), one behind the other, change only by *)
(* the line taken at one end and the line asked for at the other.          *)
(***************************************************************************)
EXTENDS ReadReorder, SequenceTheorems, TLAPS

\* the next number is handed out right behind the window
CntrlInv ==
  mem_rqsts_cntrl = IF dataQ_rdAddr + outstanding >= NTags
                    THEN dataQ_rdAddr + outstanding - NTags
                    ELSE dataQ_rdAddr + outstanding

PendingInv == pending \subseteq Window

LapInv == \A t \in Tags :
            validQ[t] = write_value(t) <=> t \in Window \ pending

DataInv == \A t \in Window \ pending : dataQ[t] = requested[t]

\* the bit looked up a cycle ago may be the next slot's, but then the current
\* slot is known to be full
LookInv == SlotSeenFull => dataQ_rdAddr \in Window \ pending

IInv == TypeOK /\ CntrlInv /\ PendingInv /\ LapInv /\ DataInv /\ LookInv

-----------------------------------------------------------------------------
(* Arithmetic on the ring *)

LEMMA TagsArith == \A t \in Tags : t \in Nat /\ t < NTags /\ Succ(t) \in Tags
BY NTagsAssumption DEF Tags, Succ

LEMMA AheadSucc ==
  ASSUME NEW r \in Tags, NEW t \in Tags
  PROVE  Ahead(Succ(r), t) = IF t = r THEN NTags - 1 ELSE Ahead(r, t) - 1
BY NTagsAssumption DEF Tags, Succ, Ahead

LEMMA AheadOfCntrl ==
  ASSUME TypeOK, CntrlInv, NEW t \in Tags
  PROVE  /\ outstanding < NTags => (Ahead(dataQ_rdAddr, t) = outstanding <=> t = mem_rqsts_cntrl)
         /\ Ahead(dataQ_rdAddr, t) \in 0..NTags-1
         /\ Ahead(dataQ_rdAddr, t) = 0 <=> t = dataQ_rdAddr
BY NTagsAssumption, CreditAssumption DEF TypeOK, CntrlInv, Tags, Ahead

\* only the slot the reader leaves changes its lap value
LEMMA LapStep ==
  ASSUME NEW r \in Tags, NEW v \in BOOLEAN, NEW t \in Tags
  PROVE  Lap(Succ(r), IF r = NTags - 1 THEN ~v ELSE v, t)
           = IF t = r THEN ~Lap(r, v, t) ELSE Lap(r, v, t)
BY NTagsAssumption DEF Tags, Succ, Lap

-----------------------------------------------------------------------------

LEMMA InitIInv == Init => IInv
<1> SUFFICES ASSUME Init PROVE IInv
  OBVIOUS
<1>1. TypeOK
  <2>1. PICK zero \in Lines : dataQ = [t \in Tags |-> zero] /\ dataQ_rdData_n = zero
    BY DEF Init
  <2>2. 0 \in Tags /\ 0 \in 0..MaxOutstanding
    BY NTagsAssumption, CreditAssumption DEF Tags
  <2>3. dataQ \in [Tags -> Lines] /\ requested \in [Tags -> Lines]
    BY <2>1 DEF Init
  <2>4. validQ \in [Tags -> BOOLEAN]
    BY DEF Init
  <2>5. QED
    BY <2>1, <2>2, <2>3, <2>4 DEF Init, TypeOK
<1>2. Window = {}
  BY NTagsAssumption DEF Init, Window, Ahead, Tags
<1>3. CntrlInv
  BY NTagsAssumption DEF Init, CntrlInv
<1>4. LapInv
  BY <1>2, NTagsAssumption DEF Init, LapInv, write_value, Lap, Tags
<1>5. QED
  BY <1>1, <1>2, <1>3, <1>4 DEF Init, IInv, PendingInv, DataInv, LookInv, SlotSeenFull

\* The window gains the number just handed out and loses the slot just read.
LEMMA WindowStep ==
  ASSUME IInv, NEW new \in Lines \cup {None}, NEW tag \in Tags \cup {None},
         NEW deq \in BOOLEAN, Offered(new, tag, deq), Clock(new, tag, deq)
  PROVE  /\ Window' = (Window \cup (IF new = None THEN {} ELSE {mem_rqsts_cntrl}))
                        \ (IF dataQ_re(deq) THEN {dataQ_rdAddr} ELSE {})
         /\ new # None => mem_rqsts_cntrl \notin Window
         /\ dataQ_re(deq) => outstanding > 0
         /\ dataQ_re(deq) => dataQ_rdAddr \in Window \ pending
<1> USE DEF IInv
<1>0. /\ outstanding \in Nat /\ outstanding <= NTags /\ dataQ_rdAddr \in Tags
      /\ mem_rqsts_cntrl \in Tags /\ NTags \in Nat
  BY NTagsAssumption, CreditAssumption DEF TypeOK
<1>1. dataQ_re(deq) => dataQ_rdAddr \in Window \ pending
  BY DEF LookInv, dataQ_re
<1>2. dataQ_re(deq) => outstanding > 0
  BY <1>0, <1>1, AheadOfCntrl DEF Window
<1>3. new # None => outstanding < NTags
  BY <1>0, CreditAssumption DEF Offered
<1>4. new # None => mem_rqsts_cntrl \notin Window
  BY <1>0, <1>3, AheadOfCntrl DEF Window
<1>5. outstanding' = outstanding + (IF new = None THEN 0 ELSE 1)
                                 - (IF dataQ_re(deq) THEN 1 ELSE 0)
  BY DEF Clock, Request
<1>6. ASSUME NEW t \in Tags
      PROVE  t \in Window' <=> /\ t \in Window \/ (new # None /\ t = mem_rqsts_cntrl)
                               /\ ~(dataQ_re(deq) /\ t = dataQ_rdAddr)
  <2>1. /\ Ahead(dataQ_rdAddr, t) \in 0..NTags-1
        /\ Ahead(dataQ_rdAddr, t) = 0 <=> t = dataQ_rdAddr
        /\ outstanding < NTags => (Ahead(dataQ_rdAddr, t) = outstanding <=> t = mem_rqsts_cntrl)
    BY AheadOfCntrl
  <2>2. t \in Window' <=> Ahead(dataQ_rdAddr', t) < outstanding'
    BY DEF Window, Ahead, Tags
  <2>3. t \in Window <=> Ahead(dataQ_rdAddr, t) < outstanding
    BY DEF Window
  <2>4. CASE dataQ_re(deq)
    <3>1. dataQ_rdAddr' = Succ(dataQ_rdAddr)
      BY <2>4 DEF Clock, Advance
    <3>2. Ahead(dataQ_rdAddr', t) = IF t = dataQ_rdAddr THEN NTags - 1
                                    ELSE Ahead(dataQ_rdAddr, t) - 1
      BY <1>0, <3>1, AheadSucc
    <3>3. QED
      BY <1>0, <1>2, <1>3, <1>5, <2>1, <2>2, <2>3, <2>4, <3>2
  <2>5. CASE ~dataQ_re(deq)
    <3>1. dataQ_rdAddr' = dataQ_rdAddr
      BY <2>5 DEF Clock, Advance
    <3>2. QED
      BY <1>0, <1>3, <1>5, <2>1, <2>2, <2>3, <2>5, <3>1
  <2>6. QED
    BY <2>4, <2>5
<1>7. Window \subseteq Tags /\ Window' \subseteq Tags
  BY DEF Window, Tags
<1>8. QED
  BY <1>0, <1>1, <1>2, <1>4, <1>6, <1>7

-----------------------------------------------------------------------------
(* One clock edge preserves every part of the invariant *)

LEMMA ClockIInv ==
  ASSUME IInv, NEW new \in Lines \cup {None}, NEW tag \in Tags \cup {None},
         NEW deq \in BOOLEAN, Offered(new, tag, deq), Clock(new, tag, deq)
  PROVE  IInv'
<1> USE DEF IInv
<1> DEFINE re == dataQ_re(deq)
<1>0. /\ dataQ_rdAddr \in Tags /\ valid_value \in BOOLEAN /\ mem_rqsts_cntrl \in Tags
      /\ validQ \in [Tags -> BOOLEAN] /\ dataQ \in [Tags -> Lines]
      /\ requested \in [Tags -> Lines]
      /\ tag # None => tag \in pending /\ tag \in Tags
  BY DEF TypeOK, Offered
<1>1. /\ Window' = (Window \cup (IF new = None THEN {} ELSE {mem_rqsts_cntrl}))
                      \ (IF re THEN {dataQ_rdAddr} ELSE {})
      /\ new # None => mem_rqsts_cntrl \notin Window
      /\ re => outstanding > 0
      /\ re => dataQ_rdAddr \in Window \ pending
  BY WindowStep
<1>2. pending' = (pending \ {tag}) \cup (IF new = None THEN {} ELSE {mem_rqsts_cntrl})
  BY DEF Clock, Answer
<1>3. ASSUME NEW t \in Tags
      PROVE  Lap(dataQ_rdAddr', valid_value', t)
               = IF re /\ t = dataQ_rdAddr THEN ~write_value(t) ELSE write_value(t)
  <2>1. CASE re
    BY <1>0, <2>1, LapStep DEF Clock, Advance, write_value
  <2>2. CASE ~re
    BY <2>2 DEF Clock, Advance, write_value
  <2>3. QED
    BY <2>1, <2>2
<1>4. TypeOK'
  <2>1. outstanding' \in 0..MaxOutstanding
    BY <1>1, CreditAssumption, NTagsAssumption DEF TypeOK, Offered, Clock, Request
  <2>2. mem_rqsts_cntrl' \in Tags /\ dataQ_rdAddr' \in Tags
    BY <1>0, TagsArith DEF Clock, Request, Advance
  <2>3. pending' \subseteq Tags
    BY <1>0, <1>2 DEF TypeOK
  <2>4. requested' \in [Tags -> Lines] /\ dataQ' \in [Tags -> Lines]
    BY <1>0, NoneAssumption DEF Clock, Request, Answer
  <2>5. \A t \in Tags : write_value(t) \in BOOLEAN
    BY <1>0 DEF write_value, Lap
  <2>6. validQ' \in [Tags -> BOOLEAN]
    BY <1>0, <2>5 DEF Clock, Answer
  <2>7. dataQ_rdAddr_p0 \in Tags
    BY <1>0, TagsArith DEF dataQ_rdAddr_p0
  <2>8. dataQ_notEmpty' \in BOOLEAN
    BY <1>0, <2>7 DEF Clock, Answer
  <2>9. valid_value' \in BOOLEAN
    BY <1>0 DEF Clock, Advance
  <2>10. /\ dataQ_rdData_n' \in Lines /\ dataQ_valid_i' \in BOOLEAN
         /\ dataQ_rdData' \in Lines   /\ dataQ_valid' \in BOOLEAN
    BY <1>0 DEF TypeOK, Clock, Output
  <2>11. QED
    BY <2>1, <2>2, <2>3, <2>4, <2>6, <2>8, <2>9, <2>10 DEF TypeOK
<1>5. CntrlInv'
  <2>0. /\ outstanding \in Nat /\ outstanding <= NTags /\ NTags \in Nat \ {0}
        /\ new # None => outstanding < NTags
        /\ dataQ_rdAddr \in 0..NTags-1
    BY <1>0, NTagsAssumption, CreditAssumption DEF TypeOK, Offered, Tags
  <2>1. /\ outstanding' = outstanding + (IF new = None THEN 0 ELSE 1) - (IF re THEN 1 ELSE 0)
        /\ mem_rqsts_cntrl' = IF new = None THEN mem_rqsts_cntrl
                              ELSE IF mem_rqsts_cntrl = NTags - 1 THEN 0 ELSE mem_rqsts_cntrl + 1
        /\ dataQ_rdAddr' = IF ~re THEN dataQ_rdAddr
                           ELSE IF dataQ_rdAddr = NTags - 1 THEN 0 ELSE dataQ_rdAddr + 1
    BY DEF Clock, Request, Advance, Succ
  <2>2. QED
    BY <1>1, <2>0, <2>1 DEF CntrlInv
<1>6. PendingInv'
  BY <1>0, <1>1, <1>2 DEF PendingInv
<1>7. LapInv'
  <2> SUFFICES ASSUME NEW t \in Tags
               PROVE  validQ'[t] = write_value(t)' <=> t \in Window' \ pending'
    BY DEF LapInv, Tags, write_value, Lap
  <2>1. validQ'[t] = IF tag # None /\ t = tag THEN write_value(t) ELSE validQ[t]
    BY <1>0 DEF Clock, Answer
  <2>2. validQ[t] = write_value(t) <=> t \in Window \ pending
    BY DEF LapInv
  <2>3. validQ[t] \in BOOLEAN /\ write_value(t) \in BOOLEAN
    BY <1>0 DEF write_value, Lap
  <2>4. CASE re /\ t = dataQ_rdAddr
    BY <1>0, <1>1, <1>3, <2>1, <2>2, <2>3, <2>4 DEF write_value
  <2>5. CASE ~(re /\ t = dataQ_rdAddr) /\ tag # None /\ t = tag
    BY <1>0, <1>1, <1>2, <1>3, <2>1, <2>5 DEF PendingInv, write_value
  <2>6. CASE ~(re /\ t = dataQ_rdAddr) /\ ~(tag # None /\ t = tag)
    BY <1>0, <1>1, <1>2, <1>3, <2>1, <2>2, <2>6, NoneAssumption DEF Tags, write_value
  <2>7. QED
    BY <2>4, <2>5, <2>6
<1>8. DataInv'
  <2> SUFFICES ASSUME NEW t \in Tags, t \in Window' \ pending'
               PROVE  dataQ'[t] = requested'[t]
    BY DEF DataInv, Window, Tags
  <2>1. new # None => t # mem_rqsts_cntrl
    BY <1>2
  <2>2. requested'[t] = requested[t]
    BY <1>0, <2>1 DEF Clock, Request
  <2>3. CASE tag # None /\ t = tag
    BY <1>0, <2>2, <2>3 DEF Clock, Answer
  <2>4. CASE ~(tag # None /\ t = tag)
    <3>1. t \in Window \ pending
      BY <1>1, <1>2, <2>1, <2>4, NoneAssumption DEF Tags
    <3>2. dataQ'[t] = dataQ[t]
      BY <1>0, <2>4 DEF Clock, Answer
    <3>3. QED
      BY <2>2, <3>1, <3>2 DEF DataInv
  <2>5. QED
    BY <2>3, <2>4
<1>9. LookInv'
  <2> SUFFICES ASSUME validQ[dataQ_rdAddr_p0] = valid_value'
               PROVE  dataQ_rdAddr' \in Window' \ pending'
    BY DEF LookInv, SlotSeenFull, Clock, Answer
  <2>1. CASE re
    <3>1. /\ dataQ_rdAddr_p0 = Succ(dataQ_rdAddr) /\ dataQ_rdAddr' = Succ(dataQ_rdAddr)
          /\ Succ(dataQ_rdAddr) \in Tags
      BY <1>0, <2>1, TagsArith DEF dataQ_re, dataQ_rdAddr_p0, Clock, Advance
    <3>2. Lap(dataQ_rdAddr', valid_value', dataQ_rdAddr) = ~write_value(dataQ_rdAddr)
      BY <1>0, <1>3, <2>1
    <3>3. valid_value' = Lap(dataQ_rdAddr', valid_value', dataQ_rdAddr')
      BY <1>0, <3>1 DEF Lap, Tags
    <3>4. validQ[dataQ_rdAddr] = write_value(dataQ_rdAddr) /\ write_value(dataQ_rdAddr) \in BOOLEAN
      BY <1>0, <1>1, <2>1 DEF LapInv, write_value, Lap
    <3>5. dataQ_rdAddr' # dataQ_rdAddr
      BY <1>0, <2>1, <3>1, <3>2, <3>3, <3>4
    <3>6. validQ[dataQ_rdAddr'] = write_value(dataQ_rdAddr')
      BY <1>3, <3>1, <3>3, <3>5
    <3>7. dataQ_rdAddr' \in Window \ pending
      BY <3>1, <3>6 DEF LapInv
    <3>8. QED
      BY <1>1, <1>2, <3>5, <3>7
  <2>2. CASE ~re
    <3>1. dataQ_rdAddr' = dataQ_rdAddr /\ valid_value' = valid_value
      BY <2>2 DEF Clock, Advance
    <3>2. dataQ_rdAddr \in Window \ pending
      <4>1. CASE SlotSeenFull
        BY <4>1 DEF LookInv
      <4>2. CASE ~SlotSeenFull
        BY <1>0, <3>1, <4>2 DEF dataQ_rdAddr_p0, LapInv, write_value, Lap, Tags
      <4>3. QED
        BY <4>1, <4>2
    <3>3. QED
      BY <1>1, <1>2, <2>2, <3>1, <3>2
  <2>3. QED
    BY <2>1, <2>2
<1>10. QED
  BY <1>4, <1>5, <1>6, <1>7, <1>8, <1>9

-----------------------------------------------------------------------------

LEMMA Invariance == Spec => []IInv
<1>1. IInv /\ [Next]_vars => IInv'
  <2> SUFFICES ASSUME IInv, [Next]_vars PROVE IInv'
    OBVIOUS
  <2>1. CASE Next
    BY <2>1, ClockIInv DEF Next
  <2>2. CASE UNCHANGED vars
    BY <2>2 DEF vars, rqstVars, slotVars, outVars, IInv, TypeOK, CntrlInv, PendingInv, LapInv,
                DataInv, LookInv, SlotSeenFull, Window, Ahead, write_value, Lap
  <2>3. QED
    BY <2>1, <2>2
<1>2. QED
  BY <1>1, InitIInv, PTL DEF Spec

\* The registers of the buffer keep their types; in particular the credit is
\* never exceeded.
THEOREM TypeCorrect == Spec => []TypeOK
<1>1. IInv => TypeOK
  BY DEF IInv
<1>2. QED
  BY <1>1, Invariance, PTL

\* For any number of slots, the slot the reader takes belongs to an open
\* request the memory has answered, and holds the line of that request.
THEOREM NoStaleLine == Spec => []ReadsOnlyAnswered
<1>1. IInv => ReadsOnlyAnswered
  BY DEF IInv, ReadsOnlyAnswered, LookInv, DataInv
<1>2. QED
  BY <1>1, Invariance, PTL

-----------------------------------------------------------------------------
(* The lines asked for and not read yet, and what a step makes of them *)

Asked == [i \in 1..outstanding |-> requested[(dataQ_rdAddr + i - 1) % NTags]]

One(x)   == IF x = None THEN <<>> ELSE <<x>>
Shown    == IF dataQ_valid THEN <<dataQ_rdData>> ELSE <<>>
Between  == IF dataQ_valid_i THEN <<dataQ_rdData_n>> ELSE <<>>

\* remainders of numbers below two laps, and of a slot and an offset
LEMMA ModTwice ==
  ASSUME NEW n \in Nat \ {0}, NEW a \in 0..2*n-1
  PROVE  a % n = IF a < n THEN a ELSE a - n
BY SMTT(30)

LEMMA Ring ==
  ASSUME NEW t \in Tags, NEW k \in 0..NTags
  PROVE  (t + k) % NTags = IF t + k < NTags THEN t + k ELSE t + k - NTags
<1>1. NTags \in Nat \ {0} /\ t + k \in 0..2*NTags-1
  BY NTagsAssumption DEF Tags
<1>2. \A a \in 0..2*NTags-1 : a % NTags = IF a < NTags THEN a ELSE a - NTags
  BY <1>1, ModTwice
<1> QED
  BY <1>1, <1>2 DEF Tags

\* the i-th slot from the one after the reader's is the (i+1)-st from the reader's
LEMMA RingStep ==
  ASSUME NEW t \in Tags, NEW i \in 1..NTags
  PROVE  /\ (t + i - 1) % NTags = IF t + (i - 1) < NTags THEN t + (i - 1) ELSE t + (i - 1) - NTags
         /\ (Succ(t) + i - 1) % NTags = IF t + i < NTags THEN t + i ELSE t + i - NTags
<1>1. /\ Succ(t) \in Tags /\ i - 1 \in 0..NTags
      /\ t + i - 1 = t + (i - 1) /\ Succ(t) + i - 1 = Succ(t) + (i - 1)
  BY NTagsAssumption, TagsArith DEF Tags
<1> DEFINE m == (Succ(t) + i - 1) % NTags
<1>2. /\ (t + i - 1) % NTags = IF t + (i - 1) < NTags THEN t + (i - 1) ELSE t + (i - 1) - NTags
      /\ m = IF Succ(t) + (i - 1) < NTags THEN Succ(t) + (i - 1) ELSE Succ(t) + (i - 1) - NTags
  BY <1>1, Ring
<1> HIDE DEF m
<1>3. m = IF t + i < NTags THEN t + i ELSE t + i - NTags
  BY <1>2, NTagsAssumption DEF Tags, Succ
<1> QED
  BY <1>2, <1>3 DEF m

AskedInv ==
  /\ outstanding \in Nat /\ outstanding <= NTags
  /\ Asked \in Seq(Lines) /\ Len(Asked) = outstanding
  /\ \A i \in 1..outstanding : /\ (dataQ_rdAddr + i - 1) % NTags \in Tags
                                /\ Asked[i] = requested[(dataQ_rdAddr + i - 1) % NTags]

LEMMA AskedTypes == IInv => AskedInv
<1> SUFFICES ASSUME IInv PROVE AskedInv
  OBVIOUS
<1>1. /\ outstanding \in Nat /\ outstanding <= NTags /\ dataQ_rdAddr \in Tags
      /\ requested \in [Tags -> Lines]
  BY NTagsAssumption, CreditAssumption DEF IInv, TypeOK
<1>2. ASSUME NEW i \in 1..outstanding
      PROVE  (dataQ_rdAddr + i - 1) % NTags \in Tags
  <2>1. i - 1 \in 0..NTags /\ dataQ_rdAddr + i - 1 = dataQ_rdAddr + (i - 1)
    BY <1>1, NTagsAssumption DEF Tags
  <2>2. (dataQ_rdAddr + i - 1) % NTags
          = IF dataQ_rdAddr + (i - 1) < NTags THEN dataQ_rdAddr + (i - 1)
                                              ELSE dataQ_rdAddr + (i - 1) - NTags
    BY <1>1, <2>1, Ring
  <2> QED
    BY <1>1, <2>1, <2>2, NTagsAssumption DEF Tags
<1>3. \A i \in 1..outstanding : requested[(dataQ_rdAddr + i - 1) % NTags] \in Lines
  BY <1>1, <1>2
<1>4. Asked \in Seq(Lines) /\ Len(Asked) = outstanding
  <2>1. Asked \in [1..outstanding -> Lines]
    BY <1>3 DEF Asked
  <2> QED
    BY <1>1, <2>1
<1> QED
  BY <1>1, <1>2, <1>4 DEF Asked, AskedInv

\* A read takes the oldest line asked for, which is what its slot holds; a
\* request adds its line as the youngest.
LEMMA AskedStep ==
  ASSUME IInv, IInv', NEW new \in Lines \cup {None}, NEW tag \in Tags \cup {None},
         NEW deq \in BOOLEAN, Offered(new, tag, deq), Clock(new, tag, deq)
  PROVE  /\ dataQ_re(deq) => Asked # <<>> /\ dataQ[dataQ_rdAddr] = Head(Asked)
         /\ Asked' = (IF dataQ_re(deq) THEN Tail(Asked) ELSE Asked) \o One(new)
<1> DEFINE re == dataQ_re(deq)
           d == IF re THEN 1 ELSE 0
           R == IF re THEN Tail(Asked) ELSE Asked
           n == outstanding
           r == dataQ_rdAddr
           c == mem_rqsts_cntrl
<1>1. /\ n \in Nat /\ n <= NTags /\ Asked \in Seq(Lines) /\ Len(Asked) = n
      /\ \A i \in 1..n : Asked[i] = requested[(r + i - 1) % NTags]
  BY AskedTypes DEF AskedInv
<1>2. /\ n' \in Nat /\ n' <= NTags /\ Asked' \in Seq(Lines) /\ Len(Asked') = n'
      /\ \A i \in 1..n' : /\ (r' + i - 1) % NTags \in Tags
                          /\ Asked'[i] = requested'[(r' + i - 1) % NTags]
  <2>1. AskedInv'
    BY AskedTypes, PTL
  <2> QED
    BY <2>1 DEF AskedInv
<1>3. /\ r \in Tags /\ c \in Tags /\ requested \in [Tags -> Lines] /\ NTags \in Nat \ {0}
      /\ c = IF r + n >= NTags THEN r + n - NTags ELSE r + n
  BY NTagsAssumption DEF IInv, TypeOK, CntrlInv
<1>4. re => n > 0 /\ r \in Window \ pending /\ dataQ[r] = requested[r]
  BY WindowStep DEF IInv, DataInv
<1>5. /\ n' = n + (IF new = None THEN 0 ELSE 1) - d
      /\ requested' = IF new = None THEN requested ELSE [requested EXCEPT ![c] = new]
      /\ r' = IF re THEN Succ(r) ELSE r
      /\ new # None => n < NTags
  <2>1. new # None => outstanding < NTags
    BY <1>1, <1>3, CreditAssumption DEF Offered
  <2> QED
    BY <2>1 DEF Clock, Request, Advance
<1>6. re => Asked # <<>> /\ Head(Asked) = requested[r]
  <2> SUFFICES ASSUME re PROVE Asked # <<>> /\ Head(Asked) = requested[r]
    OBVIOUS
  <2>1. Asked # <<>> /\ 1 \in 1..n
    BY <1>1, <1>4, EmptySeq
  <2>2. (r + 1 - 1) % NTags = r
    <3>1. r + 1 - 1 = r + 0 /\ r + 0 = r /\ 0 \in 0..NTags /\ r < NTags
      BY <1>3, TagsArith
    <3> QED
      BY <1>3, <3>1, Ring
  <2> QED
    BY <1>1, <2>1, <2>2
<1>7. /\ R \in Seq(Lines) /\ Len(R) = n - d /\ d \in {0, 1} /\ d <= n
      /\ \A i \in 1..n - d : R[i] = Asked[i + d]
  <2>1. CASE re
    <3>1. /\ Tail(Asked) \in Seq(Lines) /\ Len(Tail(Asked)) = n - 1
          /\ \A i \in 1..n - 1 : Tail(Asked)[i] = Asked[i + 1]
      BY <1>1, <1>6, <2>1, HeadTailProperties
    <3> QED
      BY <1>1, <1>4, <2>1, <3>1
  <2>2. CASE ~re
    BY <1>1, <2>2
  <2> QED
    BY <2>1, <2>2
<1> HIDE DEF re, d, R, n, r, c
<1>8. \A k \in 0..NTags : (r + k) % NTags = IF r + k < NTags THEN r + k ELSE r + k - NTags
  BY <1>3, Ring
<1>9. \A k \in 0..NTags : (r' + k) % NTags = IF r' + k < NTags THEN r' + k ELSE r' + k - NTags
  BY <1>3, <1>5, TagsArith, Ring
<1>10. ASSUME NEW i \in 1..n', NEW k \in Nat, k = d + i - 1
       PROVE  (r' + i - 1) % NTags = IF r + k < NTags THEN r + k ELSE r + k - NTags
  <2>1. i \in 1..NTags
    BY <1>2, <1>3
  <2>2. CASE d = 0
    <3>1. r' = r /\ k = i - 1
      BY <1>5, <1>10, <2>1, <2>2 DEF d
    <3>2. (r + i - 1) % NTags = IF r + (i - 1) < NTags THEN r + (i - 1) ELSE r + (i - 1) - NTags
      BY <1>3, <2>1, RingStep
    <3> QED
      BY <3>1, <3>2
  <2>3. CASE d = 1
    <3>1. r' = Succ(r) /\ k = i
      BY <1>5, <1>10, <2>1, <2>3 DEF d
    <3>2. (Succ(r) + i - 1) % NTags = IF r + i < NTags THEN r + i ELSE r + i - NTags
      BY <1>3, <2>1, RingStep
    <3> QED
      BY <3>1, <3>2
  <2> QED
    BY <1>7, <2>2, <2>3
<1>11. ASSUME NEW i \in 1..n - d
       PROVE  Asked'[i] = R[i] /\ i \in 1..n'
  <2>1. i \in 1..n' /\ i + d \in 1..n /\ i + d - 1 \in 0..NTags
    BY <1>1, <1>5, <1>7, <1>3
  <2>2. R[i] = requested[(r + (i + d) - 1) % NTags]
    BY <1>1, <1>7, <2>1
  <2>3. r + (i + d) - 1 = r + (i + d - 1)
    BY <1>3, <1>7 DEF Tags
  <2>4. (r + (i + d) - 1) % NTags = (r' + i - 1) % NTags
    <3>1. (r + (i + d) - 1) % NTags = IF r + (i + d - 1) < NTags THEN r + (i + d - 1)
                                      ELSE r + (i + d - 1) - NTags
      BY <1>8, <2>1, <2>3
    <3>2. i + d - 1 \in Nat /\ i + d - 1 = d + i - 1
      BY <1>7, <2>1
    <3> QED
      BY <1>10, <2>1, <3>1, <3>2
  <2>5. (r' + i - 1) % NTags \in Tags /\ Asked'[i] = requested'[(r' + i - 1) % NTags]
    BY <1>2, <2>1
  <2>6. new # None => (r' + i - 1) % NTags # c
    <3>1. i + d - 1 < n
      BY <1>1, <1>7, <2>1
    <3>2. (r' + i - 1) % NTags = IF r + (i + d - 1) < NTags THEN r + (i + d - 1)
                                 ELSE r + (i + d - 1) - NTags
      BY <1>8, <2>1, <2>3, <2>4
    <3> QED
      BY <1>1, <1>3, <1>5, <2>1, <3>1, <3>2 DEF Tags
  <2> QED
    BY <1>3, <1>5, <2>1, <2>2, <2>4, <2>5, <2>6
<1>12. ASSUME new # None
       PROVE  n' = n - d + 1 /\ Asked'[n'] = new
  <2>1. n' = n - d + 1 /\ n' \in 1..n'
    BY <1>1, <1>5, <1>7, <1>12
  <2>2. (r' + n' - 1) % NTags = c
    <3>1. n = d + n' - 1
      BY <1>1, <1>7, <2>1
    <3>2. (r' + n' - 1) % NTags = IF r + n < NTags THEN r + n ELSE r + n - NTags
      BY <1>1, <1>10, <2>1, <3>1
    <3> QED
      BY <1>1, <1>3, <3>2 DEF Tags
  <2>3. Asked'[n'] = requested'[c]
    BY <1>2, <2>1, <2>2
  <2> QED
    BY <1>3, <1>5, <1>12, <2>1, <2>3
<1>13. One(new) \in Seq(Lines) /\ Len(One(new)) = IF new = None THEN 0 ELSE 1
  BY DEF One
<1>14. Asked' = R \o One(new)
  <2>1. /\ R \o One(new) \in Seq(Lines) /\ Len(R \o One(new)) = n - d + Len(One(new))
        /\ \A i \in 1..n - d + Len(One(new)) :
             (R \o One(new))[i] = IF i <= n - d THEN R[i] ELSE One(new)[i - (n - d)]
    <3>1. /\ R \o One(new) \in Seq(Lines) /\ Len(R \o One(new)) = Len(R) + Len(One(new))
          /\ \A i \in 1..Len(R) + Len(One(new)) :
               (R \o One(new))[i] = IF i <= Len(R) THEN R[i] ELSE One(new)[i - Len(R)]
      BY <1>7, <1>13, ConcatProperties
    <3> QED
      BY <1>7, <3>1
  <2>2. Len(Asked') = Len(R \o One(new))
    BY <1>1, <1>2, <1>5, <1>7, <1>13, <2>1
  <2>3. ASSUME NEW i \in 1..Len(Asked')
        PROVE  Asked'[i] = (R \o One(new))[i]
    <3>1. i \in 1..n' /\ i \in 1..n - d + Len(One(new))
      BY <1>2, <2>1, <2>2, <2>3
    <3>2. CASE i <= n - d
      BY <1>1, <1>7, <1>11, <2>1, <3>1, <3>2
    <3>3. CASE ~(i <= n - d)
      <4>1. new # None /\ i = n' /\ i - (n - d) = 1
        BY <1>1, <1>5, <1>7, <1>13, <3>1, <3>3
      <4>2. One(new)[1] = new
        BY <4>1 DEF One
      <4> QED
        BY <1>12, <2>1, <3>1, <3>3, <4>1, <4>2
    <3> QED
      BY <3>2, <3>3
  <2> QED
    BY <1>2, <2>1, <2>2, <2>3, SeqEqual
<1> QED
  BY <1>4, <1>6, <1>14 DEF re, r, R

\* a first element put before a sequence is what Head and Tail take apart
LEMMA FirstAndRest ==
  ASSUME NEW S, NEW x \in S, NEW s \in Seq(S)
  PROVE  /\ <<x>> \o s \in Seq(S) /\ <<x>> \o s # <<>> /\ Len(<<x>> \o s) = 1 + Len(s)
         /\ Tail(<<x>> \o s) = s
<1>1. <<x>> \in Seq(S) /\ Len(<<x>>) = 1 /\ Len(s) \in Nat
  OBVIOUS
<1> DEFINE q == <<x>> \o s
<1>2. /\ q \in Seq(S) /\ Len(q) = 1 + Len(s)
      /\ \A i \in 1..1 + Len(s) : q[i] = IF i <= 1 THEN <<x>>[i] ELSE s[i - 1]
  BY <1>1, ConcatProperties
<1> HIDE DEF q
<1>3. q # <<>>
  BY <1>1, <1>2
<1>4. /\ Tail(q) \in Seq(S) /\ Len(Tail(q)) = Len(s)
      /\ \A i \in 1..Len(s) : Tail(q)[i] = q[i + 1]
  BY <1>1, <1>2, <1>3, HeadTailProperties
<1>5. \A i \in 1..Len(s) : Tail(q)[i] = s[i]
  BY <1>1, <1>2, <1>4
<1>6. Tail(q) = s
  BY <1>1, <1>4, <1>5, SeqEqual
<1> QED
  BY <1>2, <1>3, <1>6 DEF q

LEMMA HeadThenTail ==
  ASSUME NEW S, NEW q \in Seq(S), q # <<>>
  PROVE  Head(q) \in S /\ Tail(q) \in Seq(S) /\ <<Head(q)>> \o Tail(q) = q
<1>1. /\ Head(q) \in S /\ Head(q) = q[1] /\ Tail(q) \in Seq(S) /\ Len(Tail(q)) = Len(q) - 1
      /\ \A i \in 1..Len(q) - 1 : Tail(q)[i] = q[i + 1]
  BY HeadTailProperties
<1>2. Len(q) \in Nat /\ Len(q) > 0
  BY EmptySeq, LenProperties
<1> DEFINE h == <<Head(q)>>
           t == Tail(q)
           p == h \o t
<1>3. h \in Seq(S) /\ Len(h) = 1 /\ h[1] = q[1] /\ t \in Seq(S)
  BY <1>1
<1>4. /\ Len(t) = Len(q) - 1
      /\ \A i \in 1..Len(q) - 1 : t[i] = q[i + 1]
  BY <1>1
<1> HIDE DEF h, t
<1>5. /\ p \in Seq(S) /\ Len(p) = Len(h) + Len(t)
      /\ \A i \in 1..Len(h) + Len(t) : p[i] = IF i <= Len(h) THEN h[i] ELSE t[i - Len(h)]
  BY <1>3, ConcatProperties
<1> HIDE DEF p
<1>6. ASSUME NEW i \in 1..Len(q) PROVE p[i] = q[i]
  <2>1. CASE i = 1
    BY <1>2, <1>3, <1>4, <1>5, <2>1
  <2>2. CASE i # 1
    <3>1. i - 1 \in 1..Len(q) - 1 /\ i - 1 + 1 = i /\ ~(i <= 1) /\ i \in 1..1 + (Len(q) - 1)
      BY <1>2, <2>2
    <3> QED
      BY <1>2, <1>3, <1>4, <1>5, <3>1
  <2> QED
    BY <2>1, <2>2
<1>7. Len(p) = Len(q)
  BY <1>2, <1>3, <1>4, <1>5
<1>8. p = q
  BY <1>5, <1>6, <1>7, SeqEqual
<1> QED
  BY <1>1, <1>8 DEF p, h, t

LEMMA OutputTypes ==
  ASSUME IInv
  PROVE  /\ Shown \in Seq(Lines) /\ Between \in Seq(Lines) /\ Asked \in Seq(Lines)
         /\ Undelivered = Shown \o (Between \o Asked)
         /\ Undelivered \in Seq(Lines) /\ Len(Undelivered) <= 2 + outstanding
<1>1. /\ Shown \in Seq(Lines) /\ Len(Shown) \in 0..1
      /\ Between \in Seq(Lines) /\ Len(Between) \in 0..1
  BY DEF IInv, TypeOK, Shown, Between
<1>2. Asked \in Seq(Lines) /\ Len(Asked) = outstanding /\ outstanding \in Nat
  BY AskedTypes DEF AskedInv
<1>3. /\ Between \o Asked \in Seq(Lines) /\ Len(Between \o Asked) = Len(Between) + outstanding
  BY <1>1, <1>2, ConcatProperties
<1>4. /\ Shown \o (Between \o Asked) \in Seq(Lines)
      /\ Len(Shown \o (Between \o Asked)) = Len(Shown) + (Len(Between) + outstanding)
  BY <1>1, <1>3, ConcatProperties
<1>5. Undelivered = Shown \o (Between \o Asked)
  <2>1. Undelivered = (Shown \o Between) \o Asked
    BY DEF Undelivered, Shown, Between, Asked
  <2>2. Shown \in Seq(Lines) /\ Between \in Seq(Lines) /\ Asked \in Seq(Lines)
    BY <1>1, <1>2
  <2> QED
    BY <2>1, <2>2, ConcatAssociative
<1>6. Len(Undelivered) <= 2 + outstanding
  <2>1. Len(Undelivered) = Len(Shown) + (Len(Between) + outstanding)
    BY <1>4, <1>5
  <2> DEFINE u == Len(Undelivered)
             a == Len(Shown)
             b == Len(Between)
  <2>2. u = a + (b + outstanding) /\ a \in 0..1 /\ b \in 0..1
    BY <1>1, <2>1
  <2> HIDE DEF u, a, b
  <2>3. u <= 2 + outstanding
    BY <1>2, <2>2
  <2> QED
    BY <2>3 DEF u
<1> QED
  BY <1>1, <1>2, <1>4, <1>5, <1>6

OutputForm == /\ Shown \in Seq(Lines) /\ Between \in Seq(Lines)
              /\ Undelivered = Shown \o (Between \o Asked)

LEMMA OutputFormed == IInv => OutputForm
BY OutputTypes DEF OutputForm

\* The three parts seen as one queue: the register file takes its first line,
\* a numbered request adds its line at the end, and whatever the reader and the
\* output registers do in the cycle changes nothing else.
LEMMA QueueStep ==
  ASSUME IInv, IInv', NEW new \in Lines \cup {None}, NEW tag \in Tags \cup {None},
         NEW deq \in BOOLEAN, Offered(new, tag, deq), Clock(new, tag, deq)
  PROVE  /\ deq => Undelivered # <<>>
         /\ new # None => Len(Undelivered) < NTags + 2
         /\ Undelivered' = (IF deq THEN Tail(Undelivered) ELSE Undelivered) \o One(new)
         /\ (IF deq THEN Tail(Undelivered) ELSE Undelivered) \in Seq(Lines)
<1> DEFINE re == dataQ_re(deq)
           R  == IF re THEN Tail(Asked) ELSE Asked
           Moving == deq \/ ~dataQ_valid
           BA == Between \o Asked
<1>1. /\ Shown \in Seq(Lines) /\ Between \in Seq(Lines) /\ Asked \in Seq(Lines)
      /\ Undelivered = Shown \o BA /\ Undelivered \in Seq(Lines)
      /\ Len(Undelivered) <= 2 + outstanding
  BY OutputTypes
<1>2. Shown' \in Seq(Lines) /\ Between' \in Seq(Lines) /\ Undelivered' = Shown' \o (Between' \o Asked')
  <2>1. OutputForm'
    BY OutputFormed, PTL
  <2> QED
    BY <2>1 DEF OutputForm
<1>3. /\ re => Asked # <<>> /\ dataQ[dataQ_rdAddr] = Head(Asked)
      /\ Asked' = R \o One(new)
  BY AskedStep
<1>4. One(new) \in Seq(Lines)
  BY DEF One
<1>5. /\ dataQ_valid \in BOOLEAN /\ dataQ_valid_i \in BOOLEAN
      /\ dataQ_rdData \in Lines /\ dataQ_rdData_n \in Lines
      /\ deq => dataQ_valid
  BY DEF IInv, TypeOK, Offered
<1>6. BA \in Seq(Lines) /\ R \in Seq(Lines)
  BY <1>1, <1>3, ConcatProperties, HeadThenTail
<1>0. /\ Between \o (Asked \o One(new)) = BA \o One(new)
      /\ Shown \o (BA \o One(new)) = (Shown \o BA) \o One(new)
  <2>1. \A s, t, u \in Seq(Lines) : (s \o t) \o u = s \o (t \o u)
    BY ConcatAssociative
  <2>2. Between \o (Asked \o One(new)) = BA \o One(new)
    <3>1. Between \in Seq(Lines) /\ Asked \in Seq(Lines) /\ One(new) \in Seq(Lines)
      BY <1>1, <1>4
    <3> QED
      BY <2>1, <3>1, Zenon
  <2>3. Shown \o (BA \o One(new)) = (Shown \o BA) \o One(new)
    <3>1. Shown \in Seq(Lines) /\ BA \in Seq(Lines) /\ One(new) \in Seq(Lines)
      BY <1>1, <1>4, <1>6
    <3> HIDE DEF BA
    <3> QED
      BY <2>1, <3>1, Zenon
  <2> QED
    BY <2>2, <2>3
<1>7. Shown' = IF Moving THEN Between ELSE Shown
  BY <1>5 DEF Clock, Output, Shown, Between
<1>8. Between' = IF re THEN <<dataQ[dataQ_rdAddr]>> ELSE IF Moving THEN <<>> ELSE Between
  BY <1>5 DEF Clock, Output, Between
<1>9. re => Moving
  BY DEF dataQ_re
<1>10. deq => /\ Undelivered # <<>> /\ Tail(Undelivered) = BA
  <2> SUFFICES ASSUME deq PROVE Undelivered # <<>> /\ Tail(Undelivered) = BA
    OBVIOUS
  <2>1. Undelivered = <<dataQ_rdData>> \o BA
    BY <1>1, <1>5 DEF Shown
  <2> QED
    BY <1>5, <1>6, <2>1, FirstAndRest
<1>11. (IF deq THEN Tail(Undelivered) ELSE Undelivered) = IF Moving THEN BA ELSE Shown \o BA
  <2>1. CASE deq
    BY <1>10, <2>1
  <2>2. CASE ~deq /\ ~dataQ_valid
    <3>1. Undelivered = <<>> \o BA
      BY <1>1, <2>2 DEF Shown
    <3>2. <<>> \o BA = BA
      BY <1>6, ConcatEmptySeq
    <3> QED
      BY <2>2, <3>1, <3>2
  <2>3. CASE ~deq /\ dataQ_valid
    BY <1>1, <2>3
  <2> QED
    BY <1>5, <2>1, <2>2, <2>3
<1>12. Undelivered' = (IF Moving THEN BA ELSE Shown \o BA) \o One(new)
  <2>1. CASE re
    <3>1. Between' = <<Head(Asked)>> /\ Shown' = Between /\ Asked' = Tail(Asked) \o One(new)
      BY <1>3, <1>7, <1>8, <1>9, <2>1
    <3>2. /\ <<Head(Asked)>> \in Seq(Lines) /\ Tail(Asked) \in Seq(Lines)
          /\ <<Head(Asked)>> \o Tail(Asked) = Asked
      BY <1>1, <1>3, <2>1, HeadThenTail
    <3>3. Between' \o Asked' = Asked \o One(new)
      BY <1>4, <3>1, <3>2, ConcatAssociative
    <3>4. Undelivered' = Between \o (Asked \o One(new))
      BY <1>2, <3>1, <3>3
    <3>5. Between \o (Asked \o One(new)) = BA \o One(new)
      BY <1>0
    <3> QED
      BY <1>9, <2>1, <3>4, <3>5
  <2>2. CASE ~re /\ Moving
    <3>1. Between' = <<>> /\ Shown' = Between /\ Asked' = Asked \o One(new)
      BY <1>3, <1>7, <1>8, <2>2
    <3>2. Asked \o One(new) \in Seq(Lines)
      BY <1>1, <1>4, ConcatProperties
    <3>3. Between' \o Asked' = Asked \o One(new)
      BY <3>1, <3>2, ConcatEmptySeq
    <3>4. Between \o (Asked \o One(new)) = BA \o One(new)
      BY <1>0
    <3> QED
      BY <1>2, <2>2, <3>1, <3>3, <3>4
  <2>3. CASE ~Moving
    <3>1. Between' = Between /\ Shown' = Shown /\ Asked' = Asked \o One(new)
      BY <1>3, <1>7, <1>8, <1>9, <2>3
    <3>2. Between \o (Asked \o One(new)) = BA \o One(new)
      BY <1>0
    <3>3. Shown \o (BA \o One(new)) = (Shown \o BA) \o One(new)
      BY <1>0
    <3> QED
      BY <1>2, <2>3, <3>1, <3>2, <3>3
  <2> QED
    BY <2>1, <2>2, <2>3
<1>13. Shown \o BA \in Seq(Lines)
  BY <1>1
<1>14. new # None => Len(Undelivered) < NTags + 2
  <2>1. new # None => outstanding < NTags
    BY NTagsAssumption, CreditAssumption DEF Offered, IInv, TypeOK
  <2>2. Len(Undelivered) \in Nat /\ outstanding \in Nat /\ NTags \in Nat
    BY <1>1, NTagsAssumption, CreditAssumption, LenProperties DEF IInv, TypeOK
  <2> QED
    BY <1>1, <2>1, <2>2
<1> QED
  BY <1>6, <1>10, <1>11, <1>12, <1>13, <1>14

\* For any number of slots, the lines reach the register file in the order
\* they were asked for, each exactly once: the buffer is a queue of NTags + 2
\* places, however the answers are ordered.
THEOREM InOrderDelivery == Spec => DeliversInOrder
<1>1. Init => InOrder!Init
  <2> SUFFICES ASSUME Init PROVE Undelivered = <<>>
    BY DEF InOrder!Init
  <2>1. IInv /\ Shown = <<>> /\ Between = <<>> /\ outstanding = 0
    BY InitIInv DEF Init, Shown, Between
  <2>2. Asked = <<>>
    <3>1. Asked \in Seq(Lines) /\ Len(Asked) = 0
      BY <2>1, AskedTypes DEF AskedInv
    <3> QED
      BY <3>1, EmptySeq
  <2>3. Undelivered = <<>> \o (<<>> \o <<>>)
    BY <2>1, <2>2, OutputTypes
  <2>4. <<>> \o <<>> = <<>>
    BY ConcatEmptySeq, EmptySeq
  <2> QED
    BY <2>3, <2>4
<1>2. IInv /\ IInv' /\ [Next]_vars => [InOrder!Next]_Undelivered
  <2> SUFFICES ASSUME IInv, IInv', [Next]_vars PROVE [InOrder!Next]_Undelivered
    OBVIOUS
  <2>1. ASSUME NEW new \in Lines \cup {None}, NEW tag \in Tags \cup {None}, NEW deq \in BOOLEAN,
               Offered(new, tag, deq), Clock(new, tag, deq)
        PROVE  InOrder!Next
    <3> DEFINE put == new # None
               d == IF put THEN new ELSE dataQ_rdData
               Rest == IF deq THEN Tail(Undelivered) ELSE Undelivered
    <3>1. /\ deq => Undelivered # <<>>
          /\ put => Len(Undelivered) < NTags + 2
          /\ Undelivered' = Rest \o One(new)
          /\ Rest \in Seq(Lines)
      BY <2>1, QueueStep
    <3>2. d \in Lines /\ put \in BOOLEAN
      BY DEF IInv, TypeOK
    <3>3. Undelivered' = IF put THEN Append(Rest, d) ELSE Rest
      <4>1. CASE put
        BY <3>1, <3>2, <4>1, AppendIsConcat DEF One
      <4>2. CASE ~put
        BY <3>1, <4>2, ConcatEmptySeq DEF One
      <4> QED
        BY <4>1, <4>2
    <3>4. InOrder!Step(put, deq, d)
      BY <3>1, <3>3 DEF InOrder!Step
    <3> HIDE DEF put, d
    <3> QED
      BY <3>2, <3>4 DEF InOrder!Next
  <2>2. CASE Next
    BY <2>1, <2>2 DEF Next
  <2>3. CASE UNCHANGED vars
    BY <2>3 DEF vars, rqstVars, slotVars, outVars, Undelivered
  <2> QED
    BY <2>2, <2>3
<1> QED
  BY <1>1, <1>2, Invariance, PTL DEF Spec, DeliversInOrder, InOrder!Spec
=============================================================================
