-------------------------- MODULE GmemOrderProofs ---------------------------
(***************************************************************************)
(* No load is let into a memory controller before the data of an earlier   *)
(* store of its unit, for every program, every depth of the request fifos  *)
(* and every number of receivers.                                          *)
(*                                                                         *)
(* A request is known by its number, and those on their way are the last   *)
(* ones the unit handed over.  The words on their way are of the unit's    *)
(* last stores and lie in order in the two fifos, so the stores whose data *)
(* has come are a prefix of all.  cu_num_write is, modulo 16, the stores   *)
(* that came less the data that came.  At most six words fit into the      *)
(* chain, so a count of zero means that no store waits for its data, even  *)
(* while data is ahead of its requests by any number.                      *)
(*                                                                         *)
(* For each unit the chain is a queue of its own: the words of one unit in *)
(* a fifo move as the fifo does (WordsOfMoves), unit 1 never uses the far  *)
(* fifo, and a word that leaves it for the near one stays in unit 0's      *)
(* queue.                                                                  *)
(***************************************************************************)
EXTENDS GmemOrder, SequenceTheorems, FiniteSetTheorems, TLAPS

-----------------------------------------------------------------------------
(* Queues with an input register *)

LEMMA TailConcat ==
  ASSUME NEW S, NEW q \in Seq(S), NEW x \in Seq(S), q # <<>>
  PROVE  Tail(q \o x) = Tail(q) \o x /\ q \o x # <<>>
<1>1. /\ q \o x \in Seq(S) /\ Len(q \o x) = Len(q) + Len(x)
      /\ \A i \in 1..Len(q) + Len(x) : (q \o x)[i] = IF i <= Len(q) THEN q[i] ELSE x[i - Len(q)]
  BY ConcatProperties
<1>2. Len(q) \in Nat /\ Len(x) \in Nat /\ Len(q) > 0
  BY EmptySeq, LenProperties
<1>3. q \o x # <<>>
  BY <1>1, <1>2
<1>4. /\ Tail(q \o x) \in Seq(S) /\ Len(Tail(q \o x)) = Len(q) + Len(x) - 1
      /\ \A i \in 1..Len(q) + Len(x) - 1 : Tail(q \o x)[i] = (q \o x)[i + 1]
  BY <1>1, <1>3, HeadTailProperties
<1>5. /\ Tail(q) \in Seq(S) /\ Len(Tail(q)) = Len(q) - 1
      /\ \A i \in 1..Len(q) - 1 : Tail(q)[i] = q[i + 1]
  BY HeadTailProperties
<1>6. /\ Tail(q) \o x \in Seq(S) /\ Len(Tail(q) \o x) = Len(q) - 1 + Len(x)
      /\ \A i \in 1..Len(q) - 1 + Len(x) :
           (Tail(q) \o x)[i] = IF i <= Len(q) - 1 THEN Tail(q)[i] ELSE x[i - (Len(q) - 1)]
  BY <1>5, ConcatProperties
<1>7. \A i \in 1..Len(q) + Len(x) - 1 : Tail(q \o x)[i] = (Tail(q) \o x)[i]
  <2> SUFFICES ASSUME NEW i \in 1..Len(q) + Len(x) - 1 PROVE Tail(q \o x)[i] = (Tail(q) \o x)[i]
    OBVIOUS
  <2>1. /\ i + 1 \in 1..Len(q) + Len(x) /\ i \in 1..Len(q) - 1 + Len(x)
        /\ i + 1 <= Len(q) <=> i <= Len(q) - 1
        /\ i + 1 - Len(q) = i - (Len(q) - 1)
    BY <1>2
  <2>2. CASE i + 1 <= Len(q)
    <3>1. i \in 1..Len(q) - 1
      BY <1>2, <2>1, <2>2
    <3> QED
      BY <1>1, <1>4, <1>5, <1>6, <2>1, <2>2, <3>1
  <2>3. CASE ~(i + 1 <= Len(q))
    BY <1>1, <1>4, <1>6, <2>1, <2>3
  <2> QED
    BY <2>2, <2>3
<1>8. Len(Tail(q \o x)) = Len(Tail(q) \o x)
  BY <1>2, <1>4, <1>6
<1>9. Tail(q \o x) = Tail(q) \o x
  <2>1. \A i \in 1..Len(Tail(q \o x)) : Tail(q \o x)[i] = (Tail(q) \o x)[i]
    BY <1>4, <1>7
  <2> QED
    BY <1>4, <1>6, <1>8, <2>1, SeqEqual
<1> QED
  BY <1>3, <1>9

LEMMA Register ==
  ASSUME NEW S, NEW x \in S \cup {None}
  PROVE  /\ In(x) \in Seq(S) /\ Len(In(x)) = IF x = None THEN 0 ELSE 1
         /\ x # None => In(x)[1] = x
  BY DEF In

\* without its first t entries: the head goes when the memory answers
Off(q, t) == IF t = 1 THEN Tail(q) ELSE q

\* taking t entries off q and putting x behind it
OffThen(S, q, x, t) ==
  /\ Off(q, t) \in Seq(S) /\ Len(Off(q, t)) = Len(q) - t
  /\ \A k \in 1..Len(q) - t : Off(q, t)[k] = q[k + t]
  /\ Off(q \o x, t) = Off(q, t) \o x
  /\ Off(q, t) \o x \in Seq(S) /\ Len(Off(q, t) \o x) = Len(q) - t + Len(x)

LEMMA OffConcat ==
  ASSUME NEW S, NEW q \in Seq(S), NEW x \in Seq(S), NEW t \in {0, 1}, t = 1 => q # <<>>
  PROVE  OffThen(S, q, x, t)
<1>1. /\ Off(q, t) \in Seq(S) /\ Len(Off(q, t)) = Len(q) - t
      /\ \A k \in 1..Len(q) - t : Off(q, t)[k] = q[k + t]
      /\ Off(q \o x, t) = Off(q, t) \o x
  <2>1. CASE t = 1
    <3>1. /\ Tail(q) \in Seq(S) /\ Len(Tail(q)) = Len(q) - 1
          /\ \A k \in 1..Len(q) - 1 : Tail(q)[k] = q[k + 1]
      BY <2>1, HeadTailProperties
    <3>2. Tail(q \o x) = Tail(q) \o x
      BY <2>1, TailConcat
    <3> QED
      BY <2>1, <3>1, <3>2 DEF Off
  <2>2. CASE t = 0
    BY <2>2 DEF Off
  <2> QED
    BY <2>1, <2>2
<1>2. Off(q, t) \o x \in Seq(S) /\ Len(Off(q, t) \o x) = Len(Off(q, t)) + Len(x)
  BY <1>1, ConcatProperties
<1> QED
  BY <1>1, <1>2 DEF OffThen

\* a queue q loses its first t elements and gets v, if it is not None, at its end
Moves(q, n, t, v) ==
  /\ Len(n) = Len(q) - t + (IF v = None THEN 0 ELSE 1)
  /\ \A k \in 1..Len(q) - t : n[k] = q[k + t]
  /\ v # None => n[Len(n)] = v

LEMMA MovesBy ==
  ASSUME NEW S, NEW q \in Seq(S), NEW t \in {0, 1}, t = 1 => q # <<>>, NEW v \in S \cup {None},
         NEW n, n = Off(q, t) \o In(v)
  PROVE  n \in Seq(S) /\ Moves(q, n, t, v)
<1>1. In(v) \in Seq(S) /\ Len(In(v)) = (IF v = None THEN 0 ELSE 1) /\ (v # None => In(v)[1] = v)
  BY Register
<1>2. OffThen(S, q, In(v), t)
  BY <1>1, OffConcat
<1>3. /\ Off(q, t) \in Seq(S) /\ Len(Off(q, t)) = Len(q) - t
      /\ \A k \in 1..Len(q) - t : Off(q, t)[k] = q[k + t]
      /\ n \in Seq(S) /\ Len(n) = Len(q) - t + Len(In(v))
  BY <1>2 DEF OffThen
<1> DEFINE L == Len(q) - t
           x == In(v)
<1>4. L \in Nat /\ Len(x) \in Nat
  BY <1>1, <1>3, LenProperties
<1>5. /\ Len(Off(q, t)) = L /\ Len(n) = L + Len(x)
      /\ \A k \in 1..L : Off(q, t)[k] = q[k + t]
  BY <1>3
<1> HIDE DEF x, L
<1>6. \A k \in 1..L + Len(x) : n[k] = IF k <= L THEN Off(q, t)[k] ELSE x[k - L]
  BY <1>1, <1>3, <1>5, ConcatProperties DEF x
<1>7. \A k \in 1..L : n[k] = q[k + t]
  BY <1>4, <1>5, <1>6
<1>8. ASSUME v # None PROVE n[Len(n)] = v
  <2>1. PICK k \in 1..L + Len(x) : k = Len(n) /\ ~(k <= L) /\ k - L = 1
    <3>1. Len(x) = 1 /\ Len(n) = L + 1
      BY <1>1, <1>5, <1>8 DEF x
    <3> QED
      BY <1>4, <3>1
  <2>2. n[k] = x[k - L]
    BY <1>6, <2>1
  <2> QED
    BY <1>1, <1>8, <2>1, <2>2 DEF x
<1> QED
  BY <1>1, <1>3, <1>7, <1>8 DEF Moves, L, x

\* queue and input register f, r are f2, r2 in the next cycle: t elements go, v comes
Clocked(S, f, r, D, t, v, f2, r2) ==
  /\ f2 = Off(f, t) \o (IF Len(f) = D THEN <<>> ELSE In(r))
  /\ r2 = IF Len(f) = D THEN r ELSE v
  /\ Len(f) = D => v = None

Moved(S, f, r, D, t, v, f2, r2) ==
  /\ f2 \in Seq(S) /\ Len(f2) <= D /\ r2 \in S \cup {None}
  /\ Moves(f \o In(r), f2 \o In(r2), t, v)
  /\ f \o In(r) \in Seq(S) /\ f2 \o In(r2) \in Seq(S)
  /\ t = 1 => Len(f \o In(r)) >= 1 /\ (f \o In(r))[1] = Head(f)

LEMMA RegisteredQueue ==
  ASSUME NEW S, NEW f \in Seq(S), NEW r \in S \cup {None}, NEW v \in S \cup {None},
         NEW t \in {0, 1}, t = 1 => f # <<>>, NEW D \in Nat, Len(f) <= D,
         NEW f2, NEW r2, Clocked(S, f, r, D, t, v, f2, r2)
  PROVE  Moved(S, f, r, D, t, v, f2, r2)
<1> DEFINE x == In(r)
           y == In(v)
<1>1. /\ x \in Seq(S) /\ Len(x) = (IF r = None THEN 0 ELSE 1)
      /\ y \in Seq(S) /\ Len(y) = (IF v = None THEN 0 ELSE 1)
  BY Register
<1>2. In(None) = <<>>
  BY DEF In
<1>3. OffThen(S, f, x, t)
  BY <1>1, OffConcat
<1>4. /\ Off(f, t) \in Seq(S) /\ Len(Off(f, t)) = Len(f) - t
      /\ Off(f \o x, t) = Off(f, t) \o x
      /\ Off(f, t) \o x \in Seq(S) /\ Len(Off(f, t) \o x) = Len(f) - t + Len(x)
  BY <1>3 DEF OffThen
<1>5. f \o x \in Seq(S) /\ Len(f \o x) = Len(f) + Len(x) /\ Len(f) \in Nat
  BY <1>1, ConcatProperties, LenProperties
<1>6. t = 1 => Len(f) >= 1 /\ (f \o x)[1] = f[1] /\ Head(f) = f[1]
  <2> SUFFICES ASSUME t = 1 PROVE Len(f) >= 1 /\ (f \o x)[1] = f[1] /\ Head(f) = f[1]
    OBVIOUS
  <2>1. Len(f) >= 1
    BY <1>5, EmptySeq
  <2>2. 1 \in 1..Len(f) + Len(x) /\ 1 <= Len(f)
    BY <1>1, <1>5, <2>1
  <2> QED
    BY <1>1, <2>1, <2>2, ConcatProperties
<1>7. t = 1 => f \o x # <<>>
  BY <1>1, <1>5, <1>6, EmptySeq
<1> HIDE DEF x, y
<1>8. CASE Len(f) = D
  <2>1. f2 = Off(f, t) \o <<>> /\ r2 = r /\ v = None
    BY <1>8 DEF Clocked
  <2>2. f2 = Off(f, t)
    BY <1>4, <2>1, ConcatEmptySeq
  <2>3. f2 \o In(r2) = Off(f \o x, t) \o In(v)
    <3>1. (Off(f, t) \o x) \o <<>> = Off(f, t) \o x
      BY <1>4, ConcatEmptySeq
    <3> QED
      BY <1>2, <1>4, <2>1, <2>2, <3>1 DEF x
  <2>4. f2 \o In(r2) \in Seq(S) /\ Moves(f \o x, f2 \o In(r2), t, v)
    BY <1>5, <1>7, <2>3, MovesBy
  <2>5. Len(f2) <= D
    BY <1>4, <1>5, <1>8, <2>2
  <2> QED
    BY <1>1, <1>4, <1>5, <1>6, <2>1, <2>2, <2>4, <2>5 DEF Moved, x
<1>9. CASE Len(f) # D
  <2>1. f2 = Off(f, t) \o x /\ r2 = v
    BY <1>9 DEF Clocked, x
  <2>2. f2 \o In(r2) = Off(f \o x, t) \o In(v)
    BY <1>4, <2>1
  <2>3. f2 \o In(r2) \in Seq(S) /\ Moves(f \o x, f2 \o In(r2), t, v)
    BY <1>5, <1>7, <2>2, MovesBy
  <2>4. Len(f2) <= D
    BY <1>1, <1>4, <1>5, <1>9, <2>1
  <2> QED
    BY <1>1, <1>4, <1>5, <1>6, <2>1, <2>3, <2>4 DEF Moved, x
<1> QED
  BY <1>8, <1>9

-----------------------------------------------------------------------------
(* The fifos, each with the register in front of it *)

Requests(i) == fifo[i] \o In(fifo_in[i])

RequestGone(i) == IF fifo_deq(i) THEN 1 ELSE 0
RequestNew(i)  == IF Accepted(i) THEN rqst[i] ELSE None
DataGone(k) == IF wrfifo_deq(k) THEN 1 ELSE 0
DataNew(k)  == IF wrfifo_full(k) THEN None ELSE NextWord(k)

LEMMA Types ==
  ASSUME TypeOK, NEW i \in CUs
  PROVE  /\ program[i] \in Seq({"read", "write"}) /\ Len(program[i]) \in Nat
         /\ issued[i] \in 0..Len(program[i])
         /\ rqst[i] \in Numbers(i) \cup {None}
         /\ fifo[i] \in Seq(Numbers(i)) /\ fifo_in[i] \in Numbers(i) \cup {None}
         /\ Len(fifo[i]) <= FifoDepth
         /\ wrfifo[i] \in Seq(Words) /\ wrfifo_in[i] \in Words \cup {None}
         /\ Len(wrfifo[i]) <= 2
         /\ Numbers(i) \subseteq Nat /\ None \notin Numbers(i) /\ None \notin Words
<1>1. program[i] \in Seq({"read", "write"})
  BY ProgramsAssumption DEF TypeOK
<1>2. Numbers(i) \subseteq Nat
  BY <1>1 DEF Numbers
<1> QED
  BY <1>1, <1>2, NoneAssumption, LenProperties DEF TypeOK, Words

LEMMA RequestsMove ==
  ASSUME TypeOK, RequestFifos, NEW i \in CUs
  PROVE  Moved(Numbers(i), fifo[i], fifo_in[i], FifoDepth, RequestGone(i), RequestNew(i),
               fifo'[i], fifo_in'[i])
<1> DEFINE t == RequestGone(i)
           v == RequestNew(i)
<1>1. /\ rqst[i] \in Numbers(i) \cup {None}
      /\ fifo[i] \in Seq(Numbers(i)) /\ fifo_in[i] \in Numbers(i) \cup {None}
      /\ Len(fifo[i]) <= FifoDepth
  BY Types
<1>2. t \in {0, 1} /\ (t = 1 => fifo[i] # <<>>)
  BY DEF RequestGone, fifo_deq, ReadTaken, WriteTaken, Valid
<1>3. v \in Numbers(i) \cup {None} /\ (fifo_full(i) => v = None)
  BY <1>1 DEF RequestNew, Accepted
<1>4. Clocked(Numbers(i), fifo[i], fifo_in[i], FifoDepth, t, v, fifo'[i], fifo_in'[i])
  <2>1. fifo'[i] = (IF fifo_deq(i) THEN Tail(fifo[i]) ELSE fifo[i])
                     \o (IF fifo_full(i) THEN << >> ELSE In(fifo_in[i]))
    BY DEF RequestFifos
  <2>2. fifo_in'[i] = IF fifo_full(i) THEN fifo_in[i] ELSE v
    BY DEF RequestFifos, RequestNew
  <2>3. (IF fifo_deq(i) THEN Tail(fifo[i]) ELSE fifo[i]) = Off(fifo[i], t)
    BY DEF Off, RequestGone
  <2> HIDE DEF t, v
  <2> QED
    BY <1>3, <2>1, <2>2, <2>3 DEF Clocked, fifo_full
<1>5. FifoDepth \in Nat
  BY SizesAssumption
<1> HIDE DEF t, v
<1>6. Moved(Numbers(i), fifo[i], fifo_in[i], FifoDepth, t, v, fifo'[i], fifo_in'[i])
  BY <1>1, <1>2, <1>3, <1>4, <1>5, RegisteredQueue
<1> QED
  BY <1>6 DEF t, v

LEMMA WordTypes ==
  ASSUME TypeOK, NEW i \in CUs, Accepted(i)
  PROVE  Word(i) \in Words /\ Word(i).cu = i /\ Word(i).n = rqst[i] /\ rqst[i] \in Numbers(i)
<1>1. rqst[i] \in Numbers(i) /\ rqst[i] \in Nat
  BY Types DEF Accepted
<1> QED
  BY <1>1 DEF Word, Words

LEMMA DataMove ==
  ASSUME TypeOK, DataChain, NEW k \in CUs
  PROVE  /\ Moved(Words, wrfifo[k], wrfifo_in[k], 2, DataGone(k), DataNew(k),
                  wrfifo'[k], wrfifo_in'[k])
         /\ DataGone(k) \in {0, 1} /\ (DataGone(k) = 1 => wrfifo[k] # <<>>)
         /\ DataNew(k) \in Words \cup {None}
<1> DEFINE t == DataGone(k)
           v == DataNew(k)
<1>1. /\ wrfifo[k] \in Seq(Words) /\ wrfifo_in[k] \in Words \cup {None} /\ Len(wrfifo[k]) <= 2
  BY Types
<1>2. t \in {0, 1} /\ (t = 1 => wrfifo[k] # <<>>)
  BY DEF DataGone, wrfifo_deq, DataTaken, CUs
<1>3. v \in Words \cup {None}
  <2>1. wrfifo[0] # <<>> => Head(wrfifo[0]) \in Words
    BY Types, HeadTailProperties DEF CUs
  <2>2. NextWord(k) \in Words \cup {None}
    BY <2>1, WordTypes DEF NextWord, WriteAccepted
  <2> QED
    BY <2>2 DEF DataNew
<1>4. Clocked(Words, wrfifo[k], wrfifo_in[k], 2, t, v, wrfifo'[k], wrfifo_in'[k])
  <2>1. wrfifo'[k] = (IF wrfifo_deq(k) THEN Tail(wrfifo[k]) ELSE wrfifo[k])
                     \o (IF wrfifo_full(k) THEN << >> ELSE In(wrfifo_in[k]))
    BY DEF DataChain
  <2>2. wrfifo_in'[k] = (IF wrfifo_full(k) THEN wrfifo_in[k] ELSE v)
    BY DEF DataChain, DataNew
  <2>3. (IF wrfifo_deq(k) THEN Tail(wrfifo[k]) ELSE wrfifo[k]) = Off(wrfifo[k], t)
    BY DEF Off, DataGone
  <2>4. wrfifo_full(k) => v = None
    BY DEF DataNew
  <2> HIDE DEF t, v
  <2> QED
    BY <2>1, <2>2, <2>3, <2>4 DEF Clocked, wrfifo_full
<1> HIDE DEF t, v
<1>5. Moved(Words, wrfifo[k], wrfifo_in[k], 2, t, v, wrfifo'[k], wrfifo_in'[k])
  BY <1>1, <1>2, <1>3, <1>4, RegisteredQueue
<1> QED
  BY <1>2, <1>3, <1>5 DEF t, v

-----------------------------------------------------------------------------
(* Types *)

LEMMA TypeStep ==
  ASSUME TypeOK, NEW show, NEW acks, Clock(show, acks)
  PROVE  TypeOK'
<1> USE DEF Clock
<1>1. program' = program
  OBVIOUS
<1>2. ASSUME NEW i \in CUs
      PROVE  /\ issued'[i] \in 0..Len(program[i])
             /\ rqst'[i] \in Numbers(i) \cup {None}
  <2>1. /\ issued[i] \in 0..Len(program[i]) /\ Len(program[i]) \in Nat
        /\ rqst[i] \in Numbers(i) \cup {None}
    BY Types
  <2>2. \/ /\ issued[i] < Len(program[i])
           /\ issued'[i] = issued[i] + 1 /\ rqst'[i] = issued[i] + 1
        \/ issued'[i] = issued[i] /\ rqst'[i] \in {rqst[i], None}
    BY DEF Show
  <2> QED
    BY <2>1, <2>2 DEF Numbers
<1>3. ASSUME NEW i \in CUs
      PROVE  /\ fifo_in'[i] \in Numbers(i) \cup {None}
             /\ fifo'[i] \in Seq(Numbers(i)) /\ Len(fifo'[i]) <= FifoDepth
  BY RequestsMove DEF Moved
<1>4. ASSUME NEW i \in CUs
      PROVE  /\ wrfifo_in'[i] \in Words \cup {None}
             /\ wrfifo'[i] \in Seq(Words) /\ Len(wrfifo'[i]) <= 2
  BY DataMove DEF Moved
<1>5. ASSUME NEW i \in CUs PROVE cu_num_write'[i] \in 0..15
  <2>1. cu_num_write[i] \in Int
    BY DEF TypeOK
  <2>2. cu_num_write'[i] = (cu_num_write[i] + (IF WriteTaken(i) THEN 1 ELSE 0)
                                            - (IF Latched(i) THEN 1 ELSE 0)) % 16
    BY DEF Count
  <2> QED
    BY <2>1, <2>2
<1>6. ASSUME NEW i \in CUs PROVE rcv'[i] \in [Rcvs -> {"idle", "go", "read", "back"}]
  BY DEF TypeOK, Receivers, Receiver
<1>7. cu_wrData_ltch' \in Words \cup {None}
  <2>1. DataTaken => Head(wrfifo[1]) \in Words
    BY Types, HeadTailProperties DEF CUs, DataTaken
  <2> QED
    BY <2>1 DEF LatchData
<1>8. \A i \in CUs : Numbers(i)' = Numbers(i)
  BY <1>1 DEF Numbers
<1> QED
  BY <1>1, <1>2, <1>3, <1>4, <1>5, <1>6, <1>7, <1>8 DEF TypeOK

LEMMA TypeInit == Init => TypeOK
<1> SUFFICES ASSUME Init PROVE TypeOK
  OBVIOUS
<1>1. ASSUME NEW i \in CUs PROVE Len(program[i]) \in Nat
  BY ProgramsAssumption DEF Init
<1>2. <<>> \in Seq(Words) /\ \A i \in CUs : <<>> \in Seq(Numbers(i))
  OBVIOUS
<1> QED
  BY <1>1, <1>2, SizesAssumption DEF Init, TypeOK

\* Every register and fifo keeps its range, and cu_num_write its four bits.
THEOREM TypeCorrect == Spec => []TypeOK
<1>1. TypeOK /\ [Next]_vars => TypeOK'
  <2>1. TypeOK /\ Next => TypeOK'
    BY TypeStep DEF Next
  <2>2. TypeOK /\ UNCHANGED vars => TypeOK'
    BY DEF TypeOK, vars, Numbers
  <2> QED
    BY <2>1, <2>2
<1> QED
  BY <1>1, TypeInit, PTL DEF Spec

-----------------------------------------------------------------------------
(* The invariant *)

\* how many requests of unit i have been handed over, and how many of these
\* have come into the controller
Sent(i) == IF rqst[i] = None THEN issued[i] ELSE issued[i] - 1
Came(i) == Sent(i) - Len(Requests(i))

\* the requests on their way are the last ones handed over, in order
RequestsInOrder ==
  \A i \in CUs :
    /\ rqst[i] # None => rqst[i] = issued[i]
    /\ Came(i) \in Nat
    /\ \A k \in 1..Len(Requests(i)) : Requests(i)[k] = Came(i) + k

\* the stores among the first n requests
Writes(i, n) == {m \in 1..n : IsWrite(i, m)}

\* the word w is at place j of fifo k
Holds(k, j, w) == j \in 1..Len(Stage(k)) /\ Stage(k)[j] = w

\* of two places, the first is nearer to the controller
Before(k, j, l, m) == k > l \/ (k = l /\ j < m)

\* The words of a unit are of stores it has handed over and lie in order;
\* unit 0 alone uses the fifo away from the controller.
WordsInOrder ==
  /\ \A k \in CUs, j \in Nat, w \in Words :
       Holds(k, j, w) => w.n \in Writes(w.cu, Sent(w.cu)) /\ k >= w.cu
  /\ \A k, l \in CUs, j, m \in Nat, v, w \in Words :
       Holds(k, j, v) /\ Holds(l, m, w) /\ v.cu = w.cu /\ Before(k, j, l, m) => v.n < w.n

\* the word w is on its way
Carried(w) == \E k \in CUs, j \in 1..3 : Holds(k, j, w)

Pending(i) == {n \in Numbers(i) : Carried([cu |-> i, n |-> n])}
Stored(i)  == Writes(i, Sent(i)) \ Pending(i)

\* the stores whose data has not come are the last ones
LastPending ==
  \A i \in CUs : \A n \in Pending(i) : \A m \in Writes(i, Sent(i)) : m > n => m \in Pending(i)

\* cu_num_write counts modulo 16 the stores that came without their data
Counted ==
  \A i \in CUs :
    (cu_num_write[i] - Cardinality(Writes(i, Came(i))) + Cardinality(Stored(i))
       - (IF Latched(i) THEN 1 ELSE 0)) % 16 = 0

Inv == TypeOK /\ RequestsInOrder /\ WordsInOrder /\ LastPending /\ Counted

-----------------------------------------------------------------------------
(* The requests *)

LEMMA SentStep ==
  ASSUME TypeOK, RequestsInOrder, NEW show, Show(show), NEW i \in CUs
  PROVE  /\ Sent(i) \in Nat /\ Sent(i) <= Len(program[i])
         /\ Sent(i)' = IF Accepted(i) THEN Sent(i) + 1 ELSE Sent(i)
         /\ Accepted(i) => rqst[i] = Sent(i) + 1
         /\ rqst'[i] # None => rqst'[i] = issued'[i]
<1>1. /\ issued[i] \in 0..Len(program[i]) /\ Len(program[i]) \in Nat
      /\ rqst[i] \in Numbers(i) \cup {None}
  BY Types
<1>2. rqst[i] # None => rqst[i] = issued[i]
  BY DEF RequestsInOrder
<1>3. issued[i] + 1 # None
  BY <1>1, NoneAssumption
<1>4. Sent(i) \in Nat /\ Sent(i) <= Len(program[i])
  BY <1>1, <1>2 DEF Sent, Numbers
<1>5. \/ /\ rqst[i] = None \/ Accepted(i)
         /\ issued'[i] = issued[i] + 1 /\ rqst'[i] = issued[i] + 1
      \/ issued'[i] = issued[i] /\ rqst'[i] = IF Accepted(i) THEN None ELSE rqst[i]
  BY DEF Show
<1>6. Accepted(i) => rqst[i] # None
  BY DEF Accepted
<1>7. Sent(i)' = IF rqst'[i] = None THEN issued'[i] ELSE issued'[i] - 1
  BY DEF Sent
<1> QED
  BY <1>1, <1>2, <1>3, <1>4, <1>5, <1>6, <1>7 DEF Sent

LEMMA RequestsStep ==
  ASSUME TypeOK, RequestsInOrder, NEW show, Show(show), RequestFifos
  PROVE  /\ RequestsInOrder'
         /\ \A i \in CUs : Came(i)' = Came(i) + RequestGone(i)
<1> SUFFICES ASSUME NEW i \in CUs
             PROVE  /\ rqst'[i] # None => rqst'[i] = issued'[i]
                    /\ Came(i)' = Came(i) + RequestGone(i)
                    /\ Came(i)' \in Nat
                    /\ \A k \in 1..Len(Requests(i)') : Requests(i)'[k] = Came(i)' + k
  BY DEF RequestsInOrder
<1> DEFINE t == RequestGone(i)
           v == RequestNew(i)
           q == Requests(i)
           n == Requests(i)'
<1>1. /\ Sent(i) \in Nat
      /\ Sent(i)' = IF Accepted(i) THEN Sent(i) + 1 ELSE Sent(i)
      /\ Accepted(i) => rqst[i] = Sent(i) + 1
      /\ rqst'[i] # None => rqst'[i] = issued'[i]
  BY SentStep
<1>2. /\ Moves(q, n, t, v) /\ q \in Seq(Numbers(i)) /\ n \in Seq(Numbers(i))
      /\ t = 1 => Len(q) >= 1
  BY RequestsMove DEF Moved, Requests
<1>3. t \in {0, 1}
  BY DEF RequestGone
<1>4. v = IF Accepted(i) THEN Sent(i) + 1 ELSE None
  BY <1>1 DEF RequestNew
<1>5. v = None <=> ~Accepted(i)
  BY <1>1, <1>4, NoneAssumption
<1>6. /\ Came(i) \in Nat /\ Came(i) = Sent(i) - Len(q) /\ Came(i)' = Sent(i)' - Len(n)
      /\ \A k \in 1..Len(q) : q[k] = Came(i) + k
  BY DEF RequestsInOrder, Came
<1>7. Len(q) \in Nat /\ Len(n) \in Nat
  BY <1>2, LenProperties
<1> HIDE DEF q, n, t, v
<1>8. /\ Len(n) = Len(q) - t + (IF v = None THEN 0 ELSE 1)
      /\ \A k \in 1..Len(q) - t : n[k] = q[k + t]
      /\ v # None => n[Len(n)] = v
  BY <1>2 DEF Moves
<1>9. Came(i)' = Came(i) + t
  BY <1>1, <1>3, <1>5, <1>6, <1>7, <1>8
<1>10. ASSUME NEW k \in 1..Len(n) PROVE n[k] = Came(i)' + k
  <2>1. CASE k <= Len(q) - t
    <3>1. k \in 1..Len(q) - t /\ k + t \in 1..Len(q)
      BY <1>3, <1>7, <2>1
    <3> QED
      BY <1>3, <1>6, <1>8, <1>9, <3>1
  <2>2. CASE ~(k <= Len(q) - t)
    <3>1. k = Len(n) /\ v # None
      BY <1>3, <1>7, <1>8, <2>2
    <3> QED
      BY <1>1, <1>4, <1>5, <1>6, <1>8, <3>1
  <2> QED
    BY <2>1, <2>2
<1> QED
  BY <1>1, <1>3, <1>6, <1>9, <1>10 DEF q, n, t

-----------------------------------------------------------------------------
(* The words of data *)

LEMMA DataFlow ==
  ASSUME TypeOK
  PROVE  /\ DataNew(0) = IF WriteAccepted(0) THEN Word(0) ELSE None
         /\ DataNew(1) = IF WriteAccepted(1) THEN Word(1)
                         ELSE IF DataGone(0) = 1 THEN Head(wrfifo[0]) ELSE None
         /\ DataGone(0) = 1 => ~WriteAccepted(1)
         /\ DataGone(1) = 1 <=> DataTaken
<1>1. \A i \in CUs : WriteAccepted(i) => ~wrfifo_full(i)
  BY DEF WriteAccepted, Accepted
<1>2. 0 \in CUs /\ 1 \in CUs
  BY DEF CUs
<1>3. DataNew(0) = IF WriteAccepted(0) THEN Word(0) ELSE None
  BY <1>1, <1>2 DEF DataNew, NextWord
<1>4. DataGone(1) = 1 <=> DataTaken
  BY DEF DataGone, wrfifo_deq
<1>5. DataGone(0) = 1 <=> wrfifo[0] # << >> /\ ~wrfifo_full(1) /\ ~WriteAccepted(1)
  BY DEF DataGone, wrfifo_deq
<1>6. DataNew(1) = IF WriteAccepted(1) THEN Word(1)
                   ELSE IF DataGone(0) = 1 THEN Head(wrfifo[0]) ELSE None
  BY <1>1, <1>2, <1>5 DEF DataNew, NextWord
<1> QED
  BY <1>3, <1>4, <1>5, <1>6

LEMMA DataFifo ==
  ASSUME TypeOK, NEW k \in CUs
  PROVE  /\ Stage(k) \in Seq(Words) /\ Len(Stage(k)) \in Nat /\ Len(Stage(k)) <= 3
         /\ wrfifo[k] # <<>> => Holds(k, 1, Head(wrfifo[k])) /\ Head(wrfifo[k]) \in Words
<1> DEFINE x == In(wrfifo_in[k])
<1>1. wrfifo[k] \in Seq(Words) /\ Len(wrfifo[k]) <= 2 /\ wrfifo_in[k] \in Words \cup {None}
  BY Types
<1>2. x \in Seq(Words) /\ Len(x) \in {0, 1} /\ Len(wrfifo[k]) \in Nat
  <2>1. x \in Seq(Words) /\ Len(x) = IF wrfifo_in[k] = None THEN 0 ELSE 1
    BY <1>1, Register
  <2> HIDE DEF x
  <2> QED
    BY <1>1, <2>1, LenProperties
<1> HIDE DEF x
<1>3. /\ wrfifo[k] \o x \in Seq(Words) /\ Len(wrfifo[k] \o x) = Len(wrfifo[k]) + Len(x)
      /\ \A j \in 1..Len(wrfifo[k]) + Len(x) :
           (wrfifo[k] \o x)[j] = IF j <= Len(wrfifo[k]) THEN wrfifo[k][j] ELSE x[j - Len(wrfifo[k])]
  BY <1>1, <1>2, ConcatProperties
<1>4. ASSUME wrfifo[k] # <<>>
      PROVE  Holds(k, 1, Head(wrfifo[k])) /\ Head(wrfifo[k]) \in Words
  <2>1. Len(wrfifo[k]) >= 1 /\ Head(wrfifo[k]) = wrfifo[k][1] /\ Head(wrfifo[k]) \in Words
    BY <1>1, <1>2, <1>4, EmptySeq, HeadTailProperties
  <2>2. 1 \in 1..Len(wrfifo[k]) + Len(x) /\ (wrfifo[k] \o x)[1] = wrfifo[k][1]
    BY <1>2, <1>3, <2>1
  <2> QED
    BY <1>3, <2>1, <2>2 DEF Holds, Stage, x
<1>5. /\ wrfifo[k] \o x \in Seq(Words) /\ Len(wrfifo[k] \o x) \in Nat
      /\ Len(wrfifo[k] \o x) <= 3
  BY <1>1, <1>2, <1>3
<1> QED
  BY <1>4, <1>5 DEF Stage, x

\* the word w is in place m of fifo k because it has moved up in it
MovedUp(k, m, w) == m \in 1..Len(Stage(k)) - DataGone(k) /\ Holds(k, m + DataGone(k), w)

\* ... or because it has come in at the end
CameIn(k, w) == \/ WriteAccepted(k) /\ w = Word(k)
                \/ k = 1 /\ DataGone(0) = 1 /\ Holds(0, 1, w)

LEMMA Places ==
  ASSUME TypeOK, DataChain, NEW k \in CUs, NEW w \in Words
  PROVE  /\ \A m \in Nat : Holds(k, m, w)' =>
              \/ MovedUp(k, m, w)
              \/ CameIn(k, w) /\ \A l \in Nat, v \in Words : Holds(k, l, v)' => l <= m
         /\ \A j, m \in Nat : Holds(k, j, w) /\ m = j - DataGone(k) /\ m > 0 => Holds(k, m, w)'
         /\ CameIn(k, w) => \E m \in 1..3 : Holds(k, m, w)'
<1> DEFINE t == DataGone(k)
           v == DataNew(k)
           q == Stage(k)
           n == Stage(k)'
<1>1. /\ Moves(q, n, t, v) /\ q \in Seq(Words) /\ n \in Seq(Words) /\ t \in {0, 1}
      /\ t = 1 => Len(q) >= 1
      /\ v \in Words \cup {None} /\ None \notin Words
  BY DataMove, Types DEF Moved, Stage
<1>2. CameIn(k, w) => v = w
  <2>1. CASE k = 0
    BY <2>1, DataFlow DEF CameIn
  <2>2. CASE k = 1
    <3>1. ASSUME DataGone(0) = 1, Holds(0, 1, w) PROVE Head(wrfifo[0]) = w
      <4>1. wrfifo[0] # <<>>
        BY <3>1 DEF DataGone, wrfifo_deq
      <4> QED
        BY <3>1, <4>1, DataFifo DEF Holds, CUs
    <3> QED
      BY <2>2, <3>1, DataFlow DEF CameIn
  <2> QED
    BY <2>1, <2>2 DEF CUs
<1>3. v = w => CameIn(k, w)
  <2>1. v = w => v # None
    BY <1>1
  <2>2. CASE k = 0
    BY <2>1, <2>2, DataFlow DEF CameIn
  <2>3. CASE k = 1
    <3>1. DataGone(0) = 1 => wrfifo[0] # <<>>
      BY DEF DataGone, wrfifo_deq
    <3>2. DataGone(0) = 1 => Holds(0, 1, Head(wrfifo[0]))
      BY <3>1, DataFifo DEF CUs
    <3> QED
      BY <2>1, <2>3, <3>2, DataFlow DEF CameIn
  <2> QED
    BY <2>2, <2>3 DEF CUs
<1>4. /\ \A j \in Nat, u \in Words : Holds(k, j, u) <=> j \in 1..Len(q) /\ q[j] = u
      /\ \A j \in Nat, u \in Words : Holds(k, j, u)' <=> j \in 1..Len(n) /\ n[j] = u
      /\ \A m \in Nat : MovedUp(k, m, w) <=> m \in 1..Len(q) - t /\ q[m + t] = w
  <2>1. Len(q) \in Nat
    BY <1>1, LenProperties
  <2> QED
    BY <1>1, <2>1 DEF Holds, MovedUp
<1>5. Len(q) \in Nat /\ Len(n) \in Nat
  BY <1>1, LenProperties
<1>6. Len(n) <= 3
  <2>1. Len(wrfifo'[k]) <= 2 /\ wrfifo_in'[k] \in Words \cup {None} /\ wrfifo'[k] \in Seq(Words)
    BY DataMove DEF Moved
  <2> DEFINE x == In(wrfifo_in'[k])
  <2>2. x \in Seq(Words) /\ Len(x) = IF wrfifo_in'[k] = None THEN 0 ELSE 1
    BY <2>1, Register
  <2> HIDE DEF x
  <2>3. Len(x) \in Nat /\ Len(wrfifo'[k]) \in Nat /\ Len(wrfifo'[k] \o x) = Len(wrfifo'[k]) + Len(x)
    BY <2>1, <2>2, ConcatProperties, LenProperties
  <2>4. n = wrfifo'[k] \o x
    BY DEF Stage, x
  <2> HIDE DEF n
  <2> QED
    BY <2>1, <2>2, <2>3, <2>4
<1> HIDE DEF q, n, t, v
<1>7. /\ Len(n) = Len(q) - t + (IF v = None THEN 0 ELSE 1)
      /\ \A j \in 1..Len(q) - t : n[j] = q[j + t]
      /\ v # None => n[Len(n)] = v
  BY <1>1 DEF Moves
<1>8. ASSUME NEW m \in Nat, Holds(k, m, w)'
      PROVE  \/ MovedUp(k, m, w)
             \/ CameIn(k, w) /\ \A l \in Nat, u \in Words : Holds(k, l, u)' => l <= m
  <2>1. m \in 1..Len(n) /\ n[m] = w
    BY <1>4, <1>8
  <2>2. CASE m <= Len(q) - t
    BY <1>1, <1>4, <1>5, <1>7, <2>1, <2>2
  <2>3. CASE ~(m <= Len(q) - t)
    <3>1. v # None /\ m = Len(n)
      BY <1>1, <1>5, <1>7, <2>1, <2>3
    <3>2. CameIn(k, w)
      BY <1>3, <1>7, <2>1, <3>1
    <3> QED
      BY <1>4, <1>5, <3>1, <3>2
  <2> QED
    BY <2>2, <2>3
<1>9. ASSUME NEW j \in Nat, NEW m \in Nat, Holds(k, j, w), m = j - t, m > 0
      PROVE  Holds(k, m, w)'
  <2>1. j \in 1..Len(q) /\ q[j] = w /\ m \in 1..Len(q) - t /\ j = m + t
    BY <1>1, <1>4, <1>5, <1>9
  <2> QED
    BY <1>1, <1>4, <1>5, <1>7, <2>1
<1>10. ASSUME CameIn(k, w) PROVE \E m \in 1..3 : Holds(k, m, w)'
  <2>1. v = w /\ v # None
    BY <1>1, <1>2, <1>10
  <2>2. Len(n) >= 1 /\ n[Len(n)] = w
    BY <1>1, <1>5, <1>7, <2>1
  <2> QED
    BY <1>4, <1>5, <1>6, <2>2
<1> QED
  BY <1>8, <1>9, <1>10 DEF t

LEMMA StaysCarried ==
  ASSUME TypeOK, DataChain, NEW k \in CUs, NEW j \in Nat, NEW w \in Words, Holds(k, j, w),
         ~(k = 1 /\ j = 1 /\ DataTaken)
  PROVE  Carried(w)'
<1>1. DataGone(k) \in {0, 1} /\ j > 0
  BY DataMove DEF Holds
<1>2. CASE j - DataGone(k) > 0
  <2>1. PICK m \in Nat : m = j - DataGone(k) /\ m > 0
    BY <1>1, <1>2
  <2>2. Holds(k, m, w)'
    BY <2>1, Places
  <2>3. m <= 3
    BY <1>1, <2>1, DataFifo DEF Holds
  <2> QED
    BY <2>1, <2>2, <2>3 DEF Carried
<1>3. CASE ~(j - DataGone(k) > 0)
  <2>1. j = 1 /\ DataGone(k) = 1
    BY <1>1, <1>3
  <2>2. k = 0
    BY <2>1, DataFlow DEF CUs
  <2>3. CameIn(1, w)
    BY <2>1, <2>2 DEF CameIn
  <2> QED
    BY <2>3, Places DEF Carried, CUs
<1> QED
  BY <1>2, <1>3

LEMMA WritesStep ==
  ASSUME TypeOK, RequestsInOrder, NEW show, Show(show), UNCHANGED program, NEW i \in CUs
  PROVE  /\ Writes(i, Sent(i))' = IF WriteAccepted(i) THEN Writes(i, Sent(i)) \cup {rqst[i]}
                                                      ELSE Writes(i, Sent(i))
         /\ WriteAccepted(i) => rqst[i] = Sent(i) + 1 /\ rqst[i] \in Numbers(i)
         /\ Sent(i) \in Nat /\ Writes(i, Sent(i)) \subseteq Numbers(i)
<1>1. /\ Sent(i) \in Nat /\ Sent(i) <= Len(program[i])
      /\ Sent(i)' = IF Accepted(i) THEN Sent(i) + 1 ELSE Sent(i)
      /\ Accepted(i) => rqst[i] = Sent(i) + 1
  BY SentStep
<1>2. Writes(i, Sent(i))' = {m \in 1..Sent(i)' : IsWrite(i, m)}
  BY DEF Writes, IsWrite
<1>3. Len(program[i]) \in Nat
  BY Types
<1>4. Writes(i, Sent(i)) \subseteq Numbers(i)
  BY <1>1, <1>3 DEF Writes, Numbers
<1>5. Accepted(i) => rqst[i] \in Numbers(i)
  BY WordTypes
<1>6. CASE Accepted(i)
  <2>1. 1..Sent(i)' = 1..Sent(i) \cup {rqst[i]} /\ rqst[i] = Sent(i) + 1
    BY <1>1, <1>6
  <2> QED
    BY <1>1, <1>2, <1>4, <1>5, <1>6, <2>1 DEF Writes, WriteAccepted
<1>7. CASE ~Accepted(i)
  BY <1>1, <1>2, <1>4, <1>7 DEF Writes, WriteAccepted
<1> QED
  BY <1>6, <1>7

LEMMA OrderStep ==
  ASSUME TypeOK, RequestsInOrder, WordsInOrder, NEW show, Show(show), DataChain, UNCHANGED program
  PROVE  WordsInOrder'
<1>1. \A k \in CUs, j \in Nat, w \in Words :
        Holds(k, j, w) => w.n \in Writes(w.cu, Sent(w.cu)) /\ k >= w.cu /\ j > 0
  BY DEF WordsInOrder, Holds
<1>2. \A k, l \in CUs, j, m \in Nat, v, w \in Words :
        Holds(k, j, v) /\ Holds(l, m, w) /\ v.cu = w.cu /\ Before(k, j, l, m) => v.n < w.n
  BY DEF WordsInOrder
<1>3. \A i \in CUs :
        /\ Writes(i, Sent(i)) \subseteq Writes(i, Sent(i))'
        /\ WriteAccepted(i) => rqst[i] \in Writes(i, Sent(i))'
  BY WritesStep
<1>4. \A w \in Words : w.cu \in CUs /\ w.n \in Nat
  BY DEF Words
<1>5. \A k \in CUs : DataGone(k) \in {0, 1}
  BY DataMove
<1>6. \A k \in CUs : WriteAccepted(k) =>
        /\ Word(k) \in Words /\ Word(k).cu = k
        /\ \A v \in Words : v.cu = k /\ v.n \in Writes(k, Sent(k)) => v.n < Word(k).n
        /\ Word(k).n \in Writes(k, Sent(k))'
  BY <1>3, WordTypes, WritesStep DEF WriteAccepted, Writes
<1>7. \A k \in CUs, m \in Nat, w \in Words : Holds(k, m, w)' =>
        /\ m > 0
        /\ \/ MovedUp(k, m, w)
           \/ CameIn(k, w) /\ \A l \in Nat, v \in Words : Holds(k, l, v)' => l <= m
  BY Places DEF Holds
<1>8. ASSUME NEW k \in CUs, NEW j \in Nat, NEW w \in Words, Holds(k, j, w)'
      PROVE  w.n \in Writes(w.cu, Sent(w.cu))' /\ k >= w.cu
  <2>1. CASE MovedUp(k, j, w)
    <3>1. Holds(k, j + DataGone(k), w) /\ j + DataGone(k) \in Nat
      BY <1>5, <2>1 DEF MovedUp
    <3> QED
      BY <1>1, <1>3, <1>4, <3>1
  <2>2. CASE WriteAccepted(k) /\ w = Word(k)
    BY <1>6, <2>2 DEF CUs
  <2>3. CASE k = 1 /\ Holds(0, 1, w)
    BY <1>1, <1>3, <1>4, <2>3 DEF CUs
  <2> QED
    BY <1>7, <1>8, <2>1, <2>2, <2>3 DEF CameIn
<1>9. ASSUME NEW k \in CUs, NEW l \in CUs, NEW j \in Nat, NEW m \in Nat, NEW v \in Words,
             NEW w \in Words, Holds(k, j, v)', Holds(l, m, w)', v.cu = w.cu, Before(k, j, l, m)
      PROVE  v.n < w.n
  <2>1. MovedUp(k, j, v) => Holds(k, j + DataGone(k), v) /\ j + DataGone(k) \in Nat
    BY <1>5 DEF MovedUp
  <2>2. MovedUp(l, m, w) => Holds(l, m + DataGone(l), w) /\ m + DataGone(l) \in Nat
    BY <1>5 DEF MovedUp
  <2>3. m > 0 /\ j > 0
    BY <1>7, <1>9
  <2>4. CASE MovedUp(l, m, w)
    <3>1. CASE MovedUp(k, j, v)
      <4>1. Before(k, j + DataGone(k), l, m + DataGone(l))
        BY <1>5, <1>9 DEF Before
      <4> QED
        BY <1>2, <1>9, <2>1, <2>2, <2>4, <3>1, <4>1
    <3>2. CASE CameIn(k, v) /\ \A o \in Nat, u \in Words : Holds(k, o, u)' => o <= j
      <4>1. k = 1 /\ l = 0
        BY <1>9, <3>2 DEF Before, CUs
      <4>2. w.cu = 0
        BY <1>1, <1>4, <2>2, <2>4, <4>1 DEF CUs
      <4>3. Holds(0, 1, v) /\ DataGone(0) = 1
        BY <1>6, <1>9, <3>2, <4>1, <4>2 DEF CameIn, CUs
      <4>4. Before(0, 1, 0, m + DataGone(0))
        BY <2>3, <4>3 DEF Before
      <4> QED
        BY <1>2, <1>9, <2>2, <2>4, <4>1, <4>3, <4>4 DEF CUs
    <3> QED
      BY <1>7, <1>9, <3>1, <3>2
  <2>5. CASE CameIn(l, w) /\ \A o \in Nat, u \in Words : Holds(l, o, u)' => o <= m
    <3>1. CASE WriteAccepted(l) /\ w = Word(l)
      <4>1. w.cu = l
        BY <1>6, <3>1
      <4>2. \/ \E o \in Nat : Holds(k, o, v)
            \/ Holds(0, 1, v)
        <5>1. CASE MovedUp(k, j, v)
          BY <2>1, <5>1
        <5>2. CASE CameIn(k, v) /\ \A o \in Nat, u \in Words : Holds(k, o, u)' => o <= j
          <6>1. ASSUME WriteAccepted(k), v = Word(k) PROVE FALSE
            <7>1. k = l
              BY <1>6, <1>9, <4>1, <6>1
            <7> QED
              BY <1>9, <5>2, <7>1 DEF Before, CUs
          <6> QED
            BY <5>2, <6>1 DEF CameIn
        <5> QED
          BY <1>7, <1>9, <5>1, <5>2
      <4>3. v.n \in Writes(l, Sent(l))
        BY <1>1, <1>9, <4>1, <4>2 DEF CUs
      <4> QED
        BY <1>6, <1>9, <3>1, <4>1, <4>3
    <3>2. CASE l = 1 /\ Holds(0, 1, w)
      <4>1. k = 1 /\ j < m
        BY <1>9, <3>2 DEF Before, CUs
      <4>2. MovedUp(k, j, v)
        BY <1>7, <1>9, <3>2, <4>1
      <4>3. Before(k, j + DataGone(k), 0, 1)
        BY <4>1 DEF Before
      <4> QED
        BY <1>2, <1>9, <2>1, <3>2, <4>2, <4>3 DEF CUs
    <3> QED
      BY <2>5, <3>1, <3>2 DEF CameIn
  <2> QED
    BY <1>7, <1>9, <2>4, <2>5
<1>10. (\A k \in CUs, j \in Nat, w \in Words :
         Holds(k, j, w) => w.n \in Writes(w.cu, Sent(w.cu)) /\ k >= w.cu)'
  BY <1>8
<1>11. (\A k, l \in CUs, j, m \in Nat, v, w \in Words :
         Holds(k, j, v) /\ Holds(l, m, w) /\ v.cu = w.cu /\ Before(k, j, l, m) => v.n < w.n)'
  BY <1>9 DEF Before
<1> QED
  BY <1>10, <1>11 DEF WordsInOrder

\* the word of unit i that the controller takes
Takes(i, w) == DataTaken /\ w = Head(wrfifo[1]) /\ w.cu = i

LEMMA TakesFirst ==
  ASSUME TypeOK, WordsInOrder, NEW i \in CUs, NEW h, Takes(i, h)
  PROVE  /\ h \in Words /\ h.cu = i /\ Holds(1, 1, h) /\ h.n \in Writes(i, Sent(i))
         /\ \A k \in CUs, j \in Nat, w \in Words :
              Holds(k, j, w) /\ w.cu = i /\ ~(k = 1 /\ j = 1) => h.n < w.n
<1>1. h \in Words /\ h.cu = i /\ Holds(1, 1, h)
  BY DataFifo DEF Takes, DataTaken, CUs
<1>2. h.n \in Writes(i, Sent(i))
  BY <1>1 DEF WordsInOrder, CUs
<1>3. ASSUME NEW k \in CUs, NEW j \in Nat, NEW w \in Words,
             Holds(k, j, w), w.cu = i, ~(k = 1 /\ j = 1)
      PROVE  h.n < w.n
  <2>1. Before(1, 1, k, j)
    BY <1>3 DEF Before, CUs, Holds
  <2> QED
    BY <1>1, <1>3, <2>1 DEF WordsInOrder, CUs
<1> QED
  BY <1>1, <1>2, <1>3

LEMMA PendingStep ==
  ASSUME TypeOK, RequestsInOrder, WordsInOrder, NEW show, Show(show), DataChain, UNCHANGED program,
         NEW i \in CUs, NEW n \in Numbers(i)
  PROVE  n \in Pending(i)' <=>
           \/ n \in Pending(i) /\ ~\E h \in Words : Takes(i, h) /\ h.n = n
           \/ WriteAccepted(i) /\ n = rqst[i]
<1>1. PICK w : w = [cu |-> i, n |-> n]
  OBVIOUS
<1>2. w \in Words /\ w.cu = i /\ w.n = n
  BY <1>1, Types DEF Words
<1>3. /\ n \in Pending(i) <=> Carried(w)
      /\ n \in Pending(i)' <=> Carried(w)'
  BY <1>1 DEF Pending, Numbers
<1>4. WriteAccepted(i) => rqst[i] = Sent(i) + 1 /\ Sent(i) \in Nat
  BY WritesStep
<1>5. WriteAccepted(i) /\ n = rqst[i] => CameIn(i, w)
  BY <1>1 DEF CameIn, Word
<1>6. ASSUME n \in Pending(i)'
      PROVE  \/ n \in Pending(i) /\ ~\E h \in Words : Takes(i, h) /\ h.n = n
             \/ WriteAccepted(i) /\ n = rqst[i]
  <2>1. PICK k \in CUs, m \in 1..3 : Holds(k, m, w)'
    BY <1>3, <1>6 DEF Carried
  <2>2. MovedUp(k, m, w) \/ CameIn(k, w)
    BY <1>2, <2>1, Places
  <2>3. CASE MovedUp(k, m, w)
    <3>1. Holds(k, m + DataGone(k), w) /\ DataGone(k) \in {0, 1} /\ m + DataGone(k) \in 1..3
      BY <2>3, DataMove, DataFifo DEF MovedUp, Holds
    <3>2. k = 1 /\ DataTaken => m + DataGone(k) # 1
      BY <3>1, DataFlow
    <3>3. \A h : Takes(i, h) => h.n < w.n
      BY <1>2, <3>1, <3>2, TakesFirst DEF Takes
    <3>4. Carried(w)
      BY <3>1 DEF Carried
    <3>5. n \in Nat
      BY <1>2 DEF Words
    <3>6. \A h \in Words : Takes(i, h) => h.n \in Nat /\ h.n < n
      BY <1>2, <3>3 DEF Words
    <3> QED
      BY <1>3, <3>4, <3>5, <3>6
  <2>4. CASE WriteAccepted(k) /\ w = Word(k)
    <3>1. k = i /\ n = rqst[i]
      BY <1>2, <2>4 DEF Word
    <3> QED
      BY <2>4, <3>1
  <2>5. CASE Holds(0, 1, w)
    <3>1. \A h \in Words : Takes(i, h) => h.n \in Nat /\ h.n < n
      BY <1>2, <2>5, TakesFirst DEF CUs, Words
    <3>2. Carried(w) /\ n \in Nat
      BY <1>2, <2>5 DEF Carried, CUs, Words
    <3> QED
      BY <1>3, <3>1, <3>2
  <2> QED
    BY <2>2, <2>3, <2>4, <2>5 DEF CameIn
<1>7. ASSUME n \in Pending(i), ~\E h \in Words : Takes(i, h) /\ h.n = n
      PROVE  n \in Pending(i)'
  <2>1. PICK k \in CUs, j \in 1..3 : Holds(k, j, w)
    BY <1>3, <1>7 DEF Carried
  <2>2. ~(k = 1 /\ j = 1 /\ DataTaken)
    <3> SUFFICES ASSUME k = 1, j = 1, DataTaken PROVE FALSE
      OBVIOUS
    <3>1. w = Head(wrfifo[1])
      BY <2>1, DataFifo DEF Holds, CUs, DataTaken
    <3> QED
      BY <1>2, <1>7, <3>1 DEF Takes
  <2> QED
    BY <1>2, <1>3, <2>1, <2>2, StaysCarried
<1>8. ASSUME WriteAccepted(i), n = rqst[i] PROVE n \in Pending(i)'
  BY <1>2, <1>3, <1>5, <1>8, Places DEF Carried
<1> QED
  BY <1>6, <1>7, <1>8

LEMMA StoredStep ==
  ASSUME TypeOK, RequestsInOrder, WordsInOrder, LastPending, NEW show, Show(show), DataChain,
         UNCHANGED program, NEW i \in CUs
  PROVE  /\ \A h : Takes(i, h) => h.n \notin Stored(i) /\ Stored(i)' = Stored(i) \cup {h.n}
         /\ (~\E h : Takes(i, h)) => Stored(i)' = Stored(i)
         /\ \A n \in Pending(i)', m \in Writes(i, Sent(i))' : m > n => m \in Pending(i)'
<1> DEFINE W == Writes(i, Sent(i))
           T(n) == \E h \in Words : Takes(i, h) /\ h.n = n
<1>1. /\ W' = IF WriteAccepted(i) THEN W \cup {rqst[i]} ELSE W
      /\ WriteAccepted(i) => rqst[i] = Sent(i) + 1 /\ rqst[i] \in Numbers(i)
      /\ W \subseteq Numbers(i) /\ Sent(i) \in Nat /\ \A n \in W : n <= Sent(i)
  BY WritesStep DEF Writes
<1>2. \A n \in Numbers(i) :
        n \in Pending(i)' <=> (n \in Pending(i) /\ ~T(n)) \/ (WriteAccepted(i) /\ n = rqst[i])
  BY PendingStep
<1>3. Pending(i) \subseteq W /\ Pending(i)' \subseteq Numbers(i) /\ Numbers(i) \subseteq Nat
  <2>1. ASSUME NEW n \in Pending(i) PROVE n \in W
    <3>1. [cu |-> i, n |-> n] \in Words /\ Carried([cu |-> i, n |-> n])
      BY Types DEF Pending, Words
    <3> QED
      BY <3>1 DEF Carried, WordsInOrder
  <2>2. Pending(i)' \subseteq Numbers(i)
    BY DEF Pending, Numbers
  <2> QED
    BY <2>1, <2>2, Types
<1>4. ASSUME NEW h, Takes(i, h)
      PROVE  /\ h.n \in Pending(i) /\ h.n \in W /\ (\A n : T(n) <=> n = h.n)
             /\ \A n \in Pending(i) : n # h.n => h.n < n
  <2>1. /\ h \in Words /\ h.cu = i /\ Holds(1, 1, h) /\ h.n \in W
        /\ \A k \in CUs, j \in Nat, w \in Words :
             Holds(k, j, w) /\ w.cu = i /\ ~(k = 1 /\ j = 1) => h.n < w.n
    BY <1>4, TakesFirst
  <2>2. h = [cu |-> i, n |-> h.n]
    BY <2>1 DEF Words
  <2>3. h.n \in Pending(i)
    BY <1>1, <2>1, <2>2 DEF Pending, Carried, CUs
  <2>4. ASSUME NEW n \in Pending(i), n # h.n PROVE h.n < n
    <3>1. PICK k \in CUs, j \in 1..3 : Holds(k, j, [cu |-> i, n |-> n])
      BY DEF Pending, Carried
    <3>2. [cu |-> i, n |-> n] \in Words
      BY Types DEF Pending, Words
    <3>3. ~(k = 1 /\ j = 1)
      BY <2>1, <2>4, <3>1 DEF Holds
    <3> QED
      BY <2>1, <3>1, <3>2, <3>3
  <2>5. \A n : T(n) <=> n = h.n
    BY <1>4, <2>1 DEF Takes
  <2> QED
    BY <2>1, <2>3, <2>4, <2>5
<1>5. Stored(i) = W \ Pending(i) /\ Stored(i)' = W' \ Pending(i)'
  BY DEF Stored
<1>6. WriteAccepted(i) => rqst[i] \notin W
  BY <1>1
<1>7. (~\E h : Takes(i, h)) => \A n : ~T(n)
  OBVIOUS
<1> HIDE DEF W, T
<1>8. ASSUME NEW h, Takes(i, h)
      PROVE  h.n \notin Stored(i) /\ Stored(i)' = Stored(i) \cup {h.n}
  <2>1. h.n \in Pending(i) /\ h.n \in W /\ \A n : T(n) <=> n = h.n
    BY <1>4, <1>8
  <2> QED
    BY <1>1, <1>2, <1>3, <1>5, <1>6, <2>1
<1>9. ASSUME ~\E h : Takes(i, h) PROVE Stored(i)' = Stored(i)
  BY <1>1, <1>2, <1>3, <1>5, <1>6, <1>7, <1>9
<1>10. ASSUME NEW n \in Pending(i)', NEW m \in W', m > n
       PROVE  m \in Pending(i)'
  <2>1. n \in Numbers(i) /\ n \in Nat /\ m \in Numbers(i)
    BY <1>1, <1>3
  <2>2. CASE WriteAccepted(i) /\ m = rqst[i]
    BY <1>2, <2>1, <2>2
  <2>3. CASE m \in W
    <3>1. n \in Pending(i) /\ ~T(n)
      BY <1>1, <1>2, <1>10, <2>1, <2>3
    <3>2. m \in Pending(i)
      BY <1>10, <2>3, <3>1 DEF LastPending, W
    <3>3. ~T(m)
      BY <1>3, <1>4, <1>7, <1>10, <2>1, <3>1, <3>2
    <3> QED
      BY <1>2, <2>1, <3>2, <3>3
  <2> QED
    BY <1>1, <2>2, <2>3
<1> QED
  BY <1>8, <1>9, <1>10 DEF W

-----------------------------------------------------------------------------
(* The count *)

LEMMA CountTo ==
  ASSUME NEW n \in Nat
  PROVE  IsFiniteSet(1..n) /\ Cardinality(1..n) = n
BY FS_Interval

LEMMA FiniteWrites ==
  ASSUME NEW i \in CUs, NEW n \in Nat
  PROVE  IsFiniteSet(Writes(i, n)) /\ Cardinality(Writes(i, n)) \in Nat
<1>1. IsFiniteSet(1..n) /\ Writes(i, n) \in SUBSET (1..n)
  BY FS_Interval DEF Writes
<1> QED
  BY <1>1, FS_Subset, FS_CardinalityType

LEMMA FiniteStored ==
  ASSUME NEW i \in CUs, Sent(i) \in Nat
  PROVE  IsFiniteSet(Stored(i)) /\ Cardinality(Stored(i)) \in Nat
<1>1. IsFiniteSet(Writes(i, Sent(i))) /\ Stored(i) \in SUBSET Writes(i, Sent(i))
  BY FiniteWrites DEF Stored
<1> QED
  BY <1>1, FS_Subset, FS_CardinalityType

\* at most six words are on their way
LEMMA FewPending ==
  ASSUME TypeOK, NEW i \in CUs
  PROVE  IsFiniteSet(Pending(i)) /\ Cardinality(Pending(i)) <= 6 /\ Cardinality(Pending(i)) \in Nat
<1> DEFINE w(n) == [cu |-> i, n |-> n]
           At(n, p) == \E k \in CUs, j \in 1..3 : p = 3 * k + j /\ Holds(k, j, w(n))
           f == [n \in Pending(i) |-> CHOOSE p \in 1..6 : At(n, p)]
<1>1. \A n \in Pending(i) : f[n] \in 1..6 /\ At(n, f[n])
  <2> SUFFICES ASSUME NEW n \in Pending(i) PROVE \E p \in 1..6 : At(n, p)
    OBVIOUS
  <2>1. PICK k \in CUs, j \in 1..3 : Holds(k, j, w(n))
    BY DEF Pending, Carried
  <2>2. 3 * k + j \in 1..6
    BY DEF CUs
  <2> QED
    BY <2>1, <2>2
<1>2. \A n, m \in Pending(i) : f[n] = f[m] => n = m
  <2> SUFFICES ASSUME NEW n \in Pending(i), NEW m \in Pending(i), f[n] = f[m] PROVE n = m
    OBVIOUS
  <2>1. PICK k \in CUs, j \in 1..3 : f[n] = 3 * k + j /\ Holds(k, j, w(n))
    BY <1>1
  <2>2. PICK l \in CUs, o \in 1..3 : f[m] = 3 * l + o /\ Holds(l, o, w(m))
    BY <1>1
  <2> HIDE DEF f
  <2>3. 3 * k + j = 3 * l + o
    BY <2>1, <2>2
  <2> HIDE DEF At, w
  <2>4. k = l /\ j = o
    BY <2>3 DEF CUs
  <2>5. w(n) = w(m)
    BY <2>1, <2>2, <2>4 DEF Holds
  <2> QED
    BY <2>5 DEF w
<1>3. f \in [Pending(i) -> 1..6]
  <2>1. f \in [Pending(i) -> {f[n] : n \in Pending(i)}]
    OBVIOUS
  <2> QED
    BY <1>1, <2>1
<1> HIDE DEF f
<1>4. f \in Injection(Pending(i), 1..6)
  BY <1>2, <1>3 DEF Injection, IsInjective
<1>5. IsFiniteSet(1..6) /\ Cardinality(1..6) = 6
  <2>1. PICK b \in Nat : b = 6
    OBVIOUS
  <2>2. IsFiniteSet(1..b) /\ Cardinality(1..b) = b
    BY CountTo
  <2> QED
    BY <2>1, <2>2
<1> QED
  BY <1>4, <1>5, FS_Injection, FS_CardinalityType

LEMMA ModCount ==
  ASSUME NEW c \in Int, NEW x \in Int, NEW y \in Int, (c + x) % 16 = 0
  PROVE  (((c + y) % 16) + (x - y)) % 16 = 0
OBVIOUS

LEMMA HeadRequest ==
  ASSUME TypeOK, RequestsInOrder, NEW i \in CUs, fifo_deq(i)
  PROVE  Head(fifo[i]) = Came(i) + 1
<1>1. fifo[i] \in Seq(Numbers(i)) /\ In(fifo_in[i]) \in Seq(Numbers(i)) /\ fifo[i] # <<>>
  BY Types, Register DEF fifo_deq, ReadTaken, WriteTaken, Valid
<1> DEFINE x == In(fifo_in[i])
<1>2. Len(fifo[i]) \in Nat /\ Len(fifo[i]) >= 1 /\ Len(x) \in Nat /\ Head(fifo[i]) = fifo[i][1]
  BY <1>1, EmptySeq, LenProperties, HeadTailProperties
<1> HIDE DEF x
<1>3. 1 \in 1..Len(fifo[i]) + Len(x)
  BY <1>2
<1>4. Len(Requests(i)) = Len(fifo[i]) + Len(x) /\ Requests(i)[1] = fifo[i][1]
  BY <1>1, <1>2, <1>3, ConcatProperties DEF Requests, x
<1> QED
  BY <1>2, <1>3, <1>4 DEF RequestsInOrder

LEMMA CameStep ==
  ASSUME TypeOK, RequestsInOrder, NEW show, Show(show), RequestFifos, UNCHANGED program,
         NEW i \in CUs
  PROVE  Cardinality(Writes(i, Came(i)))' =
           Cardinality(Writes(i, Came(i))) + (IF WriteTaken(i) THEN 1 ELSE 0)
<1>1. Came(i)' = Came(i) + RequestGone(i) /\ Came(i) \in Nat
  BY RequestsStep DEF RequestsInOrder
<1>2. IsFiniteSet(Writes(i, Came(i)))
  BY <1>1, FiniteWrites
<1>3. Writes(i, Came(i))' = {m \in 1..Came(i)' : IsWrite(i, m)}
  BY DEF Writes, IsWrite
<1>4. fifo_deq(i) => Head(fifo[i]) = Came(i) + 1
  BY HeadRequest
<1>5. CASE WriteTaken(i)
  <2>1. Came(i)' = Came(i) + 1 /\ IsWrite(i, Came(i) + 1)
    BY <1>1, <1>4, <1>5 DEF WriteTaken, fifo_deq, RequestGone
  <2>2. 1..Came(i)' = 1..Came(i) \cup {Came(i) + 1} /\ Came(i) + 1 \notin 1..Came(i)
    BY <1>1, <2>1
  <2>3. /\ Writes(i, Came(i))' = Writes(i, Came(i)) \cup {Came(i) + 1}
        /\ Came(i) + 1 \notin Writes(i, Came(i))
    BY <1>3, <2>1, <2>2 DEF Writes
  <2> QED
    BY <1>2, <1>5, <2>3, FS_AddElement
<1>6. CASE ~WriteTaken(i)
  <2>1. Writes(i, Came(i))' = Writes(i, Came(i))
    <3>1. CASE ReadTaken(i)
      <4>1. Came(i)' = Came(i) + 1 /\ ~IsWrite(i, Came(i) + 1)
        BY <1>1, <1>4, <3>1 DEF ReadTaken, fifo_deq, RequestGone, IsRead, IsWrite
      <4>2. 1..Came(i)' = 1..Came(i) \cup {Came(i) + 1}
        BY <1>1, <4>1
      <4> QED
        BY <1>3, <4>1, <4>2 DEF Writes
    <3>2. CASE ~ReadTaken(i)
      <4>1. Came(i)' = Came(i)
        BY <1>1, <1>6, <3>2 DEF fifo_deq, RequestGone
      <4> QED
        BY <1>3, <4>1 DEF Writes
    <3> QED
      BY <3>1, <3>2
  <2> QED
    BY <1>2, <1>6, <2>1, FiniteWrites, <1>1
<1> QED
  BY <1>5, <1>6

LEMMA CountStep ==
  ASSUME Inv, NEW show, NEW acks, Clock(show, acks)
  PROVE  Counted'
<1> USE DEF Clock, Inv
<1> SUFFICES ASSUME NEW i \in CUs
             PROVE  (cu_num_write'[i] - Cardinality(Writes(i, Came(i)))' + Cardinality(Stored(i))'
                       - (IF Latched(i)' THEN 1 ELSE 0)) % 16 = 0
  BY DEF Counted
<1> DEFINE c == cu_num_write[i]
           s == Cardinality(Writes(i, Came(i)))
           d == Cardinality(Stored(i))
           l == IF Latched(i) THEN 1 ELSE 0
           wt == IF WriteTaken(i) THEN 1 ELSE 0
           tk == IF \E h : Takes(i, h) THEN 1 ELSE 0
<1>1. Sent(i) \in Nat /\ Came(i) \in Nat
  BY WritesStep DEF RequestsInOrder
<1>2. c \in Int /\ s \in Nat /\ d \in Nat /\ IsFiniteSet(Stored(i))
  <2>1. c \in 0..15
    BY DEF TypeOK
  <2>2. s \in Nat
    BY <1>1, FiniteWrites
  <2>3. d \in Nat /\ IsFiniteSet(Stored(i))
    BY <1>1, FiniteStored
  <2> QED
    BY <2>1, <2>2, <2>3
<1>3. (c - s + d - l) % 16 = 0
  BY DEF Counted
<1>4. cu_num_write'[i] = (c + wt - l) % 16
  BY DEF Count
<1>5. s' = s + wt
  BY CameStep
<1>6. d' = d + tk
  <2>1. CASE \E h : Takes(i, h)
    <3>1. PICK h : Takes(i, h)
      BY <2>1
    <3>2. h.n \notin Stored(i) /\ Stored(i)' = Stored(i) \cup {h.n}
      BY <3>1, StoredStep
    <3> QED
      BY <1>2, <2>1, <3>2, FS_AddElement
  <2>2. CASE ~\E h : Takes(i, h)
    BY <1>2, <2>2, StoredStep
  <2> QED
    BY <2>1, <2>2
<1>7. Latched(i)' <=> \E h : Takes(i, h)
  <2>1. DataTaken => Head(wrfifo[1]) # None
    BY DataFifo, Types DEF DataTaken, CUs
  <2> QED
    BY <2>1 DEF LatchData, Latched, Takes
<1>8. l \in Int /\ wt \in Int /\ tk \in Int
  OBVIOUS
<1> HIDE DEF c, s, d, l, wt, tk
<1>9. (c + (d - s - l)) % 16 = 0
  <2>1. c - s + d - l = c + (d - s - l)
    BY <1>2, <1>8
  <2> QED
    BY <1>3, <2>1
<1>10. (((c + (wt - l)) % 16) + ((d - s - l) - (wt - l))) % 16 = 0
  BY <1>2, <1>8, <1>9, ModCount
<1>11. cu_num_write'[i] - s' + d' - tk = ((c + (wt - l)) % 16) + ((d - s - l) - (wt - l))
  <2>1. c + wt - l = c + (wt - l) /\ (c + (wt - l)) % 16 \in Int
    BY <1>2, <1>8
  <2> QED
    BY <1>2, <1>4, <1>5, <1>6, <1>8, <2>1
<1> QED
  BY <1>7, <1>10, <1>11 DEF s, d, tk

-----------------------------------------------------------------------------
(* No load before an earlier store *)

\* Chain is the fifo next to the controller and then the other one
LEMMA ChainHolds ==
  ASSUME TypeOK, NEW k \in 1..Len(Chain)
  PROVE  Chain[k] \in Words /\ \E l \in CUs, j \in 1..3 : Holds(l, j, Chain[k])
<1> DEFINE a == Stage(1)
           b == Stage(0)
<1>1. /\ a \in Seq(Words) /\ Len(a) \in Nat /\ Len(a) <= 3
      /\ b \in Seq(Words) /\ Len(b) \in Nat /\ Len(b) <= 3
  BY DataFifo DEF CUs
<1>2. /\ Len(a \o b) = Len(a) + Len(b)
      /\ \A m \in 1..Len(a) + Len(b) : (a \o b)[m] = IF m <= Len(a) THEN a[m] ELSE b[m - Len(a)]
  BY <1>1, ConcatProperties
<1>3. Chain = a \o b
  BY DEF Chain
<1>4. /\ \A j \in 1..Len(a) : Holds(1, j, a[j])
      /\ \A j \in 1..Len(b) : Holds(0, j, b[j])
  BY DEF Holds
<1> HIDE DEF a, b
<1>5. CASE k <= Len(a)
  <2>1. k \in 1..3 /\ Chain[k] = a[k] /\ k \in 1..Len(a)
    BY <1>1, <1>2, <1>3, <1>5
  <2>2. Chain[k] \in Words
    BY <1>1, <2>1, ElementOfSeq
  <2> QED
    BY <1>4, <2>1, <2>2 DEF CUs
<1>6. CASE ~(k <= Len(a))
  <2>1. PICK j \in Nat : j = k - Len(a) /\ j \in 1..3 /\ j \in 1..Len(b)
    BY <1>1, <1>2, <1>3, <1>6
  <2>2. Chain[k] = b[j]
    BY <1>1, <1>2, <1>3, <1>6, <2>1
  <2>3. Chain[k] \in Words
    BY <1>1, <2>1, <2>2, ElementOfSeq
  <2> QED
    BY <1>4, <2>1, <2>2, <2>3 DEF CUs
<1> QED
  BY <1>5, <1>6

LEMMA SafeWhenZero ==
  ASSUME Inv
  PROVE  ReadsAfterWrites
<1> USE DEF Inv
<1> SUFFICES ASSUME NEW i \in CUs, ReadTaken(i), NEW k \in 1..Len(Chain), Chain[k].cu = i,
                    ~(Chain[k].n > Head(fifo[i]))
             PROVE  FALSE
  BY DEF ReadsAfterWrites
<1> DEFINE n == Chain[k].n
           s == Cardinality(Writes(i, Came(i)))
           d == Cardinality(Stored(i))
           l == IF Latched(i) THEN 1 ELSE 0
           p == Cardinality(Pending(i))
<1>1. /\ Head(fifo[i]) = Came(i) + 1 /\ Came(i) \in Nat /\ Sent(i) \in Nat /\ Came(i) <= Sent(i)
      /\ Sent(i) <= Len(program[i])
  <2>1. Head(fifo[i]) = Came(i) + 1
    BY HeadRequest DEF fifo_deq
  <2>2. /\ issued[i] \in 0..Len(program[i]) /\ rqst[i] \in Numbers(i) \cup {None}
        /\ Len(program[i]) \in Nat
    BY Types
  <2>3. Came(i) \in Nat /\ (rqst[i] # None => rqst[i] = issued[i])
    BY DEF RequestsInOrder
  <2>4. Len(Requests(i)) \in Nat
    <3>1. fifo[i] \in Seq(Numbers(i)) /\ In(fifo_in[i]) \in Seq(Numbers(i))
      BY Types, Register
    <3>2. Requests(i) \in Seq(Numbers(i))
      BY <3>1, ConcatProperties DEF Requests
    <3> QED
      BY <3>2, LenProperties
  <2>5. Sent(i) \in Nat /\ Sent(i) <= Len(program[i])
    BY <2>2, <2>3 DEF Sent, Numbers
  <2> QED
    BY <2>1, <2>3, <2>4, <2>5 DEF Came
<1>2. PICK w \in Words, m \in CUs, j \in 1..3 : w = Chain[k] /\ w.cu = i /\ w.n = n /\ Holds(m, j, w)
  BY ChainHolds
<1>3. n \in Writes(i, Sent(i)) /\ n \in Nat
  BY <1>2 DEF WordsInOrder, Words
<1>4. n \in Pending(i)
  <2>1. w = [cu |-> i, n |-> n] /\ n \in Numbers(i)
    BY <1>1, <1>2, <1>3, Types DEF Words, Writes, Numbers
  <2> QED
    BY <1>2, <2>1 DEF Pending, Carried
<1>5. n \in Writes(i, Came(i))
  <2>1. IsRead(i, Came(i) + 1) /\ IsWrite(i, n)
    BY <1>1, <1>3 DEF ReadTaken, Writes
  <2>2. n # Came(i) + 1
    BY <2>1 DEF IsRead, IsWrite
  <2>3. n \in 1..Came(i)
    BY <1>1, <1>3, <2>2 DEF Writes
  <2> QED
    BY <2>1, <2>3 DEF Writes
<1>6. /\ IsFiniteSet(Writes(i, Came(i))) /\ s \in Nat
      /\ IsFiniteSet(Stored(i)) /\ d \in Nat
      /\ IsFiniteSet(Pending(i)) /\ p \in Nat /\ p <= 6
  BY <1>1, FiniteWrites, FiniteStored, FewPending
<1>7. d < s
  <2>1. Stored(i) \subseteq Writes(i, Came(i)) \ {n}
    <3>1. ASSUME NEW m1 \in Stored(i) PROVE m1 \in Writes(i, Came(i)) /\ m1 # n
      <4>1. m1 \in Writes(i, Sent(i)) /\ m1 \notin Pending(i) /\ m1 \in Nat
        BY DEF Stored, Writes
      <4>2. ~(m1 > n)
        BY <1>4, <4>1 DEF LastPending
      <4> QED
        BY <1>1, <1>3, <1>4, <1>5, <4>1, <4>2 DEF Writes
    <3> QED
      BY <3>1
  <2>2. /\ IsFiniteSet(Writes(i, Came(i)) \ {n})
        /\ Cardinality(Writes(i, Came(i)) \ {n}) = s - 1
    BY <1>5, <1>6, FS_RemoveElement
  <2>3. d <= s - 1
    BY <2>1, <2>2, FS_Subset
  <2> QED
    BY <1>6, <2>3
<1>8. s <= d + 6
  <2>1. Writes(i, Came(i)) \subseteq Stored(i) \cup Pending(i)
    BY <1>1 DEF Stored, Writes
  <2>2. /\ IsFiniteSet(Stored(i) \cup Pending(i))
        /\ Cardinality(Stored(i) \cup Pending(i)) = d + p - Cardinality(Stored(i) \cap Pending(i))
    BY <1>6, FS_Union
  <2>3. Stored(i) \cap Pending(i) = {}
    BY DEF Stored
  <2>4. Cardinality(Stored(i) \cup Pending(i)) = d + p - 0
    BY <2>2, <2>3, FS_EmptySet
  <2>5. s <= Cardinality(Stored(i) \cup Pending(i))
    BY <2>1, <2>2, FS_Subset
  <2> QED
    BY <1>6, <2>4, <2>5
<1>9. (0 - s + d - l) % 16 = 0
  BY DEF Counted, ReadTaken, cu_ready
<1>10. l \in {0, 1}
  OBVIOUS
<1> HIDE DEF s, d, l, p
<1>11. s - d + l \in 1..7
  BY <1>6, <1>7, <1>8, <1>10
<1> QED
  BY <1>6, <1>9, <1>10, <1>11

-----------------------------------------------------------------------------
(* The theorem *)

LEMMA InvInit == Init => Inv
<1> SUFFICES ASSUME Init PROVE Inv
  OBVIOUS
<1>1. TypeOK
  BY TypeInit
<1>2. ASSUME NEW i \in CUs
      PROVE  /\ Sent(i) = 0 /\ Requests(i) = <<>> /\ Stage(i) = <<>> /\ rqst[i] = None
             /\ Came(i) = 0 /\ Len(Stage(i)) = 0 /\ Len(Requests(i)) = 0
  <2>1. fifo[i] = <<>> /\ fifo_in[i] = None /\ wrfifo[i] = <<>> /\ wrfifo_in[i] = None
        /\ rqst[i] = None /\ issued[i] = 0
    BY DEF Init
  <2>2. <<>> \o <<>> = <<>> /\ Len(<<>>) = 0
    OBVIOUS
  <2>3. Requests(i) = <<>> /\ Stage(i) = <<>>
    BY <2>1, <2>2 DEF Requests, Stage, In
  <2>4. Sent(i) = 0 /\ rqst[i] = None
    BY <2>1 DEF Sent
  <2>5. Len(Requests(i)) = 0 /\ Len(Stage(i)) = 0
    BY <2>2, <2>3
  <2>6. Came(i) = 0
    BY <2>4, <2>5 DEF Came
  <2> QED
    BY <2>3, <2>4, <2>5, <2>6
<1>3. ASSUME NEW i \in CUs, NEW j \in Nat, NEW w PROVE ~Holds(i, j, w)
  BY <1>2 DEF Holds
<1>4. ASSUME NEW i \in CUs
      PROVE  Pending(i) = {} /\ Writes(i, Sent(i)) = {} /\ Stored(i) = {} /\ Writes(i, Came(i)) = {}
  BY <1>2, <1>3 DEF Pending, Carried, Writes, Stored
<1>5. RequestsInOrder
  BY <1>2 DEF RequestsInOrder
<1>6. WordsInOrder
  BY <1>3 DEF WordsInOrder
<1>7. LastPending
  BY <1>4 DEF LastPending
<1>8. Counted
  <2> SUFFICES ASSUME NEW i \in CUs
               PROVE (cu_num_write[i] - Cardinality(Writes(i, Came(i))) + Cardinality(Stored(i))
                        - (IF Latched(i) THEN 1 ELSE 0)) % 16 = 0
    BY DEF Counted
  <2>1. cu_num_write[i] = 0 /\ ~Latched(i)
    BY DEF Init, Latched
  <2>2. Cardinality(Writes(i, Came(i))) = 0 /\ Cardinality(Stored(i)) = 0
    BY <1>4, FS_EmptySet
  <2> QED
    BY <2>1, <2>2
<1> QED
  BY <1>1, <1>5, <1>6, <1>7, <1>8 DEF Inv

LEMMA InvStep == Inv /\ [Next]_vars => Inv'
<1>1. ASSUME Inv, Next PROVE Inv'
  <2>1. PICK show, acks : Clock(show, acks)
    BY <1>1 DEF Next
  <2>2. TypeOK'
    BY <1>1, <2>1, TypeStep DEF Inv
  <2>3. RequestsInOrder'
    BY <1>1, <2>1, RequestsStep DEF Inv, Clock
  <2>4. WordsInOrder'
    BY <1>1, <2>1, OrderStep DEF Inv, Clock
  <2>5. LastPending'
    <3>1. \A i \in CUs : \A n \in Pending(i)', m \in Writes(i, Sent(i))' : m > n => m \in Pending(i)'
      BY <1>1, <2>1, StoredStep DEF Inv, Clock
    <3> QED
      BY <3>1 DEF LastPending
  <2>6. Counted'
    BY <1>1, <2>1, CountStep
  <2> QED
    BY <2>2, <2>3, <2>4, <2>5, <2>6 DEF Inv
<1>2. ASSUME Inv, UNCHANGED vars PROVE Inv'
  <2>1. UNCHANGED <<program, issued, rqst, fifo_in, fifo, wrfifo_in, wrfifo,
                    cu_wrData_ltch, cu_num_write, rcv>>
    BY <1>2 DEF vars
  <2>2. \A i : /\ Sent(i)' = Sent(i) /\ Requests(i)' = Requests(i) /\ Came(i)' = Came(i)
               /\ Pending(i)' = Pending(i) /\ Latched(i)' = Latched(i)
               /\ Writes(i, Sent(i))' = Writes(i, Sent(i))
               /\ Writes(i, Came(i))' = Writes(i, Came(i)) /\ Stored(i)' = Stored(i)
    BY <2>1 DEF Sent, Requests, Came, Pending, Carried, Holds, Stage, Latched, Writes, IsWrite,
                Stored, Numbers
  <2>3. TypeOK'
    BY <1>2, <2>1 DEF Inv, TypeOK, Numbers
  <2>4. RequestsInOrder'
    BY <1>2, <2>1, <2>2 DEF Inv, RequestsInOrder
  <2>5. WordsInOrder'
    <3>1. \A k, j, w : Holds(k, j, w)' <=> Holds(k, j, w)
      BY <2>1 DEF Holds, Stage
    <3> QED
      BY <1>2, <2>2, <3>1 DEF Inv, WordsInOrder
  <2>6. LastPending'
    BY <1>2, <2>2 DEF Inv, LastPending
  <2>7. Counted'
    BY <1>2, <2>1, <2>2 DEF Inv, Counted
  <2> QED
    BY <2>3, <2>4, <2>5, <2>6, <2>7 DEF Inv
<1> QED
  BY <1>1, <1>2

\* cu_num_write alone keeps every load behind the data of the stores before it,
\* although requests and words come in any order.
THEOREM LoadsBehindStores == Spec => []ReadsAfterWrites
<1>1. Inv => ReadsAfterWrites
  BY SafeWhenZero
<1> QED
  BY InvInit, InvStep, <1>1, PTL DEF Spec

-----------------------------------------------------------------------------
(* The words of one unit as a queue *)

\* the word v, if there is one and it is of unit i
Mine(i, v) == IF v # None /\ v.cu = i THEN <<v>> ELSE <<>>

\* q has three places for words, and words only
ThreePlaces(q) == q \in Seq(Words) /\ Len(q) \in Nat /\ Len(q) <= 3

LEMMA PlaceTypes ==
  ASSUME NEW i \in CUs, NEW q, ThreePlaces(q), NEW j \in Nat \ {0}
  PROVE  /\ WordAt(i, q, j) \in Seq(Words) /\ Len(WordAt(i, q, j)) \in {0, 1}
         /\ j > Len(q) => WordAt(i, q, j) = <<>>
         /\ WordAt(i, q, j) # <<>> => q[j].cu = i /\ WordAt(i, q, j) = <<q[j]>>
<1>1. q \in Seq(Words) /\ Len(q) \in Nat
  BY DEF ThreePlaces
<1>2. CASE j <= Len(q)
  <2>1. q[j] \in Words
    BY <1>1, <1>2, ElementOfSeq
  <2> QED
    BY <1>1, <1>2, <2>1 DEF WordAt
<1>3. CASE ~(j <= Len(q))
  BY <1>3 DEF WordAt
<1> QED
  BY <1>2, <1>3

LEMMA MineTypes ==
  ASSUME NEW i \in CUs, NEW v \in Words \cup {None}
  PROVE  Mine(i, v) \in Seq(Words)
BY DEF Mine

LEMMA WordsOfTypes ==
  ASSUME NEW i \in CUs, NEW q, ThreePlaces(q)
  PROVE  /\ WordsOf(i, q) \in Seq(Words) /\ Len(WordsOf(i, q)) \in Nat
         /\ Len(WordsOf(i, q)) <= Len(q)
<1> DEFINE a == WordAt(i, q, 1)
           b == WordAt(i, q, 2)
           c == WordAt(i, q, 3)
<1>1. /\ a \in Seq(Words) /\ Len(a) \in {0, 1} /\ (1 > Len(q) => a = <<>>)
      /\ b \in Seq(Words) /\ Len(b) \in {0, 1} /\ (2 > Len(q) => b = <<>>)
      /\ c \in Seq(Words) /\ Len(c) \in {0, 1} /\ (3 > Len(q) => c = <<>>)
  BY PlaceTypes
<1>2. WordsOf(i, q) = (a \o b) \o c
  BY DEF WordsOf
<1> HIDE DEF a, b, c
<1>3. a \o b \in Seq(Words) /\ Len(a \o b) = Len(a) + Len(b)
  BY <1>1, ConcatProperties
<1>4. (a \o b) \o c \in Seq(Words) /\ Len((a \o b) \o c) = Len(a \o b) + Len(c)
  BY <1>1, <1>3, ConcatProperties
<1>5. /\ Len(a) \in 0..1 /\ Len(b) \in 0..1 /\ Len(c) \in 0..1
      /\ 1 > Len(q) => Len(a) = 0
      /\ 2 > Len(q) => Len(b) = 0
      /\ 3 > Len(q) => Len(c) = 0
  BY <1>1
<1> DEFINE u == Len((a \o b) \o c)
<1>6. u = Len(a) + Len(b) + Len(c)
  BY <1>3, <1>4
<1> HIDE DEF u
<1>7. u \in Nat /\ u <= Len(q)
  <2> DEFINE la == Len(a)
             lb == Len(b)
             lc == Len(c)
             l  == Len(q)
  <2>1. /\ la \in 0..1 /\ lb \in 0..1 /\ lc \in 0..1 /\ u = la + lb + lc /\ l \in Nat
        /\ (1 > l => la = 0) /\ (2 > l => lb = 0) /\ (3 > l => lc = 0)
    BY <1>5, <1>6 DEF ThreePlaces
  <2> HIDE DEF la, lb, lc, l
  <2>2. u \in Nat /\ u <= l
    BY <2>1
  <2> QED
    BY <2>2 DEF l
<1> QED
  BY <1>2, <1>4, <1>7 DEF u

\* a word put behind those in the first k places of three
LEMMA PutInPlace ==
  ASSUME NEW S, NEW a \in Seq(S), NEW b \in Seq(S), NEW c \in Seq(S), NEW m \in Seq(S)
  PROVE  /\ (m \o <<>>) \o <<>> = ((<<>> \o <<>>) \o <<>>) \o m
         /\ (a \o m) \o <<>> = ((a \o <<>>) \o <<>>) \o m
         /\ (a \o b) \o m = ((a \o b) \o <<>>) \o m
         /\ (a \o b) \o c = ((a \o b) \o c) \o <<>>
<1>1. a \o b \in Seq(S) /\ a \o m \in Seq(S)
  BY ConcatProperties
<1>2. (a \o b) \o c \in Seq(S)
  BY <1>1, ConcatProperties
<1>3. \A q \in Seq(S) : q \o <<>> = q /\ <<>> \o q = q
  BY ConcatEmptySeq
<1>4. <<>> \in Seq(S)
  OBVIOUS
<1> QED
  BY <1>1, <1>2, <1>3, <1>4, Zenon

\* When a queue of three places moves on, so do the words of one unit in it.
LEMMA WordsOfMoves ==
  ASSUME NEW i \in CUs, NEW q, ThreePlaces(q), NEW n, ThreePlaces(n),
         NEW t \in {0, 1}, t = 1 => Len(q) >= 1, NEW v \in Words \cup {None}, None \notin Words,
         Moves(q, n, t, v)
  PROVE  LET tm == IF t = 1 /\ q[1].cu = i THEN 1 ELSE 0
         IN /\ WordsOf(i, n) = Off(WordsOf(i, q), tm) \o Mine(i, v)
            /\ tm = 1 => WordsOf(i, q) # <<>> /\ WordsOf(i, q) = <<q[1]>> \o Off(WordsOf(i, q), 1)
<1> DEFINE tm == IF t = 1 /\ q[1].cu = i THEN 1 ELSE 0
           a == WordAt(i, q, 1)
           b == WordAt(i, q, 2)
           c == WordAt(i, q, 3)
           x == WordAt(i, n, 1)
           y == WordAt(i, n, 2)
           z == WordAt(i, n, 3)
           m == Mine(i, v)
           K == Len(q) - t
           C(j) == WordAt(i, q, j + t)
<1>1. /\ Len(n) = K + (IF v = None THEN 0 ELSE 1)
      /\ \A k \in 1..K : n[k] = q[k + t]
      /\ v # None => n[Len(n)] = v
      /\ Len(q) \in Nat /\ Len(q) <= 3 /\ Len(n) \in Nat /\ Len(n) <= 3 /\ K \in 0..3
  BY DEF Moves, ThreePlaces
<1>2. /\ a \in Seq(Words) /\ b \in Seq(Words) /\ c \in Seq(Words) /\ m \in Seq(Words)
  BY PlaceTypes, MineTypes
<1>3. ASSUME NEW j \in 1..3
      PROVE  WordAt(i, n, j) = IF j <= K THEN C(j) ELSE IF j = K + 1 THEN m ELSE <<>>
  <2>1. CASE j <= K
    <3>1. j \in 1..K /\ j <= Len(n) /\ j + t <= Len(q)
      BY <1>1, <2>1
    <3> QED
      BY <1>1, <2>1, <3>1 DEF WordAt
  <2>2. CASE j = K + 1 /\ v # None
    BY <1>1, <2>2 DEF WordAt, Mine
  <2>3. CASE j > K /\ ~(j = K + 1 /\ v # None)
    <3>1. j > Len(n)
      BY <1>1, <2>3
    <3>2. WordAt(i, n, j) = <<>>
      BY <3>1, PlaceTypes
    <3> QED
      BY <1>1, <2>3, <3>2 DEF Mine
  <2> QED
    BY <1>1, <2>1, <2>2, <2>3
<1>4. ASSUME NEW j \in 1..3, j > K PROVE C(j) = <<>>
  <2>1. j + t \in Nat \ {0} /\ j + t > Len(q)
    BY <1>1, <1>4
  <2> QED
    BY <2>1, PlaceTypes
<1>5. K = 3 => m = <<>>
  BY <1>1 DEF Mine
<1>6. \A j \in 1..3 : C(j) \in Seq(Words)
  BY PlaceTypes
<1>7. (x \o y) \o z = ((C(1) \o C(2)) \o C(3)) \o m
  <2> DEFINE d == C(1)
             e == C(2)
             f == C(3)
  <2> SUFFICES (x \o y) \o z = ((d \o e) \o f) \o m
    OBVIOUS
  <2>1. d \in Seq(Words) /\ e \in Seq(Words) /\ f \in Seq(Words)
    BY <1>6
  <2>2. /\ x = IF 1 <= K THEN d ELSE IF 1 = K + 1 THEN m ELSE <<>>
        /\ y = IF 2 <= K THEN e ELSE IF 2 = K + 1 THEN m ELSE <<>>
        /\ z = IF 3 <= K THEN f ELSE IF 3 = K + 1 THEN m ELSE <<>>
        /\ (1 > K => d = <<>>) /\ (2 > K => e = <<>>) /\ (3 > K => f = <<>>)
    BY <1>3, <1>4
  <2> HIDE DEF d, e, f, x, y, z, m, K
  <2>3. /\ (m \o <<>>) \o <<>> = ((<<>> \o <<>>) \o <<>>) \o m
        /\ (d \o m) \o <<>> = ((d \o <<>>) \o <<>>) \o m
        /\ (d \o e) \o m = ((d \o e) \o <<>>) \o m
        /\ (d \o e) \o f = ((d \o e) \o f) \o <<>>
    BY <1>2, <2>1, PutInPlace
  <2>4. K \in {0, 1, 2, 3}
    BY <1>1
  <2>5. CASE K = 0
    <3>1. x = m /\ y = <<>> /\ z = <<>> /\ d = <<>> /\ e = <<>> /\ f = <<>>
      BY <2>2, <2>5
    <3> QED
      BY <2>3, <3>1, Zenon
  <2>6. CASE K = 1
    <3>1. x = d /\ y = m /\ z = <<>> /\ e = <<>> /\ f = <<>>
      BY <2>2, <2>6
    <3> QED
      BY <2>3, <3>1, Zenon
  <2>7. CASE K = 2
    <3>1. x = d /\ y = e /\ z = m /\ f = <<>>
      BY <2>2, <2>7
    <3> QED
      BY <2>3, <3>1, Zenon
  <2>8. CASE K = 3
    <3>1. x = d /\ y = e /\ z = f /\ m = <<>>
      BY <1>5, <2>2, <2>8
    <3> QED
      BY <2>3, <3>1, Zenon
  <2> QED
    BY <2>4, <2>5, <2>6, <2>7, <2>8, Zenon
<1>8. WordsOf(i, q) = (a \o b) \o c /\ WordsOf(i, n) = (x \o y) \o z
  BY DEF WordsOf
<1>9. /\ (C(1) \o C(2)) \o C(3) = Off(WordsOf(i, q), tm)
      /\ tm = 1 => WordsOf(i, q) # <<>> /\ WordsOf(i, q) = <<q[1]>> \o Off(WordsOf(i, q), 1)
  <2>1. CASE t = 0
    <3>1. C(1) = a /\ C(2) = b /\ C(3) = c /\ tm = 0
      BY <2>1
    <3> QED
      BY <1>8, <3>1 DEF Off
  <2>2. CASE t = 1
    <3>1. C(1) = b /\ C(2) = c /\ C(3) = <<>>
      <4>1. C(3) = <<>>
        BY <1>1, <1>4, <2>2
      <4>2. 1 + t = 2 /\ 2 + t = 3
        BY <2>2
      <4> QED
        BY <4>1, <4>2
    <3>2. b \o c \in Seq(Words) /\ (b \o c) \o <<>> = b \o c
      BY <1>2, ConcatProperties, ConcatEmptySeq
    <3>3. WordsOf(i, q) = a \o (b \o c)
      <4>1. (a \o b) \o c = a \o (b \o c)
        BY <1>2, ConcatAssociative
      <4> QED
        BY <1>8, <4>1
    <3>4. 1 <= Len(q)
      BY <1>1, <2>2
    <3>5. CASE q[1].cu = i
      <4>1. a = <<q[1]>> /\ q[1] \in Words /\ tm = 1
        BY <2>2, <3>4, <3>5, ElementOfSeq DEF WordAt, ThreePlaces
      <4>2. Tail(a \o (b \o c)) = Tail(a) \o (b \o c) /\ a \o (b \o c) # <<>>
        <5>1. a # <<>>
          BY <4>1
        <5> QED
          BY <1>2, <3>2, <5>1, TailConcat
      <4>3. Tail(a) = <<>>
        <5>1. \A u : Tail(<<u>>) = <<>>
          OBVIOUS
        <5> QED
          BY <4>1, <5>1
      <4>4. <<>> \o (b \o c) = b \o c
        BY <3>2, ConcatEmptySeq
      <4> QED
        BY <3>1, <3>2, <3>3, <4>1, <4>2, <4>3, <4>4 DEF Off
    <3>6. CASE q[1].cu # i
      <4>1. a = <<>> /\ tm = 0
        BY <3>6 DEF WordAt
      <4>2. <<>> \o (b \o c) = b \o c
        BY <3>2, ConcatEmptySeq
      <4>3. Off(WordsOf(i, q), tm) = WordsOf(i, q) /\ WordsOf(i, q) = b \o c
        BY <3>3, <4>1, <4>2 DEF Off
      <4>4. (C(1) \o C(2)) \o C(3) = b \o c
        BY <3>1, <3>2
      <4>5. tm # 1
        BY <4>1
      <4> HIDE DEF tm, C
      <4> QED
        BY <4>3, <4>4, <4>5, Zenon
    <3> QED
      BY <3>5, <3>6
  <2> QED
    BY <2>1, <2>2
<1> HIDE DEF C, x, y, z, m
<1>10. WordsOf(i, n) = Off(WordsOf(i, q), tm) \o m
  BY <1>7, <1>8, <1>9
<1> QED
  BY <1>9, <1>10 DEF m

LEMMA StagesMove ==
  ASSUME TypeOK, DataChain, NEW k \in CUs, NEW i \in CUs
  PROVE  LET tm == IF DataGone(k) = 1 /\ Head(wrfifo[k]).cu = i THEN 1 ELSE 0
             W  == WordsOf(i, Stage(k))
         IN /\ WordsOf(i, Stage(k))' = Off(W, tm) \o Mine(i, DataNew(k))
            /\ tm = 1 => W # <<>> /\ W = <<Head(wrfifo[k])>> \o Off(W, 1)
            /\ W \in Seq(Words) /\ Mine(i, DataNew(k)) \in Seq(Words)
            /\ Len(W) \in Nat /\ Len(W) <= Len(Stage(k))
<1> DEFINE t == DataGone(k)
           v == DataNew(k)
           q == Stage(k)
           n == Stage(k)'
           tm == IF t = 1 /\ Head(wrfifo[k]).cu = i THEN 1 ELSE 0
<1>1. /\ Moves(q, n, t, v) /\ q \in Seq(Words) /\ n \in Seq(Words) /\ t \in {0, 1}
      /\ t = 1 => Len(q) >= 1 /\ q[1] = Head(wrfifo[k])
      /\ v \in Words \cup {None} /\ None \notin Words
  BY DataMove, Types DEF Moved, Stage
<1>2. ThreePlaces(q)
  BY DataFifo DEF ThreePlaces
<1>3. ThreePlaces(n)
  <2>1. Len(wrfifo'[k]) <= 2 /\ wrfifo_in'[k] \in Words \cup {None} /\ wrfifo'[k] \in Seq(Words)
    BY DataMove DEF Moved
  <2> DEFINE x == In(wrfifo_in'[k])
  <2>2. x \in Seq(Words) /\ Len(x) = IF wrfifo_in'[k] = None THEN 0 ELSE 1
    BY <2>1, Register
  <2> HIDE DEF x
  <2>3. Len(x) \in Nat /\ Len(wrfifo'[k]) \in Nat /\ Len(wrfifo'[k] \o x) = Len(wrfifo'[k]) + Len(x)
    BY <2>1, <2>2, ConcatProperties, LenProperties
  <2>4. n = wrfifo'[k] \o x
    BY DEF Stage, x
  <2> HIDE DEF n
  <2> QED
    BY <1>1, <2>1, <2>2, <2>3, <2>4 DEF ThreePlaces
<1>4. WordsOf(i, q) \in Seq(Words) /\ Len(WordsOf(i, q)) \in Nat /\ Len(WordsOf(i, q)) <= Len(q)
  BY <1>2, WordsOfTypes
<1>5. Mine(i, v) \in Seq(Words)
  BY <1>1, MineTypes
<1>6. WordsOf(i, Stage(k))' = WordsOf(i, n)
  BY DEF WordsOf, WordAt
<1> HIDE DEF t, v, q, n
<1>7. LET tq == IF t = 1 /\ q[1].cu = i THEN 1 ELSE 0
      IN /\ WordsOf(i, n) = Off(WordsOf(i, q), tq) \o Mine(i, v)
         /\ tq = 1 => WordsOf(i, q) # <<>> /\ WordsOf(i, q) = <<q[1]>> \o Off(WordsOf(i, q), 1)
  <2>1. /\ ThreePlaces(q) /\ ThreePlaces(n) /\ t \in {0, 1} /\ (t = 1 => Len(q) >= 1)
        /\ v \in Words \cup {None} /\ None \notin Words /\ Moves(q, n, t, v)
    BY <1>1, <1>2, <1>3
  <2> QED
    BY <2>1, WordsOfMoves, Zenon
<1>8. (IF t = 1 /\ q[1].cu = i THEN 1 ELSE 0) = tm
  BY <1>1
<1>9. /\ WordsOf(i, n) = Off(WordsOf(i, q), tm) \o Mine(i, v)
      /\ tm = 1 => WordsOf(i, q) # <<>> /\ WordsOf(i, q) = <<Head(wrfifo[k])>> \o Off(WordsOf(i, q), 1)
  BY <1>1, <1>7, <1>8
<1> QED
  BY <1>4, <1>5, <1>6, <1>9 DEF t, v, q

\* the fifo away from the controller has words of unit 0 only
LEMMA FarWords ==
  ASSUME TypeOK, WordsInOrder
  PROVE  /\ WordsOf(1, Stage(0)) = <<>>
         /\ wrfifo[0] # <<>> => Head(wrfifo[0]).cu = 0 /\ Head(wrfifo[0]) \in Words
<1>1. Stage(0) \in Seq(Words) /\ Len(Stage(0)) \in Nat
  BY DataFifo DEF CUs
<1>2. ASSUME NEW j \in Nat, NEW w \in Words, Holds(0, j, w) PROVE w.cu = 0
  <2>1. 0 >= w.cu /\ w.cu \in CUs
    BY <1>2 DEF WordsInOrder, CUs, Words
  <2> QED
    BY <2>1 DEF CUs
<1>3. ASSUME NEW j \in {1, 2, 3} PROVE WordAt(1, Stage(0), j) = <<>>
  <2>1. CASE j <= Len(Stage(0))
    <3>1. Stage(0)[j] \in Words /\ Holds(0, j, Stage(0)[j])
      BY <1>1, <2>1, ElementOfSeq DEF Holds
    <3>2. Stage(0)[j].cu = 0
      BY <1>2, <3>1
    <3> QED
      BY <3>2 DEF WordAt
  <2>2. CASE ~(j <= Len(Stage(0)))
    BY <2>2 DEF WordAt
  <2> QED
    BY <2>1, <2>2
<1>4. WordsOf(1, Stage(0)) = (<<>> \o <<>>) \o <<>>
  BY <1>3 DEF WordsOf
<1>5. <<>> \o <<>> = <<>>
  BY ConcatEmptySeq, EmptySeq
<1>6. wrfifo[0] # <<>> => Head(wrfifo[0]).cu = 0 /\ Head(wrfifo[0]) \in Words
  BY <1>2, DataFifo DEF CUs
<1> QED
  BY <1>4, <1>5, <1>6

\* concatenation, of which the next lemma is all that is needed
Cat(s, t) == s \o t

LEMMA Regroup ==
  \A a, b, c, d \in Seq(Words) : Cat(Cat(a, b), Cat(c, d)) = Cat(Cat(a, Cat(b, c)), d)
<1>1. \A s, t, u \in Seq(Words) : Cat(Cat(s, t), u) = Cat(s, Cat(t, u))
  <2>1. \A s, t, u \in Seq(Words) : (s \o t) \o u = s \o (t \o u)
    BY ConcatAssociative
  <2> QED
    BY <2>1 DEF Cat
<1>2. \A s, t \in Seq(Words) : Cat(s, t) \in Seq(Words)
  BY ConcatProperties DEF Cat
<1> QED
  BY <1>1, <1>2

\* what a step takes from the words of unit i under way, and what it adds
TakesOf(i) == IF DataTaken /\ Head(wrfifo[1]).cu = i THEN 1 ELSE 0
AddsOf(i)  == IF WriteAccepted(i) THEN <<Word(i)>> ELSE <<>>

\* A word of unit 0 that goes from one fifo to the next leaves its queue as it is.
LEMMA UnderwayStep ==
  ASSUME TypeOK, WordsInOrder, DataChain, NEW i \in CUs
  PROVE  /\ Underway(i)' = Off(Underway(i), TakesOf(i)) \o AddsOf(i)
         /\ TakesOf(i) = 1 => Underway(i) # <<>>
         /\ Underway(i) \in Seq(Words) /\ AddsOf(i) \in Seq(Words)
<1> DEFINE A  == WordsOf(i, Stage(1))
           B  == WordsOf(i, Stage(0))
           ta == IF DataGone(1) = 1 /\ Head(wrfifo[1]).cu = i THEN 1 ELSE 0
           tb == IF DataGone(0) = 1 /\ Head(wrfifo[0]).cu = i THEN 1 ELSE 0
           ma == Mine(i, DataNew(1))
           mb == Mine(i, DataNew(0))
           d  == AddsOf(i)
<1>1. /\ WordsOf(i, Stage(1))' = Off(A, ta) \o ma
      /\ ta = 1 => A # <<>>
      /\ A \in Seq(Words) /\ ma \in Seq(Words)
  BY StagesMove DEF CUs
<1>2. /\ WordsOf(i, Stage(0))' = Off(B, tb) \o mb
      /\ tb = 1 => B # <<>> /\ B = <<Head(wrfifo[0])>> \o Off(B, 1)
      /\ B \in Seq(Words) /\ mb \in Seq(Words)
  BY StagesMove DEF CUs
<1>3. Underway(i) = A \o B /\ Underway(i)' = (Off(A, ta) \o ma) \o (Off(B, tb) \o mb)
  BY <1>1, <1>2 DEF Underway
<1>4. ta = TakesOf(i)
  BY DataFlow DEF TakesOf
<1>5. /\ DataNew(0) = IF WriteAccepted(0) THEN Word(0) ELSE None
      /\ DataNew(1) = IF WriteAccepted(1) THEN Word(1)
                      ELSE IF DataGone(0) = 1 THEN Head(wrfifo[0]) ELSE None
      /\ DataGone(0) = 1 => ~WriteAccepted(1)
      /\ DataGone(0) = 1 => wrfifo[0] # <<>>
      /\ None \notin Words
  BY DataFlow, Types DEF DataGone, wrfifo_deq
<1>6. \A k \in CUs : WriteAccepted(k) => Word(k) \in Words /\ Word(k).cu = k
  BY WordTypes DEF WriteAccepted
<1>7. d \in Seq(Words)
  BY <1>6 DEF AddsOf
<1>8. /\ wrfifo[0] # <<>> => Head(wrfifo[0]).cu = 0 /\ Head(wrfifo[0]) \in Words
      /\ i = 1 => B = <<>>
  BY FarWords
<1>9. ta \in {0, 1} /\ tb \in {0, 1}
  OBVIOUS
<1>10. /\ Off(A, ta) \in Seq(Words) /\ Off(A \o B, ta) = Off(A, ta) \o B
       /\ A \o B \in Seq(Words) /\ (ta = 1 => A \o B # <<>>)
  <2>1. OffThen(Words, A, B, ta)
    BY <1>1, <1>2, <1>9, OffConcat
  <2>2. ta = 1 => A \o B # <<>>
    BY <1>1, <1>2, TailConcat
  <2> QED
    BY <1>1, <1>2, <2>1, <2>2, ConcatProperties DEF OffThen
<1>11. (Off(A, ta) \o ma) \o (Off(B, tb) \o mb) = (Off(A, ta) \o B) \o d
  <2>1. CASE i = 1
    <3>1. tb = 0 /\ mb = <<>> /\ ma = d /\ B = <<>>
      BY <1>5, <1>6, <1>8, <2>1 DEF Mine, AddsOf, CUs
    <3>2. Off(B, tb) = <<>>
      BY <3>1 DEF Off
    <3> HIDE DEF A, B, ta, tb, ma, mb, d
    <3>3. \A s \in Seq(Words) : s \o <<>> = s /\ <<>> \o s = s
      BY ConcatEmptySeq
    <3>4. <<>> \o <<>> = <<>> /\ Off(A, ta) \o d \in Seq(Words)
      BY <1>7, <1>10, <3>3, ConcatProperties, EmptySeq
    <3> QED
      BY <1>7, <1>10, <3>1, <3>2, <3>3, <3>4
  <2>2. CASE i = 0
    <3>1. mb = d
      BY <1>5, <1>6, <2>2 DEF Mine, AddsOf, CUs
    <3>2. /\ ma = IF DataGone(0) = 1 THEN <<Head(wrfifo[0])>> ELSE <<>>
          /\ tb = IF DataGone(0) = 1 THEN 1 ELSE 0
      BY <1>5, <1>6, <1>8, <2>2 DEF Mine, CUs
    <3>3. ma \o Off(B, tb) = B /\ Off(B, tb) \in Seq(Words)
      <4>1. CASE DataGone(0) = 1
        <5>1. tb = 1 /\ ma = <<Head(wrfifo[0])>> /\ B # <<>>
          BY <1>2, <3>2, <4>1
        <5>2. Off(B, 1) \in Seq(Words)
          BY <1>2, <5>1, HeadTailProperties DEF Off
        <5> HIDE DEF B, tb, ma
        <5> QED
          BY <1>2, <5>1, <5>2
      <4>2. CASE DataGone(0) # 1
        <5>1. tb = 0 /\ ma = <<>> /\ Off(B, 0) = B
          BY <3>2, <4>2 DEF Off
        <5> HIDE DEF B, tb, ma
        <5> QED
          BY <1>2, <5>1, ConcatEmptySeq
      <4> QED
        BY <4>1, <4>2
    <3> HIDE DEF A, B, ta, tb, ma, mb, d
    <3>4. (Off(A, ta) \o ma) \o (Off(B, tb) \o d) = (Off(A, ta) \o (ma \o Off(B, tb))) \o d
      <4> DEFINE oa == Off(A, ta)
                 ob == Off(B, tb)
      <4>1. oa \in Seq(Words) /\ ma \in Seq(Words) /\ ob \in Seq(Words) /\ d \in Seq(Words)
        BY <1>1, <1>7, <1>10, <3>3
      <4> HIDE DEF oa, ob
      <4>2. Cat(Cat(oa, ma), Cat(ob, d)) = Cat(Cat(oa, Cat(ma, ob)), d)
        BY <4>1, Regroup
      <4> QED
        BY <4>2 DEF Cat, oa, ob
    <3> QED
      BY <3>1, <3>3, <3>4
  <2> QED
    BY <2>1, <2>2 DEF CUs
<1> HIDE DEF A, B, ta, tb, ma, mb, d
<1>12. Underway(i)' = Off(Underway(i), TakesOf(i)) \o d
  BY <1>3, <1>4, <1>10, <1>11
<1> QED
  BY <1>3, <1>4, <1>7, <1>10, <1>12 DEF d

\* at most two words before, and three of the other fifo: a place is left
LEMMA UnderwayRoom ==
  ASSUME TypeOK, NEW i \in CUs
  PROVE  WriteAccepted(i) => Len(Underway(i)) < 6
<1> SUFFICES ASSUME WriteAccepted(i) PROVE Len(Underway(i)) < 6
  OBVIOUS
<1> DEFINE a == Len(WordsOf(i, Stage(1)))
           b == Len(WordsOf(i, Stage(0)))
           s(k) == Len(Stage(k))
           u == Len(Underway(i))
<1>1. ASSUME NEW k \in CUs
      PROVE  /\ WordsOf(i, Stage(k)) \in Seq(Words) /\ Len(WordsOf(i, Stage(k))) \in Nat
             /\ Len(WordsOf(i, Stage(k))) <= s(k) /\ s(k) \in Nat /\ s(k) <= 3
  BY DataFifo, WordsOfTypes DEF ThreePlaces
<1>2. u = a + b
  BY <1>1, ConcatProperties DEF Underway, CUs
<1>3. s(i) <= 2
  <2> DEFINE x == In(wrfifo_in[i])
             l == Len(wrfifo[i])
             m == Len(x)
  <2>1. /\ wrfifo[i] \in Seq(Words) /\ l <= 2 /\ l # 2 /\ l \in Nat
        /\ wrfifo_in[i] \in Words \cup {None}
    BY Types, LenProperties DEF WriteAccepted, Accepted, wrfifo_full
  <2>2. x \in Seq(Words) /\ m = IF wrfifo_in[i] = None THEN 0 ELSE 1
    BY <2>1, Register
  <2> HIDE DEF x
  <2>3. s(i) = l + m
    BY <2>1, <2>2, ConcatProperties DEF Stage, x
  <2> HIDE DEF l, m, s
  <2> QED
    BY <2>1, <2>2, <2>3
<1>4. a \in Nat /\ b \in Nat /\ (i = 1 => a <= 2) /\ (i = 0 => b <= 2) /\ a <= 3 /\ b <= 3
  <2>1. 0 \in CUs /\ 1 \in CUs
    BY DEF CUs
  <2>2. /\ a \in Nat /\ a <= s(1) /\ s(1) \in Nat /\ s(1) <= 3
        /\ b \in Nat /\ b <= s(0) /\ s(0) \in Nat /\ s(0) <= 3
    BY <1>1, <2>1
  <2> HIDE DEF a, b, s
  <2> QED
    BY <1>3, <2>2
<1> HIDE DEF a, b, u
<1>5. u < 6
  BY <1>2, <1>4 DEF CUs
<1> QED
  BY <1>5 DEF u

\* For every program and every depth, the words of each unit go through the
\* chain both units share as through a queue of six places of its own.
THEOREM WordsInUnitOrder == Spec => DataInOrder
<1> DEFINE Q(i) == Stores(i)!Step(WriteAccepted(i), DataTaken /\ Head(wrfifo[1]).cu = i, Word(i))
<1>1. Inv /\ Next => \A i \in CUs : Q(i)
  <2> SUFFICES ASSUME Inv, Next, NEW i \in CUs PROVE Q(i)
    OBVIOUS
  <2>1. TypeOK /\ WordsInOrder /\ DataChain
    BY DEF Inv, Next, Clock
  <2> DEFINE take == DataTaken /\ Head(wrfifo[1]).cu = i
             rest == IF take THEN Tail(Underway(i)) ELSE Underway(i)
  <2>2. /\ Underway(i)' = Off(Underway(i), TakesOf(i)) \o AddsOf(i)
        /\ TakesOf(i) = 1 => Underway(i) # <<>>
        /\ Underway(i) \in Seq(Words) /\ AddsOf(i) \in Seq(Words)
    BY <2>1, UnderwayStep
  <2>3. WriteAccepted(i) => Len(Underway(i)) < 6
    BY <2>1, UnderwayRoom
  <2>4. take => Underway(i) # <<>>
    BY <2>2 DEF TakesOf
  <2>5. Off(Underway(i), TakesOf(i)) = rest
    BY DEF Off, TakesOf
  <2>6. rest \in Seq(Words)
    BY <2>2, <2>4, HeadTailProperties
  <2>7. Underway(i)' = IF WriteAccepted(i) THEN Append(rest, Word(i)) ELSE rest
    <3>1. CASE WriteAccepted(i)
      <4>1. Word(i) \in Words
        BY <2>1, <3>1, WordTypes DEF WriteAccepted
      <4>2. Append(rest, Word(i)) = rest \o <<Word(i)>>
        BY <2>6, <4>1, AppendIsConcat
      <4> QED
        BY <2>2, <2>5, <3>1, <4>2 DEF AddsOf
    <3>2. CASE ~WriteAccepted(i)
      <4>1. rest \o <<>> = rest
        BY <2>6, ConcatEmptySeq
      <4> QED
        BY <2>2, <2>5, <3>2, <4>1 DEF AddsOf
    <3> QED
      BY <3>1, <3>2
  <2> QED
    BY <2>3, <2>4, <2>7 DEF Stores!Step
<1>2. Inv /\ [Next]_vars => [\A i \in CUs : Q(i)]_vars
  BY <1>1
<1> QED
  BY <1>2, InvInit, InvStep, PTL DEF Spec, DataInOrder
=============================================================================
