--------------------------- MODULE EvtMsgQProofs ---------------------------
(***************************************************************************)
(* Proofs about EvtMsgQ for any number of threads, messages and slots.     *)
(***************************************************************************)
EXTENDS EvtMsgQ, FiniteSetTheorems, SequenceTheorems, TLAPS

(* Counter plus sleepers: what a semaphore has to give away.               *)
Stock(s) == s.cnt + Len(s.queue)

-----------------------------------------------------------------------------
(* The semaphore operations keep a semaphore consistent, for any set of    *)
(* sleepers.                                                               *)

LEMMA TakeConsistent ==
  ASSUME NEW W \in SUBSET Threads, NEW s \in Semaphore, Consistent(s, W), s.cnt > 0
  PROVE  /\ SemTake(s) \in Semaphore
         /\ Consistent(SemTake(s), W)
         /\ Stock(SemTake(s)) = Stock(s) - 1
  BY DEF SemTake, Consistent, Semaphore, Stock

LEMMA SleepConsistent ==
  ASSUME NEW W \in SUBSET Threads, NEW s \in Semaphore, Consistent(s, W), s.cnt <= 0,
         NEW t \in Threads \ W
  PROVE  /\ SemSleep(s, t) \in Semaphore
         /\ Consistent(SemSleep(s, t), W \cup {t})
         /\ Stock(SemSleep(s, t)) = Stock(s)
  BY DEF SemSleep, Consistent, Semaphore, Stock

(* A signal either finds nobody asleep and adds to the stock, or readies   *)
(* one sleeper and leaves the stock to it.                                 *)
LEMMA SignalConsistent ==
  ASSUME NEW W \in SUBSET Threads, NEW s \in Semaphore, Consistent(s, W)
  PROVE  /\ SemSignal(s) \in Semaphore
         /\ Consistent(SemSignal(s), W \ Woken(s))
         /\ \/ Woken(s) = {} /\ Stock(SemSignal(s)) = Stock(s) + 1
            \/ \E h \in W : Woken(s) = {h} /\ Stock(SemSignal(s)) = Stock(s)
<1>1. CASE s.cnt + 1 <= 0
  <2> DEFINE q == s.queue
             r == Tail(q)
  <2>1. q \in Seq(Threads) /\ Len(q) \in Nat /\ s.cnt \in Int /\ Len(q) = -s.cnt /\ q # <<>>
    BY <1>1 DEF Consistent, Semaphore
  <2>2. /\ r \in Seq(Threads)
        /\ Len(r) = Len(q) - 1
        /\ \A i \in 1 .. Len(r) : r[i] = q[i + 1]
    BY <2>1, HeadTailProperties
  <2>3. Head(q) = q[1] /\ 1 \in 1 .. Len(q)
    BY <2>1, <1>1
  <2>4. Woken(s) = {q[1]} /\ q[1] \in W /\ SemSignal(s) = [cnt |-> s.cnt + 1, queue |-> r]
    BY <1>1, <2>3 DEF Woken, SemSignal, Consistent
  <2>5. \A t \in W \ {q[1]} : \E i \in 1 .. Len(r) : r[i] = t
    <3>1. TAKE t \in W \ {q[1]}
    <3>2. PICK i \in 1 .. Len(q) : q[i] = t
      BY DEF Consistent
    <3>3. i - 1 \in 1 .. Len(r) /\ r[i - 1] = t
      BY <2>1, <2>2, <3>1, <3>2
    <3>4. QED  BY <3>3
  <2>6. \A i \in 1 .. Len(r) : r[i] \in W \ {q[1]}
    BY <2>1, <2>2, <2>3 DEF Consistent
  <2>7. \A i, j \in 1 .. Len(r) : r[i] = r[j] => i = j
    BY <2>1, <2>2 DEF Consistent
  <2>8. s.cnt + 1 >= 0 => r = <<>>
    BY <2>1, <2>2, EmptySeq
  <2>9. Consistent(SemSignal(s), W \ {q[1]})
    BY <1>1, <2>1, <2>2, <2>4, <2>5, <2>6, <2>7, <2>8 DEF Consistent
  <2>10. QED
    BY <2>1, <2>2, <2>4, <2>9 DEF Semaphore, Stock
<1>2. CASE ~(s.cnt + 1 <= 0)
  BY <1>2 DEF SemSignal, Woken, Consistent, Semaphore, Stock
<1>3. QED
  BY <1>1, <1>2

(* What RemoveAt leaves of a sequence.                                     *)
LEMMA RemoveAtProperties ==
  ASSUME NEW S, NEW q \in Seq(S), NEW k \in 1 .. Len(q)
  PROVE  /\ RemoveAt(q, k) \in Seq(S)
         /\ Len(RemoveAt(q, k)) = Len(q) - 1
         /\ \A i \in 1 .. Len(q) - 1 : RemoveAt(q, k)[i] = IF i < k THEN q[i] ELSE q[i + 1]
<1> DEFINE front == SubSeq(q, 1, k - 1)
           back  == SubSeq(q, k + 1, Len(q))
           r     == front \o back
<1>0. Len(q) \in Nat /\ k \in Nat /\ 1 <= k /\ k <= Len(q)
  OBVIOUS
<1>1. /\ front \in Seq(S)
      /\ Len(front) = k - 1
      /\ \A i \in 1 .. k - 1 : front[i] = q[i]
  BY SubSeqProperties
<1>2. /\ back \in Seq(S)
      /\ Len(back) = Len(q) - k
      /\ \A i \in 1 .. Len(q) - k : back[i] = q[k + i]
  BY SubSeqProperties
<1>3. RemoveAt(q, k) = r
  BY DEF RemoveAt
<1> HIDE DEF front, back
<1>4. /\ r \in Seq(S)
      /\ Len(r) = Len(q) - 1
      /\ \A i \in 1 .. Len(q) - 1 : r[i] = IF i <= k - 1 THEN front[i] ELSE back[i - (k - 1)]
  <2>1. /\ r \in Seq(S)
        /\ Len(r) = Len(front) + Len(back)
        /\ \A i \in 1 .. Len(front) + Len(back) :
             r[i] = IF i <= Len(front) THEN front[i] ELSE back[i - Len(front)]
    BY <1>1, <1>2, ConcatProperties
  <2>2. Len(front) + Len(back) = Len(q) - 1
    BY <1>0, <1>1, <1>2
  <2> HIDE DEF r
  <2>3. QED
    BY <1>1, <2>1, <2>2
<1> HIDE DEF r
<1>5. ASSUME NEW i \in 1 .. Len(q) - 1
      PROVE  r[i] = IF i < k THEN q[i] ELSE q[i + 1]
  <2>1. CASE i < k
    BY <1>0, <1>1, <1>4, <2>1
  <2>2. CASE i >= k
    <3>1. i - (k - 1) \in 1 .. Len(q) - k /\ k + (i - (k - 1)) = i + 1
      BY <1>0, <2>2
    <3>2. ~(i <= k - 1)
      BY <1>0, <2>2
    <3>3. r[i] = back[i - (k - 1)]
      BY <1>4, <3>2, Zenon
    <3>4. QED
      BY <1>0, <1>2, <2>2, <3>1, <3>3
  <2>3. QED
    BY <1>0, <2>1, <2>2
<1>6. QED
  BY <1>3, <1>4, <1>5

(* q lists each element of W once; r is q without its k-th element.        *)
Lists(q, n, W) ==
  /\ \A t \in W : \E i \in 1 .. n : q[i] = t
  /\ \A i \in 1 .. n : q[i] \in W
  /\ \A i, j \in 1 .. n : q[i] = q[j] => i = j

Omits(r, q, n, k) ==
  \A i \in 1 .. n - 1 : r[i] = IF i < k THEN q[i] ELSE q[i + 1]

LEMMA ListWithoutOne ==
  ASSUME NEW W, NEW n \in Nat, NEW k \in 1 .. n, NEW q, NEW r,
         Lists(q, n, W), Omits(r, q, n, k)
  PROVE  Lists(r, n - 1, W \ {q[k]})
<1> USE DEF Lists, Omits
<1>1. ASSUME NEW t \in W \ {q[k]}
      PROVE  \E i \in 1 .. n - 1 : r[i] = t
  <2>1. PICK i \in 1 .. n : q[i] = t
    OBVIOUS
  <2>2. CASE i < k
    <3>1. i \in 1 .. n - 1
      BY <2>2
    <3>2. QED  BY <2>1, <2>2, <3>1
  <2>3. CASE i > k
    <3>1. i - 1 \in 1 .. n - 1 /\ ~(i - 1 < k) /\ (i - 1) + 1 = i
      BY <2>3
    <3>2. r[i - 1] = t
      BY <2>1, <3>1
    <3>3. QED  BY <3>1, <3>2
  <2>4. QED
    BY <2>1, <2>2, <2>3
<1>2. ASSUME NEW i \in 1 .. n - 1
      PROVE  LET j == IF i < k THEN i ELSE i + 1
             IN  j \in 1 .. n /\ j # k /\ r[i] = q[j]
  OBVIOUS
<1>3. \A i \in 1 .. n - 1 : r[i] \in W \ {q[k]}
  BY <1>2
<1>4. ASSUME NEW i \in 1 .. n - 1, NEW j \in 1 .. n - 1, r[i] = r[j]
      PROVE  i = j
  BY <1>2, <1>4
<1>5. QED
  BY <1>1, <1>3, <1>4

LEMMA TimeoutConsistent ==
  ASSUME NEW W \in SUBSET Threads, NEW s \in Semaphore, Consistent(s, W),
         NEW k \in DOMAIN s.queue
  PROVE  /\ SemTimeout(s, k) \in Semaphore
         /\ Consistent(SemTimeout(s, k), W \ {s.queue[k]})
         /\ Stock(SemTimeout(s, k)) = Stock(s)
<1> DEFINE q == s.queue
           r == RemoveAt(q, k)
<1>1. q \in Seq(Threads) /\ Len(q) \in Nat /\ k \in 1 .. Len(q) /\ s.cnt \in Int
  BY DEF Semaphore
<1>2. s.cnt = -Len(q)
  BY <1>1, EmptySeq DEF Consistent
<1>3. q \in Seq(W)
  BY <1>1, SeqDef, LenProperties DEF Consistent
<1>4. /\ r \in Seq(W)
      /\ Len(r) = Len(q) - 1
      /\ \A i \in 1 .. Len(q) - 1 : r[i] = IF i < k THEN q[i] ELSE q[i + 1]
  BY <1>1, <1>3, RemoveAtProperties
<1>5. SemTimeout(s, k) = [cnt |-> s.cnt + 1, queue |-> r]
  BY DEF SemTimeout
<1>6. r \in Seq(Threads)
  BY <1>4, SeqMonotonic
<1>7. s.cnt + 1 >= 0 => r = <<>>
  BY <1>1, <1>2, <1>4, EmptySeq
<1> HIDE DEF r
<1>8. Lists(r, Len(q) - 1, W \ {q[k]})
  <2>1. Lists(q, Len(q), W) /\ Omits(r, q, Len(q), k)
    BY <1>1, <1>4 DEF Lists, Omits, Consistent
  <2>2. QED
    BY <1>1, <2>1, ListWithoutOne
<1>9. Consistent(SemTimeout(s, k), W \ {q[k]})
  <2>1. s.cnt + 1 = -Len(r) /\ Len(r) \in Nat
    BY <1>1, <1>2, <1>4
  <2>2. Lists(r, Len(r), W \ {q[k]})
    BY <1>4, <1>8
  <2> DEFINE z == SemTimeout(s, k)
  <2>3. z.cnt = s.cnt + 1 /\ z.queue = r
    BY <1>5
  <2> HIDE DEF z
  <2>4. Consistent(z, W \ {q[k]})
    BY <1>7, <2>1, <2>2, <2>3 DEF Consistent, Lists
  <2>5. QED
    BY <2>4 DEF z
<1>10. QED
  BY <1>1, <1>2, <1>4, <1>5, <1>6, <1>9 DEF Semaphore, Stock

-----------------------------------------------------------------------------
(* The invariant of the queue, inductive as it stands: SlotAccounting      *)
(* needs to know that a counter below zero is exactly made up by sleepers. *)
IInv == TypeOK /\ SemaphoresConsistent /\ SlotAccounting

LEMMA CountAt ==
  ASSUME NEW p
  PROVE  /\ AtPc(p) \in SUBSET Threads
         /\ IsFiniteSet(AtPc(p))
         /\ Cardinality(AtPc(p)) \in Nat
         /\ Cardinality(AtPc(p)) = 0 <=> AtPc(p) = {}
<1>1. AtPc(p) \in SUBSET Threads
  BY DEF AtPc
<1>2. IsFiniteSet(AtPc(p))
  BY <1>1, QAssumption, FS_Subset DEF QAssumption
<1>3. QED
  BY <1>1, <1>2, FS_CardinalityType, FS_EmptySet

LEMMA CountAtNext ==
  ASSUME NEW p
  PROVE  /\ IsFiniteSet(AtPc(p)')
         /\ Cardinality(AtPc(p)') \in Nat
<1>1. AtPc(p)' \in SUBSET Threads
  BY DEF AtPc
<1>2. IsFiniteSet(AtPc(p)')
  BY <1>1, QAssumption, FS_Subset DEF QAssumption
<1>3. QED
  BY <1>1, <1>2, FS_CardinalityType

(* Reading a message frees a slot, or hands it to the sender that has      *)
(* slept longest.                                                          *)
LEMMA TakeMsgEffect ==
  ASSUME TypeOK, SemaphoresConsistent, NEW t \in Threads,
         pc[t] \in {"Idle", "OkFull"}, TakeMsg(t)
  PROVE  /\ EmptySem' \in Semaphore
         /\ Consistent(EmptySem', AtPc("WtEmpty")')
         /\ Free' = Free + 1
         /\ AtPc("WtFull")' = AtPc("WtFull")
         /\ AtPc("OkFull")' = AtPc("OkFull") \ {t}
         /\ pc' \in [Threads -> Pc]
<1> DEFINE S == EmptySem
           W == AtPc("WtEmpty")
           R == AtPc("OkEmpty")
<1>1. S \in Semaphore /\ Consistent(S, W) /\ W \in SUBSET Threads
  BY CountAt DEF TypeOK, SemaphoresConsistent
<1>2. /\ SemSignal(S) \in Semaphore
      /\ Consistent(SemSignal(S), W \ Woken(S))
      /\ \/ Woken(S) = {} /\ Stock(SemSignal(S)) = Stock(S) + 1
         \/ \E h \in W : Woken(S) = {h} /\ Stock(SemSignal(S)) = Stock(S)
  BY <1>1, SignalConsistent
<1>3. /\ EmptySem' = SemSignal(S)
      /\ pc' = [u \in Threads |-> IF u \in Woken(S) THEN "OkEmpty"
                                  ELSE IF u = t THEN "Idle" ELSE pc[u]]
  BY DEF TakeMsg
<1>4. Woken(S) \subseteq W /\ t \notin W
  BY <1>2 DEF AtPc
<1>5. /\ AtPc("WtEmpty")' = W \ Woken(S)
      /\ AtPc("OkEmpty")' = R \cup Woken(S)
      /\ AtPc("WtFull")' = AtPc("WtFull")
      /\ AtPc("OkFull")' = AtPc("OkFull") \ {t}
      /\ pc' \in [Threads -> Pc]
  BY <1>3, <1>4 DEF AtPc, TypeOK, Pc
<1>6. Free' = Free + 1
  <2>1. Cardinality(R) \in Nat /\ IsFiniteSet(R)
    BY CountAt
  <2>2. Stock(S) \in Int /\ Free = Stock(S) + Cardinality(R)
    BY <1>1 DEF Free, Stock, Semaphore
  <2>3. Free' = Stock(SemSignal(S)) + Cardinality(R \cup Woken(S))
    BY <1>3, <1>5 DEF Free, Stock
  <2>4. CASE Woken(S) = {}
    <3>1. R \cup Woken(S) = R
      BY <2>4
    <3>2. Stock(SemSignal(S)) = Stock(S) + 1
      BY <1>2, <2>4
    <3>3. Cardinality(R \cup Woken(S)) = Cardinality(R)
      BY <3>1, Zenon
    <3>4. QED
      BY <2>1, <2>2, <2>3, <3>2, <3>3
  <2>5. ASSUME NEW h \in W, Woken(S) = {h}, Stock(SemSignal(S)) = Stock(S)
        PROVE  Free' = Free + 1
    <3>1. h \notin R
      BY <2>5 DEF AtPc
    <3>2. Cardinality(R \cup {h}) = Cardinality(R) + 1
      BY <2>1, <3>1, FS_AddElement
    <3>3. R \cup Woken(S) = R \cup {h}
      BY <2>5
    <3>4. Cardinality(R \cup Woken(S)) = Cardinality(R) + 1
      BY <3>2, <3>3, Zenon
    <3>5. QED
      BY <2>1, <2>2, <2>3, <2>5, <3>4
  <2>6. QED
    BY <1>2, <2>4, <2>5
<1>7. QED
  BY <1>2, <1>3, <1>5, <1>6

(* Writing a message adds one to the ring, or hands it to the fetcher that *)
(* has slept longest.                                                      *)
LEMMA PutMsgEffect ==
  ASSUME TypeOK, SemaphoresConsistent, NEW a \in Actors, NEW m,
         a # Isr => pc[a] \in {"Idle", "OkEmpty"}, PutMsg(a, m)
  PROVE  /\ FullSem' \in Semaphore
         /\ Consistent(FullSem', AtPc("WtFull")')
         /\ Filled' = Filled + 1
         /\ AtPc("WtEmpty")' = AtPc("WtEmpty")
         /\ AtPc("OkEmpty")' = AtPc("OkEmpty") \ {a}
         /\ pc' \in [Threads -> Pc]
<1> DEFINE S == FullSem
           W == AtPc("WtFull")
           R == AtPc("OkFull")
<1>1. S \in Semaphore /\ Consistent(S, W) /\ W \in SUBSET Threads
  BY CountAt DEF TypeOK, SemaphoresConsistent
<1>2. /\ SemSignal(S) \in Semaphore
      /\ Consistent(SemSignal(S), W \ Woken(S))
      /\ \/ Woken(S) = {} /\ Stock(SemSignal(S)) = Stock(S) + 1
         \/ \E h \in W : Woken(S) = {h} /\ Stock(SemSignal(S)) = Stock(S)
  BY <1>1, SignalConsistent
<1>3. /\ FullSem' = SemSignal(S)
      /\ pc' = [u \in Threads |-> IF u \in Woken(S) THEN "OkFull"
                                  ELSE IF u = a THEN "Idle" ELSE pc[u]]
  BY DEF PutMsg
<1>4. Woken(S) \subseteq W /\ a \notin W
  BY <1>2, QAssumption DEF AtPc, Actors, QAssumption
<1>5. /\ AtPc("WtFull")' = W \ Woken(S)
      /\ AtPc("OkFull")' = R \cup Woken(S)
      /\ AtPc("WtEmpty")' = AtPc("WtEmpty")
      /\ AtPc("OkEmpty")' = AtPc("OkEmpty") \ {a}
      /\ pc' \in [Threads -> Pc]
  <2>1. \A u \in Threads : u = a => pc[u] \in {"Idle", "OkEmpty"}
    BY QAssumption DEF QAssumption
  <2>2. QED
    BY <1>3, <1>4, <2>1 DEF AtPc, TypeOK, Pc
<1>6. Filled' = Filled + 1
  <2>1. Cardinality(R) \in Nat /\ IsFiniteSet(R)
    BY CountAt
  <2>2. Stock(S) \in Int /\ Filled = Stock(S) + Cardinality(R)
    BY <1>1 DEF Filled, Stock, Semaphore
  <2>3. Filled' = Stock(SemSignal(S)) + Cardinality(R \cup Woken(S))
    BY <1>3, <1>5 DEF Filled, Stock
  <2>4. CASE Woken(S) = {}
    <3>1. R \cup Woken(S) = R
      BY <2>4
    <3>2. Stock(SemSignal(S)) = Stock(S) + 1
      BY <1>2, <2>4
    <3>3. Cardinality(R \cup Woken(S)) = Cardinality(R)
      BY <3>1, Zenon
    <3>4. QED
      BY <2>1, <2>2, <2>3, <3>2, <3>3
  <2>5. ASSUME NEW h \in W, Woken(S) = {h}, Stock(SemSignal(S)) = Stock(S)
        PROVE  Filled' = Filled + 1
    <3>1. h \notin R
      BY <2>5 DEF AtPc
    <3>2. Cardinality(R \cup {h}) = Cardinality(R) + 1
      BY <2>1, <3>1, FS_AddElement
    <3>3. R \cup Woken(S) = R \cup {h}
      BY <2>5
    <3>4. Cardinality(R \cup Woken(S)) = Cardinality(R) + 1
      BY <3>2, <3>3, Zenon
    <3>5. QED
      BY <2>1, <2>2, <2>3, <2>5, <3>4
  <2>6. QED
    BY <1>2, <2>4, <2>5
<1>7. QED
  BY <1>2, <1>3, <1>5, <1>6

(* Neither count is ever negative.                                         *)
LEMMA CountsNatural ==
  ASSUME TypeOK, SemaphoresConsistent
  PROVE  /\ Stock(FullSem) \in Nat /\ Filled = Stock(FullSem) + Cardinality(AtPc("OkFull"))
         /\ Stock(EmptySem) \in Nat /\ Free = Stock(EmptySem) + Cardinality(AtPc("OkEmpty"))
         /\ Filled \in Nat /\ Free \in Nat
<1>1. ASSUME NEW s \in Semaphore, NEW W, Consistent(s, W)
      PROVE  Stock(s) \in Nat /\ s.cnt \in Int /\ Len(s.queue) \in Nat
  BY <1>1, EmptySeq DEF Consistent, Semaphore, Stock
<1>2. /\ Stock(FullSem) \in Nat /\ FullSem.cnt \in Int /\ Len(FullSem.queue) \in Nat
      /\ Stock(EmptySem) \in Nat /\ EmptySem.cnt \in Int /\ Len(EmptySem.queue) \in Nat
  BY <1>1 DEF TypeOK, SemaphoresConsistent
<1>3. QED
  BY <1>2, CountAt DEF Filled, Free, Stock

LEMMA TakeAccounting ==
  ASSUME ReadPtr \in 0 .. Sz - 1, SlotAccounting, Filled \in Nat, Free \in Nat, Filled > 0,
         Filled' = Filled - 1, Free' = Free + 1,
         ReadPtr' = Circulate(ReadPtr), WritePtr' = WritePtr
  PROVE  SlotAccounting' /\ ReadPtr' \in 0 .. Sz - 1
  BY QAssumption DEF QAssumption, SlotAccounting, Slot, Circulate

LEMMA PutAccounting ==
  ASSUME ReadPtr \in 0 .. Sz - 1, WritePtr \in 0 .. Sz - 1,
         SlotAccounting, Filled \in Nat, Free \in Nat, Free > 0,
         Filled' = Filled + 1, Free' = Free - 1,
         WritePtr' = Circulate(WritePtr), ReadPtr' = ReadPtr
  PROVE  SlotAccounting' /\ WritePtr' \in 0 .. Sz - 1
  BY QAssumption DEF QAssumption, SlotAccounting, Slot, Circulate

(* A call through PutMsg or TakeMsg writes variables of the right type.    *)
LEMMA TakeMsgType ==
  ASSUME TypeOK, NEW t \in Threads, TakeMsg(t)
  PROVE  /\ IBuf' = IBuf /\ WritePtr' = WritePtr /\ ReadPtr' = Circulate(ReadPtr)
         /\ arg' \in [Threads -> Msg \cup {NoMsg}]
         /\ last' \in Actors \X (Msg \cup {NoMsg, Sent})
  BY DEF TypeOK, TakeMsg, Actors

LEMMA PutMsgType ==
  ASSUME TypeOK, NEW a \in Actors, NEW m \in Msg \cup {NoMsg}, PutMsg(a, m)
  PROVE  /\ ReadPtr' = ReadPtr /\ WritePtr' = Circulate(WritePtr)
         /\ IBuf' \in [0 .. Sz - 1 -> Msg \cup {NoMsg}]
         /\ arg' \in [Threads -> Msg \cup {NoMsg}]
         /\ last' \in Actors \X (Msg \cup {NoMsg, Sent})
  BY DEF TypeOK, PutMsg, Actors

LEMMA GiveUpType ==
  ASSUME TypeOK, NEW a \in Actors, GiveUp(a)
  PROVE  /\ arg' \in [Threads -> Msg \cup {NoMsg}]
         /\ last' \in Actors \X (Msg \cup {NoMsg, Sent})
  BY DEF TypeOK, GiveUp, Actors

(* Taking a message, at once or after a sleep, leaves one less; putting    *)
(* one leaves one free slot less.                                          *)
LEMMA TakeFirstCount ==
  ASSUME IInv, NEW t \in Threads, pc[t] = "Idle", FullSem.cnt > 0,
         FullSem' = SemTake(FullSem), TakeMsg(t)
  PROVE  Filled > 0 /\ Filled' = Filled - 1
<1> USE DEF IInv
<1>1. AtPc("OkFull")' = AtPc("OkFull") \ {t} /\ t \notin AtPc("OkFull")
  BY TakeMsgEffect DEF AtPc
<1>2. AtPc("OkFull")' = AtPc("OkFull")
  BY <1>1
<1>3. Filled' = Stock(SemTake(FullSem)) + Cardinality(AtPc("OkFull"))
  BY <1>2 DEF Filled, Stock
<1>4. Stock(SemTake(FullSem)) = Stock(FullSem) - 1
  BY CountAt, TakeConsistent DEF TypeOK, SemaphoresConsistent
<1>5. Stock(FullSem) > 0
  BY DEF Stock, Semaphore, TypeOK
<1>6. QED
  BY <1>3, <1>4, <1>5, CountsNatural, CountAt

LEMMA TakePromisedCount ==
  ASSUME IInv, NEW t \in Threads, pc[t] = "OkFull", FullSem' = FullSem, TakeMsg(t)
  PROVE  Filled > 0 /\ Filled' = Filled - 1
<1> USE DEF IInv
<1>1. AtPc("OkFull")' = AtPc("OkFull") \ {t} /\ t \in AtPc("OkFull")
  BY TakeMsgEffect DEF AtPc
<1>2. Cardinality(AtPc("OkFull") \ {t}) = Cardinality(AtPc("OkFull")) - 1
  BY <1>1, CountAt, FS_RemoveElement
<1>3. Filled' = Stock(FullSem) + Cardinality(AtPc("OkFull") \ {t})
  BY <1>1 DEF Filled, Stock
<1>4. Cardinality(AtPc("OkFull")) # 0
  BY <1>1, CountAt
<1>5. QED
  BY <1>2, <1>3, <1>4, CountsNatural, CountAt

LEMMA PutFreshCount ==
  ASSUME IInv, NEW a \in Actors, NEW m, a # Isr => pc[a] = "Idle",
         EmptySem.cnt > 0, EmptySem' = SemTake(EmptySem), PutMsg(a, m)
  PROVE  Free > 0 /\ Free' = Free - 1
<1> USE DEF IInv
<1>1. AtPc("OkEmpty")' = AtPc("OkEmpty") \ {a}
  BY PutMsgEffect
<1>2. a \notin AtPc("OkEmpty")
  BY QAssumption DEF AtPc, QAssumption
<1>3. AtPc("OkEmpty")' = AtPc("OkEmpty")
  BY <1>1, <1>2
<1>4. Free' = Stock(SemTake(EmptySem)) + Cardinality(AtPc("OkEmpty"))
  BY <1>3 DEF Free, Stock
<1>5. Stock(SemTake(EmptySem)) = Stock(EmptySem) - 1
  BY CountAt, TakeConsistent DEF TypeOK, SemaphoresConsistent
<1>6. Stock(EmptySem) > 0
  BY DEF TypeOK, Stock, Semaphore
<1>7. QED
  BY <1>4, <1>5, <1>6, CountsNatural, CountAt

LEMMA PutPromisedCount ==
  ASSUME IInv, NEW t \in Threads, NEW m, pc[t] = "OkEmpty", EmptySem' = EmptySem, PutMsg(t, m)
  PROVE  Free > 0 /\ Free' = Free - 1
<1> USE DEF IInv
<1>1. AtPc("OkEmpty")' = AtPc("OkEmpty") \ {t} /\ t \in AtPc("OkEmpty")
  BY PutMsgEffect DEF AtPc, Actors
<1>2. Cardinality(AtPc("OkEmpty") \ {t}) = Cardinality(AtPc("OkEmpty")) - 1
  BY <1>1, CountAt, FS_RemoveElement
<1>3. Free' = Stock(EmptySem) + Cardinality(AtPc("OkEmpty") \ {t})
  BY <1>1 DEF Free, Stock
<1>4. Cardinality(AtPc("OkEmpty")) # 0
  BY <1>1, CountAt
<1>5. QED
  BY <1>2, <1>3, <1>4, CountsNatural, CountAt

-----------------------------------------------------------------------------
(* Each operation preserves the invariant.                                 *)

LEMMA FetchInv ==
  ASSUME IInv, NEW t \in Threads, NEW timeout \in Timeout, Fetch(t, timeout)
  PROVE  IInv'
<1> USE DEF IInv
<1>1. pc[t] = "Idle" /\ t \notin AtPc("WtFull") /\ t \notin AtPc("OkFull")
  BY DEF Fetch, AtPc
<1>2. FullSem \in Semaphore /\ Consistent(FullSem, AtPc("WtFull"))
  BY DEF TypeOK, SemaphoresConsistent
<1>3. CASE FullSem.cnt > 0 /\ FullSem' = SemTake(FullSem) /\ TakeMsg(t) /\ UNCHANGED armed
  <2>1. /\ SemTake(FullSem) \in Semaphore
        /\ Consistent(SemTake(FullSem), AtPc("WtFull"))
        /\ Stock(SemTake(FullSem)) = Stock(FullSem) - 1
    BY <1>2, <1>3, CountAt, TakeConsistent
  <2>2. /\ EmptySem' \in Semaphore
        /\ Consistent(EmptySem', AtPc("WtEmpty")')
        /\ Free' = Free + 1
        /\ AtPc("WtFull")' = AtPc("WtFull")
        /\ AtPc("OkFull")' = AtPc("OkFull") \ {t}
        /\ pc' \in [Threads -> Pc]
    BY <1>1, <1>3, TakeMsgEffect
  <2>3. Filled > 0 /\ Filled' = Filled - 1
    BY <1>1, <1>3, TakeFirstCount
  <2>4. SlotAccounting' /\ ReadPtr' \in 0 .. Sz - 1
    BY <1>3, <2>2, <2>3, TakeMsgType, CountsNatural, TakeAccounting DEF TypeOK
  <2>5. SemaphoresConsistent'
    BY <1>3, <2>1, <2>2 DEF SemaphoresConsistent
  <2>6. TypeOK'
    BY <1>3, <2>1, <2>2, <2>4, TakeMsgType DEF TypeOK
  <2>7. QED
    BY <2>4, <2>5, <2>6
<1>4. CASE GiveUp(t) /\ UNCHANGED <<pc, armed>>
  BY <1>4, GiveUpType
     DEF GiveUp, TypeOK, SemaphoresConsistent, SlotAccounting, Filled, Free, Slot, AtPc, Actors
<1>5. CASE /\ FullSem.cnt <= 0 /\ timeout # "Immediate"
           /\ FullSem' = SemSleep(FullSem, t)
           /\ Sleep(t, "WtFull", timeout)
           /\ UNCHANGED <<IBuf, ReadPtr, WritePtr, EmptySem, arg, last>>
  <2>1. /\ SemSleep(FullSem, t) \in Semaphore
        /\ Consistent(SemSleep(FullSem, t), AtPc("WtFull") \cup {t})
        /\ Stock(SemSleep(FullSem, t)) = Stock(FullSem)
    BY <1>1, <1>2, <1>5, CountAt, SleepConsistent
  <2>2. /\ AtPc("WtFull")' = AtPc("WtFull") \cup {t}
        /\ AtPc("OkFull")' = AtPc("OkFull")
        /\ AtPc("WtEmpty")' = AtPc("WtEmpty")
        /\ AtPc("OkEmpty")' = AtPc("OkEmpty")
        /\ pc' \in [Threads -> Pc]
        /\ armed' \subseteq Threads
    BY <1>1, <1>5 DEF Sleep, AtPc, TypeOK, Pc
  <2>3. Filled' = Filled /\ Free' = Free
    BY <1>5, <2>1, <2>2 DEF Filled, Free, Stock
  <2>4. SlotAccounting'
    BY <1>5, <2>3 DEF SlotAccounting, Slot
  <2>5. SemaphoresConsistent'
    BY <1>5, <2>1, <2>2 DEF SemaphoresConsistent
  <2>6. TypeOK'
    BY <1>5, <2>1, <2>2 DEF TypeOK
  <2>7. QED
    BY <2>4, <2>5, <2>6
<1>6. QED
  BY <1>3, <1>4, <1>5 DEF Fetch

LEMMA FetchResumeInv ==
  ASSUME IInv, NEW t \in Threads, FetchResume(t)
  PROVE  IInv'
<1> USE DEF IInv
<1>1. CASE pc[t] = "OkFull" /\ TakeMsg(t) /\ UNCHANGED FullSem
  <2>1. /\ EmptySem' \in Semaphore
        /\ Consistent(EmptySem', AtPc("WtEmpty")')
        /\ Free' = Free + 1
        /\ AtPc("WtFull")' = AtPc("WtFull")
        /\ AtPc("OkFull")' = AtPc("OkFull") \ {t}
        /\ pc' \in [Threads -> Pc]
    BY <1>1, TakeMsgEffect
  <2>2. Filled > 0 /\ Filled' = Filled - 1
    BY <1>1, TakePromisedCount
  <2>3. SlotAccounting' /\ ReadPtr' \in 0 .. Sz - 1
    BY <1>1, <2>1, <2>2, TakeMsgType, CountsNatural, TakeAccounting DEF TypeOK
  <2>4. SemaphoresConsistent'
    BY <1>1, <2>1 DEF SemaphoresConsistent
  <2>5. armed' \subseteq Threads
    BY DEF FetchResume, TypeOK
  <2>6. TypeOK'
    BY <1>1, <2>1, <2>3, <2>5, TakeMsgType DEF TypeOK
  <2>7. QED
    BY <2>3, <2>4, <2>6
<1>2. CASE pc[t] = "TmoFull" /\ GiveUp(t) /\ pc' = [pc EXCEPT ![t] = "Idle"]
  <2>1. /\ \A p \in {"WtFull", "OkFull", "WtEmpty", "OkEmpty"} : AtPc(p)' = AtPc(p)
        /\ pc' \in [Threads -> Pc]
        /\ armed' \subseteq Threads
    BY <1>2 DEF FetchResume, AtPc, TypeOK, Pc
  <2>2. TypeOK'
    BY <1>2, <2>1, GiveUpType DEF TypeOK, GiveUp, Actors
  <2>3. SemaphoresConsistent' /\ SlotAccounting'
    BY <1>2, <2>1 DEF GiveUp, SemaphoresConsistent, SlotAccounting, Filled, Free, Slot
  <2>4. QED
    BY <2>2, <2>3
<1>3. QED
  BY <1>1, <1>2 DEF FetchResume

(* A send that finds a free slot, from a thread outside the queue or from  *)
(* a handler.                                                              *)
LEMMA PutFresh ==
  ASSUME IInv, NEW a \in Actors, NEW m \in Msg, a # Isr => pc[a] = "Idle",
         EmptySem.cnt > 0, EmptySem' = SemTake(EmptySem), PutMsg(a, m), armed' = armed
  PROVE  IInv'
<1> USE DEF IInv
<1>1. /\ SemTake(EmptySem) \in Semaphore
      /\ Consistent(SemTake(EmptySem), AtPc("WtEmpty"))
      /\ Stock(SemTake(EmptySem)) = Stock(EmptySem) - 1
  BY CountAt, TakeConsistent DEF TypeOK, SemaphoresConsistent
<1>2. /\ FullSem' \in Semaphore
      /\ Consistent(FullSem', AtPc("WtFull")')
      /\ Filled' = Filled + 1
      /\ AtPc("WtEmpty")' = AtPc("WtEmpty")
      /\ AtPc("OkEmpty")' = AtPc("OkEmpty") \ {a}
      /\ pc' \in [Threads -> Pc]
  BY PutMsgEffect
<1>3. Free > 0 /\ Free' = Free - 1
  BY PutFreshCount
<1>4. SlotAccounting' /\ WritePtr' \in 0 .. Sz - 1
  BY <1>2, <1>3, PutMsgType, CountsNatural, PutAccounting DEF TypeOK
<1>5. SemaphoresConsistent'
  BY <1>1, <1>2 DEF SemaphoresConsistent
<1>6. TypeOK'
  BY <1>1, <1>2, <1>4, PutMsgType DEF TypeOK
<1>7. QED
  BY <1>4, <1>5, <1>6

LEMMA SendNowInv ==
  ASSUME IInv, NEW a \in Actors, NEW m \in Msg, SendNowOrExit(a, m)
  PROVE  IInv'
<1> USE DEF IInv
<1>1. /\ armed' = armed
      /\ a # Isr => pc[a] = "Idle"
      /\ a \notin AtPc("OkEmpty")
  BY QAssumption DEF SendNowOrExit, AtPc, QAssumption
<1>2. CASE EmptySem.cnt > 0 /\ EmptySem' = SemTake(EmptySem) /\ PutMsg(a, m)
  BY <1>1, <1>2, PutFresh
<1>3. CASE GiveUp(a) /\ UNCHANGED pc
  BY <1>1, <1>3, GiveUpType
     DEF GiveUp, TypeOK, SemaphoresConsistent, SlotAccounting, Filled, Free, Slot, AtPc, Actors
<1>4. QED
  BY <1>2, <1>3 DEF SendNowOrExit

LEMMA SendWaitingInv ==
  ASSUME IInv, NEW t \in Threads, NEW m \in Msg, NEW timeout \in Timeout,
         SendWaitingAbility(t, m, timeout)
  PROVE  IInv'
<1> USE DEF IInv
<1>1. pc[t] = "Idle" /\ t \notin AtPc("WtEmpty") /\ t \notin AtPc("OkEmpty") /\ t \in Actors
  BY DEF SendWaitingAbility, AtPc, Actors
<1>2. CASE EmptySem.cnt > 0 /\ EmptySem' = SemTake(EmptySem) /\ PutMsg(t, m) /\ UNCHANGED armed
  BY <1>1, <1>2, PutFresh
<1>3. CASE GiveUp(t) /\ UNCHANGED <<pc, armed>>
  BY <1>3, GiveUpType
     DEF GiveUp, TypeOK, SemaphoresConsistent, SlotAccounting, Filled, Free, Slot, AtPc, Actors
<1>4. CASE /\ EmptySem.cnt <= 0 /\ timeout # "Immediate"
           /\ EmptySem' = SemSleep(EmptySem, t)
           /\ Sleep(t, "WtEmpty", timeout)
           /\ arg' = [arg EXCEPT ![t] = m]
           /\ UNCHANGED <<IBuf, ReadPtr, WritePtr, FullSem, last>>
  <2>1. /\ SemSleep(EmptySem, t) \in Semaphore
        /\ Consistent(SemSleep(EmptySem, t), AtPc("WtEmpty") \cup {t})
        /\ Stock(SemSleep(EmptySem, t)) = Stock(EmptySem)
    BY <1>1, <1>4, CountAt, SleepConsistent DEF TypeOK, SemaphoresConsistent
  <2>2. /\ AtPc("WtEmpty")' = AtPc("WtEmpty") \cup {t}
        /\ AtPc("OkEmpty")' = AtPc("OkEmpty")
        /\ AtPc("WtFull")' = AtPc("WtFull")
        /\ AtPc("OkFull")' = AtPc("OkFull")
        /\ pc' \in [Threads -> Pc]
        /\ armed' \subseteq Threads
    BY <1>1, <1>4 DEF Sleep, AtPc, TypeOK, Pc
  <2>3. Filled' = Filled /\ Free' = Free
    BY <1>4, <2>1, <2>2 DEF Filled, Free, Stock
  <2>4. SlotAccounting'
    BY <1>4, <2>3 DEF SlotAccounting, Slot
  <2>5. SemaphoresConsistent'
    BY <1>4, <2>1, <2>2 DEF SemaphoresConsistent
  <2>6. TypeOK'
    BY <1>4, <2>1, <2>2 DEF TypeOK
  <2>7. QED
    BY <2>4, <2>5, <2>6
<1>5. QED
  BY <1>2, <1>3, <1>4 DEF SendWaitingAbility

LEMMA SendResumeInv ==
  ASSUME IInv, NEW t \in Threads, SendResume(t)
  PROVE  IInv'
<1> USE DEF IInv
<1>1. CASE pc[t] = "OkEmpty" /\ PutMsg(t, arg[t]) /\ UNCHANGED EmptySem
  <2>0. t \in Actors /\ arg[t] \in Msg \cup {NoMsg}
    BY DEF TypeOK, Actors
  <2>1. /\ FullSem' \in Semaphore
        /\ Consistent(FullSem', AtPc("WtFull")')
        /\ Filled' = Filled + 1
        /\ AtPc("WtEmpty")' = AtPc("WtEmpty")
        /\ AtPc("OkEmpty")' = AtPc("OkEmpty") \ {t}
        /\ pc' \in [Threads -> Pc]
    BY <1>1, <2>0, PutMsgEffect
  <2>2. Free > 0 /\ Free' = Free - 1
    BY <1>1, PutPromisedCount
  <2>3. SlotAccounting' /\ WritePtr' \in 0 .. Sz - 1
    BY <1>1, <2>0, <2>1, <2>2, PutMsgType, CountsNatural, PutAccounting DEF TypeOK
  <2>4. SemaphoresConsistent'
    BY <1>1, <2>1 DEF SemaphoresConsistent
  <2>5. armed' \subseteq Threads
    BY DEF SendResume, TypeOK
  <2>6. TypeOK'
    BY <1>1, <2>0, <2>1, <2>3, <2>5, PutMsgType DEF TypeOK
  <2>7. QED
    BY <2>3, <2>4, <2>6
<1>2. CASE pc[t] = "TmoEmpty" /\ GiveUp(t) /\ pc' = [pc EXCEPT ![t] = "Idle"]
  <2>1. /\ \A p \in {"WtFull", "OkFull", "WtEmpty", "OkEmpty"} : AtPc(p)' = AtPc(p)
        /\ pc' \in [Threads -> Pc]
        /\ armed' \subseteq Threads
    BY <1>2 DEF SendResume, AtPc, TypeOK, Pc
  <2>2. TypeOK'
    BY <1>2, <2>1, GiveUpType DEF TypeOK, GiveUp, Actors
  <2>3. SemaphoresConsistent' /\ SlotAccounting'
    BY <1>2, <2>1 DEF GiveUp, SemaphoresConsistent, SlotAccounting, Filled, Free, Slot
  <2>4. QED
    BY <2>2, <2>3
<1>3. QED
  BY <1>1, <1>2 DEF SendResume

LEMMA TimerFiresInv ==
  ASSUME IInv, NEW t \in Threads, TimerFires(t)
  PROVE  IInv'
<1> USE DEF IInv
<1>1. /\ armed' \subseteq Threads
      /\ UNCHANGED <<IBuf, ReadPtr, WritePtr, arg, last>>
  BY DEF TimerFires, TypeOK
<1>2. ASSUME NEW i \in DOMAIN FullSem.queue, pc[t] = "WtFull", FullSem.queue[i] = t,
             FullSem' = SemTimeout(FullSem, i), pc' = [pc EXCEPT ![t] = "TmoFull"],
             UNCHANGED EmptySem
      PROVE  IInv'
  <2>1. /\ SemTimeout(FullSem, i) \in Semaphore
        /\ Consistent(SemTimeout(FullSem, i), AtPc("WtFull") \ {t})
        /\ Stock(SemTimeout(FullSem, i)) = Stock(FullSem)
    BY <1>2, CountAt, TimeoutConsistent DEF TypeOK, SemaphoresConsistent
  <2>2. /\ AtPc("WtFull")' = AtPc("WtFull") \ {t}
        /\ AtPc("OkFull")' = AtPc("OkFull")
        /\ AtPc("WtEmpty")' = AtPc("WtEmpty")
        /\ AtPc("OkEmpty")' = AtPc("OkEmpty")
        /\ pc' \in [Threads -> Pc]
    BY <1>2 DEF AtPc, TypeOK, Pc
  <2>3. Filled' = Filled /\ Free' = Free
    BY <1>2, <2>1, <2>2 DEF Filled, Free, Stock
  <2>4. QED
    BY <1>1, <1>2, <2>1, <2>2, <2>3 DEF TypeOK, SemaphoresConsistent, SlotAccounting, Slot
<1>3. ASSUME NEW i \in DOMAIN EmptySem.queue, pc[t] = "WtEmpty", EmptySem.queue[i] = t,
             EmptySem' = SemTimeout(EmptySem, i), pc' = [pc EXCEPT ![t] = "TmoEmpty"],
             UNCHANGED FullSem
      PROVE  IInv'
  <2>1. /\ SemTimeout(EmptySem, i) \in Semaphore
        /\ Consistent(SemTimeout(EmptySem, i), AtPc("WtEmpty") \ {t})
        /\ Stock(SemTimeout(EmptySem, i)) = Stock(EmptySem)
    BY <1>3, CountAt, TimeoutConsistent DEF TypeOK, SemaphoresConsistent
  <2>2. /\ AtPc("WtEmpty")' = AtPc("WtEmpty") \ {t}
        /\ AtPc("OkEmpty")' = AtPc("OkEmpty")
        /\ AtPc("WtFull")' = AtPc("WtFull")
        /\ AtPc("OkFull")' = AtPc("OkFull")
        /\ pc' \in [Threads -> Pc]
    BY <1>3 DEF AtPc, TypeOK, Pc
  <2>3. Filled' = Filled /\ Free' = Free
    BY <1>3, <2>1, <2>2 DEF Filled, Free, Stock
  <2>4. QED
    BY <1>1, <1>3, <2>1, <2>2, <2>3 DEF TypeOK, SemaphoresConsistent, SlotAccounting, Slot
<1>4. CASE UNCHANGED <<pc, FullSem, EmptySem>>
  BY <1>1, <1>4 DEF TypeOK, SemaphoresConsistent, SlotAccounting, Filled, Free, Slot, AtPc
<1>5. QED
  BY <1>2, <1>3, <1>4 DEF TimerFires

-----------------------------------------------------------------------------
LEMMA InitInv == Init => IInv
<1> SUFFICES ASSUME Init PROVE IInv
  OBVIOUS
<1>1. Filled = 0 /\ Free = Sz
  <2>1. AtPc("OkFull") = {} /\ AtPc("OkEmpty") = {}
    BY DEF Init, AtPc
  <2>2. QED
    BY <2>1, CountAt, QAssumption DEF Init, SemInit, Filled, Free, QAssumption
<1>2. TypeOK
  BY QAssumption DEF Init, SemInit, TypeOK, Semaphore, Pc, Actors, QAssumption
<1>3. SemaphoresConsistent
  BY QAssumption DEF Init, SemInit, SemaphoresConsistent, Consistent, AtPc, QAssumption
<1>4. SlotAccounting
  BY <1>1, QAssumption DEF SlotAccounting, Slot, Init, QAssumption
<1>5. QED
  BY <1>2, <1>3, <1>4 DEF IInv

LEMMA NextInv == IInv /\ [Next]_vars => IInv'
<1> SUFFICES ASSUME IInv, [Next]_vars PROVE IInv'
  OBVIOUS
<1>1. ASSUME NEW t \in Threads, NEW timeout \in Timeout, Fetch(t, timeout)  PROVE IInv'
  BY <1>1, FetchInv
<1>2. ASSUME NEW t \in Threads, NEW timeout \in Timeout, NEW m \in Msg,
             SendWaitingAbility(t, m, timeout)
      PROVE  IInv'
  BY <1>2, SendWaitingInv
<1>3. ASSUME NEW t \in Threads, FetchResume(t)  PROVE IInv'
  BY <1>3, FetchResumeInv
<1>4. ASSUME NEW t \in Threads, SendResume(t)  PROVE IInv'
  BY <1>4, SendResumeInv
<1>5. ASSUME NEW t \in Threads, TimerFires(t)  PROVE IInv'
  BY <1>5, TimerFiresInv
<1>6. ASSUME NEW a \in Actors, NEW m \in Msg, SendNowOrExit(a, m)  PROVE IInv'
  BY <1>6, SendNowInv
<1>7. CASE UNCHANGED vars
  BY <1>7 DEF vars, IInv, TypeOK, SemaphoresConsistent, SlotAccounting, Filled, Free, Slot, AtPc
<1>8. QED
  BY <1>1, <1>2, <1>3, <1>4, <1>5, <1>6, <1>7 DEF Next

(* The queue always has the invariant.                                     *)
THEOREM QueueInvariant == Spec => []IInv
  BY InitInv, NextInv, PTL DEF Spec

(* MsgQ.h: every variable of the queue keeps its type; in particular both  *)
(* pointers stay inside IBuf.                                              *)
THEOREM QueueTypeOK == Spec => []TypeOK
<1>1. IInv => TypeOK
  BY DEF IInv
<1>2. QED
  BY <1>1, QueueInvariant, PTL

(* chsem.c: with any number of threads, fetching, sending and timing out   *)
(* in any order, no semaphore of the queue is ever found inconsistent.     *)
THEOREM QueueSemaphoresConsistent == Spec => []SemaphoresConsistent
<1>1. IInv => SemaphoresConsistent
  BY DEF IInv
<1>2. QED
  BY <1>1, QueueInvariant, PTL

(* MsgQ.h: messages, free slots and promised slots always add up to Sz.    *)
THEOREM QueueSlotAccounting == Spec => []SlotAccounting
<1>1. IInv => SlotAccounting
  BY DEF IInv
<1>2. QED
  BY <1>1, QueueInvariant, PTL
=============================================================================
