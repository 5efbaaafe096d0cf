------------------------- MODULE EvtMsgQRefinement -------------------------
(***************************************************************************)
(* The ring with its two semaphores implements the bounded FIFO channel    *)
(* EventChannel, and brings on those who sleep in it, for any number of    *)
(* threads, messages and slots.                                            *)
(***************************************************************************)
EXTENDS EvtMsgQProofs

(* A thread on its way through SendWaitingAbility holds the message it     *)
(* will write.                                                             *)
ArgOK == \A t \in Threads : pc[t] \in {"WtEmpty", "OkEmpty"} => arg[t] \in Msg

LEMMA ArgStep == IInv /\ ArgOK /\ [Next]_vars => ArgOK'
<1> SUFFICES ASSUME IInv, ArgOK, [Next]_vars PROVE ArgOK'
  OBVIOUS
<1> USE DEF ArgOK
<1>0. /\ pc \in [Threads -> Pc] /\ arg \in [Threads -> Msg \cup {NoMsg}]
      /\ Woken(EmptySem) \subseteq AtPc("WtEmpty")
      /\ QAssumption
  <2>1. EmptySem \in Semaphore /\ Consistent(EmptySem, AtPc("WtEmpty"))
    BY DEF IInv, TypeOK, SemaphoresConsistent
  <2>2. AtPc("WtEmpty") \in SUBSET Threads
    BY CountAt
  <2>3. \/ Woken(EmptySem) = {}
        \/ \E h \in AtPc("WtEmpty") : Woken(EmptySem) = {h}
    BY <2>1, <2>2, SignalConsistent
  <2>4. QED
    BY <2>3, QAssumption DEF IInv, TypeOK
<1>1. ASSUME NEW t \in Threads, TakeMsg(t)  PROVE ArgOK'
  BY <1>0, <1>1 DEF TakeMsg, AtPc
<1>2. ASSUME NEW a \in Actors, NEW m, PutMsg(a, m)  PROVE ArgOK'
  BY <1>0, <1>2 DEF PutMsg
<1>3. ASSUME NEW a \in Actors, GiveUp(a),
             pc' = pc \/ (a \in Threads /\ pc' = [pc EXCEPT ![a] = "Idle"]),
             a \in Threads => pc[a] \in {"Idle", "TmoFull", "TmoEmpty"}
      PROVE  ArgOK'
  BY <1>0, <1>3 DEF GiveUp
<1>4. ASSUME NEW t \in Threads, NEW timeout \in Timeout, Fetch(t, timeout)  PROVE ArgOK'
  <2>1. CASE TakeMsg(t)
    BY <1>1, <2>1
  <2>2. CASE ~TakeMsg(t)
    BY <1>0, <1>3, <1>4, <2>2 DEF Fetch, Sleep, Actors
  <2>3. QED
    BY <2>1, <2>2
<1>5. ASSUME NEW t \in Threads, NEW timeout \in Timeout, NEW m \in Msg,
             SendWaitingAbility(t, m, timeout)
      PROVE  ArgOK'
  <2>1. CASE PutMsg(t, m)
    BY <1>2, <2>1 DEF Actors
  <2>2. CASE ~PutMsg(t, m)
    BY <1>0, <1>3, <1>5, <2>2 DEF SendWaitingAbility, Sleep, Actors
  <2>3. QED
    BY <2>1, <2>2
<1>6. ASSUME NEW t \in Threads, FetchResume(t)  PROVE ArgOK'
  BY <1>1, <1>3, <1>6 DEF FetchResume, Actors
<1>7. ASSUME NEW t \in Threads, SendResume(t)  PROVE ArgOK'
  BY <1>2, <1>3, <1>7 DEF SendResume, Actors
<1>8. ASSUME NEW t \in Threads, TimerFires(t)  PROVE ArgOK'
  BY <1>0, <1>8 DEF TimerFires
<1>9. ASSUME NEW a \in Actors, NEW m \in Msg, SendNowOrExit(a, m)  PROVE ArgOK'
  BY <1>0, <1>2, <1>3, <1>9 DEF SendNowOrExit, QAssumption
<1>10. CASE UNCHANGED vars
  BY <1>10 DEF vars
<1>11. QED
  BY <1>4, <1>5, <1>6, <1>7, <1>8, <1>9, <1>10 DEF Next

-----------------------------------------------------------------------------
(* What the ring operations do to the sequence of unread messages.         *)

ContentsOK ==
  /\ Contents \in Seq(Msg \cup {NoMsg})
  /\ Len(Contents) = Filled
  /\ Filled \in Nat /\ Free \in Nat /\ Filled + Free = Sz
  /\ \A i \in 1 .. Filled : Contents[i] = IBuf[Slot(i - 1)]
  /\ \A i \in 0 .. Sz : i < Sz => Slot(i) \in 0 .. Sz - 1

LEMMA ContentsType == IInv => ContentsOK
<1> SUFFICES ASSUME IInv PROVE ContentsOK
  OBVIOUS
<1>1. Filled \in Nat /\ Free \in Nat /\ Filled + Free = Sz
  BY CountsNatural DEF IInv, SlotAccounting
<1>2. \A i \in 0 .. Sz : i < Sz => Slot(i) \in 0 .. Sz - 1
  BY QAssumption DEF QAssumption, Slot, IInv, TypeOK
<1>3. \A i \in 1 .. Filled : IBuf[Slot(i - 1)] \in Msg \cup {NoMsg}
  <2>1. TAKE i \in 1 .. Filled
  <2>2. i - 1 \in 0 .. Sz /\ i - 1 < Sz
    BY <1>1, QAssumption DEF QAssumption
  <2>3. QED
    BY <1>2, <2>2 DEF IInv, TypeOK
<1>4. Contents \in [1 .. Filled -> Msg \cup {NoMsg}]
  BY <1>3 DEF Contents
<1>5. Contents \in Seq(Msg \cup {NoMsg})
  BY <1>1, <1>4, SeqDef
<1>6. Len(Contents) = Filled
  BY <1>1, <1>4, <1>5, LenProperties
<1>7. \A i \in 1 .. Filled : Contents[i] = IBuf[Slot(i - 1)]
  BY DEF Contents
<1>8. QED
  BY <1>1, <1>2, <1>5, <1>6, <1>7 DEF ContentsOK

LEMMA ContentsTypeNext == IInv' => ContentsOK'
  BY ContentsType, PTL

LEMMA ContentsTail ==
  ASSUME IInv, IInv', Filled > 0, Filled' = Filled - 1,
         IBuf' = IBuf, ReadPtr' = Circulate(ReadPtr)
  PROVE  /\ Contents # <<>>
         /\ Head(Contents) = IBuf[ReadPtr]
         /\ Contents' = Tail(Contents)
<1>1. /\ Contents \in Seq(Msg \cup {NoMsg})
      /\ Len(Contents) = Filled
      /\ Filled \in Nat /\ Filled <= Sz
      /\ \A i \in 1 .. Filled : Contents[i] = IBuf[Slot(i - 1)]
  BY ContentsType DEF ContentsOK
<1>2. Contents # <<>>
  BY <1>1, EmptySeq
<1>3. Head(Contents) = IBuf[ReadPtr]
  BY <1>1, <1>2, QAssumption DEF Slot, IInv, TypeOK, QAssumption
<1>4. /\ Tail(Contents) \in Seq(Msg \cup {NoMsg})
      /\ Len(Tail(Contents)) = Filled - 1
      /\ \A i \in 1 .. Filled - 1 : Tail(Contents)[i] = Contents[i + 1]
  BY <1>1, <1>2, HeadTailProperties
<1>5. /\ Contents' \in Seq(Msg \cup {NoMsg})
      /\ Len(Contents') = Filled - 1
      /\ \A i \in 1 .. Filled - 1 : Contents'[i] = IBuf[Slot(i - 1)']
  BY ContentsTypeNext DEF ContentsOK
<1>6. \A i \in 1 .. Filled - 1 : Slot(i - 1)' = Slot(i)
  BY <1>1, QAssumption DEF Slot, Circulate, IInv, TypeOK, QAssumption
<1>7. \A i \in 1 .. Filled - 1 : Contents'[i] = Tail(Contents)[i]
  BY <1>1, <1>4, <1>5, <1>6
<1>8. Contents' = Tail(Contents)
  BY <1>4, <1>5, <1>7, SeqEqual
<1>9. QED
  BY <1>2, <1>3, <1>8

LEMMA ContentsAppend ==
  ASSUME IInv, IInv', Free > 0, Filled' = Filled + 1, NEW m \in Msg \cup {NoMsg},
         IBuf' = [IBuf EXCEPT ![WritePtr] = m], ReadPtr' = ReadPtr
  PROVE  /\ Len(Contents) < Sz
         /\ Contents' = Append(Contents, m)
<1>1. /\ Contents \in Seq(Msg \cup {NoMsg})
      /\ Len(Contents) = Filled
      /\ Filled \in Nat /\ Filled < Sz
      /\ \A i \in 1 .. Filled : Contents[i] = IBuf[Slot(i - 1)]
      /\ \A i \in 0 .. Sz : i < Sz => Slot(i) \in 0 .. Sz - 1
      /\ Sz \in Nat
  BY ContentsType, QAssumption DEF ContentsOK, QAssumption
<1> DEFINE old == Contents
           new == Contents'
           app == Append(old, m)
<1>2. /\ app \in Seq(Msg \cup {NoMsg})
      /\ Len(app) = Filled + 1
      /\ \A i \in 1 .. Filled : app[i] = old[i]
      /\ app[Filled + 1] = m
  <2> HIDE DEF old
  <2>1. old \in Seq(Msg \cup {NoMsg}) /\ Len(old) = Filled
    BY <1>1 DEF old
  <2>2. QED
    BY <2>1, AppendProperties
<1>3. /\ new \in Seq(Msg \cup {NoMsg})
      /\ Len(new) = Filled + 1
      /\ \A i \in 1 .. Filled + 1 : new[i] = IBuf'[Slot(i - 1)]
  <2>1. \A i : Slot(i)' = Slot(i)
    BY DEF Slot
  <2>2. QED
    BY <2>1, ContentsTypeNext DEF ContentsOK
<1>4. /\ WritePtr = Slot(Filled) /\ WritePtr \in 0 .. Sz - 1
      /\ \A i \in 1 .. Filled : Slot(i - 1) # WritePtr
  BY <1>1 DEF IInv, SlotAccounting, Slot, TypeOK
<1> HIDE DEF old, new, app
<1>5. new[Filled + 1] = m
  <2>1. Filled + 1 \in 1 .. Filled + 1 /\ (Filled + 1) - 1 = Filled
    BY <1>1
  <2>2. new[Filled + 1] = IBuf'[Slot(Filled)]
    BY <1>3, <2>1
  <2>3. QED
    BY <1>4, <2>2 DEF IInv, TypeOK
<1>6. ASSUME NEW i \in 1 .. Filled  PROVE new[i] = old[i]
  <2>0. /\ i \in 1 .. Filled + 1
        /\ i - 1 \in 0 .. Sz /\ i - 1 < Sz
    BY <1>1
  <2>1. new[i] = IBuf'[Slot(i - 1)] /\ old[i] = IBuf[Slot(i - 1)]
    BY <1>1, <1>3, <2>0 DEF old
  <2>2. Slot(i - 1) \in 0 .. Sz - 1
    BY <1>1, <2>0
  <2>3. Slot(i - 1) # WritePtr
    BY <1>4
  <2>4. QED
    BY <2>1, <2>2, <2>3 DEF IInv, TypeOK
<1>7. ASSUME NEW i \in 1 .. Filled + 1  PROVE new[i] = app[i]
  <2>1. CASE i = Filled + 1
    BY <1>2, <1>5, <2>1
  <2>2. CASE i \in 1 .. Filled
    BY <1>2, <1>6, <2>2
  <2>3. QED
    BY <1>1, <2>1, <2>2
<1>8. new = app
  BY <1>1, <1>2, <1>3, <1>7, SeqEqual
<1>9. QED
  BY <1>1, <1>8 DEF old, new, app

LEMMA ContentsSame ==
  ASSUME IInv, Filled' = Filled, IBuf' = IBuf, ReadPtr' = ReadPtr
  PROVE  Contents' = Contents
  BY DEF Contents, Slot

-----------------------------------------------------------------------------
(* Every step of the queue is a step of the channel or leaves it alone.    *)
ChannelStep == [Channel!Next]_<<Contents, last>>

LEMMA TakeMsgChannel ==
  ASSUME IInv, IInv', NEW t \in Threads, Filled > 0, Filled' = Filled - 1, TakeMsg(t)
  PROVE  ChannelStep
<1>1. /\ Contents # <<>> /\ Head(Contents) = IBuf[ReadPtr] /\ Contents' = Tail(Contents)
  BY ContentsTail DEF TakeMsg
<1>2. last' = <<t, Head(Contents)>>
  BY <1>1 DEF TakeMsg
<1>3. Channel!Take(t)
  BY <1>1, <1>2 DEF Channel!Take
<1>4. QED
  BY <1>3 DEF ChannelStep, Channel!Next, Actors

LEMMA PutMsgChannel ==
  ASSUME IInv, IInv', NEW a \in Actors, NEW m \in Msg, Free > 0, Filled' = Filled + 1,
         PutMsg(a, m)
  PROVE  ChannelStep
<1>1. Len(Contents) < Sz /\ Contents' = Append(Contents, m)
  BY ContentsAppend DEF PutMsg
<1>2. Channel!Put(a, m)
  BY <1>1 DEF Channel!Put, PutMsg
<1>3. QED
  BY <1>2 DEF ChannelStep, Channel!Next

LEMMA GiveUpChannel ==
  ASSUME IInv, NEW a \in Actors, GiveUp(a), Filled' = Filled
  PROVE  ChannelStep
<1>1. Contents' = Contents
  BY ContentsSame DEF GiveUp
<1>2. Channel!ComeBackEmpty(a)
  BY <1>1 DEF Channel!ComeBackEmpty, GiveUp
<1>3. QED
  BY <1>2 DEF ChannelStep, Channel!Next

LEMMA NextChannel == IInv /\ IInv' /\ ArgOK /\ [Next]_vars => ChannelStep
<1> SUFFICES ASSUME IInv, IInv', ArgOK, [Next]_vars PROVE ChannelStep
  OBVIOUS
<1>0. /\ TypeOK /\ SemaphoresConsistent /\ SlotAccounting
      /\ pc \in [Threads -> Pc]
      /\ \A t \in Threads : t \in Actors /\ t # Isr
  BY QAssumption DEF IInv, TypeOK, Actors, QAssumption
<1>1. ASSUME NEW t \in Threads, NEW timeout \in Timeout, Fetch(t, timeout)  PROVE ChannelStep
  <2>1. CASE FullSem.cnt > 0 /\ FullSem' = SemTake(FullSem) /\ TakeMsg(t)
    <3>1. pc[t] = "Idle" /\ t \notin AtPc("OkFull")
      BY <1>1 DEF Fetch, AtPc
    <3>2. AtPc("OkFull")' = AtPc("OkFull") \ {t}
      BY <1>0, <2>1, <3>1, TakeMsgEffect
    <3>3. Filled > 0 /\ Filled' = Filled - 1
      BY <1>0, <2>1, <3>1, <3>2, TakeFirstCount
    <3>4. QED
      BY <2>1, <3>3, TakeMsgChannel
  <2>2. CASE GiveUp(t) /\ UNCHANGED <<pc, armed>>
    BY <1>0, <2>2, GiveUpChannel DEF GiveUp, Filled, AtPc
  <2>3. CASE /\ FullSem.cnt <= 0 /\ FullSem' = SemSleep(FullSem, t)
             /\ Sleep(t, "WtFull", timeout)
             /\ UNCHANGED <<IBuf, ReadPtr, WritePtr, EmptySem, arg, last>>
    <3>1. pc[t] = "Idle" /\ t \notin AtPc("WtFull")
      BY <1>1 DEF Fetch, AtPc
    <3>2. Stock(SemSleep(FullSem, t)) = Stock(FullSem)
      BY <1>0, <2>3, <3>1, CountAt, SleepConsistent DEF TypeOK, SemaphoresConsistent
    <3>3. AtPc("OkFull")' = AtPc("OkFull")
      BY <1>0, <2>3, <3>1 DEF Sleep, AtPc
    <3>4. Filled' = Filled
      BY <2>3, <3>2, <3>3 DEF Filled, Stock
    <3>5. QED
      BY <2>3, <3>4, ContentsSame DEF ChannelStep
  <2>4. QED
    BY <1>1, <2>1, <2>2, <2>3 DEF Fetch
<1>2. ASSUME NEW a \in Actors, NEW m \in Msg, a # Isr => pc[a] = "Idle",
             EmptySem.cnt > 0, EmptySem' = SemTake(EmptySem), PutMsg(a, m)
      PROVE  ChannelStep
  <2>1. a \notin AtPc("OkEmpty")
    BY <1>0, <1>2, QAssumption DEF AtPc, QAssumption
  <2>2. /\ Filled' = Filled + 1
        /\ AtPc("OkEmpty")' = AtPc("OkEmpty") \ {a}
    BY <1>0, <1>2, PutMsgEffect
  <2>3. Free > 0
    BY <1>0, <1>2, <2>1, <2>2, PutFreshCount
  <2>4. QED
    BY <1>2, <2>2, <2>3, PutMsgChannel
<1>3. ASSUME NEW t \in Threads, NEW timeout \in Timeout, NEW m \in Msg,
             SendWaitingAbility(t, m, timeout)
      PROVE  ChannelStep
  <2>1. CASE EmptySem.cnt > 0 /\ EmptySem' = SemTake(EmptySem) /\ PutMsg(t, m)
    BY <1>0, <1>2, <1>3, <2>1 DEF SendWaitingAbility
  <2>2. CASE GiveUp(t) /\ UNCHANGED <<pc, armed>>
    BY <1>0, <2>2, GiveUpChannel DEF GiveUp, Filled, AtPc
  <2>3. CASE /\ Sleep(t, "WtEmpty", timeout)
             /\ UNCHANGED <<IBuf, ReadPtr, WritePtr, FullSem, last>>
    <3>1. AtPc("OkFull")' = AtPc("OkFull")
      BY <1>0, <1>3, <2>3 DEF SendWaitingAbility, Sleep, AtPc
    <3>2. Filled' = Filled
      BY <2>3, <3>1 DEF Filled
    <3>3. QED
      BY <2>3, <3>2, ContentsSame DEF ChannelStep
  <2>4. QED
    BY <1>3, <2>1, <2>2, <2>3 DEF SendWaitingAbility
<1>4. ASSUME NEW t \in Threads, FetchResume(t)  PROVE ChannelStep
  <2>1. CASE pc[t] = "OkFull" /\ TakeMsg(t) /\ UNCHANGED FullSem
    <3>1. AtPc("OkFull")' = AtPc("OkFull") \ {t}
      BY <1>0, <2>1, TakeMsgEffect
    <3>2. Filled > 0 /\ Filled' = Filled - 1
      BY <1>0, <2>1, <3>1, TakePromisedCount
    <3>3. QED
      BY <2>1, <3>2, TakeMsgChannel
  <2>2. CASE pc[t] = "TmoFull" /\ GiveUp(t) /\ pc' = [pc EXCEPT ![t] = "Idle"]
    <3>1. AtPc("OkFull")' = AtPc("OkFull")
      BY <1>0, <2>2 DEF AtPc
    <3>2. Filled' = Filled
      BY <2>2, <3>1 DEF GiveUp, Filled
    <3>3. QED
      BY <1>0, <2>2, <3>2, GiveUpChannel
  <2>3. QED
    BY <1>4, <2>1, <2>2 DEF FetchResume
<1>5. ASSUME NEW t \in Threads, SendResume(t)  PROVE ChannelStep
  <2>1. CASE pc[t] = "OkEmpty" /\ PutMsg(t, arg[t]) /\ UNCHANGED EmptySem
    <3>1. arg[t] \in Msg
      BY <2>1 DEF ArgOK
    <3>2. /\ Filled' = Filled + 1
          /\ AtPc("OkEmpty")' = AtPc("OkEmpty") \ {t}
      BY <1>0, <2>1, <3>1, PutMsgEffect
    <3>3. Free > 0
      BY <1>0, <2>1, <3>2, PutPromisedCount
    <3>4. QED
      BY <1>0, <2>1, <3>1, <3>2, <3>3, PutMsgChannel
  <2>2. CASE pc[t] = "TmoEmpty" /\ GiveUp(t) /\ pc' = [pc EXCEPT ![t] = "Idle"]
    <3>1. AtPc("OkFull")' = AtPc("OkFull")
      BY <1>0, <2>2 DEF AtPc
    <3>2. Filled' = Filled
      BY <2>2, <3>1 DEF GiveUp, Filled
    <3>3. QED
      BY <1>0, <2>2, <3>2, GiveUpChannel
  <2>3. QED
    BY <1>5, <2>1, <2>2 DEF SendResume
<1>6. ASSUME NEW t \in Threads, TimerFires(t)  PROVE ChannelStep
  <2>1. IBuf' = IBuf /\ ReadPtr' = ReadPtr /\ last' = last
    BY <1>6 DEF TimerFires
  <2>2. AtPc("OkFull")' = AtPc("OkFull")
    BY <1>0, <1>6 DEF TimerFires, AtPc
  <2>3. Filled' = Filled
    <3>1. ASSUME NEW i \in DOMAIN FullSem.queue, FullSem' = SemTimeout(FullSem, i)
          PROVE  Stock(FullSem') = Stock(FullSem)
      BY <1>0, <3>1, CountAt, TimeoutConsistent DEF TypeOK, SemaphoresConsistent
    <3>2. Stock(FullSem') = Stock(FullSem)
      BY <1>6, <3>1 DEF TimerFires
    <3>3. QED
      BY <2>2, <3>2 DEF Filled, Stock
  <2>4. QED
    BY <2>1, <2>3, ContentsSame DEF ChannelStep
<1>7. ASSUME NEW a \in Actors, NEW m \in Msg, SendNowOrExit(a, m)  PROVE ChannelStep
  <2>1. CASE EmptySem.cnt > 0 /\ EmptySem' = SemTake(EmptySem) /\ PutMsg(a, m)
    BY <1>2, <1>7, <2>1 DEF SendNowOrExit
  <2>2. CASE GiveUp(a) /\ UNCHANGED pc
    BY <2>2, GiveUpChannel DEF GiveUp, Filled, AtPc
  <2>3. QED
    BY <1>7, <2>1, <2>2 DEF SendNowOrExit
<1>8. CASE UNCHANGED vars
  <2>1. Filled' = Filled
    BY <1>8 DEF vars, Filled, AtPc
  <2>2. QED
    BY <1>8, <2>1, ContentsSame DEF vars, ChannelStep
<1>9. QED
  BY <1>1, <1>3, <1>4, <1>5, <1>6, <1>7, <1>8 DEF Next

LEMMA InitChannel == Init => Channel!Init
<1> SUFFICES ASSUME Init PROVE Channel!Init
  OBVIOUS
<1>1. AtPc("OkFull") = {}
  BY DEF Init, AtPc
<1>2. Filled = 0
  BY <1>1, CountAt DEF Init, SemInit, Filled
<1>3. Contents = <<>>
  <2>1. Contents \in Seq(Msg \cup {NoMsg}) /\ Len(Contents) = Filled
    BY InitInv, ContentsType DEF ContentsOK
  <2>2. QED
    BY <1>2, <2>1, EmptySeq
<1>4. QED
  BY <1>3 DEF Init, Channel!Init, Actors

(* MsgQ.h: whatever threads and handlers do, the queue hands out exactly   *)
(* the messages it accepted, each once and in the order of acceptance, and *)
(* never holds more than Sz; a call that returns without effect leaves no  *)
(* trace.                                                                  *)
THEOREM QueueIsChannel == Spec => ImplementsChannel
<1>1. Init => ArgOK
  BY DEF Init, ArgOK
<1>2. Spec => [](IInv /\ ArgOK)
  BY <1>1, InitInv, NextInv, ArgStep, PTL DEF Spec
<1>3. QED
  BY <1>2, InitChannel, NextChannel, PTL DEF Spec, ChannelStep, ImplementsChannel, Channel!Spec
-----------------------------------------------------------------------------
(* What brings a sleeper on: the safety core of FetcherServed.             *)

(* t is at place i of those asleep on the semaphore s.                     *)
At(s, t, i) == i \in 1 .. Len(s.queue) /\ s.queue[i] = t

(* Threads sleep only while everything there is has been promised to       *)
(* readied ones.  So with a fetcher asleep and nobody readied the ring is  *)
(* empty, and the next send is not refused; and likewise with a sender.    *)
NoIdleSleep ==
  /\ FullSem.queue # <<>> => /\ Filled = Cardinality(AtPc("OkFull"))
                             /\ AtPc("OkFull") \cup AtPc("OkEmpty") = {} => EmptySem.cnt = Sz
  /\ EmptySem.queue # <<>> => /\ Free = Cardinality(AtPc("OkEmpty"))
                              /\ AtPc("OkFull") \cup AtPc("OkEmpty") = {} => FullSem.cnt = Sz

(* A thread asleep in Fetch is never overtaken: its place only gets nearer *)
(* to the front, and by one at least with every message that is accepted.  *)
(* At the front that message readies it.  Only its own timer can take it   *)
(* out of the queue otherwise.  Readied by a message, it comes back with   *)
(* one, whoever uses the queue before it runs.                             *)
FetcherAdvancesStep ==
  \A t \in Threads :
    /\ \A i \in 1 .. Len(FullSem.queue) : At(FullSem, t, i) =>
         \/ \E j \in 1 .. i : At(FullSem', t, j) /\ (Filled' > Filled => j < i)
         \/ i = 1 /\ Filled' > Filled /\ pc'[t] = "OkFull"
         \/ t \in armed /\ pc'[t] = "TmoFull"
    /\ pc[t] = "OkFull" => \/ pc'[t] = "OkFull"
                           \/ /\ pc'[t] = "Idle" /\ Filled' = Filled - 1
                              /\ last' \in {t} \X Msg
FetcherAdvances == [][FetcherAdvancesStep]_vars

(* The same of a thread asleep in SendWaitingAbility and the slots that    *)
(* become free.                                                            *)
SenderAdvancesStep ==
  \A t \in Threads :
    /\ \A i \in 1 .. Len(EmptySem.queue) : At(EmptySem, t, i) =>
         \/ \E j \in 1 .. i : At(EmptySem', t, j) /\ (Free' > Free => j < i)
         \/ i = 1 /\ Free' > Free /\ pc'[t] = "OkEmpty"
         \/ t \in armed /\ pc'[t] = "TmoEmpty"
    /\ pc[t] = "OkEmpty" => \/ pc'[t] = "OkEmpty"
                            \/ /\ pc'[t] = "Idle" /\ Filled' = Filled + 1
                               /\ last' = <<t, Sent>>
SenderAdvances == [][SenderAdvancesStep]_vars

LEMMA SleepJustified == IInv => NoIdleSleep
<1> SUFFICES ASSUME IInv PROVE NoIdleSleep
  OBVIOUS
<1>1. /\ FullSem \in Semaphore /\ Consistent(FullSem, AtPc("WtFull"))
      /\ EmptySem \in Semaphore /\ Consistent(EmptySem, AtPc("WtEmpty"))
      /\ Filled + Free = Sz /\ Sz \in Nat \ {0}
  BY QAssumption DEF IInv, TypeOK, SemaphoresConsistent, SlotAccounting, QAssumption
<1>2. /\ Stock(FullSem) \in Nat /\ Filled = Stock(FullSem) + Cardinality(AtPc("OkFull"))
      /\ Stock(EmptySem) \in Nat /\ Free = Stock(EmptySem) + Cardinality(AtPc("OkEmpty"))
  BY CountsNatural DEF IInv
<1>3. ASSUME NEW s \in Semaphore, NEW W, Consistent(s, W)
      PROVE  /\ s.queue # <<>> => Stock(s) = 0
             /\ s.queue = <<>> => Stock(s) = s.cnt
  BY <1>3 DEF Consistent, Semaphore, Stock
<1>4. /\ Cardinality(AtPc("OkFull")) \in Nat /\ Cardinality(AtPc("OkEmpty")) \in Nat
      /\ AtPc("OkFull") = {} => Cardinality(AtPc("OkFull")) = 0
      /\ AtPc("OkEmpty") = {} => Cardinality(AtPc("OkEmpty")) = 0
  BY CountAt
<1>5. ASSUME FullSem.queue # <<>>
      PROVE  /\ Filled = Cardinality(AtPc("OkFull"))
             /\ AtPc("OkFull") \cup AtPc("OkEmpty") = {} => EmptySem.cnt = Sz
  <2>1. Stock(FullSem) = 0
    BY <1>1, <1>3, <1>5
  <2>2. ASSUME AtPc("OkFull") \cup AtPc("OkEmpty") = {} PROVE EmptySem.cnt = Sz
    <3>1. Stock(EmptySem) = Sz
      BY <1>1, <1>2, <1>4, <2>1, <2>2
    <3>2. EmptySem.queue = <<>>
      BY <1>1, <1>3, <3>1
    <3> QED
      BY <1>1, <1>3, <3>1, <3>2
  <2> QED
    BY <1>2, <1>4, <2>1, <2>2
<1>6. ASSUME EmptySem.queue # <<>>
      PROVE  /\ Free = Cardinality(AtPc("OkEmpty"))
             /\ AtPc("OkFull") \cup AtPc("OkEmpty") = {} => FullSem.cnt = Sz
  <2>1. Stock(EmptySem) = 0
    BY <1>1, <1>3, <1>6
  <2>2. ASSUME AtPc("OkFull") \cup AtPc("OkEmpty") = {} PROVE FullSem.cnt = Sz
    <3>1. Stock(FullSem) = Sz
      BY <1>1, <1>2, <1>4, <2>1, <2>2
    <3>2. FullSem.queue = <<>>
      BY <1>1, <1>3, <3>1
    <3> QED
      BY <1>1, <1>3, <3>1, <3>2
  <2> QED
    BY <1>2, <1>4, <2>1, <2>2
<1> QED
  BY <1>5, <1>6 DEF NoIdleSleep

(* MsgQ.h: no thread sleeps while there is something for it.               *)
THEOREM QueueNoIdleSleep == Spec => []NoIdleSleep
  BY SleepJustified, QueueInvariant, PTL

(* Where a sleeper is after each operation on its semaphore.               *)
LEMMA PlaceKept ==
  ASSUME NEW s \in Semaphore, NEW t \in Threads, NEW u \in Threads, NEW i, At(s, u, i)
  PROVE  At(SemTake(s), u, i) /\ At(SemSleep(s, t), u, i)
  BY DEF At, SemTake, SemSleep, Semaphore

LEMMA PlaceSignalled ==
  ASSUME NEW s \in Semaphore, NEW W, Consistent(s, W), NEW u, NEW i, At(s, u, i)
  PROVE  \/ i = 1 /\ u \in Woken(s)
         \/ i > 1 /\ i - 1 \in 1 .. i /\ At(SemSignal(s), u, i - 1)
<1>1. /\ s.queue \in Seq(Threads) /\ s.cnt \in Int /\ Len(s.queue) \in Nat
      /\ i \in 1 .. Len(s.queue) /\ s.queue[i] = u
  BY DEF At, Semaphore
<1>2. s.queue # <<>> /\ s.cnt = -Len(s.queue) /\ s.cnt + 1 <= 0
  BY <1>1 DEF Consistent
<1>3. /\ Len(Tail(s.queue)) = Len(s.queue) - 1
      /\ \A j \in 1 .. Len(Tail(s.queue)) : Tail(s.queue)[j] = s.queue[j + 1]
      /\ Head(s.queue) = s.queue[1]
  BY <1>1, <1>2, HeadTailProperties
<1>4. SemSignal(s).queue = Tail(s.queue) /\ Woken(s) = {Head(s.queue)}
  BY <1>2 DEF SemSignal, Woken
<1>5. CASE i = 1
  BY <1>1, <1>3, <1>4, <1>5
<1>6. CASE i # 1
  <2>1. i - 1 \in 1 .. Len(Tail(s.queue)) /\ (i - 1) + 1 = i /\ i > 1 /\ i - 1 \in 1 .. i
    BY <1>1, <1>3, <1>6
  <2> QED
    BY <1>1, <1>3, <1>4, <2>1 DEF At
<1> QED
  BY <1>5, <1>6

LEMMA PlaceTimedOut ==
  ASSUME NEW s \in Semaphore, NEW k \in DOMAIN s.queue, NEW u, NEW i, At(s, u, i)
  PROVE  u = s.queue[k] \/ \E j \in 1 .. i : At(SemTimeout(s, k), u, j)
<1> DEFINE r == RemoveAt(s.queue, k)
<1>1. /\ s.queue \in Seq(Threads) /\ Len(s.queue) \in Nat /\ k \in 1 .. Len(s.queue)
      /\ i \in 1 .. Len(s.queue) /\ s.queue[i] = u
  BY DEF At, Semaphore
<1>2. /\ Len(r) = Len(s.queue) - 1
      /\ \A j \in 1 .. Len(s.queue) - 1 : r[j] = IF j < k THEN s.queue[j] ELSE s.queue[j + 1]
  BY <1>1, RemoveAtProperties
<1>3. SemTimeout(s, k).queue = r
  BY DEF SemTimeout
<1> HIDE DEF r
<1>4. CASE i < k
  <2>1. i \in 1 .. Len(s.queue) - 1 /\ i \in 1 .. i
    BY <1>1, <1>4
  <2> QED
    BY <1>1, <1>2, <1>3, <1>4, <2>1 DEF At
<1>5. CASE i > k
  <2>1. i - 1 \in 1 .. Len(s.queue) - 1 /\ ~(i - 1 < k) /\ (i - 1) + 1 = i /\ i - 1 \in 1 .. i
    BY <1>1, <1>5
  <2> QED
    BY <1>1, <1>2, <1>3, <2>1 DEF At
<1>6. CASE i = k
  BY <1>1, <1>6
<1> QED
  BY <1>1, <1>4, <1>5, <1>6

(* The kinds of steps, with what they do to the two counts.                *)
Takes(t) ==
  /\ TakeMsg(t) /\ Filled > 0 /\ Filled' = Filled - 1 /\ Free' = Free + 1
  /\ \/ pc[t] = "Idle" /\ FullSem' = SemTake(FullSem)
     \/ pc[t] = "OkFull" /\ FullSem' = FullSem
Puts(a) ==
  /\ \E m \in Msg : PutMsg(a, m)
  /\ Filled' = Filled + 1 /\ Free' = Free - 1
  /\ \/ (a # Isr => pc[a] = "Idle") /\ EmptySem' = SemTake(EmptySem)
     \/ a \in Threads /\ pc[a] = "OkEmpty" /\ EmptySem' = EmptySem
FallsAsleep(t) ==
  /\ pc[t] = "Idle"
  /\ \/ pc' = [pc EXCEPT ![t] = "WtFull"] /\ FullSem' = SemSleep(FullSem, t) /\ EmptySem' = EmptySem
     \/ pc' = [pc EXCEPT ![t] = "WtEmpty"] /\ EmptySem' = SemSleep(EmptySem, t) /\ FullSem' = FullSem
TimesOut(t) ==
  /\ t \in armed
  /\ \/ /\ pc[t] = "WtFull" /\ pc' = [pc EXCEPT ![t] = "TmoFull"] /\ EmptySem' = EmptySem
        /\ \E k \in DOMAIN FullSem.queue : FullSem.queue[k] = t /\ FullSem' = SemTimeout(FullSem, k)
     \/ /\ pc[t] = "WtEmpty" /\ pc' = [pc EXCEPT ![t] = "TmoEmpty"] /\ FullSem' = FullSem
        /\ \E k \in DOMAIN EmptySem.queue : EmptySem.queue[k] = t /\ EmptySem' = SemTimeout(EmptySem, k)
ComesBack ==
  /\ UNCHANGED <<FullSem, EmptySem>>
  /\ \/ \E t \in Threads : pc[t] \in {"TmoFull", "TmoEmpty"} /\ pc' = [pc EXCEPT ![t] = "Idle"]
     \/ pc' = pc
Silent == Filled' = Filled /\ Free' = Free

LEMMA StepKinds ==
  ASSUME IInv, ArgOK, [Next]_vars
  PROVE  \/ \E t \in Threads : Takes(t)
         \/ \E a \in Actors : Puts(a)
         \/ Silent /\ (ComesBack \/ \E t \in Threads : FallsAsleep(t) \/ TimesOut(t))
<1>0. /\ TypeOK /\ SemaphoresConsistent /\ SlotAccounting
      /\ FullSem \in Semaphore /\ Consistent(FullSem, AtPc("WtFull"))
      /\ EmptySem \in Semaphore /\ Consistent(EmptySem, AtPc("WtEmpty"))
      /\ pc \in [Threads -> Pc]
      /\ \A t \in Threads : t \in Actors /\ t # Isr
  BY QAssumption DEF IInv, TypeOK, SemaphoresConsistent, Actors, QAssumption
<1>1. ASSUME AtPc("OkFull")' = AtPc("OkFull"), AtPc("OkEmpty")' = AtPc("OkEmpty"),
             Stock(FullSem') = Stock(FullSem), Stock(EmptySem') = Stock(EmptySem)
      PROVE  Silent
  BY <1>1 DEF Silent, Filled, Free, Stock
<1>2. ASSUME UNCHANGED <<FullSem, EmptySem, pc>>  PROVE Silent /\ ComesBack
  BY <1>1, <1>2 DEF AtPc, ComesBack
<1>3. ASSUME NEW t \in Threads, pc[t] \in {"TmoFull", "TmoEmpty"}, GiveUp(t),
             pc' = [pc EXCEPT ![t] = "Idle"]
      PROVE  Silent /\ ComesBack
  <2>1. AtPc("OkFull")' = AtPc("OkFull") /\ AtPc("OkEmpty")' = AtPc("OkEmpty")
    BY <1>0, <1>3 DEF AtPc
  <2> QED
    BY <1>1, <1>3, <2>1 DEF GiveUp, ComesBack
<1>4. ASSUME NEW t \in Threads, pc[t] = "Idle", FullSem.cnt > 0,
             FullSem' = SemTake(FullSem), TakeMsg(t)
      PROVE  Takes(t)
  <2>1. Filled > 0 /\ Filled' = Filled - 1
    BY <1>4, TakeFirstCount
  <2>2. Free' = Free + 1
    BY <1>0, <1>4, TakeMsgEffect
  <2> QED
    BY <1>4, <2>1, <2>2 DEF Takes
<1>5. ASSUME NEW t \in Threads, pc[t] = "OkFull", FullSem' = FullSem, TakeMsg(t)
      PROVE  Takes(t)
  <2>1. Filled > 0 /\ Filled' = Filled - 1
    BY <1>5, TakePromisedCount
  <2>2. Free' = Free + 1
    BY <1>0, <1>5, TakeMsgEffect
  <2> QED
    BY <1>5, <2>1, <2>2 DEF Takes
<1>6. ASSUME NEW a \in Actors, NEW m \in Msg, a # Isr => pc[a] = "Idle", EmptySem.cnt > 0,
             EmptySem' = SemTake(EmptySem), PutMsg(a, m)
      PROVE  Puts(a)
  <2>1. Filled' = Filled + 1
    BY <1>0, <1>6, PutMsgEffect
  <2>2. Free' = Free - 1
    BY <1>6, PutFreshCount
  <2> QED
    BY <1>6, <2>1, <2>2 DEF Puts
<1>7. ASSUME NEW t \in Threads, pc[t] = "OkEmpty", EmptySem' = EmptySem, PutMsg(t, arg[t])
      PROVE  Puts(t)
  <2>1. arg[t] \in Msg
    BY <1>7 DEF ArgOK
  <2>2. Filled' = Filled + 1
    BY <1>0, <1>7, PutMsgEffect
  <2>3. Free' = Free - 1
    BY <1>7, PutPromisedCount
  <2> QED
    BY <1>7, <2>1, <2>2, <2>3 DEF Puts
<1>8. ASSUME NEW t \in Threads, NEW timeout \in Timeout, Fetch(t, timeout)
      PROVE  Takes(t) \/ (Silent /\ (ComesBack \/ FallsAsleep(t)))
  <2>1. CASE FullSem.cnt > 0 /\ FullSem' = SemTake(FullSem) /\ TakeMsg(t)
    BY <1>4, <1>8, <2>1 DEF Fetch
  <2>2. CASE GiveUp(t) /\ UNCHANGED pc
    BY <1>2, <2>2 DEF GiveUp
  <2>3. CASE /\ FullSem.cnt <= 0 /\ FullSem' = SemSleep(FullSem, t)
             /\ Sleep(t, "WtFull", timeout) /\ UNCHANGED EmptySem
    <3>1. pc[t] = "Idle" /\ t \notin AtPc("WtFull")
      BY <1>8 DEF Fetch, AtPc
    <3>2. Stock(FullSem') = Stock(FullSem)
      BY <1>0, <2>3, <3>1, CountAt, SleepConsistent
    <3>3. AtPc("OkFull")' = AtPc("OkFull") /\ AtPc("OkEmpty")' = AtPc("OkEmpty")
      BY <1>0, <2>3, <3>1 DEF Sleep, AtPc
    <3> QED
      BY <1>1, <2>3, <3>1, <3>2, <3>3 DEF FallsAsleep, Sleep
  <2> QED
    BY <1>8, <2>1, <2>2, <2>3 DEF Fetch
<1>9. ASSUME NEW t \in Threads, NEW timeout \in Timeout, NEW m \in Msg,
             SendWaitingAbility(t, m, timeout)
      PROVE  Puts(t) \/ (Silent /\ (ComesBack \/ FallsAsleep(t)))
  <2>1. CASE EmptySem.cnt > 0 /\ EmptySem' = SemTake(EmptySem) /\ PutMsg(t, m)
    BY <1>0, <1>6, <1>9, <2>1 DEF SendWaitingAbility
  <2>2. CASE GiveUp(t) /\ UNCHANGED pc
    BY <1>2, <2>2 DEF GiveUp
  <2>3. CASE /\ EmptySem.cnt <= 0 /\ EmptySem' = SemSleep(EmptySem, t)
             /\ Sleep(t, "WtEmpty", timeout) /\ UNCHANGED FullSem
    <3>1. pc[t] = "Idle" /\ t \notin AtPc("WtEmpty")
      BY <1>9 DEF SendWaitingAbility, AtPc
    <3>2. Stock(EmptySem') = Stock(EmptySem)
      BY <1>0, <2>3, <3>1, CountAt, SleepConsistent
    <3>3. AtPc("OkFull")' = AtPc("OkFull") /\ AtPc("OkEmpty")' = AtPc("OkEmpty")
      BY <1>0, <2>3, <3>1 DEF Sleep, AtPc
    <3> QED
      BY <1>1, <2>3, <3>1, <3>2, <3>3 DEF FallsAsleep, Sleep
  <2> QED
    BY <1>9, <2>1, <2>2, <2>3 DEF SendWaitingAbility
<1>10. ASSUME NEW t \in Threads, FetchResume(t)
       PROVE  Takes(t) \/ (Silent /\ ComesBack)
  BY <1>3, <1>5, <1>10 DEF FetchResume
<1>11. ASSUME NEW t \in Threads, SendResume(t)
       PROVE  Puts(t) \/ (Silent /\ ComesBack)
  BY <1>3, <1>7, <1>11 DEF SendResume
<1>12. ASSUME NEW t \in Threads, TimerFires(t)
       PROVE  Silent /\ (ComesBack \/ TimesOut(t))
  <2>1. ASSUME NEW s \in Semaphore, NEW W \in SUBSET Threads, Consistent(s, W),
               NEW k \in DOMAIN s.queue
        PROVE  Stock(SemTimeout(s, k)) = Stock(s)
    BY <2>1, TimeoutConsistent
  <2>2. /\ Stock(FullSem') = Stock(FullSem) /\ Stock(EmptySem') = Stock(EmptySem)
        /\ AtPc("OkFull")' = AtPc("OkFull") /\ AtPc("OkEmpty")' = AtPc("OkEmpty")
    <3>1. AtPc("OkFull")' = AtPc("OkFull") /\ AtPc("OkEmpty")' = AtPc("OkEmpty")
      BY <1>0, <1>12 DEF TimerFires, AtPc
    <3>2. AtPc("WtFull") \in SUBSET Threads /\ AtPc("WtEmpty") \in SUBSET Threads
      BY CountAt
    <3> QED
      BY <1>0, <1>12, <2>1, <3>1, <3>2 DEF TimerFires
  <2>3. ComesBack \/ TimesOut(t)
    BY <1>12 DEF TimerFires, ComesBack, TimesOut
  <2> QED
    BY <1>1, <2>2, <2>3
<1>13. ASSUME NEW a \in Actors, NEW m \in Msg, SendNowOrExit(a, m)
       PROVE  Puts(a) \/ (Silent /\ ComesBack)
  <2>1. CASE EmptySem.cnt > 0 /\ EmptySem' = SemTake(EmptySem) /\ PutMsg(a, m)
    BY <1>6, <1>13, <2>1 DEF SendNowOrExit
  <2>2. CASE GiveUp(a) /\ UNCHANGED pc
    BY <1>2, <2>2 DEF GiveUp
  <2> QED
    BY <1>13, <2>1, <2>2 DEF SendNowOrExit
<1>14. CASE UNCHANGED vars
  BY <1>2, <1>14 DEF vars
<1>15. CASE Next
  <2>1. \/ \E t \in Threads, timeout \in Timeout : Fetch(t, timeout)
        \/ \E t \in Threads, timeout \in Timeout, m \in Msg : SendWaitingAbility(t, m, timeout)
        \/ \E t \in Threads : FetchResume(t) \/ SendResume(t) \/ TimerFires(t)
        \/ \E a \in Actors, m \in Msg : SendNowOrExit(a, m)
    BY <1>15 DEF Next
  <2> QED
    BY <1>0, <1>8, <1>9, <1>10, <1>11, <1>12, <1>13, <2>1
<1> QED
  BY <1>14, <1>15

(* The ring holds nothing but messages.                                    *)
ContentsMsg == Contents \in Seq(Msg)

LEMMA ContentsMsgStep ==
  ASSUME IInv, IInv', ArgOK, ContentsMsg, [Next]_vars
  PROVE  ContentsMsg'
<1>1. \/ \E m \in Msg : Contents' = Append(Contents, m)
      \/ Contents # <<>> /\ Contents' = Tail(Contents)
      \/ Contents' = Contents
  BY NextChannel DEF ChannelStep, Channel!Next, Channel!Put, Channel!Take, Channel!ComeBackEmpty
<1>2. CASE \E m \in Msg : Contents' = Append(Contents, m)
  BY <1>2, AppendProperties DEF ContentsMsg
<1>3. CASE Contents # <<>> /\ Contents' = Tail(Contents)
  BY <1>3, HeadTailProperties DEF ContentsMsg
<1>4. CASE Contents' = Contents
  BY <1>4 DEF ContentsMsg
<1> QED
  BY <1>1, <1>2, <1>3, <1>4

LEMMA WokenSlept ==
  ASSUME NEW s \in Semaphore, NEW p, Consistent(s, AtPc(p))
  PROVE  Woken(s) \subseteq AtPc(p)
<1>1. AtPc(p) \in SUBSET Threads
  BY CountAt
<1>2. Woken(s) = {} \/ \E h \in AtPc(p) : Woken(s) = {h}
  BY <1>1, SignalConsistent
<1> QED
  BY <1>2

LEMMA FetcherStep ==
  ASSUME IInv, IInv', ArgOK, ContentsMsg, [Next]_vars
  PROVE  FetcherAdvancesStep
<1>0. /\ FullSem \in Semaphore /\ Consistent(FullSem, AtPc("WtFull"))
      /\ EmptySem \in Semaphore /\ Consistent(EmptySem, AtPc("WtEmpty"))
      /\ pc \in [Threads -> Pc] /\ Isr \notin Threads
      /\ Filled \in Nat
  BY QAssumption, CountsNatural DEF IInv, TypeOK, SemaphoresConsistent, QAssumption
<1> SUFFICES ASSUME NEW t \in Threads
             PROVE  /\ \A i \in 1 .. Len(FullSem.queue) : At(FullSem, t, i) =>
                         \/ \E j \in 1 .. i : At(FullSem', t, j) /\ (Filled' > Filled => j < i)
                         \/ i = 1 /\ Filled' > Filled /\ pc'[t] = "OkFull"
                         \/ t \in armed /\ pc'[t] = "TmoFull"
                    /\ pc[t] = "OkFull" => \/ pc'[t] = "OkFull"
                                           \/ /\ pc'[t] = "Idle" /\ Filled' = Filled - 1
                                              /\ last' \in {t} \X Msg
  BY DEF FetcherAdvancesStep
<1>1. ASSUME NEW u \in Threads, Takes(u)
      PROVE  /\ \A i \in 1 .. Len(FullSem.queue) : At(FullSem, t, i) =>
                  \E j \in 1 .. i : At(FullSem', t, j) /\ ~(Filled' > Filled)
             /\ pc[t] = "OkFull" => \/ pc'[t] = "OkFull"
                                    \/ /\ pc'[t] = "Idle" /\ Filled' = Filled - 1
                                       /\ last' \in {t} \X Msg
  <2>1. Filled' = Filled - 1 /\ ~(Filled' > Filled)
    BY <1>0, <1>1 DEF Takes
  <2>2. FullSem'.queue = FullSem.queue
    BY <1>0, <1>1 DEF Takes, SemTake, Semaphore
  <2>3. \A i \in 1 .. Len(FullSem.queue) : At(FullSem, t, i) => i \in 1 .. i /\ At(FullSem', t, i)
    BY <2>2 DEF At
  <2>4. Woken(EmptySem) \subseteq AtPc("WtEmpty")
    BY <1>0, WokenSlept
  <2>5. ASSUME pc[t] = "OkFull", t # u PROVE pc'[t] = "OkFull"
    BY <1>1, <2>4, <2>5 DEF Takes, TakeMsg, AtPc
  <2>6. ASSUME pc[u] = "OkFull" PROVE pc'[u] = "Idle" /\ last' \in {u} \X Msg
    <3>1. pc'[u] = "Idle" /\ last' = <<u, IBuf[ReadPtr]>>
      BY <1>1, <2>4, <2>6 DEF Takes, TakeMsg, AtPc
    <3>2. Contents # <<>> /\ Head(Contents) = IBuf[ReadPtr]
      BY <1>1, ContentsTail DEF Takes, TakeMsg
    <3>3. Head(Contents) \in Msg
      BY <3>2, HeadTailProperties DEF ContentsMsg
    <3> QED
      BY <3>1, <3>2, <3>3
  <2> QED
    BY <2>1, <2>3, <2>5, <2>6
<1>2. ASSUME NEW a \in Actors, Puts(a)
      PROVE  /\ \A i \in 1 .. Len(FullSem.queue) : At(FullSem, t, i) =>
                  \/ \E j \in 1 .. i : At(FullSem', t, j) /\ j < i
                  \/ i = 1 /\ Filled' > Filled /\ pc'[t] = "OkFull"
             /\ pc[t] = "OkFull" => pc'[t] = "OkFull"
  <2>1. /\ FullSem' = SemSignal(FullSem) /\ Filled' = Filled + 1
        /\ pc' = [u \in Threads |-> IF u \in Woken(FullSem) THEN "OkFull"
                                    ELSE IF u = a THEN "Idle" ELSE pc[u]]
        /\ a \in Threads => pc[a] \in {"Idle", "OkEmpty"}
    BY <1>0, <1>2 DEF Puts, PutMsg
  <2>2. Filled' > Filled
    BY <1>0, <2>1
  <2>3. ASSUME NEW i \in 1 .. Len(FullSem.queue), At(FullSem, t, i)
        PROVE  \/ \E j \in 1 .. i : At(FullSem', t, j) /\ j < i
               \/ i = 1 /\ t \in Woken(FullSem)
    <3>1. \/ i = 1 /\ t \in Woken(FullSem)
          \/ i > 1 /\ i - 1 \in 1 .. i /\ At(SemSignal(FullSem), t, i - 1)
      BY <1>0, <2>3, PlaceSignalled
    <3>2. i - 1 < i
      OBVIOUS
    <3> QED
      BY <2>1, <3>1, <3>2
  <2>4. t \in Woken(FullSem) => pc'[t] = "OkFull"
    BY <2>1
  <2>5. pc[t] = "OkFull" => pc'[t] = "OkFull"
    BY <2>1
  <2> QED
    BY <2>2, <2>3, <2>4, <2>5
<1>3. ASSUME Silent,
             \A i \in 1 .. Len(FullSem.queue) : At(FullSem, t, i) =>
               \/ \E j \in 1 .. i : At(FullSem', t, j)
               \/ t \in armed /\ pc'[t] = "TmoFull",
             pc[t] = "OkFull" => pc'[t] = "OkFull"
      PROVE  /\ \A i \in 1 .. Len(FullSem.queue) : At(FullSem, t, i) =>
                  \/ \E j \in 1 .. i : At(FullSem', t, j) /\ (Filled' > Filled => j < i)
                  \/ t \in armed /\ pc'[t] = "TmoFull"
             /\ pc[t] = "OkFull" => pc'[t] = "OkFull"
  <2>1. ~(Filled' > Filled)
    BY <1>0, <1>3 DEF Silent
  <2> QED
    BY <1>3, <2>1
<1>4. ASSUME ComesBack
      PROVE  /\ \A i \in 1 .. Len(FullSem.queue) : At(FullSem, t, i) =>
                  \E j \in 1 .. i : At(FullSem', t, j)
             /\ pc[t] = "OkFull" => pc'[t] = "OkFull"
  <2>1. \A i \in 1 .. Len(FullSem.queue) : i \in 1 .. i
    OBVIOUS
  <2>2. FullSem' = FullSem
    BY <1>4 DEF ComesBack
  <2>3. pc[t] = "OkFull" => pc'[t] = "OkFull"
    BY <1>0, <1>4 DEF ComesBack
  <2> QED
    BY <2>1, <2>2, <2>3
<1>5. ASSUME NEW u \in Threads, FallsAsleep(u)
      PROVE  /\ \A i \in 1 .. Len(FullSem.queue) : At(FullSem, t, i) =>
                  \E j \in 1 .. i : At(FullSem', t, j)
             /\ pc[t] = "OkFull" => pc'[t] = "OkFull"
  <2>1. \A i \in 1 .. Len(FullSem.queue) : i \in 1 .. i
    OBVIOUS
  <2>2. \A i \in 1 .. Len(FullSem.queue) : At(FullSem, t, i) => At(FullSem', t, i)
    BY <1>0, <1>5, PlaceKept DEF FallsAsleep
  <2>3. pc[t] = "OkFull" => pc'[t] = "OkFull"
    BY <1>0, <1>5 DEF FallsAsleep
  <2> QED
    BY <2>1, <2>2, <2>3
<1>6. ASSUME NEW u \in Threads, TimesOut(u)
      PROVE  /\ \A i \in 1 .. Len(FullSem.queue) : At(FullSem, t, i) =>
                  \/ \E j \in 1 .. i : At(FullSem', t, j)
                  \/ t \in armed /\ pc'[t] = "TmoFull"
             /\ pc[t] = "OkFull" => pc'[t] = "OkFull"
  <2>1. pc[t] = "OkFull" => pc'[t] = "OkFull"
    BY <1>0, <1>6 DEF TimesOut
  <2>2. ASSUME NEW k \in DOMAIN FullSem.queue, FullSem.queue[k] = u,
               FullSem' = SemTimeout(FullSem, k), pc'[u] = "TmoFull", u \in armed
        PROVE  \A i \in 1 .. Len(FullSem.queue) : At(FullSem, t, i) =>
                  \/ \E j \in 1 .. i : At(FullSem', t, j)
                  \/ t \in armed /\ pc'[t] = "TmoFull"
    BY <1>0, <2>2, PlaceTimedOut
  <2>3. ASSUME FullSem' = FullSem
        PROVE  \A i \in 1 .. Len(FullSem.queue) : At(FullSem, t, i) =>
                  \E j \in 1 .. i : At(FullSem', t, j)
    <3>1. \A i \in 1 .. Len(FullSem.queue) : i \in 1 .. i
      OBVIOUS
    <3> QED
      BY <2>3, <3>1
  <2> QED
    BY <1>0, <1>6, <2>1, <2>2, <2>3 DEF TimesOut
<1> QED
  BY <1>1, <1>2, <1>3, <1>4, <1>5, <1>6, StepKinds

LEMMA SenderStep ==
  ASSUME IInv, IInv', ArgOK, [Next]_vars
  PROVE  SenderAdvancesStep
<1>0. /\ FullSem \in Semaphore /\ Consistent(FullSem, AtPc("WtFull"))
      /\ EmptySem \in Semaphore /\ Consistent(EmptySem, AtPc("WtEmpty"))
      /\ pc \in [Threads -> Pc] /\ Isr \notin Threads
      /\ Free \in Nat
  BY QAssumption, CountsNatural DEF IInv, TypeOK, SemaphoresConsistent, QAssumption
<1> SUFFICES ASSUME NEW t \in Threads
             PROVE  /\ \A i \in 1 .. Len(EmptySem.queue) : At(EmptySem, t, i) =>
                         \/ \E j \in 1 .. i : At(EmptySem', t, j) /\ (Free' > Free => j < i)
                         \/ i = 1 /\ Free' > Free /\ pc'[t] = "OkEmpty"
                         \/ t \in armed /\ pc'[t] = "TmoEmpty"
                    /\ pc[t] = "OkEmpty" => \/ pc'[t] = "OkEmpty"
                                            \/ /\ pc'[t] = "Idle" /\ Filled' = Filled + 1
                                               /\ last' = <<t, Sent>>
  BY DEF SenderAdvancesStep
<1>1. ASSUME NEW a \in Actors, Puts(a)
      PROVE  /\ \A i \in 1 .. Len(EmptySem.queue) : At(EmptySem, t, i) =>
                  \E j \in 1 .. i : At(EmptySem', t, j) /\ ~(Free' > Free)
             /\ pc[t] = "OkEmpty" => \/ pc'[t] = "OkEmpty"
                                     \/ /\ pc'[t] = "Idle" /\ Filled' = Filled + 1
                                        /\ last' = <<t, Sent>>
  <2>1. Filled' = Filled + 1 /\ ~(Free' > Free)
    BY <1>0, <1>1 DEF Puts
  <2>2. EmptySem'.queue = EmptySem.queue
    BY <1>0, <1>1 DEF Puts, SemTake, Semaphore
  <2>3. \A i \in 1 .. Len(EmptySem.queue) : At(EmptySem, t, i) => i \in 1 .. i /\ At(EmptySem', t, i)
    BY <2>2 DEF At
  <2>4. Woken(FullSem) \subseteq AtPc("WtFull")
    BY <1>0, WokenSlept
  <2>5. ASSUME pc[t] = "OkEmpty", t # a PROVE pc'[t] = "OkEmpty"
    BY <1>1, <2>4, <2>5 DEF Puts, PutMsg, AtPc
  <2>6. ASSUME pc[t] = "OkEmpty", t = a PROVE pc'[t] = "Idle" /\ last' = <<t, Sent>>
    BY <1>1, <2>4, <2>6 DEF Puts, PutMsg, AtPc
  <2> QED
    BY <2>1, <2>3, <2>5, <2>6
<1>2. ASSUME NEW u \in Threads, Takes(u)
      PROVE  /\ \A i \in 1 .. Len(EmptySem.queue) : At(EmptySem, t, i) =>
                  \/ \E j \in 1 .. i : At(EmptySem', t, j) /\ j < i
                  \/ i = 1 /\ Free' > Free /\ pc'[t] = "OkEmpty"
             /\ pc[t] = "OkEmpty" => pc'[t] = "OkEmpty"
  <2>1. /\ EmptySem' = SemSignal(EmptySem) /\ Free' = Free + 1
        /\ pc' = [v \in Threads |-> IF v \in Woken(EmptySem) THEN "OkEmpty"
                                    ELSE IF v = u THEN "Idle" ELSE pc[v]]
        /\ pc[u] \in {"Idle", "OkFull"}
    BY <1>0, <1>2 DEF Takes, TakeMsg
  <2>2. Free' > Free
    BY <1>0, <2>1
  <2>3. ASSUME NEW i \in 1 .. Len(EmptySem.queue), At(EmptySem, t, i)
        PROVE  \/ \E j \in 1 .. i : At(EmptySem', t, j) /\ j < i
               \/ i = 1 /\ t \in Woken(EmptySem)
    <3>1. \/ i = 1 /\ t \in Woken(EmptySem)
          \/ i > 1 /\ i - 1 \in 1 .. i /\ At(SemSignal(EmptySem), t, i - 1)
      BY <1>0, <2>3, PlaceSignalled
    <3>2. i - 1 < i
      OBVIOUS
    <3> QED
      BY <2>1, <3>1, <3>2
  <2>4. t \in Woken(EmptySem) => pc'[t] = "OkEmpty"
    BY <2>1
  <2>5. pc[t] = "OkEmpty" => pc'[t] = "OkEmpty"
    BY <2>1
  <2> QED
    BY <2>2, <2>3, <2>4, <2>5
<1>3. ASSUME Silent,
             \A i \in 1 .. Len(EmptySem.queue) : At(EmptySem, t, i) =>
               \/ \E j \in 1 .. i : At(EmptySem', t, j)
               \/ t \in armed /\ pc'[t] = "TmoEmpty",
             pc[t] = "OkEmpty" => pc'[t] = "OkEmpty"
      PROVE  /\ \A i \in 1 .. Len(EmptySem.queue) : At(EmptySem, t, i) =>
                  \/ \E j \in 1 .. i : At(EmptySem', t, j) /\ (Free' > Free => j < i)
                  \/ t \in armed /\ pc'[t] = "TmoEmpty"
             /\ pc[t] = "OkEmpty" => pc'[t] = "OkEmpty"
  <2>1. ~(Free' > Free)
    BY <1>0, <1>3 DEF Silent
  <2> QED
    BY <1>3, <2>1
<1>4. ASSUME ComesBack
      PROVE  /\ \A i \in 1 .. Len(EmptySem.queue) : At(EmptySem, t, i) =>
                  \E j \in 1 .. i : At(EmptySem', t, j)
             /\ pc[t] = "OkEmpty" => pc'[t] = "OkEmpty"
  <2>1. \A i \in 1 .. Len(EmptySem.queue) : i \in 1 .. i
    OBVIOUS
  <2>2. EmptySem' = EmptySem
    BY <1>4 DEF ComesBack
  <2>3. pc[t] = "OkEmpty" => pc'[t] = "OkEmpty"
    BY <1>0, <1>4 DEF ComesBack
  <2> QED
    BY <2>1, <2>2, <2>3
<1>5. ASSUME NEW u \in Threads, FallsAsleep(u)
      PROVE  /\ \A i \in 1 .. Len(EmptySem.queue) : At(EmptySem, t, i) =>
                  \E j \in 1 .. i : At(EmptySem', t, j)
             /\ pc[t] = "OkEmpty" => pc'[t] = "OkEmpty"
  <2>1. \A i \in 1 .. Len(EmptySem.queue) : i \in 1 .. i
    OBVIOUS
  <2>2. \A i \in 1 .. Len(EmptySem.queue) : At(EmptySem, t, i) => At(EmptySem', t, i)
    BY <1>0, <1>5, PlaceKept DEF FallsAsleep
  <2>3. pc[t] = "OkEmpty" => pc'[t] = "OkEmpty"
    BY <1>0, <1>5 DEF FallsAsleep
  <2> QED
    BY <2>1, <2>2, <2>3
<1>6. ASSUME NEW u \in Threads, TimesOut(u)
      PROVE  /\ \A i \in 1 .. Len(EmptySem.queue) : At(EmptySem, t, i) =>
                  \/ \E j \in 1 .. i : At(EmptySem', t, j)
                  \/ t \in armed /\ pc'[t] = "TmoEmpty"
             /\ pc[t] = "OkEmpty" => pc'[t] = "OkEmpty"
  <2>1. pc[t] = "OkEmpty" => pc'[t] = "OkEmpty"
    BY <1>0, <1>6 DEF TimesOut
  <2>2. ASSUME NEW k \in DOMAIN EmptySem.queue, EmptySem.queue[k] = u,
               EmptySem' = SemTimeout(EmptySem, k), pc'[u] = "TmoEmpty", u \in armed
        PROVE  \A i \in 1 .. Len(EmptySem.queue) : At(EmptySem, t, i) =>
                  \/ \E j \in 1 .. i : At(EmptySem', t, j)
                  \/ t \in armed /\ pc'[t] = "TmoEmpty"
    BY <1>0, <2>2, PlaceTimedOut
  <2>3. ASSUME EmptySem' = EmptySem
        PROVE  \A i \in 1 .. Len(EmptySem.queue) : At(EmptySem, t, i) =>
                  \E j \in 1 .. i : At(EmptySem', t, j)
    <3>1. \A i \in 1 .. Len(EmptySem.queue) : i \in 1 .. i
      OBVIOUS
    <3> QED
      BY <2>3, <3>1
  <2> QED
    BY <1>0, <1>6, <2>1, <2>2, <2>3 DEF TimesOut
<1> QED
  BY <1>1, <1>2, <1>3, <1>4, <1>5, <1>6, StepKinds

(* FetcherServed needs two things of the code besides fairness: that the   *)
(* place of a sleeping fetcher comes down to the front, and that what was  *)
(* promised to it is not taken by another.  This is both, for any number   *)
(* of threads, slots and messages.                                         *)
THEOREM QueueFetcherAdvances == Spec => FetcherAdvances
<1>1. Init => IInv /\ ArgOK /\ ContentsMsg
  <2> SUFFICES ASSUME Init PROVE ContentsMsg
    BY InitInv DEF Init, ArgOK
  <2>1. Contents = <<>>
    BY InitChannel DEF Channel!Init
  <2> QED
    BY <2>1 DEF ContentsMsg
<1>2. IInv /\ ArgOK /\ ContentsMsg /\ [Next]_vars => (IInv /\ ArgOK /\ ContentsMsg)'
  BY NextInv, ArgStep, ContentsMsgStep
<1>3. IInv /\ IInv' /\ ArgOK /\ ContentsMsg /\ [Next]_vars => [FetcherAdvancesStep]_vars
  BY FetcherStep
<1> QED
  BY <1>1, <1>2, <1>3, PTL DEF Spec, FetcherAdvances

(* The same of senders that wait for a free slot.                          *)
THEOREM QueueSenderAdvances == Spec => SenderAdvances
<1>1. Init => IInv /\ ArgOK
  BY InitInv DEF Init, ArgOK
<1>2. IInv /\ ArgOK /\ [Next]_vars => (IInv /\ ArgOK)'
  BY NextInv, ArgStep
<1>3. IInv /\ IInv' /\ ArgOK /\ [Next]_vars => [SenderAdvancesStep]_vars
  BY SenderStep
<1> QED
  BY <1>1, <1>2, <1>3, PTL DEF Spec, SenderAdvances
=============================================================================
