------------------------------- MODULE EvtMsgQ -------------------------------
(***************************************************************************)
(* The event queue EvtMsgQ_t of both firmwares (kl_lib/MsgQ.h): a ring     *)
(* buffer guarded by two ChibiOS counting semaphores, used by threads that *)
(* may sleep in it and by interrupt handlers that may not.                 *)
(*                                                                         *)
(* Everything between chSysLock and chSysUnlock is one step; the lock is   *)
(* given up exactly where a thread goes to sleep on a semaphore.  Between  *)
(* the signal that readies a sleeping thread and the moment the scheduler  *)
(* runs it, any other thread or handler may use the queue.                 *)
(***************************************************************************)
EXTENDS Integers, Sequences, SequencesExt, FiniteSets

CONSTANTS Threads,   \* threads that use the queue
          Isr,       \* stands for all interrupt handlers, which never sleep
          Msg,       \* messages
          Sz,        \* template parameter Sz: number of slots of IBuf
          NoMsg,     \* result of a Fetch that got nothing, and of a refused send
          Sent       \* result retvOk of a send

ASSUME QAssumption ==
  /\ Sz \in Nat \ {0}
  /\ IsFiniteSet(Threads)
  /\ Isr \notin Threads
  /\ Msg # {}
  /\ NoMsg \notin Msg /\ Sent \notin Msg /\ NoMsg # Sent

VARIABLES
  IBuf,       \* the ring, slots 0 .. Sz-1
  ReadPtr,    \* index of the next slot to read
  WritePtr,   \* index of the next slot to write
  FullSem,    \* semaphore counting messages: [cnt, queue of sleeping threads]
  EmptySem,   \* semaphore counting free slots
  pc,         \* where each thread is, see Pc
  arg,        \* the Msg argument of a thread inside SendWaitingAbility
  armed,      \* threads whose wake-up timer of chSchGoSleepTimeoutS is armed
  last        \* <<actor, result>> of the call that completed last

vars == <<IBuf, ReadPtr, WritePtr, FullSem, EmptySem, pc, arg, armed, last>>

Actors == Threads \cup {Isr}
Timeout == {"Immediate", "Finite", "Infinite"}

(* Idle: outside the queue.  Wt: asleep on the semaphore.  Ok, Tmo: made   *)
(* ready with rdymsg MSG_OK or MSG_TIMEOUT, not running yet.               *)
Pc == {"Idle", "WtFull", "OkFull", "TmoFull", "WtEmpty", "OkEmpty", "TmoEmpty"}

AtPc(p) == {t \in Threads : pc[t] = p}

-----------------------------------------------------------------------------
(* ChibiOS counting semaphores (os/src/chsem.c), as functions of the value *)
(* of the semaphore.                                                       *)

SemInit(n) == [cnt |-> n, queue |-> <<>>]

(* chSemWaitTimeoutS, the two ways it can take: through, or to sleep.      *)
SemTake(s) == [s EXCEPT !.cnt = @ - 1]
SemSleep(s, t) == [cnt |-> s.cnt - 1, queue |-> Append(s.queue, t)]

(* A variant with an off-by-one: the last sleeper is not readied.          *)
WokenButLast(s) == IF s.cnt + 1 < 0 THEN {Head(s.queue)} ELSE {}

(* chSemSignalI: the thread that has slept longest is readied.             *)
SemSignal(s) == [cnt |-> s.cnt + 1,
                 queue |-> IF s.cnt + 1 <= 0 THEN Tail(s.queue) ELSE s.queue]
Woken(s) == IF s.cnt + 1 <= 0 THEN {Head(s.queue)} ELSE {}

(* A variant that forgets to give the counter back.                        *)
SemTimeoutKeepsCount(s, i) == [s EXCEPT !.queue = RemoveAt(@, i)]

(* The timer callback wakeup of chschd.c on a thread that still sleeps:    *)
(* chSemFastSignalI, and the thread leaves the middle of the queue.        *)
SemTimeout(s, i) == [cnt |-> s.cnt + 1, queue |-> RemoveAt(s.queue, i)]

-----------------------------------------------------------------------------
Init ==
  /\ IBuf = [i \in 0 .. Sz - 1 |-> NoMsg]
  /\ ReadPtr = 0
  /\ WritePtr = 0
  /\ FullSem = SemInit(0)
  /\ EmptySem = SemInit(Sz)
  /\ pc = [t \in Threads |-> "Idle"]
  /\ arg = [t \in Threads |-> NoMsg]
  /\ armed = {}
  /\ last = <<Isr, NoMsg>>

(* A variant that circulates one slot late.                                *)
CirculateLate(p) == IF p + 1 > Sz THEN 0 ELSE p + 1

(* A pointer past the last slot circulates.                                *)
Circulate(p) == IF p + 1 >= Sz THEN 0 ELSE p + 1

(* The part of Fetch behind a semaphore wait that returned MSG_OK: read    *)
(* the slot, signal EmptySem, which may ready a sleeping sender.           *)
TakeMsg(t) ==
  /\ last' = <<t, IBuf[ReadPtr]>>
  /\ ReadPtr' = Circulate(ReadPtr)
  /\ EmptySem' = SemSignal(EmptySem)
  /\ pc' = [u \in Threads |-> IF u \in Woken(EmptySem) THEN "OkEmpty"
                              ELSE IF u = t THEN "Idle" ELSE pc[u]]
  /\ UNCHANGED <<IBuf, WritePtr, arg>>

(* The part of a send behind a successful semaphore wait.                  *)
PutMsg(a, m) ==
  /\ IBuf' = [IBuf EXCEPT ![WritePtr] = m]
  /\ WritePtr' = Circulate(WritePtr)
  /\ FullSem' = SemSignal(FullSem)
  /\ pc' = [u \in Threads |-> IF u \in Woken(FullSem) THEN "OkFull"
                              ELSE IF u = a THEN "Idle" ELSE pc[u]]
  /\ last' = <<a, Sent>>
  /\ arg' = [u \in Threads |-> IF u = a THEN NoMsg ELSE arg[u]]
  /\ UNCHANGED ReadPtr

Sleep(t, p, timeout) ==
  /\ pc' = [pc EXCEPT ![t] = p]
  /\ armed' = IF timeout = "Finite" THEN armed \cup {t} ELSE armed

(* A call that comes back with MSG_TIMEOUT leaves the queue alone.         *)
GiveUp(a) ==
  /\ last' = <<a, NoMsg>>
  /\ arg' = [u \in Threads |-> IF u = a THEN NoMsg ELSE arg[u]]
  /\ UNCHANGED <<IBuf, ReadPtr, WritePtr, FullSem, EmptySem>>

-----------------------------------------------------------------------------
(* Fetch, up to its return or to the point where it sleeps on FullSem.     *)
Fetch(t, timeout) ==
  /\ pc[t] = "Idle"
  /\ \/ /\ FullSem.cnt > 0
        /\ FullSem' = SemTake(FullSem)
        /\ TakeMsg(t)
        /\ UNCHANGED armed
     \/ /\ FullSem.cnt <= 0 /\ timeout = "Immediate"
        /\ GiveUp(t)
        /\ UNCHANGED <<pc, armed>>
     \/ /\ FullSem.cnt <= 0 /\ timeout # "Immediate"
        /\ FullSem' = SemSleep(FullSem, t)
        /\ Sleep(t, "WtFull", timeout)
        /\ UNCHANGED <<IBuf, ReadPtr, WritePtr, EmptySem, arg, last>>

(* Fetch runs again after the sleep; chSchGoSleepTimeoutS disarms its      *)
(* timer, then the message is read if the semaphore was signalled.         *)
FetchResume(t) ==
  /\ armed' = armed \ {t}
  /\ \/ /\ pc[t] = "OkFull"
        /\ TakeMsg(t)
        /\ UNCHANGED FullSem
     \/ /\ pc[t] = "TmoFull"
        /\ GiveUp(t)
        /\ pc' = [pc EXCEPT ![t] = "Idle"]

(* Variants: one that looks at the counter without taking from it, and one *)
(* that lets a message in when nothing is free.                            *)
SendWithoutTaking(a, m) ==
  /\ a # Isr => pc[a] = "Idle"
  /\ UNCHANGED <<armed, EmptySem>>
  /\ \/ EmptySem.cnt > 0 /\ PutMsg(a, m)
     \/ EmptySem.cnt <= 0 /\ GiveUp(a) /\ UNCHANGED pc

SendIntoFull(a, m) ==
  /\ a # Isr => pc[a] = "Idle"
  /\ UNCHANGED armed
  /\ \/ EmptySem.cnt >= 0 /\ EmptySem' = SemTake(EmptySem) /\ PutMsg(a, m)
     \/ EmptySem.cnt < 0 /\ GiveUp(a) /\ UNCHANGED pc

(* SendNowOrExitI, from a handler or (SendNowOrExit) from a thread.        *)
SendNowOrExit(a, m) ==
  /\ a # Isr => pc[a] = "Idle"
  /\ UNCHANGED armed
  /\ \/ /\ EmptySem.cnt > 0
        /\ EmptySem' = SemTake(EmptySem)
        /\ PutMsg(a, m)
     \/ /\ EmptySem.cnt <= 0
        /\ GiveUp(a)
        /\ UNCHANGED pc

(* SendWaitingAbility, up to its return or its sleep on EmptySem.          *)
SendWaitingAbility(t, m, timeout) ==
  /\ pc[t] = "Idle"
  /\ \/ /\ EmptySem.cnt > 0
        /\ EmptySem' = SemTake(EmptySem)
        /\ PutMsg(t, m)
        /\ UNCHANGED armed
     \/ /\ EmptySem.cnt <= 0 /\ timeout = "Immediate"
        /\ GiveUp(t)
        /\ UNCHANGED <<pc, armed>>
     \/ /\ EmptySem.cnt <= 0 /\ timeout # "Immediate"
        /\ EmptySem' = SemSleep(EmptySem, t)
        /\ Sleep(t, "WtEmpty", timeout)
        /\ arg' = [arg EXCEPT ![t] = m]
        /\ UNCHANGED <<IBuf, ReadPtr, WritePtr, FullSem, last>>

SendResume(t) ==
  /\ armed' = armed \ {t}
  /\ \/ /\ pc[t] = "OkEmpty"
        /\ PutMsg(t, arg[t])
        /\ UNCHANGED EmptySem
     \/ /\ pc[t] = "TmoEmpty"
        /\ GiveUp(t)
        /\ pc' = [pc EXCEPT ![t] = "Idle"]

(* The timer callback wakeup (os/src/chschd.c).  A thread that a signal    *)
(* has readied in the meantime is left alone.                              *)
TimerFires(t) ==
  /\ t \in armed
  /\ armed' = armed \ {t}
  /\ \/ /\ pc[t] = "WtFull"
        /\ \E i \in DOMAIN FullSem.queue :
             /\ FullSem.queue[i] = t
             /\ FullSem' = SemTimeout(FullSem, i)
        /\ pc' = [pc EXCEPT ![t] = "TmoFull"]
        /\ UNCHANGED EmptySem
     \/ /\ pc[t] = "WtEmpty"
        /\ \E i \in DOMAIN EmptySem.queue :
             /\ EmptySem.queue[i] = t
             /\ EmptySem' = SemTimeout(EmptySem, i)
        /\ pc' = [pc EXCEPT ![t] = "TmoEmpty"]
        /\ UNCHANGED FullSem
     \/ /\ pc[t] \in {"OkFull", "OkEmpty"}
        /\ UNCHANGED <<pc, FullSem, EmptySem>>
  /\ UNCHANGED <<IBuf, ReadPtr, WritePtr, arg, last>>

Next ==
  \/ \E t \in Threads :
       \/ \E timeout \in Timeout :
            \/ Fetch(t, timeout)
            \/ \E m \in Msg : SendWaitingAbility(t, m, timeout)
       \/ FetchResume(t)
       \/ SendResume(t)
       \/ TimerFires(t)
  \/ \E a \in Actors, m \in Msg : SendNowOrExit(a, m)

Spec == Init /\ [][Next]_vars

-----------------------------------------------------------------------------
(* Messages in the ring, and slots of it that are free or promised to a    *)
(* sender that has been readied.                                           *)
Filled == FullSem.cnt + Len(FullSem.queue) + Cardinality(AtPc("OkFull"))
Free   == EmptySem.cnt + Len(EmptySem.queue) + Cardinality(AtPc("OkEmpty"))

(* The slot i places after the one that is read next, i <= Sz.             *)
Slot(i) == IF ReadPtr + i >= Sz THEN ReadPtr + i - Sz ELSE ReadPtr + i

(* The contents of the ring in the order they will be read.                *)
Contents == [i \in 1 .. Filled |-> IBuf[Slot(i - 1)]]

Semaphore == [cnt : Int, queue : Seq(Threads)]

TypeOK ==
  /\ IBuf \in [0 .. Sz - 1 -> Msg \cup {NoMsg}]
  /\ ReadPtr \in 0 .. Sz - 1
  /\ WritePtr \in 0 .. Sz - 1
  /\ FullSem \in Semaphore
  /\ EmptySem \in Semaphore
  /\ pc \in [Threads -> Pc]
  /\ arg \in [Threads -> Msg \cup {NoMsg}]
  /\ armed \subseteq Threads
  /\ last \in Actors \X (Msg \cup {NoMsg, Sent})

(* A semaphore in the state chsem.c asserts on every entry ("inconsistent  *)
(* semaphore"), and precisely: a negative counter is the number of         *)
(* sleepers, and the queue holds the threads asleep on it, each once.      *)
Consistent(s, sleepers) ==
  /\ s.cnt >= 0 => s.queue = <<>>
  /\ s.cnt < 0 => s.cnt = -Len(s.queue)
  /\ \A t \in sleepers : \E i \in 1 .. Len(s.queue) : s.queue[i] = t
  /\ \A i \in 1 .. Len(s.queue) : s.queue[i] \in sleepers
  /\ \A i, j \in 1 .. Len(s.queue) : s.queue[i] = s.queue[j] => i = j

(* The chDbgAssert of chSemWaitTimeoutS and chSemSignalI never fires,      *)
(* whatever order signals, time-outs and calls come in.                    *)
SemaphoresConsistent ==
  /\ Consistent(FullSem, AtPc("WtFull"))
  /\ Consistent(EmptySem, AtPc("WtEmpty"))

(* No slot is lost or counted twice: every slot is either a message, one   *)
(* that is free, or one promised to a readied sender; a readied fetcher    *)
(* finds its message; and the distance of the two pointers is the number   *)
(* of messages.  So a send is refused only when nothing is free, and a     *)
(* write never hits a slot that holds an unread message.                   *)
SlotAccounting ==
  /\ Filled + Free = Sz
  /\ WritePtr = Slot(Filled)

(* The ring with its two semaphores is a bounded FIFO channel.             *)
Channel == INSTANCE EventChannel WITH q <- Contents, Refused <- NoMsg, Accepted <- Sent
ImplementsChannel == Channel!Spec

-----------------------------------------------------------------------------
(* Fairness.  A readied thread runs eventually (ChibiOS always runs the    *)
(* highest ready priority, and every thread of these firmwares sleeps      *)
(* again).  Handlers keep posting: the main queues are fed by periodic     *)
(* virtual timers.  Nothing else is assumed: no thread has to fetch, send  *)
(* or time out.                                                            *)
FairSpec ==
  /\ Spec
  /\ \A t \in Threads : WF_vars(FetchResume(t)) /\ WF_vars(SendResume(t))
  /\ WF_vars(\E m \in Msg : SendNowOrExit(Isr, m))

(* A thread asleep in Fetch with TIME_INFINITE is served, however many     *)
(* other threads fetch: sleepers are readied in the order they went to     *)
(* sleep and nobody can take a message promised to a readied thread.       *)
FetcherServed ==
  \A t \in Threads : (pc[t] = "WtFull" /\ t \notin armed) ~> (pc[t] = "Idle")
=============================================================================
