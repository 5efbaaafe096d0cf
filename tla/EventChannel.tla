---------------------------- MODULE EventChannel ----------------------------
(***************************************************************************)
(* What the event queue of the firmware promises its users: a FIFO channel *)
(* of at most Sz messages.  Every message that a send accepted is handed   *)
(* out exactly once, in the order of acceptance.  A call may also come     *)
(* back empty-handed, in which case the channel is untouched.              *)
(***************************************************************************)
EXTENDS Naturals, Sequences

CONSTANTS Actors,    \* threads and interrupt handlers that use the channel
          Msg,       \* messages
          Sz,        \* capacity
          Refused,   \* the result of a call that had no effect
          Accepted   \* the result of a send that had one

VARIABLES q,     \* accepted messages not handed out yet
          last   \* <<actor, result>> of the call that completed last

Init == q = <<>> /\ \E a \in Actors : last = <<a, Refused>>

Put(a, m) ==
  /\ Len(q) < Sz
  /\ q' = Append(q, m)
  /\ last' = <<a, Accepted>>

Take(a) ==
  /\ q # <<>>
  /\ q' = Tail(q)
  /\ last' = <<a, Head(q)>>

ComeBackEmpty(a) == last' = <<a, Refused>> /\ UNCHANGED q

Next == \E a \in Actors :
          \/ \E m \in Msg : Put(a, m)
          \/ Take(a)
          \/ ComeBackEmpty(a)

Spec == Init /\ [][Next]_<<q, last>>
=============================================================================
