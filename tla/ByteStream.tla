----------------------------- MODULE ByteStream -----------------------------
(***************************************************************************)
(* What the debug output promises to those who print: bytes leave the wire *)
(* in the order they were accepted, each once.  The promise ends with a    *)
(* corruption, which only a print without the lock can cause.              *)
(***************************************************************************)
EXTENDS Integers

VARIABLES accepted,   \* bytes accepted so far; byte number i has the value i
          sent,       \* bytes that have left
          out,        \* value of the last byte that left
          unlocked,   \* a print without the lock is under way
          corrupt

vars == <<accepted, sent, out, unlocked, corrupt>>

Init == accepted = 0 /\ sent = 0 /\ out = 0 /\ unlocked = FALSE /\ corrupt = FALSE

Accept ==
  /\ ~corrupt
  /\ accepted' >= accepted
  /\ unlocked' \in BOOLEAN
  /\ UNCHANGED <<sent, out, corrupt>>

Send ==
  /\ ~corrupt /\ sent < accepted
  /\ sent' = sent + 1
  /\ out' = sent'
  /\ UNCHANGED <<accepted, unlocked, corrupt>>

Corrupt ==
  /\ unlocked
  /\ corrupt' = TRUE
  /\ UNCHANGED <<accepted, sent, out, unlocked>>

Corrupted == corrupt /\ corrupt' /\ unlocked' \in BOOLEAN

Next == Accept \/ Send \/ Corrupt \/ Corrupted

Spec == Init /\ [][Next]_vars
=============================================================================
