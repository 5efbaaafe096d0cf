------------------------------ MODULE Presence ------------------------------
(***************************************************************************)
(* What the sword promises about the beacons around it: each periodic      *)
(* check reports whether a beacon of a type that matters was received      *)
(* since the check before, a beacon counting by the last packet of it.     *)
(* Packets keep coming in while a check is being evaluated; they count for *)
(* the next one.                                                           *)
(***************************************************************************)
CONSTANTS Ids, Types,
          NearTypes,   \* types whose presence is shown
          None

VARIABLES window,   \* type of each beacon received since the last check
          verdict,  \* what the check in progress will report, or None
          near      \* what the last check reported

Init ==
  /\ window = [id \in Ids |-> None]
  /\ verdict = None
  /\ near = FALSE

Receive(id, type) ==
  /\ window' = [window EXCEPT ![id] = type]
  /\ UNCHANGED <<verdict, near>>

BeginCheck ==
  /\ verdict = None
  /\ verdict' = (\E id \in Ids : window[id] \in NearTypes)
  /\ window' = [id \in Ids |-> None]
  /\ UNCHANGED near

EndCheck ==
  /\ verdict \in BOOLEAN
  /\ near' = verdict
  /\ verdict' = None
  /\ UNCHANGED window

Next ==
  \/ \E id \in Ids, type \in Types \cup {None} : Receive(id, type)
  \/ BeginCheck
  \/ EndCheck

Spec == Init /\ [][Next]_<<window, verdict, near>>
=============================================================================
