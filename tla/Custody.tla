------------------------------- MODULE Custody -------------------------------
(* What the transfers promise about a recording, whatever they do to files:  *)
(* it is copied while the card has it, it leaves the card only when the      *)
(* timelapse folder holds it whole or its user deletes it, and what the      *)
(* folder holds whole stays whole.                                           *)
EXTENDS FiniteSets

CONSTANT Recordings

VARIABLES unmade, card, disk, deleted

Init == unmade = Recordings /\ card = {} /\ disk = {} /\ deleted = {}

Make(n) ==
  /\ n \in unmade
  /\ unmade' = unmade \ {n} /\ card' = card \cup {n}
  /\ UNCHANGED <<disk, deleted>>

Copy(n) ==
  /\ n \in card
  /\ disk' = disk \cup {n}
  /\ UNCHANGED <<unmade, card, deleted>>

Release(n) ==
  /\ n \in card \cap disk
  /\ card' = card \ {n}
  /\ UNCHANGED <<unmade, disk, deleted>>

Erase(n) ==
  /\ n \in card
  /\ card' = card \ {n} /\ deleted' = deleted \cup {n}
  /\ UNCHANGED <<unmade, disk>>

Next == \E n \in Recordings : Make(n) \/ Copy(n) \/ Release(n) \/ Erase(n)

Spec == Init /\ [][Next]_<<unmade, card, disk, deleted>>
=============================================================================
