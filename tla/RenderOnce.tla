----------------------------- MODULE RenderOnce -----------------------------
(* What the render queue promises about rendering, whatever its threads do:  *)
(* one slot, which at most one job holds at a time; only the job in the slot *)
(* makes a movie; and a job whose movie was made never takes the slot again, *)
(* not even in a later process.                                              *)
EXTENDS Naturals

CONSTANTS
  Jobs,        \* job ids
  Nobody       \* the slot is free

VARIABLES
  slot,        \* the job being rendered
  made         \* how many movies each job has made

Init ==
  /\ slot = Nobody
  /\ made = [j \in Jobs |-> 0]

Take(j) ==
  /\ slot = Nobody
  /\ made[j] = 0
  /\ slot' = j
  /\ UNCHANGED made

Make ==
  /\ slot # Nobody
  /\ made[slot] = 0
  /\ made' = [made EXCEPT ![slot] = 1]
  /\ UNCHANGED slot

\* The job has settled, or the process died under it.
Leave ==
  /\ slot # Nobody
  /\ slot' = Nobody
  /\ UNCHANGED made

Next == (\E j \in Jobs : Take(j)) \/ Make \/ Leave

Spec == Init /\ [][Next]_<<slot, made>>
=============================================================================
