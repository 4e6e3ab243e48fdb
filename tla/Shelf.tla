-------------------------------- MODULE Shelf --------------------------------
(* What the library shows of the harvests, whatever they do to files: a group *)
(* appears incomplete, gains chunks until it is ready, and is then left as it *)
(* is; it disappears while it holds no chunk, or because it held none when    *)
(* the sweep of a restart looked.  A request of its user that deletes a group *)
(* is not among the steps.                                                    *)
EXTENDS FiniteSets

CONSTANTS Groups, Chunks, NoGroup

VARIABLES state, chunks, doomed

Init ==
  /\ state = [g \in Groups |-> "none"]
  /\ chunks = [g \in Groups |-> {}]
  /\ doomed = NoGroup

Gain(g) ==
  /\ state[g] \in {"none", "incomplete"}
  /\ state' = [state EXCEPT ![g] = "incomplete"]
  /\ \E new \in SUBSET Chunks : chunks' = [chunks EXCEPT ![g] = @ \cup new]
  /\ UNCHANGED doomed

Offer(g) ==
  /\ state[g] = "incomplete" /\ chunks[g] # {}
  /\ state' = [state EXCEPT ![g] = "chunks_ready"]
  /\ UNCHANGED <<chunks, doomed>>

Empty(g) ==
  /\ state[g] \in {"none", "incomplete"} /\ chunks[g] = {}
  /\ state' = [state EXCEPT ![g] = "none"]
  /\ UNCHANGED chunks

Withdraw(g) == Empty(g) /\ UNCHANGED doomed

Condemn(g) == doomed = NoGroup /\ Empty(g) /\ doomed' = g

Discard(g) ==
  /\ doomed = g
  /\ state' = [state EXCEPT ![g] = "none"]
  /\ chunks' = [chunks EXCEPT ![g] = {}]
  /\ doomed' = NoGroup

\* The sweep itself was interrupted.
Reprieve == doomed' = NoGroup /\ UNCHANGED <<state, chunks>>

Next ==
  \/ \E g \in Groups : Gain(g) \/ Offer(g) \/ Withdraw(g) \/ Condemn(g) \/ Discard(g)
  \/ Reprieve

Spec == Init /\ [][Next]_<<state, chunks, doomed>>
==============================================================================
