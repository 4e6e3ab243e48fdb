----------------------------- MODULE MCPostPrint -----------------------------
(* PostPrint for TLC.                                                         *)
EXTENDS PostPrint

\* Either two prints and their pipelines, each after one chunk at its first
\* attempt, or one print with all that can happen beside its harvest.
Apart ==
  prints > 1 =>
    /\ card <= 1 /\ stops = 0 /\ crashes = 0
    /\ \A m \in Manuals : pc[m] = "none"
    /\ \A p \in Pipelines : tries[p] = 0
==============================================================================
