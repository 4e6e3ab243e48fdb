-------------------------- MODULE MCRenderPipeline --------------------------
(* RenderPipeline for TLC.  Groups, chunks and request threads are           *)
(* interchangeable: no definition distinguishes two of them.                 *)
EXTENDS RenderPipeline, TLC

ModelSymmetry ==
  Permutations(Groups) \cup Permutations(Chunks) \cup Permutations(Clients)
=============================================================================
