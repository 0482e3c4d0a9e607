--------------------------- MODULE MCAlgolContexts ---------------------------
(* AlgolContexts on the block trees of MCPrograms. *)
EXTENDS AlgolContexts, MCPrograms
=============================================================================
