----------------------------- MODULE MCX1RunTime -----------------------------
(* X1RunTime on the block trees of MCPrograms. *)
EXTENDS X1RunTime, MCPrograms
=============================================================================
