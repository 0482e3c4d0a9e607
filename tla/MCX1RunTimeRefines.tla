-------------------------- MODULE MCX1RunTimeRefines --------------------------
(* X1RunTime beside the contexts it stands for, on the block trees of MCPrograms. *)
EXTENDS X1RunTimeRefines, MCPrograms
=============================================================================
