--------------------------- MODULE MCCompilerStore ---------------------------
(***************************************************************************)
(* CompilerStore for every program of a few symbols, from its first symbol *)
(* to the end of the main scan, in a store that is soon full.              *)
(***************************************************************************)
EXTENDS CompilerStoreRefines

CONSTANTS
  MaxBlocks,    \* bound: blocks in the outermost one, when it is scanned
  MaxNest,      \* bound: length of the T-list in the prescan
  MaxWork       \* bound: words and places in use in the main scan

MCPrefilled == <<"L">>

(* Integers, and reals whose words may also stand in the list as integers. *)
MCConstant == {<<1>>, <<1, 2>>}

InUse == rnsb - Bim + flsc + klsc + (nlsc - Len(Prefill))

MCNext ==
  /\ Next
  /\ Len(tlist') <= MaxNest
  /\ phase' # "prescan" => mbc <= MaxBlocks /\ InUse' <= MaxWork

MCSpec == Init /\ [][MCNext]_vars
=============================================================================
