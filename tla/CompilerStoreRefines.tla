------------------------ MODULE CompilerStoreRefines ------------------------
(***************************************************************************)
(* CompilerStore implements CompilerLists: each list is read back from the *)
(* store as the operations of the compiler read it, the name list from its *)
(* end downwards, the prescan list along its chain.                        *)
(***************************************************************************)
EXTENDS CompilerStore

Between(from, to) == [k \in 1 .. to - from + 1 |-> store[from + k - 1]]

(* The names in the words from..to of the prescan list. *)
NamesIn(from, to) ==
  LET names[a \in Int] ==
        IF a > to THEN << >>
        ELSE <<store[a][2]>> \o names[a + (IF IsLong(store[a]) THEN 2 ELSE 1)]
  IN names[from]

(* The sublists from the link at address a on. *)
SublistsFrom(a) ==
  LET chain[l \in Int] ==
        IF l = Plie THEN << >>
        ELSE <<NamesIn(l + 1, store[l][2] - 1)>> \o chain[store[l][2]]
  IN chain[a]

NameOf(a) ==
  IF IsLong(store[a - 2]) /\ store[a - 3] # Fnw(store[a - 2][2]) THEN "torn"
  ELSE store[a - 2][2]

NamesBelow(end) ==
  LET entries[a \in Int] ==
        IF a <= nlib THEN << >>
        ELSE Append(entries[BelowEntry(store, a)], [name |-> NameOf(a), id |-> store[a - 1]])
  IN entries[end]

Lists == INSTANCE CompilerLists WITH
  Constant  <- {[k \in DOMAIN c |-> Value(c[k])] : c \in Constant},
  Place     <- 0 .. MaxFutures,
  text      <- IF phase = "prescan" THEN Between(Bim + Room, rnsb) ELSE Between(rnsd, flib - 1),
  blocks    <- IF phase = "intro" THEN <<NamesIn(intro.i, plib - 1)>> \o SublistsFrom(plib)
                                  ELSE SublistsFrom(plib),
  stream    <- IF phase = "prescan" THEN << >> ELSE Between(Bim, rnsb - 1),
  future    <- [p \in (0 .. flsc - 1) \ open |-> store[flib + p]],
  constants <- Between(klib, klib + klsc - 1),
  place     <- place,
  names     <- NamesBelow(NameListEnd)

(* No operation on one list, no shift and no search disturbs another list: *)
(* the constant found is the one looked for and stays where it was found,  *)
(* names are found in their latest declaration, labels before procedures.  *)
ImplementsLists == Lists!Spec
=============================================================================
