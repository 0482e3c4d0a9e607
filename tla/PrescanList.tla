---------------------------- MODULE PrescanList ----------------------------
(***************************************************************************)
(* The prescan of the compiler (x1algc.c): it copies the source text to    *)
(* the bottom of the store and makes, from the top of the store downwards, *)
(* the list of the labels, switches and procedures of every block, for a   *)
(* main scan that meets applications before declarations.                  *)
(*                                                                         *)
(* The prescan list is a chain of sublists in one piece of store, two for  *)
(* each block: labels and switches, then procedures.  A link is a word     *)
(* with the address of the next link; the words between two links are the  *)
(* names of the sublist.  A name is put directly above the link of its     *)
(* sublist, and everything below moves down to make room:                  *)
(*                                                                         *)
(*    plib                                                    Plie         *)
(*     v                                                       v           *)
(*    |link 0|names|link 1|names|link 2| ...           |link n|end|        *)
(*                                                                         *)
(* Only the delimiters the prescan acts on are modelled; any other symbol  *)
(* is Symbol.                                                              *)
(***************************************************************************)
EXTENDS Integers, Sequences, FiniteSetsExt

CONSTANTS
  Bim,          \* first address for the object program
  Plie,         \* last address of the prescan list
  Room,         \* words left free between Bim and the text (8)
  Slack,        \* words that must be free above the text (8)
  Name,         \* identifiers
  Long,         \* those of more than 4 letters or digits: two words
  ElseAfterBlock, \* may else follow a block?
  MaxText       \* bound: words of text

ASSUME StoreAssumption ==
  /\ Bim \in Nat /\ Plie \in Nat /\ Room \in Nat \ {0}
  /\ Slack \in Nat /\ Slack > 6 /\ Bim + Room + Slack <= Plie

ASSUME NameAssumption == Long \subseteq Name /\ ElseAfterBlock \in BOOLEAN

Address == Bim .. Plie

Empty   == <<"empty">>
Text(k) == <<"text", k>>
Link(a) == <<"link", a>>
Inw(n)  == <<"inw", n>>
Fnw(n)  == <<"fnw", n>>

(* The T-list: a begin, or a block-begin marker with the number it keeps.  *)
Open      == <<"begin">>
Marker(b) == <<"block", b>>

VARIABLES
  store,        \* the store from Bim to Plie
  rnsb,         \* address of the last word of text
  rnsa,         \* symbols in that word, 3 of 9 bits at most
  plib,         \* first word of the prescan list
  bc,           \* number of the block
  mbc,          \* number of the last block introduced
  tlist,        \* the T-list
  nest,         \* the source: the constructs that are open, as <<kind, block>>
  toCome,       \* the source: the kinds of the blocks the main scan will enter
  closed,       \* the source: what the last symbol ended; "for" after for;
                \*   else "nothing"
  phase,        \* "prescan", then see CompilerStore
  stopped       \* stop has been called: the compiler is gone

prescanVars == <<rnsa, bc, mbc, tlist, nest, closed>>

(* The address of the s-th link of the chain. *)
LinkAddress ==
  LET at[s \in Nat] == IF s = 0 THEN plib ELSE store[at[s - 1]][2] IN at

Labels(b) == 2 * b
Procedures(b) == 2 * b + 1

-----------------------------------------------------------------------------
PrescanInit ==
  /\ plib = Plie - 2 /\ rnsb = Bim + Room /\ rnsa = 1
  /\ store = [a \in Address |->
                CASE a = Plie          -> Link(Plie - 1)
                  [] a = Plie - 1      -> Link(Plie)
                  [] a = Plie - 2      -> Link(Plie - 1)
                  [] a = Bim + Room    -> Text(0)
                  [] OTHER             -> Empty]
  /\ bc = 0 /\ mbc = 0 /\ tlist = <<Open>>
  /\ nest = <<<<"block", 0>>>> /\ toCome = << >> /\ closed = "nothing"
  /\ phase = "prescan" /\ stopped = FALSE

(* fill_prescan_list: sublist s of a list with this link table gets the    *)
(* words ws.  The links before link s move and so does what they point to. *)
FillPrescanList(st, at, s, ws) ==
  LET d == Len(ws)
      j == at[s]
      chain == {at[t] : t \in 0 .. s - 1}
  IN [a \in Address |->
        CASE a \in at[0] - d .. j - d ->
               IF a + d \in chain THEN Link(st[a + d][2] - d) ELSE st[a + d]
          [] a \in j - d + 1 .. j -> ws[a - j + d]
          [] OTHER -> st[a]]

Words(n) == IF n \in Long THEN <<Inw(n), Fnw(n)>> ELSE <<Inw(n)>>

NewLinks == <<Link(Plie), Link(Plie - 1)>>

(* An identifier of one symbol, or of five. *)
Symbols(n) == IF n \in Long THEN 5 ELSE 1

(* read_next_symbol, n times: only a symbol that needs a new word makes    *)
(* the reader look at the room there is left.                              *)
LastWord(n) == rnsb + (rnsa + n - 1) \div 3

OutOfStore(n) == LastWord(n) > rnsb /\ LastWord(n) + Slack > plib

InBounds(n) == LastWord(n) <= Bim + Room + MaxText - 1

Prescanning == phase = "prescan" /\ ~ stopped

Reads(n) ==
  /\ InBounds(n) /\ ~ OutOfStore(n)
  /\ rnsa' = ((rnsa + n - 1) % 3) + 1

Read(n) == Reads(n) /\ rnsb' = LastWord(n)

WithText(n) ==
  [a \in Address |->
     IF a \in rnsb + 1 .. LastWord(n) THEN Text(a - Bim - Room) ELSE store[a]]

StoreExhausted ==
  /\ InBounds(1) /\ OutOfStore(1)
  /\ stopped' = TRUE
  /\ UNCHANGED <<store, rnsb, plib, prescanVars, toCome, phase>>

Declare(n, nm, s) ==
  /\ Read(n)
  /\ store' = FillPrescanList(WithText(n), LinkAddress, s, Words(nm))
  /\ plib' = plib - Len(Words(nm))

NewBlock(kind) ==
  /\ mbc' = mbc + 1 /\ bc' = mbc + 1
  /\ nest' = Append(nest, <<kind, mbc + 1>>) /\ toCome' = Append(toCome, kind)

BlockIntroduction(n, kind) ==
  /\ Read(n) /\ NewBlock(kind)
  /\ store' = FillPrescanList(WithText(n), LinkAddress, Labels(mbc + 1), NewLinks)
  /\ plib' = plib - 2

(* After an end only ; and end, and else, can follow, after for a name. *)
InStatement == closed = "nothing" /\ UNCHANGED <<closed, phase, stopped>>

Symbol ==
  /\ closed \in {"nothing", "for"} /\ closed' = "nothing"
  /\ Read(1) /\ store' = WithText(1)
  /\ UNCHANGED <<plib, bc, mbc, tlist, nest, toCome, phase, stopped>>

For ==
  /\ closed = "nothing" /\ closed' = "for"
  /\ BlockIntroduction(1, "for")
  /\ tlist' = Append(tlist, Marker(bc))
  /\ UNCHANGED <<phase, stopped>>

(* begin, with no declaration after it *)
Begin ==
  /\ InStatement
  /\ Read(1) /\ store' = WithText(1)
  /\ tlist' = Append(tlist, Open)
  /\ nest' = Append(nest, <<"begin", nest[Len(nest)][2]>>)
  /\ UNCHANGED <<plib, bc, mbc, toCome>>

(* begin and a declarator: begin is taken from the T-list and added again. *)
BeginBlock ==
  /\ InStatement
  /\ BlockIntroduction(2, "block")
  /\ tlist' = tlist \o <<Marker(bc), Open>>

(* nm: *)
Label(nm) ==
  /\ InStatement
  /\ Declare(Symbols(nm) + 1, nm, Labels(bc))
  /\ UNCHANGED <<bc, mbc, tlist, nest, toCome>>

(* switch nm := *)
Switch(nm) ==
  /\ InStatement
  /\ Declare(Symbols(nm) + 2, nm, Labels(bc))
  /\ UNCHANGED <<bc, mbc, tlist, nest, toCome>>

(* procedure nm; and then the block of its parameters *)
Procedure(nm) ==
  LET n  == Symbols(nm) + 2
      d  == Len(Words(nm))
      st == FillPrescanList(WithText(n), LinkAddress, Procedures(bc), Words(nm))
      moved == [s \in 0 .. Labels(mbc + 1) |->
                  IF s <= Procedures(bc) THEN LinkAddress[s] - d ELSE LinkAddress[s]]
  IN /\ InStatement
     /\ Read(n) /\ NewBlock("procedure")
     /\ store' = FillPrescanList(st, moved, Labels(mbc + 1), NewLinks)
     /\ plib' = plib - d - 2
     /\ tlist' = Append(tlist, Marker(bc))

(* The block-begin markers on top of the T-list go, the lowest gives bc.   *)
LastBegin == Max({i \in DOMAIN tlist : tlist[i] = Open})

(* Not the code: the upper marker. *)
OuterBlockNearest == IF LastBegin = Len(tlist) THEN bc ELSE tlist[Len(tlist)][2]

OuterBlock == IF LastBegin = Len(tlist) THEN bc ELSE tlist[LastBegin + 1][2]

(* For statements and procedures end with the statement they consist of.   *)
Compound == Max({i \in DOMAIN nest : nest[i][1] \in {"begin", "block"}})

Semicolon ==
  /\ closed # "for" /\ Read(1) /\ store' = WithText(1)
  /\ bc' = OuterBlock
  /\ tlist' = SubSeq(tlist, 1, LastBegin)
  /\ nest' = SubSeq(nest, 1, Compound) /\ closed' = "nothing"
  /\ UNCHANGED <<plib, mbc, toCome, phase, stopped>>

ReadEnd ==
  /\ closed # "for" /\ Reads(1)
  /\ bc' = OuterBlock
  /\ tlist' = SubSeq(tlist, 1, LastBegin - 1)
  /\ nest' = SubSeq(nest, 1, Compound - 1) /\ closed' = nest[Compound][1]
  /\ UNCHANGED mbc

End ==
  /\ LastBegin > 1
  /\ ReadEnd /\ rnsb' = LastWord(1) /\ store' = WithText(1)
  /\ UNCHANGED <<plib, toCome, phase, stopped>>

(* The end was the end of a statement after then: the prescan skips else.  *)
Else ==
  /\ closed = "begin" \/ (closed = "block" /\ ElseAfterBlock)
  /\ Read(1) /\ store' = WithText(1)
  /\ closed' = "nothing"
  /\ UNCHANGED <<plib, bc, mbc, tlist, nest, toCome, phase, stopped>>

PrescanNext ==
  /\ Prescanning
  /\ \/ Symbol \/ For \/ Begin \/ BeginBlock \/ Semicolon \/ End \/ Else
     \/ \E nm \in Name : Label(nm) \/ Switch(nm) \/ Procedure(nm)
     \/ StoreExhausted
=============================================================================
