--------------------------- MODULE CompilerStore ---------------------------
(***************************************************************************)
(* The store of the compiler in its main scan (x1algc.c).  The text that   *)
(* the prescan stored is read once more from the left; the object program  *)
(* is written below it and follows it upwards; the lists stand above it:   *)
(*                                                                         *)
(*   Bim    rnsb  rnsd   flib        klib        nlib           plib  Plie *)
(*    |stream| .. | text |future list|constants..|name list ..  |prescan|  *)
(*                                                                         *)
(* When the stream runs into the text, everything up to the end of the     *)
(* name list moves up StreamShift words; when the future list or the       *)
(* constant list is full, what is above it moves up ListShift words.       *)
(*                                                                         *)
(* The operations are those of main_scan that use the store, called in any *)
(* order a program with the blocks of the prescan can call them in.  When  *)
(* the bits of the object program fill a word is left open: BitStringMaker *)
(* is a step of its own, except where addresses are held across it.        *)
(***************************************************************************)
EXTENDS PrescanList

CONSTANTS
  StreamShift,  \* words the stream gains (8)
  ListShift,    \* words a list gains (16)
  Prefilled,    \* names known before the scan, a sequence
  Constant,     \* constants of the program: <<n>>, or <<head, tail>>
  LateFutures,  \* may a place far above the future list be filled first?
  ShiftedWalk,  \* may the stream overtake the text in reservation_of_arrays?
  MaxStream, MaxFutures, MaxConstants, MaxNames  \* bounds

ASSUME ShiftAssumption ==
  /\ StreamShift \in Nat \ {0} /\ ListShift \in Nat \ {0, 1}
  /\ LateFutures \in BOOLEAN /\ ShiftedWalk \in BOOLEAN

ASSUME PrefilledAssumption == Prefilled \in Seq(Name)

ASSUME ConstantAssumption == \A c \in Constant : Len(c) \in {1, 2} /\ DOMAIN c = 1 .. Len(c)

Stream(k)     == <<"stream", k>>
Value(n)      == <<"constant", n>>
Future(p)     == <<"future", p>>
Id(kind, n)   == <<"id", kind, n>>

NoWalk == [pass |-> 0, rlab |-> 0, rlaa |-> 0]

VARIABLES
  rnsd,                       \* next word of text
  flib, klib, nlib,           \* where the lists begin
  flsc, klsc, nlsc,           \* their lengths
  open,                       \* places of the future list still to be filled
  place,                      \* the place look_for_constant found
  scopes,                     \* T-list: length of the name list and place, by block
  vlam,                       \* arrays of the block have still to be reserved
  intro,                      \* intro_new_block2: the next name, and the sublist
  walk                        \* reservation_of_arrays: pass, rlab and rlaa

lists == <<flib, klib, nlib, flsc, klsc, nlsc>>
scanVars == <<rnsd, lists, open, place, scopes, vlam, intro, walk>>
source == <<prescanVars, toCome>>
vars == <<store, rnsb, plib, phase, stopped, source, scanVars>>

NameListEnd == nlib + nlsc

Scanning == phase = "scan" /\ ~ stopped

(* The words from..to of st, d words higher; the old ones stay. *)
Moved(st, from, to, d) ==
  [a \in Address |-> IF a \in from + d .. to + d THEN st[a - d] ELSE st[a]]

(* st with the words ws from address a on. *)
With(st, a, ws) ==
  [b \in Address |-> IF b \in a .. a + Len(ws) - 1 THEN ws[b - a + 1] ELSE st[b]]

NoRoom(n) == NameListEnd + n >= plib

Stop == stopped' = TRUE
        /\ UNCHANGED <<store, rnsb, plib, phase, source, scanVars>>

(* Not the code: the words of a long name in the order of the text. *)
EntryInTextOrder(nm, w) ==
  IF nm \in Long THEN <<Inw(nm), Fnw(nm), w>> ELSE <<Inw(nm), w>>

Entry(nm, w) == IF nm \in Long THEN <<Fnw(nm), Inw(nm), w>> ELSE <<Inw(nm), w>>

Size(nm) == Len(Entry(nm, Empty))

-----------------------------------------------------------------------------
(* main: the lists are laid out above the text when the last end is read.  *)
Init ==
  /\ PrescanInit
  /\ rnsd = 0 /\ flib = 0 /\ klib = 0 /\ nlib = 0 /\ flsc = 0 /\ klsc = 0 /\ nlsc = 0
  /\ open = {} /\ place = 0 /\ scopes = << >> /\ vlam = FALSE
  /\ intro = [i |-> 0, part |-> 0] /\ walk = NoWalk

Prefill ==
  LET words[i \in 0 .. Len(Prefilled)] ==
        IF i = 0 THEN << >> ELSE words[i - 1] \o Entry(Prefilled[i], Id("label", 0))
  IN words[Len(Prefilled)]

FutureBase == LastWord(1) + 1
NameBase   == FutureBase + 2 * ListShift

MainScan ==
  /\ Prescanning /\ LastBegin = 1
  /\ ReadEnd /\ UNCHANGED toCome
  /\ IF NameBase + Len(Prefill) < plib
     THEN /\ flib' = FutureBase /\ klib' = FutureBase + ListShift /\ nlib' = NameBase
          /\ nlsc' = Len(Prefill)
          /\ store' = With(WithText(1), NameBase, Prefill)
          /\ rnsd' = Bim + Room /\ rnsb' = Bim
          /\ intro' = [i |-> plib + 1, part |-> 0]
          /\ plib' = store[plib][2] /\ phase' = "intro"
          /\ UNCHANGED <<flsc, klsc, stopped, open, place, scopes, vlam, walk>>
     ELSE /\ stopped' = TRUE
          /\ UNCHANGED <<store, rnsb, plib, phase, scanVars>>

(* read_next_symbol goes on to the next word of the text. *)
TakeText ==
  /\ Scanning /\ rnsd < flib
  /\ rnsd' = rnsd + 1
  /\ UNCHANGED <<store, rnsb, plib, phase, stopped, source, lists, open,
                 place, scopes, vlam, intro, walk>>

-----------------------------------------------------------------------------
(* bit_string_maker, when it has a word of 27 bits full.  If that is the   *)
(* last word before the text, the text and the lists move up.              *)
Overtakes == rnsb + 1 = rnsd

StreamOverflow == Overtakes /\ NoRoom(StreamShift)

WithStream(st) ==
  LET st1 == [st EXCEPT ![rnsb] = Stream(rnsb - Bim)]
  IN IF Overtakes THEN Moved(st1, rnsd, NameListEnd - 1, StreamShift) ELSE st1

StreamWord ==
  /\ rnsb - Bim < MaxStream
  /\ ~ StreamOverflow
  /\ rnsb' = rnsb + 1
  /\ IF Overtakes
     THEN /\ rnsd' = rnsd + StreamShift /\ flib' = flib + StreamShift
          /\ klib' = klib + StreamShift /\ nlib' = nlib + StreamShift
     ELSE UNCHANGED <<rnsd, flib, klib, nlib>>

BitStringMaker ==
  /\ Scanning
  /\ StreamWord /\ store' = WithStream(store)
  /\ UNCHANGED <<plib, phase, stopped, source, flsc, klsc, nlsc, open,
                 place, scopes, vlam, intro, walk>>

-----------------------------------------------------------------------------
(* fill_future_list: place p of the list gets its value.  The constants    *)
(* and the names, up to end, move up when the place is one of theirs, but  *)
(* once only.                                                              *)
Displaces(p) == flib + p >= klib

FutureRoom(p, end) == Displaces(p) => end + ListShift < plib

(* Not the code: only the name list moves. *)
WithFutureNamesOnly(p, end) ==
  LET st == IF Displaces(p) THEN Moved(store, nlib, end - 1, ListShift)
                            ELSE store
  IN [st EXCEPT ![flib + p] = Future(p)]

WithFuture(p, end) ==
  LET st == IF Displaces(p) THEN Moved(store, klib, end - 1, ListShift)
                            ELSE store
  IN [st EXCEPT ![flib + p] = Future(p)]

FillFutureList(p, end) ==
  /\ FutureRoom(p, end)
  /\ LateFutures \/ flib + p < klib + ListShift
  /\ flib + p \in Address
  /\ IF Displaces(p)
     THEN klib' = klib + ListShift /\ nlib' = nlib + ListShift
     ELSE UNCHANGED <<klib, nlib>>

(* An order that refers to a place yet to be filled: 2T 'flsc'. *)
ReserveFuture ==
  /\ Scanning /\ flsc < MaxFutures
  /\ open' = open \cup {flsc} /\ flsc' = flsc + 1
  /\ UNCHANGED <<store, rnsb, plib, phase, stopped, source, rnsd, flib, klib, nlib,
                 klsc, nlsc, place, scopes, vlam, intro, walk>>

(* The places of the orders that lead past a block wait for its end. *)
BlockPlaces == {scopes[i].place : i \in DOMAIN scopes}

ResolveFuture(p) ==
  /\ Scanning /\ p \in open \ BlockPlaces
  /\ FillFutureList(p, NameListEnd) /\ store' = WithFuture(p, NameListEnd)
  /\ open' = open \ {p}
  /\ UNCHANGED <<rnsb, plib, phase, stopped, source, rnsd, flib, flsc, klsc, nlsc,
                 place, scopes, vlam, intro, walk>>

-----------------------------------------------------------------------------
(* look_for_constant: the constant is written behind the list and searched *)
(* from its beginning, word by word; when it is found only behind the list *)
(* the list has it from now on.                                            *)
NamesMoved(d) == Moved(store, nlib, NameListEnd - 1, d)

(* Not the code: a constant of two words is taken for one. *)
ConstantRoomOneWord(c) == klib + klsc < nlib

ConstantRoom(c) == klib + klsc + Len(c) - 1 < nlib

Matches(st, i, c) == \A k \in DOMAIN c : st[klib + i + k - 1] = Value(c[k])

LookForConstant(c) ==
  LET d  == IF ConstantRoom(c) THEN 0 ELSE ListShift
      st == With(NamesMoved(d), klib + klsc, [k \in DOMAIN c |-> Value(c[k])])
      i  == Min({n \in 0 .. klsc : Matches(st, n, c)})
  IN /\ Scanning /\ klsc + Len(c) <= MaxConstants
     /\ ConstantRoom(c) \/ ~ NoRoom(ListShift)
     /\ nlib' = nlib + d /\ store' = st /\ place' = i
     /\ klsc' = IF i = klsc THEN klsc + Len(c) ELSE klsc
     /\ UNCHANGED <<rnsb, plib, phase, stopped, source, rnsd, flib, klib, flsc,
                    nlsc, open, scopes, vlam, intro, walk>>

(* fill_constant_list: one word of a storage function. *)
FillConstantList(n) ==
  LET d == IF klib + klsc = nlib THEN ListShift ELSE 0
  IN /\ Scanning /\ klsc < MaxConstants
     /\ klib + klsc = nlib => ~ NoRoom(ListShift)
     /\ nlib' = nlib + d /\ klsc' = klsc + 1
     /\ store' = [NamesMoved(d) EXCEPT ![klib + klsc] = Value(n)]
     /\ UNCHANGED <<rnsb, plib, phase, stopped, source, rnsd, flib, klib, flsc,
                    nlsc, open, place, scopes, vlam, intro, walk>>

-----------------------------------------------------------------------------
(* The entry below address a of the name list: its last word is the id,    *)
(* the one before says whether there is a third.                           *)
IsLong(w) == w[1] = "inw" /\ w[2] \in Long

BelowEntry(st, a) == a - (IF IsLong(st[a - 2]) THEN 3 ELSE 2)

(* look_for_name: from the end of the list downwards; nid, or -1. *)
LookForName(nm) ==
  LET found[a \in Int] ==
        IF a <= nlib THEN -1
        ELSE IF store[a - 2] = Inw(nm) /\ (nm \in Long => store[a - 3] = Fnw(nm))
             THEN a - nlib - 1
             ELSE found[BelowEntry(store, a)]
  IN found[NameListEnd]

(* fill_name_list, and for arrays the address that is entered afterwards.  *)
(* A declaration comes after the begin of a block, before its statements.  *)
FillNameList(nm, kind) ==
  /\ Scanning /\ nlsc + Size(nm) <= MaxNames
  /\ kind = "simple" \/ vlam
  /\ NameListEnd + Size(nm) <= plib
  /\ nlsc' = nlsc + Size(nm)
  /\ store' = With(store, NameListEnd, Entry(nm, Id(kind, 0)))
  /\ UNCHANGED <<rnsb, plib, phase, stopped, source, rnsd, flib, klib, nlib, flsc, klsc,
                 open, place, scopes, vlam, intro, walk>>

(* test_first_occurrence: the name gets a place of the future list; that   *)
(* of a library procedure is filled at once with its number.               *)
TestFirstOccurrence(nm) ==
  LET nid == LookForName(nm)
      mcp == nid <= Len(Prefill)
      st  == IF mcp THEN WithFuture(flsc, NameListEnd) ELSE store
  IN /\ Scanning /\ flsc < MaxFutures
     /\ nid >= 0 /\ store[nlib + nid] = Id("label", 0)
     /\ IF mcp THEN FillFutureList(flsc, NameListEnd) /\ UNCHANGED open
               ELSE open' = open \cup {flsc} /\ UNCHANGED <<klib, nlib>>
     /\ store' = [st EXCEPT ![nlib' + nid] = Id("future", flsc)]
     /\ flsc' = flsc + 1
     /\ UNCHANGED <<rnsb, plib, phase, stopped, source, rnsd, flib, klsc, nlsc,
                    place, scopes, vlam, intro, walk>>

(* label_declaration: the value of the place, or of the name itself.       *)
LabelDeclaration(nm) ==
  LET nid == LookForName(nm)
      id  == store[nlib + nid]
  IN /\ Scanning /\ nid > Len(Prefill)
     /\ \/ /\ id = Id("label", 0)
           /\ store' = [store EXCEPT ![nlib + nid] = Id("address", 0)]
           /\ UNCHANGED <<klib, nlib, open>>
        \/ /\ id[2] = "future" /\ id[3] \in open
           /\ FillFutureList(id[3], NameListEnd)
           /\ store' = WithFuture(id[3], NameListEnd)
           /\ open' = open \ {id[3]}
     /\ UNCHANGED <<rnsb, plib, phase, stopped, source, rnsd, flib, flsc, klsc, nlsc,
                    place, scopes, vlam, intro, walk>>

-----------------------------------------------------------------------------
(* Before a block an order is produced that leads past it, to a place yet  *)
(* to be filled.  intro_new_block: the names of the two sublists of the    *)
(* block are moved from the prescan list to the name list.                 *)
EnterBlock ==
  /\ Scanning /\ ~ vlam
  /\ toCome # << >> /\ toCome' = Tail(toCome)
  /\ flsc < MaxFutures /\ open' = open \cup {flsc} /\ flsc' = flsc + 1
  /\ scopes' = Append(scopes, [names |-> nlsc, place |-> flsc])
  /\ vlam' = (Head(toCome) # "for")
  /\ intro' = [i |-> plib + 1, part |-> 0]
  /\ plib' = store[plib][2] /\ phase' = "intro"
  /\ UNCHANGED <<store, rnsb, stopped, prescanVars, rnsd, flib, klib, nlib, klsc, nlsc,
                 place, walk>>

(* The word says whether a second one follows, which goes first. *)
IntroName ==
  LET w == store[intro.i]
      long == IsLong(w)
      ws == (IF long THEN <<store[intro.i + 1]>> ELSE << >>) \o <<w, Id("label", 0)>>
      next == intro.i + (IF long THEN 2 ELSE 1)
  IN /\ phase = "intro" /\ ~ stopped /\ intro.i # plib
     /\ IF NameListEnd + Len(ws) > next
        THEN Stop
        ELSE /\ store' = With(store, NameListEnd, ws)
             /\ nlsc' = nlsc + Len(ws)
             /\ intro' = [intro EXCEPT !.i = next]
             /\ UNCHANGED <<rnsb, plib, phase, stopped, source, rnsd, flib, klib, nlib,
                            flsc, klsc, open, place, scopes, vlam, walk>>

IntroSublist ==
  /\ phase = "intro" /\ ~ stopped /\ intro.i = plib
  /\ IF intro.part = 0
     THEN /\ intro' = [i |-> plib + 1, part |-> 1]
          /\ plib' = store[plib][2] /\ UNCHANGED phase
     ELSE /\ phase' = "scan" /\ intro' = [i |-> 0, part |-> 0] /\ UNCHANGED plib
  /\ UNCHANGED <<store, rnsb, stopped, source, rnsd, lists, open, place, scopes, vlam,
                 walk>>

(* The end of a block, a procedure or a for statement: its names go, and   *)
(* the place of the order before it gets its value.                        *)
ExitBlock ==
  LET scope == scopes[Len(scopes)]
      end   == nlib + scope.names
  IN /\ Scanning /\ ~ vlam /\ scopes # << >>
     /\ nlsc' = scope.names
     /\ scopes' = SubSeq(scopes, 1, Len(scopes) - 1)
     /\ FillFutureList(scope.place, end) /\ store' = WithFuture(scope.place, end)
     /\ open' = open \ {scope.place}
     /\ UNCHANGED <<rnsb, plib, phase, stopped, source, rnsd, flib, flsc, klsc, place, vlam,
                    intro, walk>>

-----------------------------------------------------------------------------
(* reservation_of_arrays: twice over the entries of the block, first for   *)
(* the value arrays, then for all arrays; rlab and rlaa are addresses.     *)
ReservationOfArrays ==
  /\ Scanning /\ vlam
  /\ vlam' = FALSE
  /\ walk' = [pass |-> 1, rlab |-> NameListEnd,
             rlaa |-> nlib + scopes[Len(scopes)].names]
  /\ phase' = "walk"
  /\ UNCHANGED <<store, rnsb, plib, stopped, source, rnsd, lists, open, place, scopes,
                 intro>>

Reserved(pass) == IF pass = 1 THEN {"value array"} ELSE {"array", "value array"}

(* What a word that is not an id would mean here is left open. *)
MayBeArray(w, pass) == IF w[1] = "id" THEN {w[2] \in Reserved(pass)} ELSE BOOLEAN

WalkEntry ==
  /\ phase = "walk" /\ ~ stopped
  /\ walk.rlab # walk.rlaa /\ walk.rlab - 3 \in Address
  /\ \E array \in MayBeArray(store[walk.rlab - 1], walk.pass), full \in BOOLEAN :
       LET st1 == IF full THEN WithStream(store) ELSE store
           st2 == IF array /\ walk.pass = 1
                  THEN [st1 EXCEPT ![walk.rlab - 1] = Id("value array", 1)] ELSE st1
       IN /\ full => array
          /\ Overtakes /\ full => ShiftedWalk
          /\ IF full THEN StreamWord ELSE UNCHANGED <<rnsb, rnsd, flib, klib, nlib>>
          /\ store' = st2
          /\ walk' = [walk EXCEPT !.rlab = BelowEntry(st2, @)]
  /\ UNCHANGED <<plib, phase, stopped, source, flsc, klsc, nlsc, open, place, scopes,
                 vlam, intro>>

WalkPass ==
  /\ phase = "walk" /\ ~ stopped /\ walk.rlab = walk.rlaa
  /\ IF walk.pass = 1
     THEN walk' = [walk EXCEPT !.pass = 2, !.rlab = NameListEnd] /\ UNCHANGED phase
     ELSE walk' = NoWalk /\ phase' = "scan"
  /\ UNCHANGED <<store, rnsb, plib, stopped, source, rnsd, lists, open, place, scopes,
                 vlam, intro>>

-----------------------------------------------------------------------------
(* The calls of stop of the operations above. *)
StoreTooSmall ==
  /\ \/ StreamOverflow
     \/ \E p \in open \ BlockPlaces : ~ FutureRoom(p, NameListEnd)
     \/ /\ scopes # << >>
        /\ LET scope == scopes[Len(scopes)]
           IN ~ FutureRoom(scope.place, nlib + scope.names)
     \/ klib + klsc = nlib /\ NoRoom(ListShift)
     \/ \E c \in Constant : ~ ConstantRoom(c) /\ NoRoom(ListShift)
     \/ \E nm \in Name : NameListEnd + Size(nm) > plib
  /\ Scanning
  /\ Stop

Next ==
  \/ PrescanNext /\ UNCHANGED scanVars
  \/ MainScan
  \/ TakeText \/ BitStringMaker \/ ReserveFuture
  \/ \E p \in open : ResolveFuture(p)
  \/ \E c \in Constant : LookForConstant(c)
  \/ \E c \in Constant : FillConstantList(c[1])
  \/ \E nm \in Name :
       \/ \E kind \in {"simple", "array", "value array"} : FillNameList(nm, kind)
       \/ TestFirstOccurrence(nm) \/ LabelDeclaration(nm)
  \/ EnterBlock \/ IntroName \/ IntroSublist \/ ExitBlock
  \/ ReservationOfArrays \/ WalkEntry \/ WalkPass
  \/ StoreTooSmall

Spec == Init /\ [][Next]_vars

-----------------------------------------------------------------------------
(* The regions of the store lie apart and in this order, with a word       *)
(* between the object program and the text it has still to be made from.   *)
(* In the prescan nothing but the reader looks at the room there is.       *)
RegionsApart ==
  IF phase = "prescan" THEN rnsb < plib
  ELSE /\ Bim <= rnsb /\ rnsb < rnsd /\ rnsd <= flib /\ flib < klib
       /\ klib + klsc <= nlib
       /\ NameListEnd <= (IF phase = "intro" THEN intro.i ELSE plib)
       /\ (phase = "intro" => intro.i <= plib) /\ plib <= Plie

(* A name is listed under the innermost block that contains it.            *)
InnermostBlock ==
  phase = "prescan" /\ closed = "nothing" => bc = nest[Len(nest)][2]

(* A constant keeps its place in the list, where orders refer to it.       *)
ConstantsStay ==
  [][phase # "prescan" => \A i \in 0 .. klsc - 1 : store'[klib' + i] = store[klib + i]]_vars

(* The ends of the entries of the name list, from the end downwards.       *)
EntryEnds ==
  LET ends[a \in Int] ==
        IF a <= nlib THEN {a} ELSE {a} \cup ends[BelowEntry(store, a)]
  IN ends[NameListEnd]

(* reservation_of_arrays sees the entries of the block and no other words. *)
WalkInStep ==
  phase = "walk" =>
    /\ walk.rlaa = nlib + scopes[Len(scopes)].names
    /\ walk.rlab \in EntryEnds /\ walk.rlaa \in EntryEnds
=============================================================================
