------------------------------ MODULE MainScan ------------------------------
(***************************************************************************)
(* The main scan of the compiler (main_scan of x1algc.c) over the text of  *)
(* one statement: one pass from left to right, one action per delimiter,   *)
(* that puts orders in the object program and keeps on the T-list what is  *)
(* still to be done.  Text has no declarations, labels or for statements:  *)
(* the lists of names are in CompilerStore, the blocks in PrescanList and  *)
(* the for statement in ForProgram.                                        *)
(*                                                                         *)
(* The state of the scan is a record with the compiler's own names:        *)
(*   at      how far the text has been read; dl the last delimiter         *)
(*   word    the operand before dl (nid, id), with nflag, pflag, jflag and *)
(*           fflag; held after a switch designator, read as one operand    *)
(*   tlist   the T-list; a delimiter stands on it as 256 * oh + dl         *)
(*   result  the orders (rlsc is their number)                             *)
(*   future  the places of the future list (flsc is their number)          *)
(***************************************************************************)
EXTENDS AlgolText

CONSTANT SignAfterLogical  \* whether a text may have a minus after a logical operator

VARIABLES cast, statement, text, scan

scanVars == <<cast, statement, text, scan>>

-----------------------------------------------------------------------------
(* What the name list has on a word: static or dynamic address, the type   *)
(* integer (or Boolean), formal parameter, procedure, label or switch.     *)
Kind(w)    == cast.words[w]
Dynamic(w) == Kind(w) \in {"real", "integer", "formal", "array", "formal array",
                           "formal function", "formal label"}
Integer(w) == Kind(w) \in {"integer", "constant", "static array"}
Formal(w)  == Kind(w) \in {"formal", "formal array", "formal function", "formal label"}
IsProc(w)  == Kind(w) \in Functions \cup Standard
IsLabel(w) == Kind(w) \in Labels
IsStandard(w) == Kind(w) \in Standard

Flag(b) == IF b THEN 1 ELSE 0

Open == -1

Delimiter(oh, dl) == 256 * oh + dl
Oh(entry) == (entry \div 256) % 16
Dl(entry) == entry % 256

(* The entry of a standard function, which binds stronger than any         *)
(* operator; procedures (print, ...) have the numbers after those.         *)
StandardEntry(w) == Delimiter(12, w + IF Kind(w) = "standard function" THEN 132 ELSE 141)

-----------------------------------------------------------------------------
(***************************************************************************)
(* The lists.                                                              *)
(***************************************************************************)
Top(s)         == s.tlist[Len(s.tlist)]
Below(s)       == s.tlist[Len(s.tlist) - 1]
Push(s, e)     == [s EXCEPT !.tlist = Append(@, e)]
Drop(s, n)     == [s EXCEPT !.tlist = SubSeq(@, 1, Len(@) - n)]

(* unload_t_list_element into a flag. *)
Unload(s, flag) == Drop([s EXCEPT ![flag] = Top(s)], 1)

rlsc(s)        == Len(s.result)
Emit(s, what, arg) == [s EXCEPT !.result = Append(@, [what |-> what, arg |-> arg])]
Opc(s, n)      == Emit(s, "OPC", n)

(* A place of the future list: reserved (flsc), jumped to, filled. *)
flsc(s)        == Len(s.future) + 1
Reserve(s)     == [s EXCEPT !.future = Append(@, Open)]
FillFuture(s, place) == [s EXCEPT !.future[place] = rlsc(s)]

(* The address of the operand, in S when dynamic and in B when static. *)
AddressToRegister(s) == Emit(s, IF Dynamic(s.word) THEN "2S" ELSE "2B", s.word)

GenerateAddress(s) ==
  Opc(AddressToRegister(s),
      IF Formal(s.word) THEN 18
      ELSE 14 + Flag(~Dynamic(s.word)) + 2 * Flag(Integer(s.word)))

-----------------------------------------------------------------------------
(***************************************************************************)
(* production_of_object_program(oh): the operand before the delimiter, if  *)
(* there is one, then every operator on the T-list that binds at least as  *)
(* strongly as oh.                                                         *)
(***************************************************************************)
Transmark(s) == Opc(s, 2 * s.fflag - s.eflag + 9)

ProcedureStatement(s) ==
  IF IsStandard(s.word) THEN Push(s, StandardEntry(s.word)) ELSE AddressToRegister(s)

(* Not the code: an operator of any strength takes the operand before it. *)
TakeVariableAtOnce(s, oh) ==
  LET combines == Dl(Top(s)) \in 64 .. 67
      operator == IF combines THEN Dl(Top(s)) ELSE 63
      order    == IF s.fflag = 1 THEN 5 * operator - 280
                  ELSE 5 * operator - 284 + Flag(~Dynamic(s.word)) + 2 * Flag(Integer(s.word))
  IN  Opc(AddressToRegister(IF combines THEN Drop(s, 1) ELSE s), order)

(* A variable: taken, or combined at once with + - * or / on the T-list. *)
TakeVariable(s, oh) ==
  LET combines == oh <= Oh(Top(s)) /\ Dl(Top(s)) \in 64 .. 67
      operator == IF combines THEN Dl(Top(s)) ELSE 63
      order    == IF s.fflag = 1 THEN 5 * operator - 280
                  ELSE 5 * operator - 284 + Flag(~Dynamic(s.word)) + 2 * Flag(Integer(s.word))
  IN  Opc(AddressToRegister(IF combines THEN Drop(s, 1) ELSE s), order)

(* A jump to a label or switch, first out of the blocks around which it is. *)
TakeLabel(s) ==
  IF s.fflag = 1 THEN Opc(AddressToRegister(s), 35)
  ELSE Emit(IF s.bn = 0 THEN s ELSE Opc(Emit(s, "2B", 0), 28), "2T label", s.word)

(* A call without parameters; a standard function waits on the T-list. *)
TakeProcedure(s) ==
  IF IsStandard(s.word) THEN ProcedureStatement(s)
  ELSE Transmark(Emit(ProcedureStatement(s), "2A", 0))

TakeOperand(s, oh) ==
  LET t == [s EXCEPT !.nflag = 0, !.aflag = 0]
  IN  CASE s.nflag = 1 /\ s.pflag = 1                 -> TakeProcedure(t)
        [] s.nflag = 1 /\ s.pflag = 0 /\ s.jflag = 1  -> TakeLabel(t)
        [] s.nflag = 1 /\ s.pflag = 0 /\ s.jflag = 0  -> TakeVariable(t, oh)
        [] s.nflag = 0 /\ s.aflag = 1                 -> Opc(t, 58)
        [] s.nflag = 0 /\ s.aflag = 0                 -> s

(* The order of an operator of the T-list. *)
OrderOf(operator) ==
  CASE operator \in 64 .. 80   -> operator - 5
    [] operator = 132          -> 57
    [] operator \in 128 .. 131 -> operator - 43
    [] operator \in 133 .. 141 -> operator - 57
    [] operator \in 142 .. 152 -> operator - 40

RECURSIVE Unstack(_, _)
Unstack(s, oh) ==
  LET operator == Dl(Top(s))
      t        == Drop(s, 1)
  IN  IF oh > Oh(Top(s)) THEN s
      ELSE IF operator \in {130, 131}
           THEN Unstack(Opc(Emit(Drop(t, 1), "2B", Top(t)), OrderOf(operator)), oh)
           ELSE Unstack(Opc(t, OrderOf(operator)), oh)

Produce(s, oh) == Unstack(TakeOperand(s, oh), oh)

(* thenelse: the end of what follows a then or an else. *)
Closing(s) == Top(s) % 255 \in {then, else}
ThenElse(s) ==
  LET t == Drop(s, 1) IN Unload(Drop(FillFuture(t, Top(t)), 1), "eflag")

(* do production_of_object_program(1); while (thenelse()); *)
RECURSIVE ThroughThenElse(_)
ThroughThenElse(s) ==
  LET t == Produce(s, 1) IN IF Closing(t) THEN ThroughThenElse(ThenElse(t)) ELSE t

EmptyTListThroughThenElse(s) == ThroughThenElse([s EXCEPT !.oflag = 1])

-----------------------------------------------------------------------------
(***************************************************************************)
(* The delimiters, by their labels in main_scan.                           *)
(***************************************************************************)
L64(s) ==  \* + -
  CASE s.oflag = 0                    -> Push(Produce(s, 9), Delimiter(9, s.dl))
    [] s.oflag = 1 /\ s.dl = minus    -> Push(s, Delimiter(10, 132))
    [] s.oflag = 1 /\ s.dl = plus     -> s

L66(s) == Push(Produce(s, 10), Delimiter(10, s.dl))  \* x / :

L69(s) == Push(Produce(s, 11), Delimiter(11, s.dl))  \* power

L70(s) ==  \* the relations
  Push(Produce([s EXCEPT !.oflag = 1], 8), Delimiter(8, s.dl))

L76(s) ==  \* not, and, or, implies, same
  IF s.dl = not THEN Push([s EXCEPT !.oflag = 1], Delimiter(7, not))
  ELSE Push(Produce(s, 83 - s.dl), Delimiter(83 - s.dl, s.dl))

L81(s) == s  \* goto

L82(s) ==  \* if
  Push([Push(s, s.eflag) EXCEPT !.eflag = 1, !.oflag = 1], Delimiter(0, if))

(* A place for the end of what follows then or else (L8301). *)
L8301(s, dl) == Push([Reserve(Push(s, flsc(s))) EXCEPT !.oflag = 1], Delimiter(0, dl))

L83(s) ==  \* then
  LET t == Drop(ThroughThenElse(s), 1)
      u == Opc([t EXCEPT !.eflag = Top(t)], 30)
  IN  L8301(Emit(u, "N2T", flsc(u)), then)

RECURSIVE L84(_)
L84(s) ==  \* else
  LET t == Produce(s, 1)
      u == Emit(t, "2T", flsc(t))
  IN  IF Dl(Top(t)) = else /\ Closing(t) THEN L84(ThenElse(t))
      ELSE IF Closing(u) THEN L8301(Push(ThenElse(u), ThenElse(u).eflag), else)
      ELSE L8301(u, else)

L92(s) ==  \* :=
  LET also == s.eflag
      t    == [s EXCEPT !.oflag = 1, !.eflag = 1]
  IN  IF s.pflag = 1 THEN Push(Push(t, s.word), Delimiter(2, 130 + also))
      ELSE Push(IF s.nflag = 1 THEN GenerateAddress(t) ELSE t, Delimiter(2, 128 + also))

(* Not the code: aflag is left from the parameter before. *)
NextParameter(s) == Push(Push(s, rlsc(s)), Delimiter(0, comma))

(* The next actual parameter (L9804). *)
L9804(s) == Push([Push(s, rlsc(s)) EXCEPT !.aflag = 0], Delimiter(0, comma))

Bracket(s) == Push([Push(s, s.mflag) EXCEPT !.mflag = 0], Delimiter(0, open))

L98(s) ==  \* (
  LET called == Emit(ProcedureStatement(s), "2T", flsc(s))
      kept   == <<s.iflag, s.mflag, s.eflag, s.fflag, flsc(s), Delimiter(0, open)>>
  IN  IF s.pflag = 0 THEN Bracket([s EXCEPT !.oflag = 1])
      ELSE IF IsStandard(s.word)
      THEN Bracket([ProcedureStatement(s) EXCEPT !.oflag = 1, !.eflag = 1])
      ELSE L9804([Reserve(called) EXCEPT
                    !.tlist = @ \o kept, !.oflag = 1, !.iflag = 0, !.mflag = 1, !.eflag = 1,
                    !.bn = @ + 1])

L100(s) ==  \* [
  LET kept == <<s.eflag, s.iflag, s.mflag, s.fflag, s.jflag, s.word, Delimiter(0, sub)>>
      t    == [s EXCEPT !.tlist = @ \o kept, !.oflag = 1, !.eflag = 1, !.iflag = 1, !.mflag = 0]
  IN  IF s.jflag = 0 THEN GenerateAddress(t) ELSE t

RECURSIVE UnloadAll(_, _)
UnloadAll(s, flags) ==
  IF flags = << >> THEN s ELSE UnloadAll(Unload(s, flags[1]), Tail(flags))

L101(s) ==  \* ]
  LET t == UnloadAll(Drop(ThroughThenElse(s), 1),
                     <<"word", "jflag", "fflag", "mflag", "iflag", "eflag">>)
  IN  IF t.jflag = 0 THEN Opc([t EXCEPT !.aflag = 1], 56)
      ELSE Opc([t EXCEPT !.nflag = 1, !.pflag = 0, !.held = TRUE], 29)

-----------------------------------------------------------------------------
(***************************************************************************)
(* The end of an actual parameter, at a comma or at the closing bracket    *)
(* (L8702).  A name alone becomes a PORD that tells where it is; else what *)
(* has been compiled since the last comma is an implicit subroutine, that  *)
(* ends with EIS and leaves an address or a value.                         *)
(***************************************************************************)
Pord(s, pord)    == [s EXCEPT !.tlist[Len(s.tlist) - 1] = pord]
NamePord(w)      == [word |-> w]
Subroutine(s, address) == Pord(Opc(s, 13), [from |-> Below(s), address |-> address])

L8703(s) == Subroutine(ThroughThenElse(s), FALSE)

NameAlone(s) == /\ Below(s) = rlsc(s)
                /\ s.jflag = 0
                /\ s.nflag = 1

L8702(s) ==
  CASE Dl(Top(s)) # comma                           -> L8703(s)
    [] Dl(Top(s)) = comma /\ s.aflag = 1            -> Subroutine(s, TRUE)
    [] Dl(Top(s)) = comma /\ s.aflag = 0 /\ ~NameAlone(s) -> L8703(s)
    [] Dl(Top(s)) = comma /\ s.aflag = 0 /\ NameAlone(s)  ->
         IF IsStandard(s.word) THEN L8703(Opc(s, 98)) ELSE Pord(s, NamePord(s.word))

(* The PORDs, the last one first, and the call (production of PORDs). *)
RECURSIVE Pords(_, _)
Pords(s, psta) ==
  IF Dl(Top(s)) = comma THEN Pords(Emit(Drop(s, 2), "PORD", Below(s)), psta + 1)
  ELSE LET t == Drop(s, 1) IN Emit(Drop(FillFuture(t, Top(t)), 1), "2A", psta)

(* Not the code: the parameter list remains a block. *)
InParameterList(s) ==
  IF s.dl = comma THEN L9804(s)
  ELSE LET t == UnloadAll(Pords(s, 0), <<"fflag", "eflag">>)
       IN  UnloadAll([Transmark(t) EXCEPT !.aflag = 0], <<"mflag", "iflag">>)

L8704(s) ==
  IF s.dl = comma THEN L9804(s)
  ELSE LET t == UnloadAll([Pords(s, 0) EXCEPT !.bn = @ - 1], <<"fflag", "eflag">>)
       IN  UnloadAll([Transmark(t) EXCEPT !.aflag = 0], <<"mflag", "iflag">>)

L87(s) ==  \* ,
  LET t == [s EXCEPT !.oflag = 1]
  IN  IF s.iflag = 1 THEN ThroughThenElse(t) ELSE L8704(L8702(t))

L99(s) ==  \* )
  IF s.mflag = 1 THEN L8704(L8702(s))
  ELSE Unload(Drop(ThroughThenElse(s), 1), "mflag")

L104(s) == Push(s, Delimiter(0, begin))

L105(s) ==  \* ; end
  LET t == [EmptyTListThroughThenElse(s) EXCEPT !.eflag = 0]
  IN  IF s.dl = semicolon THEN t
      ELSE [Drop(t, 1) EXCEPT !.done = Len(t.tlist) = 1]

-----------------------------------------------------------------------------
(***************************************************************************)
(* The scan.  read_until_next_delimiter takes one operand, if there is     *)
(* one, and the delimiter after it; look_for_name sets the flags.          *)
(***************************************************************************)
IsWord(symbol) == symbol < plus

Read(s) ==
  LET symbol == text[s.at]
  IN  IF s.held THEN [s EXCEPT !.at = @ + 1, !.dl = symbol, !.held = FALSE]
      ELSE IF IsWord(symbol)
      THEN [s EXCEPT !.at = @ + 2, !.dl = text[s.at + 1], !.word = symbol, !.nflag = 1,
                     !.oflag = 0, !.pflag = Flag(IsProc(symbol)),
                     !.jflag = Flag(IsLabel(symbol)), !.fflag = Flag(Formal(symbol))]
      ELSE [s EXCEPT !.at = @ + 1, !.dl = symbol, !.nflag = 0,
                     !.pflag = 0, !.jflag = 0, !.fflag = 0]

Start ==
  [at |-> 1, dl |-> begin, word |-> 0, held |-> FALSE, done |-> FALSE, bn |-> 0,
   tlist |-> <<Delimiter(0, begin)>>, result |-> << >>, future |-> << >>,
   nflag |-> 0, pflag |-> 0, jflag |-> 0, fflag |-> 0, aflag |-> 0, eflag |-> 0,
   oflag |-> 0, mflag |-> 0, iflag |-> 0]

NoSignAfterLogical(symbols) ==
  \A p \in 1 .. Len(symbols) - 1 : ~(symbols[p] \in 77 .. 80 /\ symbols[p + 1] = minus)

ScanInit ==
  /\ cast \in Casts
  /\ statement \in Statements(cast)
  /\ text = Text(statement) \o <<end>>
  /\ SignAfterLogical \/ NoSignAfterLogical(text)
  /\ scan = Start

At(delimiters) == ~scan.done /\ Read(scan).dl \in delimiters

Scanned(s) == scan' = s /\ UNCHANGED <<cast, statement, text>>

PlusOrMinus  == At({plus, minus}) /\ Scanned(L64(Read(scan)))
Multiply     == At(66 .. 68) /\ Scanned(L66(Read(scan)))
Power        == At({69}) /\ Scanned(L69(Read(scan)))
Relation     == At(70 .. 75) /\ Scanned(L70(Read(scan)))
Logical      == At(not .. 80) /\ Scanned(L76(Read(scan)))
GoTo         == At({goto}) /\ Scanned(L81(Read(scan)))
If           == At({if}) /\ Scanned(L82(Read(scan)))
Then         == At({then}) /\ Scanned(L83(Read(scan)))
Else         == At({else}) /\ Scanned(L84(Read(scan)))
Comma        == At({comma}) /\ Scanned(L87(Read(scan)))
Becomes      == At({becomes}) /\ Scanned(L92(Read(scan)))
OpenBracket  == At({open}) /\ Scanned(L98(Read(scan)))
CloseBracket == At({close}) /\ Scanned(L99(Read(scan)))
Sub          == At({sub}) /\ Scanned(L100(Read(scan)))
Bus          == At({bus}) /\ Scanned(L101(Read(scan)))
Begin        == At({begin}) /\ Scanned(L104(Read(scan)))
End          == At({semicolon, end}) /\ Scanned(L105(Read(scan)))

ScanNext ==
  \/ PlusOrMinus \/ Multiply \/ Power \/ Relation \/ Logical
  \/ GoTo \/ If \/ Then \/ Else \/ Comma \/ Becomes
  \/ OpenBracket \/ CloseBracket \/ Sub \/ Bus \/ Begin \/ End
=============================================================================
