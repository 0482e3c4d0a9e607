---------------------------- MODULE ObjectStream ----------------------------
(***************************************************************************)
(* The object program as a stream of bits, between the compiler and the    *)
(* program loader (x1algc.c), and between objfile.cc and the loader.       *)
(*                                                                         *)
(* One order after the other is written as a few bit strings, the frequent *)
(* ones short.  The codes of an order are written one above the other and  *)
(* taken from the top, so the last one written is the first one read, its  *)
(* highest bit first.  An order is an OPC of 8 and more, or a word of the  *)
(* X1 - a mask of 12 bits and an address of 15 - whose OPC of 0 to 3 says  *)
(* what is to be added to the address when the program is loaded.          *)
(*                                                                         *)
(* The writer fills words of 27 bits from below.  The reader takes the     *)
(* words in the opposite order, in heptades from the top - 6, 7, 7 and 7   *)
(* bits - and keeps a stock of 21 to 27 bits, so that the longest field    *)
(* can be seen before it is known how long it is.                          *)
(*                                                                         *)
(* A library tape has a byte for each heptade; the first one of a word has *)
(* a seventh bit that makes the number of ones in the four bytes odd.      *)
(***************************************************************************)
EXTENDS Integers, Sequences, SequencesExt, FiniteSets

Order(opc, word) == [opc |-> opc, word |-> word]

Mask(word)    == word \div 2^15
Address(word) == word % 2^15

Code(n, v) == [len |-> n, bits |-> v]

-----------------------------------------------------------------------------
(* The codes written.  An address is three groups of 5 bits, lowest first.  *)
LowCode(x) ==
  CASE x = 1        -> Code(2, 0)
    [] x \in {2, 3} -> Code(3, x)
    [] OTHER        -> Code(6, 32 + x)

(* Not the code: the gap at 3 is forgotten. *)
MiddleCodeNoGap(x) ==
  CASE x = 0      -> Code(2, 0)
    [] x \in 1..4 -> Code(4, 3 + x)
    [] OTHER      -> Code(6, 32 + x)

MiddleCode(x) ==
  CASE x = 0        -> Code(2, 0)
    [] x \in {1, 2} -> Code(4, 3 + x)
    [] x \in {4, 5} -> Code(4, 2 + x)
    [] OTHER        -> Code(6, 32 + x)

HighCode(x) == IF x = 0 THEN Code(1, 0) ELSE Code(6, 32 + x)

AddressCoder(a) ==
  <<LowCode(a % 32), MiddleCode((a \div 32) % 32), HighCode((a \div 1024) % 32)>>

(* The words that have a code of their own, with the OPC in the place of   *)
(* the address: 2S 0 A, 2B 3 A, 2T 2X0, ...                                *)
FrequentWords ==
  <<21495808, 71827459, 88080386, 71827456, 4718592, 71303170, 88604673, 0,
    524291, 88178690, 71827457, 1048577, 20971522, 4784128, 8388608, 4390912,
    13172736, 1572865, 524288>>

FrequentCode(k) ==
  CASE k \in 1 .. 2 -> Code(3, 3 + k)
    [] k \in 3 .. 4 -> Code(4, 9 + k)
    [] OTHER        -> Code(7, 107 + k)

MaskCodes(opc, word) ==
  LET w == Mask(word) * 2^15 + opc
  IN IF w \in Range(FrequentWords)
     THEN <<FrequentCode(CHOOSE k \in DOMAIN FrequentWords : FrequentWords[k] = w)>>
     ELSE AddressCoder(Mask(word) + opc * 2^12) \o <<Code(7, 127)>>

(* The operations with a short code, by its length; the others up to 61    *)
(* are numbered through.                                                   *)
ShortOpc == [n \in 4 .. 7 |->
  CASE n = 4 -> <<33, 34>>
    [] n = 5 -> <<16, 56, 58, 85>>
    [] n = 6 -> <<9, 14, 18, 30>>
    [] n = 7 -> <<13, 17, 19, 20, 31, 35, 39, 61>>]

FirstShort == [n \in 4 .. 7 |-> CASE n = 4 -> 0 [] n = 5 -> 4 [] n = 6 -> 16 [] n = 7 -> 40]

HasShort(opc) == \E n \in 4 .. 7 : opc \in Range(ShortOpc[n])

ShortCode(opc) ==
  LET n == CHOOSE k \in 4 .. 7 : opc \in Range(ShortOpc[k])
      i == CHOOSE k \in DOMAIN ShortOpc[n] : ShortOpc[n][k] = opc
  IN Code(n, FirstShort[n] + i - 1)

LongCode(opc) ==
  IF opc <= 61 THEN Code(10, 384 + Cardinality({p \in 8 .. opc - 1 : ~ HasShort(p)}))
               ELSE Code(10, opc + 359)

OpcCode(opc) == IF HasShort(opc) THEN ShortCode(opc) ELSE LongCode(opc)

(* fill_result_list *)
OrderCodes(o) ==
  IF o.opc < 8 THEN AddressCoder(Address(o.word)) \o MaskCodes(o.opc, o.word)
               ELSE <<OpcCode(o.opc)>>

-----------------------------------------------------------------------------
(* The codes read.  w is the stock: 27 bits, the highest first.            *)
Top(w, n)  == w \div 2^(27 - n)
Rest(w, n) == (w % 2^(27 - n)) * 2^n

Field(n, v) == [len |-> n, val |-> v]

HighField(w) ==
  IF Top(w, 1) = 0 THEN Field(1, 0) ELSE Field(6, Top(w, 6) - 32)

MiddleField(w) ==
  CASE Top(w, 2) = 0 -> Field(2, 0)
    [] Top(w, 2) = 1 -> Field(4, Top(w, 4) - (IF Top(w, 4) < 6 THEN 3 ELSE 2))
    [] OTHER         -> Field(6, Top(w, 6) - 32)

LowField(w) ==
  CASE Top(w, 2) = 0 -> Field(2, 1)
    [] Top(w, 2) = 1 -> Field(3, Top(w, 3))
    [] OTHER         -> Field(6, Top(w, 6) - 32)

(* address_decoding, as far as the stock tells *)
AddressField(w) ==
  LET h == HighField(w)
      m == MiddleField(Rest(w, h.len))
      l == LowField(Rest(Rest(w, h.len), m.len))
  IN Field(h.len + m.len + l.len, (h.val * 32 + m.val) * 32 + l.val)

(* read_mask: the masks with a code of their own, with the OPC above them. *)
FrequentMasks ==
  <<656, 14480, 10880, 2192, 144, 10368, 6800, 0, 12304, 10883, 6288, 4128,
    8832, 146, 256, 134, 402, 4144, 16>>

(* The place of the mask in FrequentMasks, from 0; 19 if it has none. *)
MaskField(w) ==
  CASE Top(w, 1) = 0 -> Field(2, Top(w, 2))
    [] Top(w, 2) = 2 -> Field(3, Top(w, 3) - 2)
    [] OTHER         -> Field(6, Top(w, 6) - 44)

(* read_binary_word, for an OPC of 8 and more *)
OpcTable ==
  <<33, 34, 16, 56, 58, 85, 9, 14, 18, 30, 13, 17, 19, 20, 31, 35, 39, 61,
    8, 10, 11, 12, 15>> \o [i \in 1 .. 9 |-> 20 + i] \o <<32, 36, 37, 38>>
    \o [i \in 1 .. 16 |-> 39 + i] \o <<57, 59, 60>> \o [i \in 1 .. 51 |-> 61 + i]

OpcLength(w) ==
  CASE Top(w, 3) = 0 -> 4
    [] Top(w, 3) = 1 -> 5
    [] Top(w, 4) = 4 -> 6
    [] Top(w, 4) = 5 -> 7
    [] OTHER         -> 10

(* 7 words of the table are not filled; what lies behind it is anything.   *)
Unknown == -1

OpcAt(i) ==
  CASE i < Len(OpcTable)     -> OpcTable[i + 1]
    [] i \in Len(OpcTable) .. 112 -> 0
    [] OTHER                 -> Unknown

(* Not the code: the codes of 5 bits are taken to follow those of 4. *)
OpcOfGap(c) ==
  OpcAt(CASE c < 8  -> c
          [] c \in 8 .. 23  -> c - 10
          [] c \in 24 .. 47 -> c - 30
          [] OTHER  -> c - 366)

OpcOf(c) ==
  OpcAt(CASE c < 2  -> c
          [] c \in 2 .. 7   -> c - 2
          [] c \in 8 .. 23  -> c - 10
          [] c \in 24 .. 47 -> c - 30
          [] OTHER  -> c - 366)

-----------------------------------------------------------------------------
(* The word at the end of each list: 6 ones and 21 zeros. *)
Terminator == 63 * 2^21

-----------------------------------------------------------------------------
(* Writing: the words that are full, and the one being filled. *)
EmptyStream == [words |-> << >>, stock |-> 0, count |-> 0]

(* Not the code: a code that just fills the word is split as well, and the *)
(* bits that do not fit are lost.                                          *)
BitStringMakerDrops(s, c) ==
  LET room  == 27 - s.count
      stock == s.stock + (c.bits % 2^room) * 2^s.count
  IN IF c.len <= room
     THEN [s EXCEPT !.stock = stock, !.count = s.count + c.len]
     ELSE [words |-> Append(s.words, stock), stock |-> 0, count |-> c.len - room]

BitStringMaker(s, c) ==
  LET room  == 27 - s.count
      stock == s.stock + (c.bits % 2^room) * 2^s.count
  IN IF c.len <= room
     THEN [s EXCEPT !.stock = stock, !.count = s.count + c.len]
     ELSE [words |-> Append(s.words, stock),
           stock |-> c.bits \div 2^room, count |-> c.len - room]

RECURSIVE Put(_, _)
Put(s, codes) ==
  IF codes = << >> THEN s ELSE Put(BitStringMaker(s, Head(codes)), Tail(codes))

(* The object program, ready to be loaded: its last word is not stored.    *)
FillResultList(s, o) == Put(s, OrderCodes(o))

RECURSIVE WrittenTo(_, _)
WrittenTo(s, orders) ==
  IF orders = << >> THEN s ELSE WrittenTo(FillResultList(s, Head(orders)), Tail(orders))

Written(orders) == WrittenTo(EmptyStream, orders)

(* objfile.cc, which has its own copies of the operations above: a library *)
(* procedure m ends with its number, its length and a one, and zeros that  *)
(* fill the last word.                                                     *)
McpOrders(m) == Written(m.orders)

Digits(n) == [i \in 1 .. 13 |-> Code(1, (n \div 2^(i - 1)) % 2)]

McpWords(m) ==
  LET s == Put(McpOrders(m), Digits(m.number) \o Digits(Len(m.orders)) \o <<Code(1, 1)>>)
  IN <<Terminator>> \o s.words \o <<s.stock>>

Ones(w) ==
  LET n[k \in Nat] == IF k = 0 THEN 0 ELSE n[k \div 2] + (k % 2) IN n[w]

(* Not the code: an even number of ones. *)
EvenParity(w) == Ones(w) % 2

OddParity(w) == 1 - (Ones(w) % 2)

Bytes(w) ==
  <<(w \div 2^21) * 2 + OddParity(w), (w \div 2^14) % 128, (w \div 2^7) % 128, w % 128>>

(* The procedure as punched: its last word first, behind the letter D. *)
D == 30

RECURSIVE Punched(_)
Punched(words) ==
  IF words = << >> THEN << >> ELSE Punched(Tail(words)) \o Bytes(Head(words))

McpTape(m) == <<D>> \o Punched(McpWords(m))

-----------------------------------------------------------------------------
(* Reading.  A reader has the stock, 21 minus the number of bits in it     *)
(* (lack), the word being taken apart and the number of the last heptade   *)
(* taken from it (-3 to 0), the address of that word, the bytes of the     *)
(* tape that are still to come, the number of ones in the last four bytes, *)
(* and what has gone wrong.                                                *)
NewReader(lack, stock, at, from, tape) ==
  [lack |-> lack, stock |-> stock, heptade |-> 0, word |-> 0, at |-> at,
   from |-> from, tape |-> tape, ones |-> 1, fault |-> "none"]

(* The part of the stock a heptade of the store gives. *)
StoreHeptade(r, st) ==
  IF r.heptade = 0
  THEN LET w == st[r.at - 1]
       IN [r EXCEPT !.at = r.at - 1, !.heptade = -3, !.word = (w % 2^21) * 64,
                    !.stock = r.stock + (w \div 2^21) * 2^r.lack,
                    !.lack = r.lack - 6]
  ELSE [r EXCEPT !.heptade = r.heptade + 1, !.word = (r.word % 2^20) * 128,
                 !.stock = r.stock + (r.word \div 2^20) * 2^(r.lack - 1),
                 !.lack = r.lack - 7]

(* Not the code: no parity. *)
TapeHeptadeUnchecked(r) ==
  IF r.tape = << >> THEN [r EXCEPT !.fault = "unexpected end of tape"]
  ELSE LET b     == Head(r.tape)
           first == r.heptade = 0
       IN [r EXCEPT !.tape = Tail(r.tape),
                    !.heptade = IF first THEN -3 ELSE r.heptade + 1,
                    !.stock = r.stock + (IF first THEN (b \div 2) * 2^r.lack ELSE b * 2^(r.lack - 1)),
                    !.lack = r.lack - (IF first THEN 6 ELSE 7)]

(* ... and a byte of the tape.  The parity of four bytes is looked at when *)
(* the next one comes.                                                     *)
TapeHeptade(r) ==
  IF r.tape = << >> THEN [r EXCEPT !.fault = "unexpected end of tape"]
  ELSE LET b == Head(r.tape)
       IN IF r.heptade = 0
          THEN IF r.ones % 2 = 0 THEN [r EXCEPT !.fault = "stop 105"]
               ELSE [r EXCEPT !.tape = Tail(r.tape), !.heptade = -3, !.ones = Ones(b),
                              !.stock = r.stock + (b \div 2) * 2^r.lack,
                              !.lack = r.lack - 6]
          ELSE [r EXCEPT !.tape = Tail(r.tape), !.heptade = r.heptade + 1,
                         !.ones = r.ones + Ones(b),
                         !.stock = r.stock + b * 2^(r.lack - 1),
                         !.lack = r.lack - 7]

Heptade(r, st) == IF r.from = "store" THEN StoreHeptade(r, st) ELSE TapeHeptade(r)

(* A field has at most 18 bits: four heptades are always enough. *)
CompleteBitstock(r, st) ==
  LET fill(x) == IF x.lack <= 0 \/ x.fault # "none" THEN x ELSE Heptade(x, st)
  IN fill(fill(fill(fill(r))))

(* read_bit_string: take n bits; they are Top(r.stock, n). *)
Take(r, n, st) ==
  IF r.fault # "none" THEN r
  ELSE CompleteBitstock([r EXCEPT !.stock = Rest(r.stock, n), !.lack = r.lack + n], st)

(* Skip the zeros before a library procedure, and the one that ends them.  *)
RECURSIVE SkipZeros(_, _)
SkipZeros(r, st) ==
  IF r.fault # "none" THEN r
  ELSE IF Top(r.stock, 1) = 1 THEN Take(r, 1, st) ELSE SkipZeros(Take(r, 1, st), st)

(* The reader that begins with what the writer has in its last word. *)
PrepareResult(s, at, st) ==
  CompleteBitstock(NewReader(21 - s.count, s.stock * 2^(27 - s.count), at, "store", << >>), st)

PrepareStore(r, st) ==
  SkipZeros(CompleteBitstock(NewReader(21, 0, r.at, "store", r.tape), st), st)

(* Zeros are run-out tape. *)
SkipBlank(tape) ==
  LET i == {k \in DOMAIN tape : tape[k] # 0}
  IN IF i = {} THEN << >> ELSE SubSeq(tape, CHOOSE k \in i : \A j \in i : k <= j, Len(tape))

PrepareTape(r, st) ==
  LET tape == SkipBlank(r.tape)
      t    == NewReader(21, 0, r.at, "tape", IF tape = << >> THEN << >> ELSE Tail(tape))
  IN CASE tape = << >>   -> [t EXCEPT !.stock = 0]
       [] tape # << >> /\ Head(tape) # D -> [t EXCEPT !.fault = "stop 106"]
       [] OTHER          -> SkipZeros(CompleteBitstock(t, st), st)

(* test_bit_stock *)
AtTerminator(r) == r.stock = Terminator

(* The order that comes next, and the reader after it (read_binary_word    *)
(* without the relocation).                                                *)
NextOpc(r, st) ==
  LET n == OpcLength(r.stock)
  IN [order |-> Order(OpcOf(Top(r.stock, n)), 0), reader |-> Take(r, n, st)]

TakeMask(r, st) ==
  LET f == MaskField(r.stock)
      q == Take(r, f.len, st)
      a == AddressField(q.stock)
  IN IF f.val < 19 THEN [mask |-> FrequentMasks[f.val + 1], reader |-> q]
                   ELSE [mask |-> a.val, reader |-> Take(q, a.len, st)]

NextWord(r, st) ==
  LET m == TakeMask(Take(r, 1, st), st)
      a == AddressField(m.reader.stock)
  IN [order  |-> Order(m.mask \div 2^12, (m.mask % 2^12) * 2^15 + a.val),
      reader |-> Take(m.reader, a.len, st)]

NextOrder(r, st) == IF Top(r.stock, 1) = 0 THEN NextOpc(r, st) ELSE NextWord(r, st)
=============================================================================
