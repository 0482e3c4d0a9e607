--------------------------- MODULE DelimiterReader ---------------------------
(***************************************************************************)
(* read_until_next_delimiter (x1algc.c): what stands before a delimiter,   *)
(* a name, a number or a logical value, becomes the words inw and fnw;     *)
(* dflag tells whether both are in use.  A name keeps its first nine       *)
(* symbols.  A real number is computed with ints: 2W bits in fnw and inw,  *)
(* scaled by 10 as often as its exponent asks for, with bexp counting the  *)
(* powers of 2; then it is rounded to fit two words with its exponent.     *)
(*                                                                         *)
(* The widths of numbers are parameters.  Names have their real width.     *)
(***************************************************************************)
EXTENDS Integers, Sequences

CONSTANTS
  W,       \* bits of a word without its sign: 26
  X,       \* bits of an exponent: 12
  IntBits, \* the host's int: 32
  Numbers, Names, Others  \* what may stand in the text: records with a text

VARIABLES
  item,    \* what is being read
  at,      \* dl is the symbol at this place of its text
  inw, fnw,
  dflag,   \* two words; in a number: after the point, then its exponent
  kflag,   \* a constant
  nflag,   \* anything before the delimiter
  elsc,    \* decimal exponent to be worked off
  bexp,    \* binary exponent
  marker,
  lost,    \* (history) more stood in inw than fits when the number was rounded
  pc

vars == <<item, at, inw, fnw, dflag, kflag, nflag, elsc, bexp, marker, lost, pc>>

plus == 64
minus == 65
point == 88
ten == 89
semicolon == 91
true == 116
false == 117

Digits  == 0 .. 9
Letters == 10 .. 62

dl == item.text[at]

Wrapped(n) == ((n + 2 ^ (IntBits - 1)) % 2 ^ IntBits) - 2 ^ (IntBits - 1)

Flag(b) == IF b THEN 1 ELSE 0

ASSUME ReaderAssumption ==
  /\ X \in 2 .. W /\ W \in Nat /\ IntBits \in Nat
  /\ \A Items \in {Numbers, Names, Others} : \A i \in Items : i.text \in Seq(0 .. 255)

(* A name is a letter, then letters and digits, and a delimiter ends it. *)
ASSUME NameAssumption ==
  /\ \A i \in Numbers \cup Others : i.kind # "name"
  /\ \A i \in Names :
       /\ Len(i.text) > 1 /\ i.text[1] \in Letters
       /\ \A k \in 1 .. Len(i.text) - 1 : i.text[k] \in Digits \cup Letters
       /\ i.text[Len(i.text)] > 62

Init ==
  /\ item \in Numbers \/ item \in Names \/ item \in Others
  /\ at = 1 /\ pc = "start"
  /\ inw = 0 /\ fnw = 0 /\ dflag = 0 /\ kflag = 0 /\ nflag = 1
  /\ elsc = 0 /\ bexp = 2 ^ (X - 1) + 2 * W
  /\ marker = 0 /\ lost = FALSE

-----------------------------------------------------------------------------
(***************************************************************************)
(* Names.  A symbol has 6 bits; each one pushes those before it to the     *)
(* right, out of inw into fnw, until the high bits of the first one arrive *)
(* at the low end of inw (four symbols) and a mark at that of fnw (nine).  *)
(***************************************************************************)
d3  == 2 ^ 3
d6  == 2 ^ 6
d21 == 2 ^ 21

(* Not the code: the mark leaves fnw after eight symbols. *)
d17 == 2 ^ 17

(* The mark. *)
d23 == 2 ^ 23

nameUnchanged == UNCHANGED <<item, dflag, kflag, nflag, elsc, bexp, lost>>

NameBegins ==
  /\ pc = "start" /\ dl \in Letters
  /\ dflag' = 0 /\ kflag' = 0 /\ inw' = 0
  /\ pc' = "name"
  /\ UNCHANGED <<item, at, fnw, nflag, elsc, bexp, marker, lost>>

NameSymbol ==
  /\ pc = "name" /\ dl <= 62
  /\ inw % d3 = 0
  /\ fnw' = (inw % d6) * d21
  /\ inw' = (inw \div d6) + dl * d21
  /\ at' = at + 1
  /\ UNCHANGED <<marker, pc>>
  /\ nameUnchanged

ShortName ==
  /\ pc = "name" /\ dl > 62 /\ inw % d3 = 0
  /\ pc' = "done"
  /\ UNCHANGED <<at, inw, fnw, marker>>
  /\ nameUnchanged

LongName ==
  /\ pc = "name" /\ inw % d3 > 0
  /\ dflag' = 1 /\ marker' = 0
  /\ fnw' = fnw + d23
  /\ pc' = "long name"
  /\ UNCHANGED <<item, at, inw, kflag, nflag, elsc, bexp, lost>>

Shift(symbol) ==
  /\ marker' = (fnw % d6) * d21
  /\ fnw' = (fnw \div d6) + symbol * d21

LongNameSymbol ==
  /\ pc = "long name" /\ marker = 0 /\ dl < 63
  /\ Shift(dl)
  /\ at' = at + 1
  /\ UNCHANGED <<inw, pc>>
  /\ nameUnchanged

FillName ==
  /\ pc = "long name" /\ marker = 0 /\ dl >= 63
  /\ Shift(63)
  /\ UNCHANGED <<at, inw, pc>>
  /\ nameUnchanged

SkipSymbol ==
  /\ pc = "long name" /\ marker # 0 /\ dl < 62
  /\ at' = at + 1
  /\ UNCHANGED <<inw, fnw, marker, pc>>
  /\ nameUnchanged

LongNameEnds ==
  /\ pc = "long name" /\ marker # 0 /\ dl >= 62
  /\ pc' = "done"
  /\ UNCHANGED <<at, inw, fnw, marker>>
  /\ nameUnchanged

-----------------------------------------------------------------------------
(***************************************************************************)
(* Numbers.  test1, test2 and test3 pass over a point, and tell a digit    *)
(* from a ten and from the rest.  A point that no digit follows is read    *)
(* with what comes next.                                                   *)
(***************************************************************************)
numberUnchanged == UNCHANGED <<item, kflag, nflag, bexp, marker, lost>>

Point ==
  /\ pc \in {"start", "point", "digits", "sign", "exponent"} /\ dl = point
  /\ kflag' = 1 /\ dflag' = 1
  /\ at' = at + 1
  /\ pc' = IF pc = "start" THEN "point" ELSE pc
  /\ UNCHANGED <<item, inw, fnw, nflag, elsc, bexp, marker, lost>>

Ten ==
  /\ pc \in {"start", "point", "digits", "sign", "exponent"} /\ dl = ten
  /\ kflag' = 1
  /\ inw' = IF pc = "start" THEN 1 ELSE inw
  /\ at' = at + 1
  /\ pc' = "sign"
  /\ UNCHANGED <<item, fnw, dflag, nflag, elsc, bexp, marker, lost>>

Digit ==
  /\ pc \in {"start", "point", "digits"} /\ dl \in Digits
  /\ kflag' = 1
  /\ LET low == Wrapped(inw * 10 + dl)
     IN  IF fnw < 2 ^ (W - 4)
         THEN /\ fnw' = fnw * 10 + (low \div 2 ^ W)
              /\ inw' = low % 2 ^ W
              /\ elsc' = elsc - dflag
         ELSE elsc' = elsc + 1 - dflag /\ UNCHANGED <<inw, fnw>>
  /\ at' = at + 1
  /\ pc' = "digits"
  /\ UNCHANGED <<item, dflag, nflag, bexp, marker, lost>>

NumberEnds ==
  /\ pc = "digits" /\ dl \notin Digits \cup {point, ten}
  /\ pc' = IF dflag = 0 /\ fnw = 0 THEN "done" ELSE "float"
  /\ UNCHANGED <<at, inw, fnw, dflag, elsc>>
  /\ numberUnchanged

(* A negative exponent e is kept as e - 1: -0 differs from 0. *)
ExponentBegins ==
  /\ pc = "sign" /\ dl \notin {point, ten}
  /\ LET digit == item.text[at + 1]
     IN  IF dl \in Digits THEN dflag' = dl /\ at' = at + 1
         ELSE dflag' = (IF dl = plus THEN digit ELSE -digit - 1) /\ at' = at + 2
  /\ pc' = "exponent"
  /\ UNCHANGED <<inw, fnw, elsc>>
  /\ numberUnchanged

ExponentDigit ==
  /\ pc = "exponent" /\ dl \in Digits
  /\ dflag' = IF dflag >= 0 THEN dflag * 10 + dl ELSE dflag * 10 - dl + 9
  /\ at' = at + 1
  /\ pc' = IF dflag' >= 2 ^ W \/ dflag' <= -(2 ^ W) THEN "stopped" ELSE pc
  /\ UNCHANGED <<inw, fnw, elsc>>
  /\ numberUnchanged

Exponent == elsc' = elsc + dflag + Flag(dflag < 0)

ExponentEnds ==
  /\ pc = "exponent" /\ dl \notin Digits \cup {point, ten}
  /\ Exponent
  /\ pc' = "float"
  /\ UNCHANGED <<at, inw, fnw, dflag>>
  /\ numberUnchanged

(* A logical value, or nothing. *)
LogicalValue ==
  /\ pc \in {"start", "point"} /\ dl \in {true, false}
  /\ inw' = dl - true
  /\ fnw' = 0 /\ dflag' = 0 /\ kflag' = 1 /\ nflag' = 1
  /\ at' = at + 1
  /\ pc' = "done"
  /\ UNCHANGED <<item, elsc, bexp, marker, lost>>

Nothing ==
  /\ \/ pc = "start" /\ dl \notin Letters
     \/ pc = "point"
  /\ dl \notin Digits \cup {point, ten, true, false}
  /\ inw' = 0 /\ fnw' = 0 /\ dflag' = Flag(pc = "point") /\ kflag' = 1 /\ nflag' = 0
  /\ pc' = "done"
  /\ UNCHANGED <<item, at, elsc, bexp, marker, lost>>

-----------------------------------------------------------------------------
(***************************************************************************)
(* A real number.                                                          *)
(***************************************************************************)
floatUnchanged == UNCHANGED <<item, at, kflag, nflag, marker>>

Zero ==
  /\ pc = "float" /\ inw = 0 /\ fnw = 0
  /\ dflag' = 0
  /\ pc' = "done"
  /\ UNCHANGED <<inw, fnw, elsc, bexp, lost>>
  /\ floatUnchanged

(* Twice the number low + high * 2^W. *)
Doubled(high, low) ==
  LET twice == Wrapped(low * 2)
  IN  /\ fnw' = high * 2 + (twice \div 2 ^ W)
      /\ inw' = twice % 2 ^ W

Normalise ==
  /\ pc = "float" /\ fnw < 2 ^ (W - 1)
  /\ inw # 0 \/ fnw # 0
  /\ Doubled(fnw, inw)
  /\ bexp' = bexp - 1
  /\ UNCHANGED <<dflag, elsc, lost, pc>>
  /\ floatUnchanged

Normalised ==
  /\ pc = "float" /\ fnw >= 2 ^ (W - 1)
  /\ pc' = "scale"
  /\ UNCHANGED <<inw, fnw, dflag, elsc, bexp, lost>>
  /\ floatUnchanged

(* Not the code: the number is not normalised again. *)
TimesTenUnnormalised ==
  LET five == Wrapped(fnw * 5)
  IN  /\ fnw' = five \div 8
      /\ inw' = (five % 8) * 2 ^ (W - 3) + (Wrapped(inw * 5) \div 8)
      /\ bexp' = bexp + 4

(* Times 10/16.  The bits that fnw gives to inw are added to it: it may    *)
(* then hold more than W bits.                                             *)
TimesTen ==
  LET five == Wrapped(fnw * 5)
      high == five \div 8
      low  == (five % 8) * 2 ^ (W - 3) + (Wrapped(inw * 5) \div 8)
  IN  IF high < 2 ^ (W - 1)
      THEN Doubled(high, low) /\ bexp' = bexp + 3
      ELSE fnw' = high /\ inw' = low /\ bexp' = bexp + 4

(* Times 16/10. *)
ByTen ==
  LET half == fnw >= 5 * 2 ^ (W - 3)
      low  == Wrapped(8 * (IF half THEN (inw \div 2) + (fnw % 2) * 2 ^ (W - 1) ELSE inw))
      high == Wrapped(8 * (IF half THEN fnw \div 2 ELSE fnw) + (low \div 2 ^ W))
  IN  /\ fnw' = high \div 5
      /\ inw' = ((low % 2 ^ W) + (high % 5) * 2 ^ W) \div 5
      /\ bexp' = bexp - 4 + Flag(half)

ScaleUp ==
  /\ pc = "scale" /\ elsc > 0
  /\ TimesTen
  /\ elsc' = elsc - 1
  /\ UNCHANGED <<dflag, lost, pc>>
  /\ floatUnchanged

ScaleDown ==
  /\ pc = "scale" /\ elsc < 0
  /\ ByTen
  /\ elsc' = elsc + 1
  /\ UNCHANGED <<dflag, lost, pc>>
  /\ floatUnchanged

(* The last X bits of inw make room for the exponent. *)
Round ==
  /\ pc = "scale" /\ elsc = 0
  /\ LET low  == inw + 2 ^ (X - 1)
         over == low >= 2 ^ W
         full == over /\ fnw + 1 = 2 ^ W
     IN  /\ fnw' = IF full THEN 2 ^ (W - 1) ELSE fnw + Flag(over)
         /\ bexp' = bexp + Flag(full)
         /\ IF bexp' > 2 ^ X - 1
            THEN pc' = "stopped" /\ UNCHANGED <<inw, dflag>>
            ELSE /\ inw' = ((IF over THEN 0 ELSE low) \div 2 ^ X) * 2 ^ X + bexp'
                 /\ dflag' = 1
                 /\ pc' = "done"
  /\ lost' = (inw >= 2 ^ W)
  /\ UNCHANGED elsc
  /\ floatUnchanged

Ended == pc \in {"done", "stopped"} /\ UNCHANGED vars

Next ==
  \/ NameBegins \/ NameSymbol \/ ShortName \/ LongName \/ LongNameSymbol
  \/ FillName \/ SkipSymbol \/ LongNameEnds
  \/ Point \/ Ten \/ Digit \/ NumberEnds
  \/ ExponentBegins \/ ExponentDigit \/ ExponentEnds
  \/ LogicalValue \/ Nothing
  \/ Zero \/ Normalise \/ Normalised \/ ScaleUp \/ ScaleDown \/ Round
  \/ Ended

Spec == Init /\ [][Next]_vars

-----------------------------------------------------------------------------
(***************************************************************************)
(* What is written in an item: a name, or n * 10^e.                        *)
(***************************************************************************)
IsName   == item.kind = "name"
IsNumber == item.kind = "number"

Done == pc = "done"

(* The constant as the run-time system takes it (x1_to_ieee): a mantissa   *)
(* of 2W - X bits, and the exponent of its last bit.                       *)
Mantissa == fnw * 2 ^ (W - X) + ((inw \div 2 ^ X) % 2 ^ (W - X))
LastBit  == (inw % 2 ^ X) - 2 ^ (X - 1) - (2 * W - X)

Positive(n) == IF n > 0 THEN n ELSE 0

(* m * 2^s and n * 10^e, both times the same number, which makes the       *)
(* latter and the unit 2^s integers.                                       *)
Unit(s, e)      == 2 ^ Positive(s - e) * 5 ^ Positive(-e)
Binary(m, s, e) == m * Unit(s, e)
Decimal(n, e, s) == n * 5 ^ Positive(e) * 2 ^ Positive(e - s)

Abs(n) == IF n < 0 THEN -n ELSE n

(* Rounding may be wrong by half a unit of the last bit; 2^X units of      *)
(* fnw and inw make one.  Each factor of ten costs less than four of them, *)
(* digits that find no room at most 32.                                    *)
Slack ==
  2 ^ (X - 1) + 4 * Abs(item.e) + IF item.n < 2 ^ (2 * W - 4) THEN 0 ELSE 32

Near ==
  LET unit == Unit(LastBit, item.e)
      d    == Abs(Binary(Mantissa, LastBit, item.e) - Decimal(item.n, item.e, LastBit))
  IN  d <= 3 * unit /\ d * 2 ^ X <= unit * Slack

(* Out of range: what rounds to more than the largest number, or is less   *)
(* than the least one.  (TLC's integers end at 2^31; ten zeros are beyond  *)
(* the exponents that are tried.)                                          *)
Middle == 2 ^ (X - 1)
Limit  == 2 ^ (Middle - 1) - 2 ^ (Middle - 2 - (2 * W - X))

TooLarge ==
  CASE item.e > 2 ^ W - 10 -> TRUE  \* whatever the digits are
    [] item.e > 9  -> item.n > 0
    [] item.e < -9 -> FALSE
    [] item.e < 0  -> item.n \div 10 ^ (-item.e) >= Limit
    [] OTHER       -> item.n > (Limit - 1) \div 10 ^ item.e

TooSmall ==
  /\ item.n > 0 /\ item.e < 0
  /\ item.e < -9 \/ item.n <= (10 ^ (-item.e) - 1) \div 2 ^ (Middle + 1)

(* An integer without point and exponent is of type integer if it fits.    *)
IsInteger == item.n = 0 \/ (item.integer /\ item.n < 2 ^ W)

IntegerConstant == dflag = 0 /\ fnw = 0 /\ inw = item.n

RealConstant ==
  dflag = 1 /\ Mantissa \in 2 ^ (2 * W - X - 1) .. 2 ^ (2 * W - X) - 1 /\ Near

AtDelimiter == at = Len(item.text)

(* A number is compiled to what is written, within half a unit of the last *)
(* bit and a little for each place, normalised and of the type it is       *)
(* written with; or it is refused, if it is out of range.  Not so if it is *)
(* too small, or its scaling ends with more in inw than fits.              *)
Constant ==
  /\ kflag = 1 /\ nflag = 1 /\ AtDelimiter
  /\ IF IsInteger THEN IntegerConstant ELSE RealConstant

NearestConstant ==
  IsNumber =>
    /\ pc = "stopped" => TooLarge \/ TooSmall
    /\ Done /\ ~ TooSmall /\ ~ lost => Constant

(* The same of all numbers; the code does not keep this (TimesTen, Round). *)
EveryConstant ==
  IsNumber =>
    /\ pc = "stopped" => TooLarge \/ TooSmall
    /\ Done => Constant

(* Group i of a word, from the right, above its last three bits. *)
Group(word, i) == (word \div 2 ^ (6 * i - 3)) % d6

NameKept(name) ==
  IF dflag = 0
  THEN /\ Len(name) <= 4
       /\ \A i \in 1 .. 4 : Group(inw, i) = IF i <= 4 - Len(name) THEN 0
                                             ELSE name[i - (4 - Len(name))]
  ELSE /\ Len(name) > 4
       /\ (inw % d3) * d3 + (fnw % d3) = name[1]
       /\ \A i \in 1 .. 4 : /\ Group(inw, i) = name[i + 1]
                             /\ Group(fnw, i) = IF i + 5 <= Len(name) THEN name[i + 5] ELSE 63

(* The two words of a name tell its first nine symbols, no more and no     *)
(* less, and all of the name has been read.                                *)
FirstNineSymbols ==
  IsName /\ Done => /\ kflag = 0 /\ nflag = 1 /\ AtDelimiter
                    /\ NameKept(SubSeq(item.text, 1, Len(item.text) - 1))
=============================================================================
