---------------------------- MODULE ConsoleInput ----------------------------
(***************************************************************************)
(* What a running program reads (input.cpp): numbers (READ), symbols       *)
(* (RESYM) and console switches (XEEN), all from one stream, std::cin.     *)
(* READ makes a stream of its own on top of it for each number, which      *)
(* takes symbols from std::cin one by one and turns the ten into an E; the *)
(* C++ library then takes the longest beginning of a number.  The symbol   *)
(* that ends it has been taken, and goes with that stream.                 *)
(*                                                                         *)
(* Symbols have the codes input_char gives them, 89 being a ten; the @ it  *)
(* also takes for one, and the returns it passes over, are left out.       *)
(***************************************************************************)
EXTENDS Integers, Sequences

CONSTANT Pieces  \* sequences of pieces of input, each with what should read it

VARIABLES
  pieces,    \* the input, piece by piece
  is_interactive,
  taken,     \* number of symbols taken from the stream
  char_buffer, \* the symbol READ looks at, or Absent
  number,    \* what READ has found of a number
  reading,   \* what is being done, or where in a number READ is
  switches_are_valid, console_switches,
  answers,   \* (history) what was read
  failure

consoleVars == <<pieces, is_interactive, taken, char_buffer, number, reading,
                 switches_are_valid, console_switches, answers, failure>>

CONSTANT Absent

EndOfFile == 255  \* 0377
Space   == 93
NewLine == 119
White   == {Space, NewLine, 118}
Figures == 0 .. 9
Plus    == 64
Minus   == 65
Period  == 88
TenOrE  == {89, 14, 41}
NoCode  == 256    \* any character that input_char refuses

Concatenated(ss) ==
  LET upTo[k \in 0 .. Len(ss)] == IF k = 0 THEN << >> ELSE upTo[k - 1] \o ss[k].text
  IN  upTo[Len(ss)]

tape == Concatenated(pieces)

NextSymbol == IF taken < Len(tape) THEN tape[taken + 1] ELSE EndOfFile

NoNumber == [minus |-> FALSE, n |-> 0, found_mantissa |-> FALSE, found_dec |-> FALSE,
             places |-> 0, found_sci |-> FALSE, down |-> FALSE, e |-> 0, exponent |-> FALSE]

ConsoleInit ==
  /\ pieces \in Pieces /\ is_interactive \in BOOLEAN
  /\ taken = 0 /\ char_buffer = Absent /\ number = NoNumber /\ reading = "nothing"
  /\ switches_are_valid = FALSE /\ console_switches = {}
  /\ answers = << >> /\ failure = "none"

(* The program asks for its input in the order of the pieces. *)
Asked == pieces[Len(answers) + 1]
Asks(op) ==
  /\ failure = "none" /\ reading = "nothing"
  /\ Len(answers) < Len(pieces) /\ Asked.op = op

Answer(a) == answers' = Append(answers, a)

-----------------------------------------------------------------------------
(***************************************************************************)
(* input_real, with operator >> for a long double of the C++ library.      *)
(***************************************************************************)
restUnchanged == UNCHANGED <<pieces, is_interactive, switches_are_valid, console_switches>>


Read ==
  /\ Asks("READ")
  /\ char_buffer' = Absent /\ number' = NoNumber
  /\ reading' = "space"
  /\ UNCHANGED <<taken, answers, failure>>
  /\ restUnchanged

InNumber == {"space", "mantissa", "exponent sign", "exponent"}

underflow ==
  /\ reading \in InNumber \cup {"ignore"} /\ char_buffer = Absent
  /\ char_buffer' = NextSymbol
  /\ taken' = IF NextSymbol = EndOfFile THEN taken ELSE taken + 1
  /\ UNCHANGED <<number, reading, answers, failure>>
  /\ restUnchanged

(* The symbol in the buffer belongs to the number, or is passed over. *)
Accept(next) ==
  /\ char_buffer' = Absent
  /\ reading' = next
  /\ UNCHANGED <<taken, answers, failure>>
  /\ restUnchanged

PassSpace ==
  /\ reading = "space" /\ char_buffer \in White
  /\ Accept("space") /\ UNCHANGED number

Sign ==
  /\ reading = "space" /\ char_buffer \in {Plus, Minus}
  /\ number' = [number EXCEPT !.minus = (char_buffer = Minus)]
  /\ Accept("mantissa")

InMantissa == reading \in {"space", "mantissa"}

MantissaDigit ==
  /\ InMantissa /\ char_buffer \in Figures
  /\ number' = [number EXCEPT !.found_mantissa = TRUE, !.n = 10 * @ + char_buffer,
                               !.places = IF number.found_dec THEN @ + 1 ELSE @]
  /\ Accept("mantissa")

DecimalPoint ==
  /\ InMantissa /\ char_buffer = Period /\ ~ number.found_dec
  /\ number' = [number EXCEPT !.found_dec = TRUE]
  /\ Accept("mantissa")

Scientific ==
  /\ InMantissa /\ char_buffer \in TenOrE /\ number.found_mantissa
  /\ number' = [number EXCEPT !.found_sci = TRUE]
  /\ Accept("exponent sign")

ExponentSign ==
  /\ reading = "exponent sign" /\ char_buffer \in {Plus, Minus}
  /\ number' = [number EXCEPT !.down = (char_buffer = Minus)]
  /\ Accept("exponent")

ExponentFigure ==
  /\ reading \in {"exponent sign", "exponent"} /\ char_buffer \in Figures
  /\ number' = [number EXCEPT !.exponent = TRUE, !.e = 10 * @ + char_buffer]
  /\ Accept("exponent")

(* Any other symbol ends the number. *)
Ends ==
  /\ char_buffer # Absent
  /\ CASE reading = "space" ->
            char_buffer \notin White \cup {Plus, Minus, Period} \cup Figures
       [] reading = "mantissa" ->
            ~ \/ char_buffer \in Figures
              \/ char_buffer = Period /\ ~ number.found_dec
              \/ char_buffer \in TenOrE /\ number.found_mantissa
       [] reading = "exponent sign" -> char_buffer \notin Figures \cup {Plus, Minus}
       [] reading = "exponent" -> char_buffer \notin Figures
       [] OTHER -> FALSE

IsValid == number.found_mantissa /\ (number.found_sci => number.exponent)

Value ==
  <<"number", IF number.minus THEN -number.n ELSE number.n,
              (IF number.down THEN -number.e ELSE number.e) - number.places>>

ReadEnds ==
  /\ Ends /\ IsValid
  /\ Answer(Value)
  /\ reading' = "nothing"
  /\ UNCHANGED <<taken, char_buffer, number, failure>>
  /\ restUnchanged

(* Without an operator there is no second attempt. *)
ReadFails ==
  /\ Ends /\ ~ IsValid
  /\ IF char_buffer = EndOfFile
     THEN failure' = "No input" /\ UNCHANGED reading
     ELSE IF ~ is_interactive
     THEN failure' = "Bad input" /\ UNCHANGED reading
     ELSE reading' = "ignore" /\ UNCHANGED failure
  /\ UNCHANGED <<taken, char_buffer, number, answers>>
  /\ restUnchanged

(* The rest of the line. *)
IgnoreSymbol ==
  /\ reading = "ignore" /\ char_buffer \notin {Absent, EndOfFile}
  /\ number' = NoNumber
  /\ Accept(IF char_buffer = NewLine THEN "space" ELSE "ignore")

IgnoreEnds ==
  /\ reading = "ignore" /\ char_buffer = EndOfFile
  /\ failure' = "No input"
  /\ UNCHANGED <<taken, char_buffer, number, reading, answers>>
  /\ restUnchanged

-----------------------------------------------------------------------------
(***************************************************************************)
(* input_char.                                                             *)
(***************************************************************************)
input_char ==
  /\ Asks("RESYM")
  /\ IF NextSymbol = NoCode
     THEN failure' = "Bad input character" /\ UNCHANGED answers
     ELSE Answer(<<"symbol", NextSymbol>>) /\ UNCHANGED failure
  /\ taken' = IF NextSymbol = EndOfFile THEN taken ELSE taken + 1
  /\ UNCHANGED <<char_buffer, number, reading>>
  /\ restUnchanged

-----------------------------------------------------------------------------
(***************************************************************************)
(* read_console_switches: a line of binary digits, asked for once; after   *)
(* STOP, once more.  A mask, and the switches, are sets of bits.           *)
(***************************************************************************)
LineEnd ==
  LET ends == {i \in taken + 1 .. Len(tape) : tape[i] = NewLine}
  IN  IF ends = {} THEN Len(tape) + 1 ELSE CHOOSE i \in ends : \A j \in ends : i <= j

(* The binary digits a line begins with; stoul ignores what follows. *)
BinaryDigits ==
  LET first == CHOOSE i \in taken + 1 .. LineEnd :
                 /\ i = LineEnd \/ tape[i] \notin White
                 /\ \A j \in taken + 1 .. i - 1 : tape[j] \in White
      last  == CHOOSE i \in first .. LineEnd :
                 /\ i = LineEnd \/ tape[i] \notin {0, 1}
                 /\ \A j \in first .. i - 1 : tape[j] \in {0, 1}
  IN  SubSeq(tape, first, last - 1)

Bits(digits) == {b \in 0 .. Len(digits) - 1 : digits[Len(digits) - b] = 1}

XEEN ==
  /\ Asks("XEEN") /\ switches_are_valid
  /\ Answer(<<"switches", console_switches \cap Asked.mask>>)
  /\ UNCHANGED <<pieces, is_interactive, taken, char_buffer, number, reading,
                 switches_are_valid, console_switches, failure>>

read_console_switches ==
  /\ Asks("XEEN") /\ ~ switches_are_valid
  /\ BinaryDigits # << >>
  /\ taken' = IF LineEnd > Len(tape) THEN Len(tape) ELSE LineEnd
  /\ console_switches' = Bits(BinaryDigits) /\ switches_are_valid' = TRUE
  /\ UNCHANGED <<pieces, is_interactive, char_buffer, number, reading, answers, failure>>

BadSwitches ==
  /\ Asks("XEEN") /\ ~ switches_are_valid
  /\ BinaryDigits = << >>
  /\ IF LineEnd > Len(tape)
     THEN failure' = "No input" /\ taken' = Len(tape)
     ELSE failure' = (IF is_interactive THEN "none" ELSE "Bad input") /\ taken' = LineEnd
  /\ UNCHANGED <<pieces, is_interactive, char_buffer, number, reading,
                 switches_are_valid, console_switches, answers>>

STOP ==
  /\ Asks("STOP")
  /\ switches_are_valid' = FALSE
  /\ Answer(<<"stopped">>)
  /\ UNCHANGED <<pieces, is_interactive, taken, char_buffer, number, reading,
                 console_switches, failure>>

ConsoleEnded ==
  /\ failure # "none" \/ Len(answers) = Len(pieces)
  /\ UNCHANGED consoleVars

ConsoleNext ==
  \/ Read \/ underflow \/ PassSpace \/ Sign \/ MantissaDigit \/ DecimalPoint \/ Scientific
  \/ ExponentSign \/ ExponentFigure \/ ReadEnds \/ ReadFails \/ IgnoreSymbol \/ IgnoreEnds
  \/ input_char
  \/ XEEN \/ read_console_switches \/ BadSwitches \/ STOP
  \/ ConsoleEnded

-----------------------------------------------------------------------------
(***************************************************************************)
(* What the pieces say.                                                    *)
(***************************************************************************)
(* The switches in force at piece k. *)
SwitchesAt(k) ==
  LET from == {i \in 1 .. k : pieces[i].op = "XEEN" /\ pieces[i].text # << >>}
  IN  pieces[CHOOSE i \in from : \A j \in from : j <= i].value[2]

Expected(k) ==
  CASE pieces[k].op = "XEEN" -> <<"switches", SwitchesAt(k) \cap pieces[k].mask>>
    [] OTHER -> pieces[k].value


(* The documents claim more than the code does.  doc/library-procedures.md *)
(* of READ: "The relation <number> = READ is true if the decimal           *)
(* representation of <number> in the ALGOL text and of the number found by *)
(* READ on the number tape are the same."  So it is for whatever number is *)
(* on the tape.                                                            *)
NumberIsREAD ==
  /\ \A k \in DOMAIN answers : pieces[k].op = "READ" => answers[k] = pieces[k].value
  /\ failure # "none" => Asked.op # "READ"

(* Of XEEN: "The operator is thus given the opportunity to enter the       *)
(* above-mentioned system variable in octal".                              *)
OctalBits(figures) ==
  {b \in 0 .. 3 * Len(figures) - 1 : (figures[Len(figures) - (b \div 3)] \div 2 ^ (b % 3)) % 2 = 1}

SwitchesAreOctal ==
  /\ \A k \in DOMAIN answers :
       pieces[k].op = "XEEN"
         => answers[k] = <<"switches", pieces[k].mask
                             \cap OctalBits(SubSeq(pieces[k].text, 1, Len(pieces[k].text) - 1))>>
  /\ failure # "none" => Asked.op # "XEEN"
=============================================================================
