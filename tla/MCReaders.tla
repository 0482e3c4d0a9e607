------------------------------ MODULE MCReaders ------------------------------
(***************************************************************************)
(* The two readers: that of the compiler (DelimiterReader), on numbers of  *)
(* up to five digits before the point and two behind it, with and without  *)
(* exponents, on names of up to eleven symbols, and on what is neither;    *)
(* and that of a running program (ConsoleInput).  One or the other works.  *)
(***************************************************************************)
EXTENDS DelimiterReader, ConsoleInput, SequencesExt

CONSTANT LateZ  \* whether a name may have a Z after its ninth symbol

Strings(S, lengths) == UNION {[1 .. n -> S] : n \in lengths}

ValueOf(digits) == FoldLeft(LAMBDA n, d : 10 * n + d, 0, digits)

(* Before the point and behind it. *)
Whole    == Strings({0, 1, 3, 5, 8}, 0 .. 2) \cup Strings({2, 5, 9}, {3}) \cup Strings({4, 9}, {4, 5})
Fraction == Strings({0, 9}, 0 .. 2)

(* Exponents: how they are written, and their value. *)
NoExponent == [text |-> << >>, value |-> 0]
Exponents  == {NoExponent}
  \cup {[text |-> <<ten>> \o sign \o <<d>>, value |-> d] : sign \in {<< >>, <<plus>>}, d \in 0 .. 4}
  \cup {[text |-> <<ten, minus, d>>, value |-> -d] : d \in 0 .. 5}
  \cup {[text |-> <<ten, minus, 0, d>>, value |-> -d] : d \in {0, 4}}
  \cup {[text |-> <<ten, 1, 2>>, value |-> 12], [text |-> <<ten, minus, 1, 2>>, value |-> -12],
        [text |-> <<ten, 6, 0, 0>>, value |-> 600]}

Number(whole, fraction, exponent) ==
  LET digits == whole \o fraction
      text   == whole \o (IF fraction = << >> THEN << >> ELSE <<point>> \o fraction)
                \o exponent.text
  IN  [kind |-> IF text = << >> THEN "nothing" ELSE "number",
       text |-> Append(text, semicolon),
       n |-> IF digits = << >> THEN 1 ELSE ValueOf(digits),
       e |-> exponent.value - Len(fraction),
       integer |-> fraction = << >> /\ exponent.text = << >>]

NumberItems == {Number(w, f, e) : w \in Whole, f \in Fraction, e \in Exponents}

(* Symbols whose bits differ in both halves. *)
a == 10
g == 16
O == 51
Z == 62

Named(symbols) == [kind |-> "name", text |-> symbols \o <<plus>>]

NameItems ==
       {Named(<<f>> \o s) : f \in {a, g, O, Z}, s \in Strings({0, 7, a, Z}, 0 .. 4)}
  \cup {Named(<<f>> \o s) : f \in {g, Z}, s \in Strings({0, O, Z}, {6, 8})}
  \cup {Named(<<g>> \o s \o t) : s \in Strings({O}, {8}),
                                 t \in Strings(IF LateZ THEN {9, Z} ELSE {9, O}, 1 .. 2)}

(* A logical value, nothing, or a point that no digit follows *)
OtherItems ==
       {[kind |-> "logical value", text |-> before \o <<value, semicolon>>] :
          before \in {<< >>, <<point>>}, value \in {true, false}}
  \cup {[kind |-> "other", text |-> <<point>> \o after \o <<semicolon>>] :
          after \in {<< >>, <<point>>, <<a>>, <<ten, 5>>}}

-----------------------------------------------------------------------------
(* Input of a program: what is written, what should be read, and what      *)
(* should be said of it, if anything, to an operator and without one.      *)
Piece(op, text, value, atTerminal, otherwise) ==
  [op |-> op, text |-> text, value |-> value, atTerminal |-> atTerminal,
   failure |-> otherwise, mask |-> {}]

Right(op, text, value) == Piece(op, text, value, "none", "none")

(* Numbers as in program text, with a sign *)
OnTape(sign, i) ==
  [text |-> sign \o Front(i.text),
   value |-> <<"number", IF sign = <<minus>> THEN -i.n ELSE i.n, i.e>>]

SomeNumbers ==
  {i \in {Number(w, f, e) : w \in {<< >>, <<5>>, <<0, 3>>}, f \in {<< >>, <<0, 9>>},
                           e \in {x \in Exponents : x.value \in {0, 3, -4}}} :
     i.kind = "number"}

Tapes(items) == {OnTape(sign, i) : sign \in {<< >>, <<plus>>, <<minus>>}, i \in items}

(* Those that begin with a ten are read otherwise than in a program. *)
LongTape == Tapes({i \in SomeNumbers : i.text[1] # ten})
SignedTape == OnTape(<<minus>>, Number(<<5>>, <<9>>, NoExponent))
OtherTape  == OnTape(<< >>, Number(<<3>>, << >>, [text |-> <<ten, minus, 1>>, value |-> -1]))

Comma == 87
NotNumbers == {<<a, 5>>, <<plus, Space>>, <<point, ten>>, <<5, ten>>, <<5, ten, minus>>}

NumberPieces(before, tapes, after) ==
  {Right("READ", before \o t.text \o d, t.value) : t \in tapes, d \in after}
Mistaken(tapes) ==
  {Piece("READ", bad \o <<NewLine>> \o t.text \o <<Comma>>, t.value, "none", "Bad input") :
     bad \in NotNumbers, t \in tapes}
Symbols == {Right("RESYM", <<s>>, <<"symbol", s>>) : s \in {3, a, NewLine}}
NoSymbol == Piece("RESYM", <<NoCode>>, <<"symbol">>, "Bad input character", "Bad input character")

(* Lines that are the same number in binary and in octal *)
Xeen(text, bits, mask) == [Right("XEEN", text, <<"switches", bits>>) EXCEPT !.mask = mask]
Switches == {Xeen(<<1, NewLine>>, {0}, mask) : mask \in {{0, 1}, {1, 2}}}
      \cup {Xeen(<<Space, 0, 1, semicolon, NewLine>>, {0}, {0, 2}), Xeen(<<0, NewLine>>, {}, {0, 1})}
Again    == Xeen(<< >>, {}, {0, 1})
BadSwitch == [Piece("XEEN", <<a, NewLine, 1, NewLine>>, <<"switches", {0}>>, "none", "Bad input")
               EXCEPT !.mask = {0, 1}]
Stop == Right("STOP", << >>, <<"stopped">>)

Delimiters == {<<Space>>, <<NewLine>>, <<Comma>>}
AnyWhere == NumberPieces(<< >>, {SignedTape}, Delimiters)
       \cup NumberPieces(<<NewLine, Space>>, {OtherTape}, Delimiters)
       \cup Mistaken({SignedTape}) \cup Symbols \cup Switches \cup {Again, BadSwitch, Stop}

AtTheEnd ==
       {Piece("READ", bad, <<"number">>, "No input", IF bad \in {<<5, ten>>, <<5, ten, minus>>}
                                         THEN "No input" ELSE "Bad input") : bad \in NotNumbers}
  \cup NumberPieces(<< >>, {SignedTape, OtherTape}, {<< >>})
  \cup {Piece("READ", << >>, <<"number">>, "No input", "No input"), Piece("XEEN", << >>, <<"switches">>, "No input", "No input"),
        Right("RESYM", << >>, <<"symbol", EndOfFile>>), NoSymbol, Xeen(<<0, 1>>, {0}, {0, 2}),
        Piece("XEEN", <<a>>, <<"switches">>, "No input", "No input")}

(* Switches are written where they are asked for, and only there. *)
AsksAgain(ps, k) ==
  \A i \in 1 .. k - 1 : ps[i].op = "XEEN" => \E j \in i + 1 .. k - 1 : ps[j].op = "STOP"
Written(ps) ==
  \A k \in DOMAIN ps : ps[k].op = "XEEN" => (AsksAgain(ps, k) <=> ps[k] # Again)

InputPieces ==
       {<<p>> : p \in NumberPieces(<< >>, LongTape, {<<Comma>>, << >>}) \cup Mistaken(LongTape)}
  \cup {ps \in {<<p, q, r>> : p \in AnyWhere, q \in AnyWhere, r \in AnyWhere \cup AtTheEnd} : Written(ps)}
  \cup {<<p, Stop, q, Again>> : p \in Switches, q \in Switches}

(* Every number that a program may have, on the tape, and every octal      *)
(* number of two figures, at the console.                                  *)
NumberTape  == {<<p>> : p \in NumberPieces(<< >>, Tapes(SomeNumbers), {<<Comma>>})}
OctalSwitches ==
  {<<Xeen(<<h, i>> \o <<NewLine>>, OctalBits(<<h, i>>), 0 .. 5)>> : h, i \in 0 .. 7}

ReadersInit ==
  \/ /\ Init
     /\ pieces = << >> /\ is_interactive = FALSE
     /\ taken = 0 /\ char_buffer = Absent /\ number = NoNumber /\ reading = "nothing"
     /\ switches_are_valid = FALSE /\ console_switches = {}
     /\ answers = << >> /\ failure = "none"
  \/ /\ ConsoleInit
     /\ item = [kind |-> "none", text |-> << >>] /\ at = 1 /\ pc = "done"
     /\ inw = 0 /\ fnw = 0 /\ dflag = 0 /\ kflag = 0 /\ nflag = 1
     /\ elsc = 0 /\ bexp = 0 /\ marker = 0 /\ lost = FALSE

ReadersNext ==
  \/ Next /\ UNCHANGED consoleVars
  \/ ConsoleNext /\ UNCHANGED vars

ReadersSpec == ReadersInit /\ [][ReadersNext]_<<vars, consoleVars>>
=============================================================================
