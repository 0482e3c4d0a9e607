-------------------------- MODULE MCScannedProgram --------------------------
(* The texts whose translation TLC checks. *)
EXTENDS ScannedProgram

Texts(words, operators) == [words |-> words, operators |-> operators]

MCCasts ==
  { \* expressions: precedence, signs, conditional expressions, every kind of variable
    Texts(<<"real", "integer", "formal", "static">>, {65, 66, 69}),
    Texts(<<"static", "integer", "formal", "real">>, {64, 65, 67, 68}),
    Texts(<<"integer", "formal", "static", "constant">>, {70, 76, 77, 79}),
    Texts(<<"integer", "formal", "real", "static", "constant">>, {70, 65, 77}),
    Texts(<<"integer", "formal", "static", "real", "constant">>, {78, 80}),
    \* subscripts, function designators and standard functions in one another
    Texts(<<"array", "integer", "function", "formal", "constant">>, {65}),
    Texts(<<"formal", "array", "formal array", "static array", "integer">>, {65, 66}),
    Texts(<<"function", "formal array", "function", "array", "formal">>, {64}),
    Texts(<<"function", "array", "real", "integer", "formal">>, {66}),
    Texts(<<"formal", "real", "standard function", "array", "constant">>, {64, 69}),
    Texts(<<"real", "formal function", "standard function", "array", "integer">>, {65, 66, 69}),
    Texts(<<"formal function", "standard function", "array", "integer", "real">>, {66}),
    \* statements: calls, jumps, conditional and compound statements
    Texts(<<"standard procedure", "formal", "standard function", "integer", "formal function">>,
          {65, 66}),
    Texts(<<"real", "standard procedure", "array", "standard procedure", "integer">>, {69}),
    Texts(<<"real", "label", "switch", "integer", "formal label">>, {65}),
    Texts(<<"function", "formal", "real", "label", "formal label">>, {76, 78}),
    Texts(<<"function", "label", "function", "standard function", "formal label">>, {65}),
    Texts(<<"function", "function", "standard function", "formal function", "switch", "formal">>, {}),
    Texts(<<"function", "standard function", "formal label", "formal", "switch", "integer">>, {64}),
    Texts(<<"integer", "label", "static", "formal label", "switch", "constant">>, {}),
    Texts(<<"real", "integer", "real", "static", "formal", "constant">>, {}),
    Texts(<<"real", "function", "real", "standard procedure", "formal", "constant", "integer">>, {}) }
=============================================================================
