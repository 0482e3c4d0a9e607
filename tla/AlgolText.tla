----------------------------- MODULE AlgolText -----------------------------
(***************************************************************************)
(* The Algol 60 a program of one statement is written in: its grammar, its *)
(* text as a row of symbols, and its meaning.  A text has one word (a name *)
(* or a number) for each member of a cast, in order; the cast says of what *)
(* kind each word is.  A phrase is a tree; the phrases of a cast are built *)
(* from the shorter ones, a span of words at a time.                       *)
(*                                                                         *)
(* The compiler (MainScan) sees the text only.  What the statement means   *)
(* is told here from the tree: the stores, calls and jumps it asks for,    *)
(* with formulas for values, when the conditions it meets are as in facts. *)
(***************************************************************************)
EXTENDS Integers, Sequences, SequencesExt

CONSTANTS
  Casts,      \* words: the kinds of the words of a text; operators: those between them
  Arguments   \* bound on the parameters of a call

(* The kinds of words: how they are declared, and where. *)
Variables == {"real", "integer", "static", "constant", "formal"}
Arrays    == {"array", "static array", "formal array"}
Functions == {"function", "formal function"}
Labels    == {"label", "switch", "formal label"}
Standard  == {"standard function", "standard procedure"}
Kinds     == Variables \cup Arrays \cup Functions \cup Labels \cup Standard

(* The symbols, by the numbers the compiler's reader gives to them. *)
plus      == 64
minus     == 65
not       == 76
goto      == 81
if        == 82
then      == 83
else      == 84
comma     == 87
semicolon == 91
becomes   == 92
open      == 98
close     == 99
sub       == 100
bus       == 101
begin     == 104
end       == 105

ASSUME TextAssumption ==
  /\ \A cast \in Casts : /\ cast.words \in Seq(Kinds) /\ cast.words # << >>
                         /\ cast.operators \subseteq plus .. 80
  /\ Arguments \in Nat

-----------------------------------------------------------------------------
(***************************************************************************)
(* Phrases.  A span [from, to] of words has, in each syntactic class, the  *)
(* trees written with exactly these words.                                 *)
(***************************************************************************)
Word(i)         == <<"word", i>>
Binary(op, l, r) == <<"binary", op, l, r>>
Joined(D, L, R) == {Binary(op, l, r) : op \in D, l \in L, r \in R}
Unary(D, S)     == {<<"unary", op, e>> : op \in D, e \in S}
Bracketed(S)    == {<<"bracketed", e>> : e \in S}
IfElse(B, T, E) == {<<"if", b, t, e>> : b \in B, t \in T, e \in E}

(* The classes of the spans shorter than n: at(l)[i] for words i .. i+l-1. *)
In(shorter, i, j) == shorter[j - i + 1][i]

(* Pairs and triples of neighbouring spans that make up i .. j. *)
Splits(i, j)  == i .. j - 1
Splits3(i, j) == {<<k, m>> \in Splits(i, j) \X Splits(i, j) : k < m}

Pairs(shorter, i, j, D, left, right) ==
  UNION {Joined(D, In(shorter, i, k)[left], In(shorter, k + 1, j)[right]) : k \in Splits(i, j)}

(* Lists of n phrases of a class: parameters, subscripts. *)
RECURSIVE Lists(_, _, _, _, _)
Lists(shorter, i, j, class, n) ==
  IF i > j \/ n = 0 THEN {}
  ELSE {<<e>> : e \in In(shorter, i, j)[class]}
       \cup UNION {{<<e>> \o rest : e \in In(shorter, i, k)[class],
                                    rest \in Lists(shorter, k + 1, j, class, n - 1)}
                   : k \in Splits(i, j)}

(* Variables, subscripted variables and function designators. *)
Designator(cast, shorter, i, j) ==
  LET kind == cast.words[i]
      one  == i = j
  IN  CASE kind \in Variables -> IF one THEN {Word(i)} ELSE {}
        [] kind \in Arrays    -> {<<"element", i, s>> : s \in Lists(shorter, i + 1, j, "sum", 2)}
        [] kind \in Functions ->
             {<<"call", i, p>> : p \in IF one THEN {<< >>}
                                       ELSE Lists(shorter, i + 1, j, "actual", Arguments)}
        [] kind = "standard function" ->
             {<<"call", i, p>> : p \in Lists(shorter, i + 1, j, "expression", 1)}
        [] OTHER -> {}

(* An actual parameter may also be the name of an array, a procedure or a label. *)
Names(cast, i, j) ==
  IF i = j /\ cast.words[i] \notin {"switch", "standard procedure"} THEN {Word(i)} ELSE {}

(* Labels, and elements of a switch. *)
Place(cast, shorter, i, j) ==
  CASE cast.words[i] = "switch"     -> {<<"element", i, s>> : s \in Lists(shorter, i + 1, j, "sum", 1)}
    [] cast.words[i] \in Labels     -> IF i = j THEN {Word(i)} ELSE {}
    [] OTHER -> {}

Conditionals(shorter, i, j, simple, whole) ==
  UNION {IfElse(In(shorter, i, s[1]).condition, In(shorter, s[1] + 1, s[2])[simple],
                In(shorter, s[2] + 1, j)[whole]) : s \in Splits3(i, j)}

Designations(cast, shorter, i, j) ==
  LET place   == Place(cast, shorter, i, j)
      chosen  == Conditionals(shorter, i, j, "place", "designation")
      written == place \cup Bracketed(chosen)
  IN  [place |-> written, designation |-> written \cup chosen]

(* The classes of the Report for one span.  Unary operators and brackets   *)
(* are put once around what the shorter spans give.                        *)
Expressions(cast, shorter, i, j) ==
  LET Of(D)     == D \cap cast.operators
      head      == Designator(cast, shorter, i, j)
      power     == Pairs(shorter, i, j, Of({69}), "factor", "primary")
      product   == Pairs(shorter, i, j, Of(66 .. 68), "term", "factor")
      sum       == Pairs(shorter, i, j, Of({plus, minus}), "sum", "term")
      choice    == Conditionals(shorter, i, j, "sum", "expression")
      brackets  == Bracketed(power \cup product \cup sum \cup choice)
      signed    == Unary(Of({minus}), head \cup power \cup product \cup brackets)
      primary   == head \cup brackets \cup Bracketed(Unary(Of({minus}), head))
      relation  == Pairs(shorter, i, j, Of(70 .. 75), "sum", "sum")
      and       == Pairs(shorter, i, j, Of({77}), "conjunction", "secondary")
      or        == Pairs(shorter, i, j, Of({78}), "disjunction", "conjunction")
      implied   == Pairs(shorter, i, j, Of({79}), "implication", "disjunction")
      same      == Pairs(shorter, i, j, Of({80}), "logical", "implication")
      truth     == Conditionals(shorter, i, j, "logical", "condition")
      named     == {e \in head : e[1] = "call" /\ i = j}
      secondary == head \cup relation \cup Bracketed(and \cup or \cup implied \cup same \cup truth)
                   \cup Unary(Of({not}), head \cup relation)
      term      == primary \cup power \cup product
      simple    == term \cup sum \cup signed
      logical   == secondary \cup and \cup or \cup implied \cup same
  IN  [primary |-> primary, factor |-> primary \cup power, term |-> term, sum |-> simple,
       expression  |-> simple \cup choice,
       secondary   |-> secondary,
       conjunction |-> secondary \cup and,
       disjunction |-> secondary \cup and \cup or,
       implication |-> secondary \cup and \cup or \cup implied,
       logical     |-> logical,
       condition   |-> logical \cup truth,
       actual      |-> ((simple \cup choice \cup logical \cup truth) \ named)
                       \cup Names(cast, i, j) \cup Designations(cast, shorter, i, j).designation]

-----------------------------------------------------------------------------
(***************************************************************************)
(* Statements: assignments to one or more destinations, procedure          *)
(* statements, go to statements, conditional and compound statements.  A   *)
(* statement after then is not itself conditional.                         *)
(***************************************************************************)
Destinations(cast, shorter, i, j) ==
  LET kind == cast.words[i]
  IN  CASE kind \in Variables \ {"constant"} -> IF i = j THEN {Word(i)} ELSE {}
        [] kind = "function"                 -> IF i = j THEN {Word(i)} ELSE {}
        [] kind \in Arrays                   -> Designator(cast, shorter, i, j)
        [] OTHER                             -> {}

Assigned(dest, rest) ==
  IF rest[1] = "assign" THEN <<"assign", <<dest>> \o rest[2], rest[3]>>
  ELSE <<"assign", <<dest>>, rest>>

Assignments(cast, shorter, i, j) ==
  UNION {{Assigned(dest, rest) :
            dest \in Destinations(cast, shorter, i, k),
            rest \in In(shorter, k + 1, j).expression \cup In(shorter, k + 1, j).condition
                     \cup {s \in In(shorter, k + 1, j).plain : s[1] = "assign"}}
         : k \in Splits(i, j)}

Calls(cast, shorter, i, j) ==
  CASE cast.words[i] \in Functions -> Designator(cast, shorter, i, j)
    [] cast.words[i] = "standard procedure" ->
         {<<"call", i, p>> : p \in Lists(shorter, i + 1, j, "expression", 1)}
    [] OTHER -> {}

Jumps(cast, shorter, i, j) ==
  {<<"goto", d>> : d \in Designations(cast, shorter, i, j).designation}

Compounds(shorter, i, j) ==
  UNION {{<<"compound", <<s, t>>>> : s \in In(shorter, i, k).plain, t \in In(shorter, k + 1, j).plain}
         : k \in Splits(i, j)}

Whens(shorter, i, j) ==
  UNION {{<<"when", b, s>> : b \in In(shorter, i, k).condition, s \in In(shorter, k + 1, j).plain}
         : k \in Splits(i, j)}
  \cup UNION {{<<"either", b, s, t>> : b \in In(shorter, i, d[1]).condition,
                                      s \in In(shorter, d[1] + 1, d[2]).plain,
                                      t \in In(shorter, d[2] + 1, j).statement}
              : d \in Splits3(i, j)}

Written(cast, shorter, i, j) ==
  LET whens == Whens(shorter, i, j)
      plain == Assignments(cast, shorter, i, j) \cup Calls(cast, shorter, i, j)
               \cup Jumps(cast, shorter, i, j) \cup Compounds(shorter, i, j)
               \cup {<<"compound", <<w>>>> : w \in whens}
  IN  [plain |-> plain, statement |-> plain \cup whens]

(* All classes of a span. *)
Span(cast, shorter, i, j) ==
  Expressions(cast, shorter, i, j) @@ Designations(cast, shorter, i, j)
  @@ Written(cast, shorter, i, j)

RECURSIVE Row(_, _, _, _)
Row(cast, shorter, n, i) ==
  IF i + n - 1 > Len(cast.words) THEN << >>
  ELSE <<Span(cast, shorter, i, i + n - 1)>> \o Row(cast, shorter, n, i + 1)

RECURSIVE SpansUpTo(_, _)
SpansUpTo(cast, n) ==
  IF n = 0 THEN << >>
  ELSE LET shorter == SpansUpTo(cast, n - 1)
       IN  shorter \o <<Row(cast, shorter, n, 1)>>

(* The statements written with all words of a cast. *)
Statements(cast) ==
  LET n == Len(cast.words) IN Written(cast, SpansUpTo(cast, n - 1), 1, n).statement

-----------------------------------------------------------------------------
(***************************************************************************)
(* The text of a phrase: words and symbols, all numbers.                   *)
(***************************************************************************)
RECURSIVE Text(_), Listed(_, _)
Listed(phrases, separator) ==
  IF Len(phrases) = 1 THEN Text(phrases[1])
  ELSE Text(phrases[1]) \o <<separator>> \o Listed(Tail(phrases), separator)

Text(tree) ==
  CASE tree[1] = "word"      -> <<tree[2]>>
    [] tree[1] = "binary"    -> Text(tree[3]) \o <<tree[2]>> \o Text(tree[4])
    [] tree[1] = "unary"     -> <<tree[2]>> \o Text(tree[3])
    [] tree[1] = "bracketed" -> <<open>> \o Text(tree[2]) \o <<close>>
    [] tree[1] = "if"        -> <<if>> \o Text(tree[2]) \o <<then>> \o Text(tree[3])
                                \o <<else>> \o Text(tree[4])
    [] tree[1] = "element"   -> <<tree[2], sub>> \o Listed(tree[3], comma) \o <<bus>>
    [] tree[1] = "call"      -> IF tree[3] = << >> THEN <<tree[2]>>
                                ELSE <<tree[2], open>> \o Listed(tree[3], comma) \o <<close>>
    [] tree[1] = "assign"    -> Listed(tree[2], becomes) \o <<becomes>> \o Text(tree[3])
    [] tree[1] = "goto"      -> <<goto>> \o Text(tree[2])
    [] tree[1] = "compound"  -> <<begin>> \o Listed(tree[2], semicolon) \o <<end>>
    [] tree[1] = "when"      -> <<if>> \o Text(tree[2]) \o <<then>> \o Text(tree[3])
    [] tree[1] = "either"    -> <<if>> \o Text(tree[2]) \o <<then>> \o Text(tree[3])
                                \o <<else>> \o Text(tree[4])

-----------------------------------------------------------------------------
(***************************************************************************)
(* The meaning of a phrase.  A value is a formula; facts tells which       *)
(* conditions hold, as a function from formulas to truth values.  Minus    *)
(* in front of a product or quotient is minus in front of its first        *)
(* factor: the two are the same number.                                    *)
(***************************************************************************)
Undecided == <<"undecided">>

(* A standard function passed as a parameter: what it makes of its own. *)
Passed == <<"passed">>

RECURSIVE Operation(_, _, _)
Operation(op, l, r) ==
  IF op \in 66 .. 68 /\ l[1] = "unary" /\ l[2] = minus
  THEN <<"unary", minus, Operation(op, l[3], r)>>
  ELSE <<"binary", op, l, r>>

RECURSIVE Value(_, _, _)
Value(cast, tree, facts) ==
  LET Of1(e)    == Value(cast, e, facts)
      Each(es)  == [k \in DOMAIN es |-> Of1(es[k])]
      Chosen(b) == Of1(b) \in DOMAIN facts
  IN  CASE tree[1] = "word"      -> IF cast.words[tree[2]] \notin Standard THEN tree
                                    ELSE <<"call", tree[2], <<Passed>>>>
        [] tree[1] = "bracketed" -> Of1(tree[2])
        [] tree[1] = "unary"     -> <<"unary", tree[2], Of1(tree[3])>>
        [] tree[1] = "binary"    -> Operation(tree[2], Of1(tree[3]), Of1(tree[4]))
        [] tree[1] \in {"element", "call"} -> <<tree[1], tree[2], Each(tree[3])>>
        [] tree[1] = "if"        -> IF ~Chosen(tree[2]) THEN Undecided
                                    ELSE IF facts[Of1(tree[2])] THEN Of1(tree[3]) ELSE Of1(tree[4])

(* The effects of a statement, in order: stores, calls and a jump, which   *)
(* is the end.  Destinations get their value from the last to the first.   *)
Leaves(effects) == effects # << >> /\ effects[Len(effects)][1] = "goto"

RECURSIVE Effects(_, _, _)
Effects(cast, tree, facts) ==
  LET Holds == Value(cast, tree[2], facts)
  IN  CASE tree[1] = "assign" ->
             [k \in DOMAIN tree[2] |-> <<"store", Value(cast, Reverse(tree[2])[k], facts),
                                                  Value(cast, tree[3], facts)>>]
        [] tree[1] = "call"   -> <<Value(cast, tree, facts)>>
        [] tree[1] = "goto"   -> <<<<"goto", Value(cast, tree[2], facts)>>>>
        [] tree[1] = "when"   -> IF Holds \notin DOMAIN facts THEN <<Undecided>>
                                 ELSE IF facts[Holds] THEN Effects(cast, tree[3], facts) ELSE << >>
        [] tree[1] = "either" -> IF Holds \notin DOMAIN facts THEN <<Undecided>>
                                 ELSE Effects(cast, IF facts[Holds] THEN tree[3] ELSE tree[4], facts)
        [] tree[1] = "compound" ->
             LET first == Effects(cast, tree[2][1], facts)
             IN  IF Len(tree[2]) = 1 \/ Leaves(first) THEN first
                 ELSE first \o Effects(cast, <<"compound", Tail(tree[2])>>, facts)
=============================================================================
