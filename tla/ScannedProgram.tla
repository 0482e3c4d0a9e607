--------------------------- MODULE ScannedProgram ---------------------------
(***************************************************************************)
(* A statement compiled by MainScan, and executed: an X1 whose values are  *)
(* formulas.  Its stack has, as Virtual_Stack, values and addresses; a     *)
(* condition that has not been met before may be true or false; a call     *)
(* evaluates its actual parameters once each, in order, and is then a      *)
(* formula too, so that what is compiled for a parameter is executed.      *)
(* Frames and the display are in X1RunTime, numbers in Arithmetic.         *)
(*                                                                         *)
(*   pc       the order to execute next, from 0                            *)
(*   B, S, A  the registers: operands and a count                          *)
(*   calls    the calls under way: the order, the procedure, the values of *)
(*            the parameters so far, where the stack began; busy while an  *)
(*            implicit subroutine of the call is executed                  *)
(*   facts    the conditions met; effects what the statement did           *)
(***************************************************************************)
EXTENDS MainScan, TLC

VARIABLE x1

vars == <<cast, statement, text, scan, x1>>

Idle == [pc |-> 0, stack |-> << >>, B |-> 0, S |-> 0, A |-> 0, cond |-> FALSE, index |-> 0,
         left |-> FALSE, calls |-> << >>, facts |-> << >>, effects |-> << >>]

Init == ScanInit /\ x1 = Idle

-----------------------------------------------------------------------------
Running  == scan.done /\ x1.pc < Len(scan.result)
Finished == scan.done /\ x1.pc >= Len(scan.result)

Order == scan.result[x1.pc + 1]
Is(n) == Order.what = "OPC" /\ Order.arg = n
Within(range) == Order.what = "OPC" /\ Order.arg \in range

Call == x1.calls[Len(x1.calls)]

(* A call waits for its next parameter, or its subroutine is executed. *)
Waiting   == x1.calls # << >> /\ ~Call.busy
Executing == Running /\ ~Waiting

Address(place)   == <<"address", place>>
IsAddress(value) == value[1] = "address"

Height == Len(x1.stack)
Base   == IF x1.calls = << >> THEN 0 ELSE Call.base

(* The k-th from the top of the stack, and the stack without n of them. *)
FromTop(k)  == x1.stack[Height - k + 1]
Without(n)  == SubSeq(x1.stack, 1, Height - n)
Values(n)   == /\ Height >= Base + n
               /\ \A k \in 1 .. n : ~IsAddress(FromTop(k))
AddressBelow(n) == /\ Height >= Base + n + 1
                   /\ IsAddress(FromTop(n + 1))

(* The subscripts above the nearest address. *)
Subscripts ==
  CHOOSE n \in 0 .. Height : Height = n \/ (IsAddress(FromTop(n + 1)) /\ Values(n))

Next1(x) == [x EXCEPT !.pc = @ + 1]
Execute(x) == x1' = x /\ UNCHANGED scanVars

-----------------------------------------------------------------------------
(***************************************************************************)
(* Address orders and jumps.                                               *)
(***************************************************************************)
LoadRegister ==
  /\ Executing
  /\ \/ Order.what = "2B" /\ Execute(Next1([x1 EXCEPT !.B = Order.arg]))
     \/ Order.what = "2S" /\ Execute(Next1([x1 EXCEPT !.S = Order.arg]))
     \/ Order.what = "2A" /\ Execute(Next1([x1 EXCEPT !.A = Order.arg]))

Jump ==
  /\ Executing
  /\ \/ Order.what = "2T"
     \/ Order.what = "N2T" /\ ~x1.cond
  /\ Execute([x1 EXCEPT !.pc = scan.future[Order.arg]])

NoJump ==
  /\ Executing
  /\ Order.what = "N2T" /\ x1.cond
  /\ Execute(Next1(x1))

(* To a label: out of the statement, or out of the subroutine of a         *)
(* parameter that is a label, whose value the jump is.  A subroutine is    *)
(* left by a jump only after GTA, unless it goes to a formal label.        *)
Leave(place) ==
  Execute(IF x1.calls = << >>
          THEN [x1 EXCEPT !.effects = Append(@, <<"goto", place>>), !.pc = Len(scan.result)]
          ELSE [x1 EXCEPT !.calls[Len(x1.calls)] =
                            [@ EXCEPT !.values = Append(@, place), !.busy = FALSE],
                          !.pc = Call.back, !.stack = SubSeq(@, 1, Call.base),
                          !.left = FALSE])

GTA == /\ Executing /\ Is(28)
       /\ Execute(Next1([x1 EXCEPT !.left = TRUE]))

JumpToLabel ==
  /\ Executing
  /\ Order.what = "2T label"
  /\ x1.calls = << >> \/ x1.left
  /\ Leave(IF Kind(Order.arg) = "switch" THEN <<"element", Order.arg, <<x1.index>>>>
           ELSE Word(Order.arg))

JumpToFormal ==
  /\ Executing /\ Is(35) /\ Kind(x1.S) = "formal label"
  /\ Leave(Word(x1.S))

SSI == /\ Executing /\ Is(29) /\ Values(1)
       /\ Execute(Next1([x1 EXCEPT !.index = FromTop(1), !.stack = Without(1)]))

(* CAC: a condition met before is as it was. *)
CAC ==
  /\ Executing /\ Is(30) /\ Values(1)
  /\ \E b \in BOOLEAN :
       /\ FromTop(1) \in DOMAIN x1.facts => b = x1.facts[FromTop(1)]
       /\ Execute(Next1([x1 EXCEPT !.cond = b, !.stack = Without(1),
                                   !.facts = (FromTop(1) :> b) @@ @]))

-----------------------------------------------------------------------------
(***************************************************************************)
(* Calls.  The PORDs of a call stand before its count, the first one last. *)
(***************************************************************************)
Transfer ==
  /\ Executing /\ Within(8 .. 11)
  /\ Execute([x1 EXCEPT
       !.calls = Append(@, [statement |-> Order.arg \in {9, 11},
                            procedure |-> IF Order.arg \in {8, 9} THEN x1.B ELSE x1.S,
                            at |-> x1.pc, count |-> x1.A, values |-> << >>,
                            base |-> Height, busy |-> FALSE, back |-> x1.pc])])

Parameter == scan.result[Call.at - 1 - Len(Call.values)]

IsName(pord) == "word" \in DOMAIN pord

TakeName ==
  /\ Running /\ Waiting
  /\ Len(Call.values) < Call.count
  /\ Parameter.what = "PORD" /\ IsName(Parameter.arg)
  /\ Execute([x1 EXCEPT !.calls[Len(x1.calls)].values = Append(@, Word(Parameter.arg.word))])

EnterSubroutine ==
  /\ Running /\ Waiting
  /\ Len(Call.values) < Call.count
  /\ Parameter.what = "PORD" /\ ~IsName(Parameter.arg)
  /\ Execute([x1 EXCEPT !.calls[Len(x1.calls)].busy = TRUE, !.pc = Parameter.arg.from])

EndsAs(value) ==
  IF Parameter.arg.address THEN IsAddress(value) ELSE ~IsAddress(value)

EIS ==
  /\ Executing /\ Is(13)
  /\ x1.calls # << >> /\ Height = Base + 1 /\ EndsAs(FromTop(1))
  /\ Execute([x1 EXCEPT
       !.calls[Len(x1.calls)] =
         [@ EXCEPT !.values = Append(@, IF IsAddress(FromTop(1)) THEN FromTop(1)[2]
                                        ELSE FromTop(1)),
                   !.busy = FALSE],
       !.pc = Call.back, !.stack = Without(1)])

Return ==
  /\ Running /\ Waiting
  /\ Len(Call.values) = Call.count
  /\ LET made == <<"call", Call.procedure, Call.values>>
         rest == [x1 EXCEPT !.calls = SubSeq(@, 1, Len(@) - 1), !.pc = Call.at + 1]
     IN  Execute(IF Call.statement THEN [rest EXCEPT !.effects = Append(@, made)]
                 ELSE [rest EXCEPT !.stack = Append(@, made)])

-----------------------------------------------------------------------------
(***************************************************************************)
(* Orders on the stack.                                                    *)
(***************************************************************************)
Replace(n, value) == Execute(Next1([x1 EXCEPT !.stack = Append(Without(n), value)]))

(* TRAD, TRAS, TIAD, TIAS, TFA. *)
TakeAddress ==
  /\ Executing /\ Within(14 .. 18)
  /\ Replace(0, Address(Word(IF Order.arg \in {15, 17} THEN x1.B ELSE x1.S)))

(* TRRD .. TFR and ADRD .. DIF: an operand, or an operation with one.      *)
(* A frame has each variable in its own type.                              *)
Variant == (Order.arg - 31) % 5
Operand == IF Variant \in {1, 3} THEN x1.B ELSE x1.S
TypeFits == CASE Variant \in {0, 1} -> ~Integer(Operand) /\ ~Formal(Operand)
              [] Variant \in {2, 3} -> Integer(Operand)
              [] Variant = 4        -> Formal(Operand) /\ ~IsLabel(Operand)

Take ==
  /\ Executing /\ Within(31 .. 35) /\ TypeFits
  /\ Replace(0, Word(Operand))

Combine ==
  /\ Executing /\ Within(36 .. 55) /\ TypeFits /\ Values(1)
  /\ Replace(1, Operation(63 + (Order.arg - 31) \div 5, FromTop(1), Word(Operand)))

IND ==
  /\ Executing /\ Is(56)
  /\ Subscripts > 0 /\ AddressBelow(Subscripts)
  /\ Replace(Subscripts + 1,
             Address(<<"element", FromTop(Subscripts + 1)[2][2],
                       SubSeq(x1.stack, Height - Subscripts + 1, Height)>>))

TAR ==
  /\ Executing /\ Is(58) /\ AddressBelow(0)
  /\ Replace(1, FromTop(1)[2])

TFP == /\ Executing /\ Is(98) /\ x1.calls # << >>
       /\ Replace(0, Passed)

UnaryOrder ==
  /\ Executing /\ Within({57, 71}) /\ Values(1)
  /\ Replace(1, <<"unary", IF Order.arg = 57 THEN minus ELSE not, FromTop(1)>>)

StandardOrder ==
  /\ Executing /\ Within(76 .. 84) /\ Values(1)
  /\ Replace(1, <<"call", Order.arg - 75, <<FromTop(1)>>>>)

StandardStatement ==
  /\ Executing /\ Within(102 .. 112) /\ Values(1)
  /\ Execute(Next1([x1 EXCEPT
       !.effects = Append(@, <<"call", Order.arg - 101, <<FromTop(1)>>>>), !.stack = Without(1)]))

BinaryOrder ==
  /\ Executing /\ Within((59 .. 70) \cup (72 .. 75)) /\ Values(2)
  /\ Replace(2, Operation(Order.arg + 5, FromTop(2), FromTop(1)))

(* ST, STA to an address; STP, STAP to the function identifier in B. *)
Stored(dest, rest) ==
  Execute(Next1([x1 EXCEPT !.effects = Append(@, <<"store", dest, FromTop(1)>>), !.stack = rest]))

ST   == Executing /\ Is(85) /\ Values(1) /\ AddressBelow(1) /\ Stored(FromTop(2)[2], Without(2))
STA  == /\ Executing /\ Is(86) /\ Values(1) /\ AddressBelow(1)
        /\ Stored(FromTop(2)[2], Append(Without(2), FromTop(1)))
STP  == Executing /\ Is(87) /\ Values(1) /\ Stored(Word(x1.B), Without(1))
STAP == Executing /\ Is(88) /\ Values(1) /\ Stored(Word(x1.B), x1.stack)

Step ==
  \/ LoadRegister \/ Jump \/ NoJump \/ GTA \/ JumpToLabel \/ JumpToFormal \/ SSI \/ CAC
  \/ Transfer \/ TakeName \/ EnterSubroutine \/ EIS \/ Return
  \/ TakeAddress \/ Take \/ Combine \/ IND \/ TAR \/ TFP
  \/ UnaryOrder \/ StandardOrder \/ StandardStatement \/ BinaryOrder \/ ST \/ STA \/ STP \/ STAP

Scanning == ScanNext /\ UNCHANGED x1

Ended == Finished /\ UNCHANGED vars

Next == Scanning \/ Step \/ Ended

Spec == Init /\ [][Next]_vars

-----------------------------------------------------------------------------
(* When the compiled statement has been executed, it has made the stores,  *)
(* calls and jump the statement asks for, with the values its text writes, *)
(* whatever conditions it met, and has left nothing on the stack.          *)
MeansWhatIsWritten ==
  Finished => /\ x1.effects = Effects(cast, statement, x1.facts)
              /\ Leaves(x1.effects) \/ x1.stack = << >>

(* Every order of the object program finds its operands: values where it   *)
(* takes values, an address where it takes an address, and none of them    *)
(* from below the implicit subroutine it stands in.                        *)
OperandsArePresent == Running => ENABLED Step

(* After the scan all lists and flags are as before it, and every place    *)
(* that is jumped to has been filled, with an address after the jump.      *)
ListsAreClosed ==
  scan.done =>
    /\ scan.tlist = << >> /\ scan.bn = 0
    /\ scan.eflag = 0 /\ scan.mflag = 0 /\ scan.iflag = 0
    /\ \A k \in DOMAIN scan.result :
         scan.result[k].what \in {"2T", "N2T"} =>
           scan.future[scan.result[k].arg] \in k .. Len(scan.result)
=============================================================================
