---------------------------- MODULE ForStatement ----------------------------
(***************************************************************************)
(* The for statement as compiled and executed: the operations FOR0 to FOR8 *)
(* (opcodes.cpp) work on the words of the frame that the for statement has *)
(* as a block, and on the operands above it.  The object program is        *)
(*                                                                         *)
(*     0 1   L0: address of the controlled variable                        *)
(*     0 2       FOR1                                                      *)
(*     0 3       2T to the controlled statement                            *)
(*     0 4       the statement, then 2T L0                                 *)
(*     i n   the orders of element i, see Orders                           *)
(*     after the last element: FOR8, with the address to go on in S        *)
(*                                                                         *)
(* A place is written <<i, n>>.  FOR0 and the call of the for statement,   *)
(* and jumps out of it, are in X1RunTime.                                  *)
(***************************************************************************)
EXTENDS ForProgram

CONSTANT MaxInt \* the largest integer, 2^26 - 1 in the code

VARIABLES
  for,          \* the for statement
  store,        \* the variables of the program
  ot,           \* OT, or "after" when the frame has been released
  operands,     \* the stack from stack_base on
  PC,           \* return address of the frame: the element to go on with
  LINK,         \* the local word: the jump to the controlled statement
  RESULT,       \* the result word: null, or the direction of the step
  error         \* the exception that ended the run, or "none"

words == <<PC, LINK, RESULT>>
vars == <<for, store, ot, operands, words, error>>

Null == [t |-> "null", v |-> 0]
Val(v) == [t |-> "val", v |-> v]
Addr(c) == [t |-> "addr", v |-> c]
Bool(b) == [t |-> "bool", v |-> b]

L0 == <<0, 1>>
After == <<0, 0>>

(* The orders of an element: "a", "b", "c" and "f" evaluate an expression. *)
Orders(kind) ==
  CASE kind = "value" -> <<"a", "FOR2">>
    [] kind = "while" -> <<"a", "FOR3", "f", "FOR4">>
    [] kind = "step"  -> <<"a", "FOR5", "b", "FOR6", "c", "FOR7">>

LastElement == Len(for.list)

Element == for.list[ot[1]]

(* The n-th order of an element of this kind is this one. *)
Occurs(order, kind, n) == n <= Len(Orders(kind)) /\ Orders(kind)[n] = order

InElement(order) == ot[1] \in 1 .. LastElement /\ Occurs(order, Element.kind, ot[2])

(* The place after this one, when the operation does not jump. *)
Following ==
  IF ot[2] < Len(Orders(Element.kind)) THEN <<ot[1], ot[2] + 1>> ELSE <<ot[1] + 1, 1>>

(* Not the code: the limit itself is left out. *)
ExhaustedAtLimit(dir, v, c) == \/ dir > 0 /\ c <= v
                               \/ dir < 0 /\ v <= c

(* limit.is_less(value) or value.is_less(limit), by the direction. *)
Exhausted(dir, v, c) == \/ dir > 0 /\ c < v
                        \/ dir < 0 /\ v < c

Depth == Len(operands)
Drop(n) == SubSeq(operands, 1, Depth - n)
TopVal == operands[Depth].v
Below(n) == operands[Depth - n].v

Assign(c, v) == store' = [store EXCEPT ![c] = v]

-----------------------------------------------------------------------------
(* As ETMP and FOR0 leave it: the return address is that of element 1. *)
Init ==
  /\ for \in ForStatements /\ store \in Stores
  /\ ot = L0 /\ operands = << >>
  /\ PC = <<1, 1>> /\ LINK = After /\ RESULT = Null
  /\ error = "none"

(* The compiled expressions. *)
TakeAddress ==
  /\ ot = L0
  /\ operands' = Append(operands, Addr(Address(for, store)))
  /\ ot' = <<0, 2>>
  /\ UNCHANGED <<for, store, words, error>>

Evaluate ==
  /\ \E order \in {"a", "b", "c"} :
       /\ InElement(order)
       /\ operands' = Append(operands, Val(Value(Element[order], store)))
  /\ ot' = Following
  /\ UNCHANGED <<for, store, words, error>>

EvaluateCondition ==
  /\ InElement("f")
  /\ operands' = Append(operands, Bool(Holds(Element.f, store)))
  /\ ot' = Following
  /\ UNCHANGED <<for, store, words, error>>

FOR1 ==
  /\ ot = <<0, 2>>
  /\ LINK' = <<0, 3>>
  /\ ot' = PC
  /\ UNCHANGED <<for, store, operands, PC, RESULT, error>>

(* The order 2T at LINK, and the statement it leads to. *)
Jump ==
  /\ ot = <<0, 3>>
  /\ ot' = <<0, 4>>
  /\ UNCHANGED <<for, store, operands, words, error>>

Controlled ==
  /\ ot = <<0, 4>>
  /\ store' \in Statement(for, store)
  /\ ot' = L0
  /\ UNCHANGED <<for, operands, words, error>>

(* Not the code: the return address stays at the element. *)
FOR2KeepsElement ==
  /\ InElement("FOR2")
  /\ Assign(Below(1), TopVal)
  /\ operands' = Drop(2)
  /\ ot' = LINK
  /\ UNCHANGED <<for, words, error>>

FOR2 ==
  /\ InElement("FOR2")
  /\ PC' = Following
  /\ Assign(Below(1), TopVal)
  /\ operands' = Drop(2)
  /\ ot' = LINK
  /\ UNCHANGED <<for, LINK, RESULT, error>>

(* Not the code: the address is not pushed again. *)
FOR3DropsAddress ==
  /\ InElement("FOR3")
  /\ Assign(Below(1), TopVal)
  /\ operands' = Drop(2)
  /\ ot' = Following
  /\ UNCHANGED <<for, words, error>>

FOR3 ==
  /\ InElement("FOR3")
  /\ Assign(Below(1), TopVal)
  /\ operands' = Drop(1)
  /\ ot' = Following
  /\ UNCHANGED <<for, words, error>>

FOR4 ==
  /\ InElement("FOR4")
  /\ IF TopVal
     THEN operands' = Drop(2) /\ ot' = LINK /\ UNCHANGED PC
     ELSE operands' = Drop(1) /\ ot' = Following /\ PC' = Following
  /\ UNCHANGED <<for, store, LINK, RESULT, error>>

(* Not the code: the step of an element before this one is left in place. *)
FOR5KeepsResult ==
  /\ InElement("FOR5")
  /\ PC' = Following /\ ot' = Following
  /\ UNCHANGED <<for, store, operands, LINK, RESULT, error>>

FOR5 ==
  /\ InElement("FOR5")
  /\ RESULT' = Null
  /\ PC' = Following /\ ot' = Following
  /\ UNCHANGED <<for, store, operands, LINK, error>>

FOR6 ==
  /\ InElement("FOR6")
  /\ LET incr == TopVal
     IN IF RESULT = Null
        THEN /\ operands' = Drop(1)
             /\ RESULT' = Val(Sign(incr)) /\ ot' = Following
             /\ UNCHANGED error
        ELSE LET value == store[Below(1)] + incr
             IN IF value \in -MaxInt .. MaxInt
                THEN /\ operands' = Append(Drop(1), Val(value))
                     /\ RESULT' = Val(Sign(incr)) /\ ot' = Following
                     /\ UNCHANGED error
                ELSE /\ error' = "Overflow in integer arithmetic"
                     /\ UNCHANGED <<operands, RESULT, ot>>
  /\ UNCHANGED <<for, store, PC, LINK>>

FOR7 ==
  /\ InElement("FOR7")
  /\ LET limit == TopVal
         value == Below(1)
         var   == Below(2)
     IN /\ Assign(var, value)
        /\ IF Exhausted(RESULT.v, value, limit)
           THEN operands' = Drop(2) /\ ot' = Following /\ PC' = Following
           ELSE operands' = Drop(3) /\ ot' = LINK /\ UNCHANGED PC
  /\ UNCHANGED <<for, LINK, RESULT, error>>

(* FOR8: the address is dropped, the result made null, and RET. *)
FOR8 ==
  /\ ot = <<LastElement + 1, 1>>
  /\ operands' = Drop(1)
  /\ RESULT' = Null
  /\ ot' = After
  /\ UNCHANGED <<for, store, PC, LINK, error>>

Running == error = "none"

Step ==
  \/ TakeAddress \/ Evaluate \/ EvaluateCondition \/ Jump \/ Controlled
  \/ FOR1 \/ FOR2 \/ FOR3 \/ FOR4 \/ FOR5 \/ FOR6 \/ FOR7 \/ FOR8

Stopped == (ot = After \/ ~Running) /\ UNCHANGED vars

Next == (Running /\ Step) \/ Stopped

Spec == Init /\ [][Next]_vars
=============================================================================
