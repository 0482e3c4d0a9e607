------------------------------ MODULE ForList ------------------------------
(***************************************************************************)
(* What the for statement promises: the elements of its for list, one      *)
(* after the other, give values to the controlled variable and decide      *)
(* whether the controlled statement is executed once more.  There are no   *)
(* instructions, links or stacked operands here.                           *)
(*                                                                         *)
(* The address of the controlled variable is taken anew after each         *)
(* execution of the statement, and kept from an exhausted element to the   *)
(* next.  The step is evaluated once for each value, then the limit, and   *)
(* only then is the value assigned: before the first value is assigned,    *)
(* step and limit still see the old one.                                   *)
(***************************************************************************)
EXTENDS ForProgram

NoAddress == "no address"

(* The step-until element with direction dir, limit c is exhausted at v. *)
Exhausted(dir, v, c) == \/ dir > 0 /\ c < v
                        \/ dir < 0 /\ v < c

VARIABLES
  for,      \* the for statement
  store,    \* the values of the variables
  el,       \* the element in use
  first,    \* TRUE: it has not given a value yet
  at,       \* "control", "test", "statement" or "done"
  addr,     \* the controlled variable, while control is with the for list
  pending   \* the value and direction of a step-until element under test

vars == <<for, store, el, first, at, addr, pending>>

NoValue == [v |-> 0, dir |-> 0]
Element == for.list[el]

Init ==
  /\ for \in ForStatements /\ store \in Stores
  /\ el = 1 /\ first = TRUE
  /\ at = "control" /\ addr = Address(for, store) /\ pending = NoValue

At(kind) == el <= Len(for.list) /\ Element.kind = kind

Execute == at' = "statement" /\ addr' = NoAddress

NextElement == el' = el + 1 /\ first' = TRUE

(* E: one value, then the next element. *)
ValueElement ==
  /\ at = "control" /\ At("value")
  /\ store' = [store EXCEPT ![addr] = Value(Element.a, store)]
  /\ Execute /\ NextElement
  /\ UNCHANGED <<for, pending>>

(* E while F: a value, and then the test, which sees it. *)
WhileAssign ==
  /\ at = "control" /\ At("while")
  /\ store' = [store EXCEPT ![addr] = Value(Element.a, store)]
  /\ at' = "test"
  /\ UNCHANGED <<for, el, first, addr, pending>>

WhileTest ==
  /\ at = "test" /\ At("while")
  /\ IF Holds(Element.f, store)
     THEN Execute /\ UNCHANGED <<el, first>>
     ELSE NextElement /\ at' = "control" /\ UNCHANGED addr
  /\ UNCHANGED <<for, store, pending>>

(* A step B until C: the first value is A, every other one the controlled  *)
(* variable plus B.                                                        *)
StepAdvance ==
  /\ at = "control" /\ At("step")
  /\ LET b == Value(Element.b, store)
     IN pending' = [v   |-> IF first THEN Value(Element.a, store) ELSE store[addr] + b,
                    dir |-> Sign(b)]
  /\ at' = "test" /\ first' = FALSE
  /\ UNCHANGED <<for, store, el, addr>>

StepTest ==
  /\ at = "test" /\ At("step")
  /\ store' = [store EXCEPT ![addr] = pending.v]
  /\ IF Exhausted(pending.dir, pending.v, Value(Element.c, store))
     THEN NextElement /\ at' = "control" /\ UNCHANGED addr
     ELSE Execute /\ UNCHANGED <<el, first>>
  /\ pending' = NoValue
  /\ UNCHANGED for

Controlled ==
  /\ at = "statement"
  /\ store' \in Statement(for, store)
  /\ at' = "control" /\ addr' = Address(for, store')
  /\ UNCHANGED <<for, el, first, pending>>

Done ==
  /\ at = "control" /\ el > Len(for.list)
  /\ at' = "done" /\ addr' = NoAddress
  /\ UNCHANGED <<for, store, el, first, pending>>

Next ==
  \/ ValueElement \/ WhileAssign \/ WhileTest \/ StepAdvance \/ StepTest
  \/ Controlled \/ Done

Spec == Init /\ [][Next]_vars
=============================================================================
