------------------------ MODULE ForStatementRefines ------------------------
(***************************************************************************)
(* ForStatement implements ForList: the element in use is the one the      *)
(* return address is in, and it has given a value unless the return        *)
(* address is at its beginning or the result word is null.                 *)
(***************************************************************************)
EXTENDS ForStatement

NoAddress == "no address"
NoValue == [v |-> 0, dir |-> 0]

Testing == \E order \in {"f", "FOR4", "c", "FOR7"} : InElement(order)

AtOf ==
  IF ot = After THEN "done"
  ELSE IF ot[1] = 0 /\ ot[2] \in {3, 4} THEN "statement"
  ELSE IF Testing THEN "test" ELSE "control"

FirstOf == PC[2] = 1 \/ RESULT = Null

AddrOf ==
  IF Depth > 0 THEN operands[1].v
  ELSE IF ot = L0 THEN Address(for, store) ELSE NoAddress

PendingOf ==
  IF InElement("c") \/ InElement("FOR7")
  THEN [v |-> operands[2].v, dir |-> RESULT.v] ELSE NoValue

Abs == INSTANCE ForList WITH el <- PC[1], first <- FirstOf, at <- AtOf,
                             addr <- AddrOf, pending <- PendingOf

(* The nine operations, the return address, the link and the result word   *)
(* carry out the for list, element by element, whatever the expressions    *)
(* are and whatever the controlled statement does to the variables.        *)
ImplementsForList == Abs!Spec

-----------------------------------------------------------------------------
(* The operands an element has stacked at order n. *)
Stacked(kind, n) ==
  CASE kind = "value" -> <<1, 2>>[n]
    [] kind = "while" -> <<1, 2, 1, 2>>[n]
    [] kind = "step"  -> IF RESULT = Null THEN <<1, 2, 2, 3, 2, 3>>[n]
                                          ELSE <<1, 2, 1, 2, 2, 3>>[n]

(* The links of the frame and its operands fit the place in the program:   *)
(* nothing is left on the stack while the controlled statement runs, or    *)
(* after the for statement; an element finds the operands its next order   *)
(* takes, whether it was entered for the first time, from an exhausted     *)
(* element, or again; and control returns only to the element in use.      *)
ControlWords ==
  /\ ot[1] = 0 => Depth = IF ot[2] = 2 THEN 1 ELSE 0
  /\ ot[1] \in 1 .. LastElement =>
       /\ PC[1] = ot[1] /\ LINK = <<0, 3>>
       /\ PC[2] = IF Element.kind = "step" /\ ot[2] > 2 THEN 3 ELSE 1
       /\ (Element.kind = "step" /\ ot[2] > 4) => RESULT # Null
       /\ Depth = Stacked(Element.kind, ot[2])
  /\ ot = <<LastElement + 1, 1>> => Depth = 1 /\ PC = ot
=============================================================================
