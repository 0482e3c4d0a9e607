----------------------------- MODULE ForProgram -----------------------------
(***************************************************************************)
(* The for statements of a program: a for list, a controlled variable and  *)
(* a controlled statement.  Expressions have no side effects; what they    *)
(* are is left open.  The elements of a for list are                       *)
(*     [kind |-> "value", a |-> E]                              E          *)
(*     [kind |-> "while", a |-> E, f |-> F]                     E while F  *)
(*     [kind |-> "step", a |-> A, b |-> B, c |-> C]    A step B until C    *)
(***************************************************************************)
EXTENDS Integers, Sequences

CONSTANTS
  ForStatements,  \* for statements, records with the for list in .list
  Stores,         \* what the variables may hold at first
  Address(_, _),  \* Address(f, s): the controlled variable of f in store s
  Value(_, _),    \* Value(e, s): the expression e in store s
  Holds(_, _),    \* Holds(e, s): the Boolean expression e in store s
  Statement(_, _) \* Statement(f, s): the stores the statement may leave

Kinds == {"value", "while", "step"}

ASSUME ForAssumption ==
  \A f \in ForStatements :
    /\ Len(f.list) \in Nat \ {0}
    /\ \A i \in 1 .. Len(f.list) : f.list[i].kind \in Kinds

Sign(n) == IF n > 0 THEN 1 ELSE IF n < 0 THEN -1 ELSE 0
=============================================================================
