--------------------------- MODULE MCForStatement ---------------------------
(***************************************************************************)
(* ForStatement for all for lists of at most two elements from a small     *)
(* set, with a simple or a subscripted controlled variable, and statements *)
(* that may assign to it, to its subscript, or to nothing.                 *)
(***************************************************************************)
EXTENDS ForStatementRefines, SequencesExt, FiniteSetsExt

CONSTANTS Lists, Assigned

(* The variables: i and j, and an array a whose element a[j] may be used. *)
MCCell == {"i", "j", "a0", "a1"}

Const(k)  == [var |-> "none", k |-> k]
Var(c, k) == [var |-> c, k |-> k]

MCValue(e, s) == e.k + (IF e.var = "none" THEN 0 ELSE s[e.var])

(* e = [var, below]: the relation var < below *)
MCHolds(e, s) == s[e.var] < e.below

MCAddress(f, s) ==
  IF f.controlled = "i" THEN "i" ELSE IF s["j"] = 0 THEN "a0" ELSE "a1"

MCStatement(f, s) ==
  {s} \cup {[s EXCEPT ![c] = v] : c \in f.assigned, v \in 0 .. 1}

MCStores == {[c \in MCCell |-> v] : v \in {0, 1}}

ValueOf(a) == [kind |-> "value", a |-> a]
WhileOf(a, f) == [kind |-> "while", a |-> a, f |-> f]
StepOf(a, b, c) == [kind |-> "step", a |-> a, b |-> b, c |-> c]

MCElements ==
  {ValueOf(Const(3)),
   WhileOf(Var("i", 1), [var |-> "i", below |-> 3]),
   WhileOf(Const(1), [var |-> "a1", below |-> 1]),
   StepOf(Const(1), Const(1), Const(3)),
   StepOf(Const(2), Const(-1), Const(1)),
   StepOf(Const(2), Const(2), Const(1)),
   StepOf(Const(3), Const(2), Const(4)),
   StepOf(Var("i", 1), Var("j", 0), Const(2))}

MCFor ==
  {[list |-> l, controlled |-> v, assigned |-> A] :
     l \in UNION {[1 .. n -> MCElements] : n \in 1 .. Lists},
     v \in {"i", "a"}, A \in Assigned}

-----------------------------------------------------------------------------
(* The values the controlled variable has had when the statement began. *)
VARIABLE given

MCInit == Init /\ given = << >>

Plain(f) ==
  /\ f.assigned = {}
  /\ \A i \in DOMAIN f.list :
       /\ f.list[i].kind \in {"value", "step"}
       /\ \A x \in DOMAIN f.list[i] \ {"kind"} : f.list[i][x].var = "none"

MCNext ==
  /\ Next
  /\ given' = IF Plain(for) /\ Running /\ Jump
              THEN Append(given, store[Address(for, store)]) ELSE given

MCSpec == MCInit /\ [][MCNext]_<<vars, given>> /\ WF_<<vars, given>>(MCNext)

Size(n) == IF n < 0 THEN -n ELSE n

(* What the ALGOL 60 report says a list of constants yields. *)
Progression(a, b, c) ==
  LET n == IF (c - a) * b < 0 THEN 0 ELSE (Size(c - a) \div Size(b)) + 1
  IN [m \in 1 .. n |-> a + (m - 1) * b]

Expected(f) ==
  FlattenSeq([i \in DOMAIN f.list |->
    LET e == f.list[i]
    IN IF e.kind = "value" THEN <<e.a.k>> ELSE Progression(e.a.k, e.b.k, e.c.k)])

(* A for list of constants gives the controlled variable the values the    *)
(* ALGOL 60 report says, in order, and the for statement ends after them.  *)
ValuesInOrder ==
  Plain(for) => /\ IsPrefix(given, Expected(for))
                /\ ot = After => given = Expected(for)

(* The statement leaves the variables alone, steps are not zero, and while *)
(* elements count up to their bound.                                       *)
Bounded(f) ==
  /\ f.assigned = {}
  /\ \A i \in DOMAIN f.list :
       LET e == f.list[i]
       IN \/ e.kind = "value"
          \/ e.kind = "while" /\ f.controlled = "i" /\ e.a.var = "i" /\ e.f.var = "i"
          \/ e.kind = "step" /\ e.b.var = "none"

(* Such a for statement comes to its end. *)
Terminates == Bounded(for) ~> (ot = After \/ ~Running)
=============================================================================
