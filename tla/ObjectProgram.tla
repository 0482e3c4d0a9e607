--------------------------- MODULE ObjectProgram ---------------------------
(***************************************************************************)
(* The static side of an object program: what the compiler (x1algc.c)      *)
(* fixes about a program before the X1 executes it.  A program is a tree   *)
(* of blocks (procedures, inner blocks and for statements), each with the  *)
(* formal parameters of its heading; the text of a block is not spelled    *)
(* out: the machines of AlgolContexts and X1RunTime may execute, at each   *)
(* step, any operation the compiler could have put there.  One choice of   *)
(* the constants thus stands for every program with that block tree.       *)
(***************************************************************************)
EXTENDS Integers, Sequences

CONSTANTS
  Block,      \* procedures, inner blocks and for blocks
  Main,       \* the outermost block, whose block number is 0
  Path,       \* Path[b]: the blocks enclosing b from level 1 on, b included
  Formals,    \* Formals[b]: the kinds of b's formal parameters
  ForBlock,   \* the blocks that are controlled statements of a for statement
  Locals,     \* Locals[b]: words of local variables reserved on entry to b
  StdFun,     \* standard functions (abs, sin, ...) that are passed as actuals
  Actuals,    \* the kinds of actual parameters the program contains
  PassedProcs,\* the procedures with one parameter that are passed as actuals
  MaxTemps    \* bound on the intermediate results of one context

FormalKinds == {"num", "proc", "label"}
ActualKinds == {"static", "stack", "formal", "value", "address",
                "function", "label", "formal procedure"}

(***************************************************************************)
(* The block number BN the compiler gives to a block: bn is incremented by *)
(* every block, for statement and parameter list it is inside of.          *)
(***************************************************************************)
Level(b) == Len(Path[b])

(* The formal list a procedure passed as a parameter must have. *)
ProcFormals == <<"num">>

ASSUME ProgramAssumption ==
  /\ Main \notin Block
  /\ StdFun \cap (Block \cup {Main}) = {}
  /\ Path \in [Block \cup {Main} -> Seq(Block)]
  /\ Path[Main] = << >>
  /\ \A b \in Block : /\ Level(b) > 0
                      /\ Path[b][Level(b)] = b
                      /\ \A l \in 1 .. Level(b) : Path[Path[b][l]] = SubSeq(Path[b], 1, l)
  /\ Formals \in [Block -> Seq(FormalKinds)]
  /\ ForBlock \subseteq {b \in Block : Formals[b] = << >>}
  /\ Locals \in [Block -> Nat]
  /\ Actuals \subseteq ActualKinds
  /\ PassedProcs \subseteq {b \in Block : Formals[b] = ProcFormals}
  /\ MaxTemps \in Nat \ {0}

-----------------------------------------------------------------------------
(***************************************************************************)
(* A code position: a part of the text of a block.  "entry" is the first   *)
(* instruction (2B bn; SCC), "locals" the reservation of local variables,  *)
(* "body" the statements; "value", "address" and "label" are the implicit  *)
(* subroutines compiled for actual parameters written in the block.        *)
(***************************************************************************)
At(home, part) == [home |-> home, part |-> part]

Parts == {"entry", "locals", "body", "value", "address", "label", "std", "stopped"}

Code == [home : Block \cup {Main} \cup StdFun, part : Parts]

ThunkParts == {"value", "address", "label"}

(* The text in which statements and expressions of the program stand. *)
UserParts == {"body"} \cup ThunkParts

(* Identifiers declared in the blocks around h are the only ones known there. *)
VisibleFrom(h) ==
  {b \in Block : /\ Level(b) <= Level(h) + 1
                 /\ \A l \in 1 .. Level(b) - 1 : Path[b][l] = Path[h][l]}

Procedure(b) == b \notin ForBlock

(* Formal parameters of kind k that are in scope in h, as dynamic addresses. *)
FormalsInScope(h, k) ==
  UNION {{[bn |-> l, arg |-> i] :
            i \in {j \in DOMAIN Formals[Path[h][l]] : Formals[Path[h][l]][j] = k}}
         : l \in 1 .. Level(h)}

-----------------------------------------------------------------------------
(***************************************************************************)
(* PORDs, the words that describe the actual parameters of a call.  With   *)
(* the fields t and Q of doc/pords-and-pards.md:                           *)
(*   static  t=0, Q=0 or 1  a variable of the outermost block, in store    *)
(*   stack   t=1, Q=0 or 1  a variable of the block at level bn            *)
(*   formal  t=3            a formal of the block at level bn, passed on   *)
(*   sub     t=0, Q=2       a procedure, or an implicit subroutine that    *)
(*                          leaves a number (or leaves for a label)        *)
(*   asub    t=0, Q=3       an implicit subroutine that leaves an address  *)
(***************************************************************************)
Sub(at)  == [kind |-> "sub",  at |-> at]
ASub(at) == [kind |-> "asub", at |-> at]
Passed(a) == [kind |-> "formal", bn |-> a.bn, arg |-> a.arg]

(* The position in its frame of the first local variable of b: after five  *)
(* words of linkage and two for each formal parameter.                     *)
FirstLocal(b) == 5 + 2 * Len(Formals[b])

(* A kind of actual occurs only in programs that contain it. *)
If(k, S) == IF k \in Actuals THEN S ELSE {}

(* The PORDs the compiler may write in block h for a number or variable, *)
(* for a procedure, and for a label.                                      *)
NumPords(h) ==
  If("static",   {[kind |-> "static"]})
  \cup If("stack",    {[kind |-> "stack", bn |-> l, addr |-> FirstLocal(Path[h][l])] :
                          l \in {m \in 1 .. Level(h) : Locals[Path[h][m]] > 0}})
  \cup If("value",    {Sub(At(h, "value"))})
  \cup If("address",  {ASub(At(h, "address"))})
  \cup If("function", {Sub(At(b, "entry")) :
                          b \in {c \in VisibleFrom(h) : Procedure(c) /\ Formals[c] = << >>}})
  \cup If("formal",   {Passed(a) : a \in FormalsInScope(h, "num")})

ProcPords(h) ==
  {Sub(At(b, "entry")) : b \in (PassedProcs \cap VisibleFrom(h)) \cup StdFun}
  \cup If("formal procedure", {Passed(a) : a \in FormalsInScope(h, "proc")})

LabelPords(h) ==
  If("label", {Sub(At(h, "label"))})
  \cup If("formal", {Passed(a) : a \in FormalsInScope(h, "label")})

(* ... for a parameter of kind k. *)
Pords(h, k) ==
  CASE k = "num"   -> NumPords(h)
    [] k = "proc"  -> ProcPords(h)
    [] k = "label" -> LabelPords(h)

PordSet == UNION {Pords(h, k) : h \in Block \cup {Main}, k \in FormalKinds}

(* The parameter lists a call in block h may give to formals of these kinds. *)
ArgLists(h, kinds) ==
  {p \in [DOMAIN kinds -> UNION {Pords(h, kinds[i]) : i \in DOMAIN kinds}] :
     \A i \in DOMAIN kinds : p[i] \in Pords(h, kinds[i])}

-----------------------------------------------------------------------------
(***************************************************************************)
(* What is to be done with the value of a formal (Formal_Op), and what it  *)
(* becomes when the implicit subroutine leaves an address instead.         *)
(***************************************************************************)
FormalOps == {"PUSH_VALUE", "PUSH_ADDRESS", "ADD", "PUSH_DEREF", "ADD_DEREF"}

(* The operations instructions ask for; ADD stands for the four of arithmetic. *)
TakeOps == {"PUSH_VALUE", "ADD"}

(* Not the code: the address is added. *)
DerefNoAdd(op) == IF op = "ADD" THEN "ADD" ELSE "PUSH_DEREF"

Deref(op) ==
  CASE op = "PUSH_ADDRESS" -> "PUSH_ADDRESS"
    [] op = "PUSH_VALUE"   -> "PUSH_DEREF"
    [] op = "ADD"          -> "ADD_DEREF"

(* An operation that combines the new value with the one below it. *)
Combines(op) == op \in {"ADD", "ADD_DEREF"}
=============================================================================
