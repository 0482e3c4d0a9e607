--------------------------- MODULE AlgolContexts ---------------------------
(***************************************************************************)
(* What the run-time system promises: the dynamic behaviour of ALGOL 60    *)
(* blocks, procedures, parameters called by name and goto statements, told *)
(* with environments instead of frames, display and return addresses.      *)
(*                                                                         *)
(* ctx is the stack of contexts in execution.  A context executes a piece  *)
(* of program text in an environment: env[l] is the context (its index in  *)
(* ctx) that is the activation of the block at level l.  An actual         *)
(* parameter is a closure: the PORD and the environment of the call.       *)
(* X1RunTime is shown to implement this module in X1RunTimeRefines.        *)
(***************************************************************************)
EXTENDS ObjectProgram

CONSTANT MaxContexts      \* no more contexts than this are made by user text

ASSUME MaxContextsAssumption == MaxContexts \in Nat \ {0}

VARIABLE ctx

Top == ctx[Len(ctx)]
Here == Top.code.home
Fresh == Len(ctx) + 1

(* res: does the caller expect a value, and has it been given one? *)
Results == {"none", "undefined", "assigned"}

Context(code, env, args, op, res) ==
  [code |-> code, env |-> env, args |-> args, op |-> op, res |-> res, temps |-> 0]

(* A new activation of block b, declared in the environment env. *)
Activation(b, env, args, op, res) ==
  Context(At(b, "body"), Append(SubSeq(env, 1, Level(b) - 1), Fresh), args, op, res)

Enter(c) == ctx' = Append(ctx, c)

Update(c) == ctx' = [ctx EXCEPT ![Len(ctx)] = c]

(* Not the code: the value is pushed whatever the operation. *)
AppliedAlwaysPushes(c, op) == [c EXCEPT !.temps = @ + 1]

(* A value arrives in context c: it is pushed, or combined with the last one. *)
Applied(c, op) == IF Combines(op) THEN c ELSE [c EXCEPT !.temps = @ + 1]

(* Not the code: a value may be combined with an operand that is not there. *)
CanApplyWithoutOperand(op) == Top.temps < MaxTemps

CanApply(op) == IF Combines(op) THEN Top.temps > 0 ELSE Top.temps < MaxTemps

(* Leave the top context, giving its value to the one below if there is one. *)
Leave ==
  LET below == SubSeq(ctx, 1, Len(ctx) - 1)
      n     == Len(below)
  IN ctx' = IF Top.res = "none" THEN below
            ELSE [below EXCEPT ![n] = Applied(below[n], Top.op)]

(* Not the code: a formal is passed on with the environment of the new call. *)
ClosureOfPasser(p) ==
  IF p.kind = "formal" THEN [ctx[Top.env[p.bn]].args[p.arg] EXCEPT !.env = Top.env]
                       ELSE [pord |-> p, home |-> Here, env |-> Top.env]

(***************************************************************************)
(* A formal parameter that is passed on is the closure it was given.       *)
(***************************************************************************)
Closure(p) ==
  IF p.kind = "formal" THEN ctx[Top.env[p.bn]].args[p.arg]
                       ELSE [pord |-> p, home |-> Here, env |-> Top.env]

Closures(args) == [i \in DOMAIN args |-> Closure(args[i])]

Actual(a) == ctx[Top.env[a.bn]].args[a.arg]

InUserText == Top.code.part \in UserParts
InBody == Top.code.part = "body"

(* A procedure statement stands alone; a function designator is an operand. *)
CallPoint(res) ==
  IF res = "none" THEN InBody /\ Top.temps = 0
                  ELSE Top.temps < MaxTemps

-----------------------------------------------------------------------------
Init == ctx = <<Context(At(Main, "body"), << >>, << >>, "PUSH_VALUE", "none")>>

(* An operand is loaded, or an instruction consumes one. *)
LoadOperand ==
  /\ Top.temps < MaxTemps
  /\ Update([Top EXCEPT !.temps = @ + 1])

Consume ==
  /\ Top.temps > 0
  /\ Update([Top EXCEPT !.temps = @ - 1])

(* A call of procedure b, known by its own name. *)
Call(b, args, res) ==
  /\ Fresh <= MaxContexts
  /\ Procedure(b) /\ b \in VisibleFrom(Here)
  /\ CallPoint(res)
  /\ Enter(Activation(b, Top.env, Closures(args), "PUSH_VALUE", res))

(* The controlled statement of a for statement is a block of its own. *)
EnterFor(b) ==
  /\ Fresh <= MaxContexts
  /\ b \in ForBlock \cap VisibleFrom(Here)
  /\ Level(b) = Level(Here) + 1
  /\ CallPoint("none")
  /\ Enter(Activation(b, Top.env, << >>, "PUSH_VALUE", "none"))

(* The formal procedure a is called: its body sees its own environment. *)
CallFormal(a, args, res) ==
  /\ Fresh <= MaxContexts
  /\ CallPoint(res)
  /\ LET act == Actual(a)
         b   == act.pord.at.home
     IN \/ /\ b \in Block
           /\ Enter(Activation(b, act.env, Closures(args), "PUSH_VALUE", res))
        \/ /\ b \in StdFun /\ res # "none"
           /\ Enter(Context(At(b, "entry"), << >>, Closures(args), "PUSH_VALUE", res))

(* The actual parameter act is evaluated where it was written. *)
Evaluate(act, op, c) ==
  LET at  == act.pord.at
      op1 == IF act.pord.kind = "asub" THEN Deref(op) ELSE op
  IN \/ /\ act.pord.kind \in {"static", "stack"}
        /\ Update(Applied(c, op))
     \/ /\ act.pord.kind \in {"sub", "asub"}
        /\ ctx' = Append([ctx EXCEPT ![Len(ctx)] = c],
                         IF at.part = "entry"
                         THEN Activation(at.home, act.env, << >>, op1, "undefined")
                         ELSE Context(at, act.env, << >>, op1, "undefined"))

TakeFormal(a, op) ==
  /\ Fresh <= MaxContexts
  /\ CanApply(op)
  /\ Evaluate(Actual(a), op, Top)

(* Not the code: a standard function may take its parameter again. *)
TakeParameterAgain ==
  /\ Here \in StdFun /\ Top.code.part = "entry"
  /\ Evaluate(Top.args[1], "PUSH_VALUE", Top)

(* A standard function takes its parameter. *)
TakeParameter ==
  /\ Here \in StdFun /\ Top.code.part = "entry"
  /\ Evaluate(Top.args[1], "PUSH_VALUE", [Top EXCEPT !.code.part = "std"])

(* goto l, where l is a formal parameter. *)
GotoFormal(a) ==
  /\ Fresh <= MaxContexts
  /\ InBody /\ Top.temps = 0
  /\ Evaluate(Actual(a), "PUSH_VALUE", Top)

(* A value is assigned to the function whose activation is at level l. *)
AssignResult(l) ==
  /\ InBody /\ Top.temps = 1
  /\ Procedure(Path[Here][l])
  /\ LET f == Top.env[l]
         r == IF ctx[f].res = "none" THEN "none" ELSE "assigned"
     IN ctx' = [ctx EXCEPT ![Len(ctx)].temps = 0, ![f].res = r]

(* The end of a procedure or block. *)
Return ==
  /\ InBody /\ Top.temps = 0
  /\ Here # Main /\ Procedure(Here)
  /\ Leave

(* The end of a for statement, with the controlled variable still stacked. *)
ExitFor ==
  /\ InBody /\ Here \in ForBlock /\ Top.temps = 1
  /\ Leave

(* The end of an implicit subroutine or standard function. *)
EndSubroutine ==
  /\ Top.code.part \in {"value", "address", "std"}
  /\ Top.temps = 1
  /\ Leave

(***************************************************************************)
(* goto a label of the block at level l: every context above the           *)
(* activation of that block is gone, and so are its intermediate results.  *)
(***************************************************************************)
Goto(l) ==
  /\ Top.code.part \in {"body", "label"} /\ Top.temps = 0
  /\ InBody => l < Level(Here)
  /\ LET t == IF l = 0 THEN 1 ELSE Top.env[l]
     IN ctx' = [SubSeq(ctx, 1, t) EXCEPT ![t].temps = 0]

Stop ==
  /\ Len(ctx) = 1 /\ InBody /\ Top.temps = 0
  /\ Update([Top EXCEPT !.code.part = "stopped"])

Stopped == Top.code.part = "stopped" /\ UNCHANGED ctx

(* The operations user text can ask for at any point. *)
UserStep ==
  \/ LoadOperand \/ Consume
  \/ \E b \in Block : EnterFor(b)
  \/ \E b \in Block, res \in {"none", "undefined"} :
       \E args \in ArgLists(Here, Formals[b]) : Call(b, args, res)
  \/ \E a \in FormalsInScope(Here, "num"), op \in TakeOps : TakeFormal(a, op)
  \/ \E a \in FormalsInScope(Here, "label") : GotoFormal(a)
  \/ \E a \in FormalsInScope(Here, "proc"), res \in {"none", "undefined"} :
       \E args \in ArgLists(Here, ProcFormals) : CallFormal(a, args, res)
  \/ \E l \in 1 .. Level(Here) : AssignResult(l)
  \/ \E l \in 0 .. Level(Here) : Goto(l)
  \/ Return \/ ExitFor \/ Stop

Next ==
  \/ InUserText /\ UserStep
  \/ TakeParameter
  \/ EndSubroutine
  \/ Stopped

Spec == Init /\ [][Next]_ctx

-----------------------------------------------------------------------------
(***************************************************************************)
(* Lexical scoping.                                                        *)
(***************************************************************************)

(* In the stack of contexts cs, environment env, in use in block h, names *)
(* for every enclosing block of h an activation of exactly that block, at *)
(* or below context k, which itself sees the same outer activations.      *)
ScopeOK(cs, h, env, k) ==
  /\ h \in Block \cup {Main}
  /\ Len(env) = Level(h)
  /\ \A l \in 1 .. Level(h) :
       /\ env[l] \in 2 .. k
       /\ cs[env[l]].code = At(Path[h][l], "body")
       /\ Len(cs[env[l]].env) = l
       /\ \A m \in 1 .. l : cs[env[l]].env[m] = env[m]

(* A closure for a formal of this kind, made at or below context k. *)
ClosureOK(cs, clo, kind, k) ==
  /\ ScopeOK(cs, clo.home, clo.env, k)
  /\ clo.pord \in Pords(clo.home, kind)
  /\ clo.pord.kind # "formal"

ArgsOK(cs, args, kinds, k) ==
  /\ DOMAIN args = DOMAIN kinds
  /\ \A i \in DOMAIN kinds : ClosureOK(cs, args[i], kinds[i], k)

ContextOK(cs, k) ==
  LET c == cs[k]
      h == c.code.home
  IN IF h \in StdFun THEN ArgsOK(cs, c.args, ProcFormals, k - 1)
     ELSE /\ ScopeOK(cs, h, c.env, k)
          /\ (c.code.part = "body" /\ h \in Block) =>
               /\ c.env[Level(h)] = k
               /\ ArgsOK(cs, c.args, Formals[h], k - 1)

(* Every name used anywhere in the program means the variable or formal of *)
(* the activation that is lexically around it, however deep the recursion, *)
(* through whatever thunks, formal procedures and jumps the place was      *)
(* reached; and no actual parameter refers to an activation that is gone.  *)
StaticScoping == \A k \in 1 .. Len(ctx) : ContextOK(ctx, k)

(* The operation that waits below a context for its value can be carried   *)
(* out when the value comes: the left operand of an addition is still      *)
(* there, and there is room for a value that is pushed.                    *)
PendingOperands ==
  \A k \in 1 .. Len(ctx) - 1 :
    ctx[k + 1].res # "none" =>
      IF Combines(ctx[k + 1].op) THEN ctx[k].temps > 0 ELSE ctx[k].temps < MaxTemps

(* A standard function takes its parameter first, with nothing stacked. *)
StdContexts ==
  \A k \in 1 .. Len(ctx) :
    ctx[k].code.home \in StdFun =>
      /\ k <= MaxContexts
      /\ \/ ctx[k].code.part = "std"
         \/ ctx[k].code.part = "entry" /\ k = Len(ctx) /\ ctx[k].temps = 0

(* The outermost block is at the bottom, and never evaluated as a thunk. *)
Bottom ==
  /\ ctx[1].code.home = Main
  /\ ctx[1].code.part \in {"body", "stopped"}

CodeParts == Parts \ {"locals"}

ClosureSet == [pord : PordSet, home : Block \cup {Main}, env : Seq(Nat)]

ContextSet ==
  [code : [home : Block \cup {Main} \cup StdFun, part : CodeParts],
   env : Seq(Nat), args : Seq(ClosureSet),
   op : FormalOps, res : Results, temps : 0 .. MaxTemps]

TypeOK ==
  /\ ctx \in Seq(ContextSet)
  /\ Len(ctx) \in 1 .. MaxContexts + 1
=============================================================================
