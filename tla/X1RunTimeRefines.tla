-------------------------- MODULE X1RunTimeRefines --------------------------
(***************************************************************************)
(* X1RunTime implements AlgolContexts: what the contexts are in terms of   *)
(* frames, display and return addresses.  Context 1 is the outermost       *)
(* block, context k + 1 the one that runs in the k-th frame of the stack;  *)
(* where context k was left is told by the frame above it.                 *)
(***************************************************************************)
EXTENDS X1RunTime, FiniteSetsExt, SequencesExt

Cell(i) == stack[i + 1]

(* The frames on the stack, the oldest first. *)
FrameSeq == SetToSortSeq(Frames, <)

(* The context that runs in the frame at f. *)
ContextOf(frames, f) == 1 + Cardinality({k \in DOMAIN frames : frames[k] <= f})

CodeOf(frames, k) == IF k > Len(frames) THEN ot ELSE Cell(frames[k] + PC).at
FpOf(frames, k)   == IF k > Len(frames) THEN frame_ptr ELSE Cell(frames[k] + FP).v
BaseOf(frames, k) == IF k > Len(frames) THEN stack_base ELSE Cell(frames[k] + SP).v
EndOf(frames, k)  == IF k > Len(frames) THEN Len(stack) ELSE frames[k] - 1

(* The frames of the static chain of n frames that starts at fp, the       *)
(* outermost first.                                                        *)
Chain[fp \in Nat, n \in Nat] ==
  IF n = 0 THEN << >> ELSE Append(Chain[Cell(fp + DISPLAY).v, n - 1], fp)

Env(frames, chain) == [l \in DOMAIN chain |-> ContextOf(frames, chain[l])]

EnvOf(frames, k) ==
  LET code == CodeOf(frames, k)
      h    == code.home
  IN IF h \in StdFun THEN << >>
     ELSE IF code.part = "entry"
     THEN Append(Env(frames, Chain[display[Level(h) - 1], Level(h) - 1]), k)
     ELSE Env(frames, Chain[FpOf(frames, k), Level(h)])

(* The place and the frames of the closure that a PORD and a PARD stand    *)
(* for, indirections followed.                                             *)
ClosureOf[f \in Nat, i \in Nat] ==
  LET ret   == Cell(f + PC)
      pard  == Cell(f + ARG + 2 * i - 1).v
      chain == Chain[pard % 2^FP_BITS, pard \div 2^FP_BITS]
      d     == ret.pords[i]
  IN IF d.kind = "formal" THEN ClosureOf[chain[d.bn], d.arg]
     ELSE [pord |-> d, home |-> ret.at.home, env |-> chain]

ArgsOf(frames, k) ==
  IF k = 1 THEN << >>
  ELSE LET f == frames[k - 1]
       IN  [i \in DOMAIN Cell(f + PC).pords |->
              LET c == ClosureOf[f, i] IN [c EXCEPT !.env = Env(frames, @)]]

OpOf(frames, k) ==
  LET op == eis_operation[BaseOf(frames, k)]
  IN  IF k = 1 \/ op = "REMOVE_ARG" THEN "PUSH_VALUE" ELSE op

ResOf(frames, k) ==
  IF k = 1 THEN "none"
  ELSE LET result == Cell(frames[k - 1] - 1)
       IN CASE result = Null -> "none" [] result = Val(1) -> "assigned" [] OTHER -> "undefined"

Contexts ==
  LET frames == FrameSeq
  IN  [k \in 1 .. Len(frames) + 1 |->
         LET code == CodeOf(frames, k)
         IN  [code |-> IF code.home \in Block /\ code.part \in {"entry", "locals"}
                       THEN At(code.home, "body") ELSE code,
              env |-> EnvOf(frames, k), args |-> ArgsOf(frames, k),
              op |-> OpOf(frames, k), res |-> ResOf(frames, k),
              temps |-> EndOf(frames, k) - BaseOf(frames, k)]]

(***************************************************************************)
(* ctx records, beside the run-time system, the contexts it stands for.    *)
(***************************************************************************)
VARIABLE ctx

RefinesInit == Init /\ ctx = Contexts
RefinesNext == Next /\ ctx' = Contexts'
RefinesSpec == RefinesInit /\ [][RefinesNext]_<<vars, ctx>>

Abs == INSTANCE AlgolContexts WITH ctx <- ctx, MaxContexts <- MaxFrames + 1

(* Frames, display, PARDs and post-operations carry out exactly the calls, *)
(* evaluations, jumps and returns of ALGOL 60.                             *)
ImplementsAlgol == Abs!Spec

(* No operation passes for another one: what STP does is an assignment to  *)
(* that function, what ETMR does is that call, and so on for each.         *)
ResultOf(result) == IF result = Null THEN "none" ELSE "undefined"

OperationByOperation ==
  [][/\ Running /\ InUserText /\ error' = "none" =>
         /\ \A l \in 1 .. Level(ot.home) : AssignResult(l) => Abs!AssignResult(l)
         /\ \A l \in 0 .. Level(ot.home) : Goto(l) => Abs!Goto(l)
         /\ \A b \in Block, result \in {Null, Val(0)} :
              \A args \in ArgLists(ot.home, Formals[b]) :
                Call(b, args, result) => Abs!Call(b, args, ResultOf(result))
         /\ \A a \in FormalsInScope(ot.home, "num"), op \in TakeOps :
              TakeFormal(a, op) => Abs!TakeFormal(a, op)
         /\ \A a \in FormalsInScope(ot.home, "proc"), result \in {Null, Val(0)} :
              \A args \in ArgLists(ot.home, ProcFormals) :
                CallFormal(a, args, result) => Abs!CallFormal(a, args, ResultOf(result))
         /\ \A b \in Block : EnterFor(b) => Abs!EnterFor(b)
         /\ Return => Abs!Return
         /\ ExitFor => Abs!ExitFor
     /\ Running /\ EndSubroutine => Abs!EndSubroutine]_<<vars, ctx>>

(* Every name means the activation that is lexically around it. *)
LexicalScopes == Abs!StaticScoping

LiveContexts == <<LiveState, ctx>>
=============================================================================
