------------------------- MODULE AlgolContextsProofs -------------------------
(***************************************************************************)
(* What holds of AlgolContexts for every block tree, every choice of       *)
(* actual parameters and every bound.                                      *)
(***************************************************************************)
EXTENDS AlgolContexts, SequenceTheorems, TLAPS

(* The inductive invariant. *)
Inv ==
  /\ TypeOK
  /\ StaticScoping
  /\ PendingOperands
  /\ StdContexts
  /\ Bottom

-----------------------------------------------------------------------------
(* Facts about programs. *)

LEMMA BlockFacts ==
  ASSUME NEW b \in Block
  PROVE  /\ b # Main /\ b \notin StdFun
         /\ Path[b] \in Seq(Block)
         /\ Level(b) \in Nat \ {0}
         /\ Path[b][Level(b)] = b
         /\ \A l \in 1 .. Level(b) : Path[b][l] \in Block
         /\ Formals[b] \in Seq(FormalKinds)
         /\ DOMAIN Formals[b] = 1 .. Len(Formals[b])
  <1>1. Path[b] \in Seq(Block)
    BY ProgramAssumption
  <1>2. /\ b # Main /\ b \notin StdFun
        /\ Formals[b] \in Seq(FormalKinds)
    BY ProgramAssumption
  <1>3. Level(b) \in Nat /\ Level(b) > 0 /\ Path[b][Level(b)] = b
    BY <1>1, ProgramAssumption, LenProperties DEF Level
  <1>4. \A l \in 1 .. Level(b) : Path[b][l] \in Block
    BY <1>1, ElementOfSeq DEF Level
  <1> QED
    BY <1>1, <1>2, <1>3, <1>4, LenProperties

LEMMA MainFacts ==
  /\ Main \notin Block /\ Main \notin StdFun
  /\ Level(Main) = 0
  BY ProgramAssumption DEF Level

(* What the PORDs of a block can be. *)
LEMMA PordFacts ==
  ASSUME NEW h \in Block \cup {Main}, NEW k \in FormalKinds, NEW p \in Pords(h, k)
  PROVE  \/ k = "num" /\ p.kind \in {"static", "stack"}
         \/ k = "num" /\ p.kind = "sub" /\ p.at = At(h, "value")
         \/ k = "num" /\ p.kind = "asub" /\ p.at = At(h, "address")
         \/ k = "label" /\ p.kind = "sub" /\ p.at = At(h, "label")
         \/ k = "num" /\ p.kind = "sub" /\ \E b \in VisibleFrom(h) :
               p.at = At(b, "entry") /\ Formals[b] = << >>
         \/ k = "proc" /\ p.kind = "sub" /\ \E b \in (PassedProcs \cap VisibleFrom(h)) \cup StdFun :
               p.at = At(b, "entry")
         \/ p.kind = "formal" /\ \E a \in FormalsInScope(h, k) : p = Passed(a)
  <1>1. CASE k = "num"
    <2>1. \/ p.kind \in {"static", "stack"}
          \/ p = Sub(At(h, "value"))
          \/ p = ASub(At(h, "address"))
          \/ \E b \in VisibleFrom(h) : Formals[b] = << >> /\ p = Sub(At(b, "entry"))
          \/ \E a \in FormalsInScope(h, "num") : p = Passed(a)
      BY <1>1 DEF Pords, NumPords, If
    <2> QED
      BY <1>1, <2>1 DEF Sub, ASub, Passed
  <1>2. CASE k = "proc"
    <2>1. \/ \E b \in (PassedProcs \cap VisibleFrom(h)) \cup StdFun : p = Sub(At(b, "entry"))
          \/ \E a \in FormalsInScope(h, "proc") : p = Passed(a)
      BY <1>2 DEF Pords, ProcPords, If
    <2> QED
      BY <1>2, <2>1 DEF Sub, Passed
  <1>3. CASE k = "label"
    <2>1. p = Sub(At(h, "label")) \/ \E a \in FormalsInScope(h, "label") : p = Passed(a)
      BY <1>3 DEF Pords, LabelPords, If
    <2> QED
      BY <1>3, <2>1 DEF Sub, Passed
  <1> QED
    BY <1>1, <1>2, <1>3 DEF FormalKinds

LEMMA FormalFacts ==
  ASSUME NEW h \in Block \cup {Main}, NEW k \in FormalKinds, NEW a \in FormalsInScope(h, k)
  PROVE  /\ h \in Block
         /\ a.bn \in 1 .. Level(h)
         /\ Path[h][a.bn] \in Block
         /\ a.arg \in DOMAIN Formals[Path[h][a.bn]]
         /\ Formals[Path[h][a.bn]][a.arg] = k
  <1>1. PICK l \in 1 .. Level(h) :
           /\ a.bn = l
           /\ a.arg \in DOMAIN Formals[Path[h][l]]
           /\ Formals[Path[h][l]][a.arg] = k
    BY DEF FormalsInScope
  <1>2. h \in Block
    BY <1>1, MainFacts
  <1> QED
    BY <1>1, <1>2, BlockFacts

-----------------------------------------------------------------------------
(***************************************************************************)
(* Scopes survive as long as the contexts they name do.                    *)
(***************************************************************************)

(* Contexts j of two stacks agree on everything scoping depends on. *)
SameScope(cs, ds, j) ==
  /\ ds[j].code.home = cs[j].code.home
  /\ ds[j].env = cs[j].env
  /\ ds[j].args = cs[j].args
  /\ cs[j].code.home \in Block => ds[j].code = cs[j].code

Agree(cs, ds, n) == \A j \in 1 .. n : SameScope(cs, ds, j)

LEMMA LevelType ==
  ASSUME NEW h \in Block \cup {Main}
  PROVE  Level(h) \in Nat
  BY BlockFacts, MainFacts

LEMMA ScopeStable ==
  ASSUME NEW cs, NEW ds, NEW n \in Nat, Agree(cs, ds, n),
         NEW k \in Int, NEW m \in Int, k <= n, k <= m,
         NEW h, NEW env, ScopeOK(cs, h, env, k)
  PROVE  ScopeOK(ds, h, env, m)
  <1>1. h \in Block \cup {Main} /\ Len(env) = Level(h)
    BY DEF ScopeOK
  <1>2. ASSUME NEW l \in 1 .. Level(h)
        PROVE  /\ env[l] \in 2 .. m
               /\ ds[env[l]].code = At(Path[h][l], "body")
               /\ Len(ds[env[l]].env) = l
               /\ \A i \in 1 .. l : ds[env[l]].env[i] = env[i]
    <2>1. /\ env[l] \in 2 .. k
          /\ cs[env[l]].code = At(Path[h][l], "body")
          /\ Len(cs[env[l]].env) = l
          /\ \A i \in 1 .. l : cs[env[l]].env[i] = env[i]
      BY DEF ScopeOK
    <2>2. env[l] \in 1 .. n /\ env[l] \in 2 .. m
      BY <2>1
    <2>3. Path[h][l] \in Block
      BY <1>1, BlockFacts, MainFacts
    <2>4. cs[env[l]].code.home \in Block
      BY <2>1, <2>3 DEF At
    <2> QED
      BY <2>1, <2>2, <2>4 DEF SameScope, Agree
  <1> QED
    BY <1>1, <1>2 DEF ScopeOK

LEMMA ClosureStable ==
  ASSUME NEW cs, NEW ds, NEW n \in Nat, Agree(cs, ds, n),
         NEW k \in Int, NEW m \in Int, k <= n, k <= m,
         NEW clo, NEW kind, ClosureOK(cs, clo, kind, k)
  PROVE  ClosureOK(ds, clo, kind, m)
  BY ScopeStable DEF ClosureOK

LEMMA ArgsStable ==
  ASSUME NEW cs, NEW ds, NEW n \in Nat, Agree(cs, ds, n),
         NEW k \in Int, NEW m \in Int, k <= n, k <= m,
         NEW args, NEW kinds, ArgsOK(cs, args, kinds, k)
  PROVE  ArgsOK(ds, args, kinds, m)
  BY ClosureStable DEF ArgsOK

LEMMA ContextStable ==
  ASSUME NEW cs, NEW ds, NEW n \in Nat, Agree(cs, ds, n),
         NEW k \in 1 .. n, ContextOK(cs, k)
  PROVE  ContextOK(ds, k)
  <1> DEFINE h == cs[k].code.home
  <1>0. k \in Int /\ k - 1 \in Int /\ k <= n /\ k - 1 <= n
    OBVIOUS
  <1>1. SameScope(cs, ds, k)
    BY DEF Agree
  <1>2. ds[k].code.home = h /\ ds[k].env = cs[k].env /\ ds[k].args = cs[k].args
    BY <1>1 DEF SameScope
  <1>5. ASSUME NEW args, NEW kinds, ArgsOK(cs, args, kinds, k - 1)
        PROVE  ArgsOK(ds, args, kinds, k - 1)
    BY <1>0, <1>5, ArgsStable
  <1>3. CASE h \in StdFun
    <2>1. ArgsOK(cs, cs[k].args, ProcFormals, k - 1)
      BY <1>3 DEF ContextOK
    <2>2. ArgsOK(ds, cs[k].args, ProcFormals, k - 1)
      BY <2>1, <1>5
    <2> QED
      BY <1>2, <1>3, <2>2 DEF ContextOK
  <1>4. CASE h \notin StdFun
    <2>1. ScopeOK(ds, h, cs[k].env, k)
      BY <1>4, ScopeStable DEF ContextOK
    <2>2. ASSUME ds[k].code.part = "body", h \in Block
          PROVE  /\ cs[k].env[Level(h)] = k
                 /\ ArgsOK(ds, cs[k].args, Formals[h], k - 1)
      <3>1. ds[k].code = cs[k].code
        BY <1>1, <2>2 DEF SameScope
      <3>2. /\ cs[k].env[Level(h)] = k
            /\ ArgsOK(cs, cs[k].args, Formals[h], k - 1)
        BY <1>4, <2>2, <3>1 DEF ContextOK
      <3> QED
        BY <3>2, <1>5
    <2> QED
      BY <1>2, <1>4, <2>1, <2>2 DEF ContextOK
  <1> QED
    BY <1>3, <1>4

-----------------------------------------------------------------------------
(***************************************************************************)
(* New contexts on top of n old ones.                                      *)
(***************************************************************************)

LEMMA VisibleFacts ==
  ASSUME NEW h \in Block \cup {Main}, NEW b \in VisibleFrom(h)
  PROVE  /\ b \in Block
         /\ Level(b) - 1 \in 0 .. Level(h)
         /\ \A l \in 1 .. Level(b) - 1 : Path[b][l] = Path[h][l]
  BY BlockFacts, MainFacts DEF VisibleFrom

(* The activation of a block that is known in h, called from environment env. *)
LEMMA ActivationOK ==
  ASSUME NEW cs, NEW ds, NEW n \in Nat \ {0}, Agree(cs, ds, n),
         NEW h, NEW env \in Seq(Nat), ScopeOK(cs, h, env, n),
         NEW b \in VisibleFrom(h),
         NEW args, ArgsOK(cs, args, Formals[b], n),
         ds[n + 1].code = At(b, "body"), ds[n + 1].args = args,
         ds[n + 1].env = Append(SubSeq(env, 1, Level(b) - 1), n + 1)
  PROVE  ContextOK(ds, n + 1)
  <1> DEFINE e == ds[n + 1].env
             L == Level(b)
  <1>1. h \in Block \cup {Main} /\ Len(env) = Level(h)
    BY DEF ScopeOK
  <1>2. /\ b \in Block /\ L \in Nat \ {0} /\ L - 1 \in 0 .. Len(env)
        /\ \A l \in 1 .. L - 1 : Path[b][l] = Path[h][l]
        /\ Path[b][L] = b /\ b \notin StdFun
    BY <1>1, VisibleFacts, BlockFacts
  <1>3. /\ Len(e) = L
        /\ e[L] = n + 1
        /\ \A l \in 1 .. L - 1 : e[l] = env[l]
    <2>1. \A l \in 1 .. L - 1 : env[l] \in Nat
      BY <1>2, ElementOfSeq, SMTT(30)
    <2>2. /\ SubSeq(env, 1, L - 1) \in Seq(Nat)
          /\ Len(SubSeq(env, 1, L - 1)) = L - 1
          /\ \A l \in 1 .. L - 1 : SubSeq(env, 1, L - 1)[l] = env[l]
      BY <1>2, <2>1, SubSeqProperties
    <2> QED
      BY <1>2, <2>2
  <1>4. ASSUME NEW l \in 1 .. L
        PROVE  /\ e[l] \in 2 .. n + 1
               /\ ds[e[l]].code = At(Path[b][l], "body")
               /\ Len(ds[e[l]].env) = l
               /\ \A m \in 1 .. l : ds[e[l]].env[m] = e[m]
    <2>1. CASE l = L
      <3>1. e[l] = n + 1 /\ ds[e[l]] = ds[n + 1]
        BY <1>3, <2>1
      <3>2. ds[e[l]].code = At(b, "body") /\ ds[e[l]].env = e
        BY <3>1
      <3> HIDE DEF e
      <3> QED
        BY <1>2, <1>3, <2>1, <3>1, <3>2
    <2>2. CASE l # L
      <3>1. l \in 1 .. L - 1 /\ l \in 1 .. Level(h)
        BY <1>1, <1>2, <2>2
      <3>2. ScopeOK(ds, h, env, n)
        BY ScopeStable
      <3>3. /\ env[l] \in 2 .. n
            /\ ds[env[l]].code = At(Path[h][l], "body")
            /\ Len(ds[env[l]].env) = l
            /\ \A m \in 1 .. l : ds[env[l]].env[m] = env[m]
        BY <3>1, <3>2 DEF ScopeOK
      <3>4. /\ e[l] = env[l] /\ Path[b][l] = Path[h][l]
            /\ \A m \in 1 .. l : e[m] = env[m]
        <4>1. \A m \in 1 .. l : m \in 1 .. L - 1
          BY <1>2, <3>1
        <4> QED
          BY <1>2, <1>3, <3>1, <4>1
      <3> HIDE DEF e
      <3>5. e[l] \in 2 .. n + 1
        <4>1. env[l] \in 2 .. n
          BY <3>3
        <4>2. env[l] \in 2 .. n + 1
          BY <4>1
        <4> QED
          BY <3>4, <4>2
      <3> QED
        BY <3>3, <3>4, <3>5
    <2> QED
      BY <2>1, <2>2
  <1>5. ScopeOK(ds, b, e, n + 1)
    BY <1>2, <1>3, <1>4 DEF ScopeOK
  <1>6. ArgsOK(ds, args, Formals[b], n)
    BY ArgsStable
  <1> QED
    BY <1>2, <1>3, <1>5, <1>6 DEF ContextOK, At

(* An implicit subroutine of block h. *)
LEMMA ThunkOK ==
  ASSUME NEW cs, NEW ds, NEW n \in Nat, Agree(cs, ds, n),
         NEW h, NEW env, ScopeOK(cs, h, env, n),
         ds[n + 1].code.home = h, ds[n + 1].code.part # "body", ds[n + 1].env = env
  PROVE  ContextOK(ds, n + 1)
  <1>1. ScopeOK(ds, h, env, n + 1)
    BY ScopeStable
  <1>2. h \notin StdFun
    BY BlockFacts, MainFacts DEF ScopeOK
  <1> QED
    BY <1>1, <1>2 DEF ContextOK

(* A standard function. *)
LEMMA StdOK ==
  ASSUME NEW cs, NEW ds, NEW n \in Nat, Agree(cs, ds, n),
         NEW args, ArgsOK(cs, args, ProcFormals, n),
         ds[n + 1].code.home \in StdFun, ds[n + 1].args = args
  PROVE  ContextOK(ds, n + 1)
  <1>1. ArgsOK(ds, args, ProcFormals, n)
    BY ArgsStable
  <1> QED
    BY <1>1 DEF ContextOK

-----------------------------------------------------------------------------
(***************************************************************************)
(* Actual parameters.                                                      *)
(***************************************************************************)

(* The closure a formal a of the block around the place (h, env) stands for. *)
LEMMA ActualOK ==
  ASSUME NEW cs, NEW n \in Nat, \A k \in 1 .. n : ContextOK(cs, k),
         NEW h, NEW env, ScopeOK(cs, h, env, n),
         NEW kind \in FormalKinds, NEW a \in FormalsInScope(h, kind)
  PROVE  /\ env[a.bn] \in 1 .. n
         /\ a.arg \in DOMAIN cs[env[a.bn]].args
         /\ ClosureOK(cs, cs[env[a.bn]].args[a.arg], kind, n)
  <1> DEFINE j == env[a.bn]
             p == Path[h][a.bn]
  <1>1. h \in Block \cup {Main}
    BY DEF ScopeOK
  <1>2. /\ a.bn \in 1 .. Level(h) /\ p \in Block
        /\ a.arg \in DOMAIN Formals[p] /\ Formals[p][a.arg] = kind
    BY <1>1, FormalFacts
  <1>3. j \in 2 .. n /\ cs[j].code = At(p, "body")
    BY <1>2 DEF ScopeOK
  <1>4. ArgsOK(cs, cs[j].args, Formals[p], j - 1)
    <2>1. ContextOK(cs, j)
      BY <1>3
    <2> QED
      BY <1>2, <1>3, <2>1, BlockFacts DEF ContextOK, At
  <1>5. a.arg \in DOMAIN cs[j].args /\ ClosureOK(cs, cs[j].args[a.arg], kind, j - 1)
    BY <1>2, <1>4 DEF ArgsOK
  <1>6. Agree(cs, cs, n)
    BY DEF Agree, SameScope
  <1>7. ClosureOK(cs, cs[j].args[a.arg], kind, n)
    <2>1. j - 1 \in Int /\ j - 1 <= n /\ n \in Int
      BY <1>3
    <2> QED
      BY <1>5, <1>6, <2>1, ClosureStable
  <1> QED
    BY <1>3, <1>5, <1>7

-----------------------------------------------------------------------------
(***************************************************************************)
(* The invariant, over one step.                                           *)
(***************************************************************************)

(* Context j goes on being what it was; its operands may change. *)
Kept(cs, ds, j) ==
  /\ SameScope(cs, ds, j)
  /\ ds[j].op = cs[j].op
  /\ ds[j].res = "none" <=> cs[j].res = "none"
  /\ \/ ds[j].code = cs[j].code
     \/ cs[j].code.home \in StdFun /\ ds[j].code.part = "std"
     \/ cs[j].code.home = Main /\ ds[j].code.part \in {"body", "stopped"}

LEMMA Preserved ==
  ASSUME Inv, NEW n \in 1 .. Len(ctx), ctx' \in Seq(ContextSet), Len(ctx') = n,
         \A j \in 1 .. n : Kept(ctx, ctx', j),
         \A j \in 1 .. n - 1 : ctx'[j].temps = ctx[j].temps,
         \/ ctx'[n].code.home \notin StdFun
         \/ ctx'[n].code.part = "std"
         \/ n = Len(ctx) /\ ctx'[n].temps = ctx[n].temps
  PROVE  Inv'
  <1>0. n \in Nat \ {0} /\ n <= MaxContexts + 1
    BY MaxContextsAssumption DEF Inv, TypeOK
  <1>1. TypeOK'
    BY <1>0, MaxContextsAssumption DEF TypeOK
  <1>2. StaticScoping'
    <2>1. Agree(ctx, ctx', n)
      BY DEF Agree, Kept
    <2>2. ASSUME NEW k \in 1 .. n PROVE ContextOK(ctx', k)
      <3>1. ContextOK(ctx, k) /\ n \in Nat
        BY DEF Inv, StaticScoping, TypeOK
      <3> QED
        BY <2>1, <3>1, ContextStable
    <2> QED
      BY <2>2 DEF StaticScoping
  <1>3. PendingOperands'
    <2> SUFFICES ASSUME NEW k \in 1 .. n - 1, ctx'[k + 1].res # "none"
                 PROVE  IF Combines(ctx'[k + 1].op) THEN ctx'[k].temps > 0
                                                    ELSE ctx'[k].temps < MaxTemps
      BY DEF PendingOperands
    <2>1. k \in 1 .. Len(ctx) - 1 /\ k + 1 \in 1 .. n
      BY DEF Inv, TypeOK
    <2>2. Kept(ctx, ctx', k + 1) /\ ctx'[k].temps = ctx[k].temps
      BY <2>1
    <2>3. ctx[k + 1].res # "none" /\ ctx'[k + 1].op = ctx[k + 1].op
      BY <2>2 DEF Kept
    <2> QED
      BY <2>1, <2>2, <2>3 DEF Inv, PendingOperands
  <1>4. StdContexts'
    <2> SUFFICES ASSUME NEW k \in 1 .. n, ctx'[k].code.home \in StdFun
                 PROVE  /\ k <= MaxContexts
                        /\ \/ ctx'[k].code.part = "std"
                           \/ ctx'[k].code.part = "entry" /\ k = n /\ ctx'[k].temps = 0
      BY DEF StdContexts
    <2>1. k \in 1 .. Len(ctx) /\ Kept(ctx, ctx', k)
      BY DEF Inv, TypeOK
    <2>2. ctx[k].code.home \in StdFun /\ (ctx'[k].code = ctx[k].code \/ ctx'[k].code.part = "std")
      BY <2>1, MainFacts DEF Kept, SameScope
    <2>3. /\ k <= MaxContexts
          /\ \/ ctx[k].code.part = "std"
             \/ ctx[k].code.part = "entry" /\ k = Len(ctx) /\ ctx[k].temps = 0
      BY <2>1, <2>2 DEF Inv, StdContexts
    <2> QED
      BY <2>1, <2>2, <2>3
  <1>5. Bottom'
    <2>1. 1 \in 1 .. n /\ Kept(ctx, ctx', 1) /\ ctx[1].code.home = Main
      BY DEF Inv, TypeOK, Bottom
    <2> QED
      BY <2>1, MainFacts DEF Inv, Bottom, Kept, SameScope
  <1> QED
    BY <1>1, <1>2, <1>3, <1>4, <1>5 DEF Inv

LEMMA Extended ==
  ASSUME Inv, NEW n, n = Len(ctx), n <= MaxContexts,
         ctx' \in Seq(ContextSet), Len(ctx') = n + 1,
         \A j \in 1 .. n : Kept(ctx, ctx', j) /\ ctx'[j].temps = ctx[j].temps,
         ctx'[n].code.home \in StdFun => ctx'[n].code.part = "std",
         ContextOK(ctx', n + 1),
         ctx'[n + 1].res # "none" =>
           IF Combines(ctx'[n + 1].op) THEN ctx[n].temps > 0 ELSE ctx[n].temps < MaxTemps,
         ctx'[n + 1].code.home \in StdFun =>
           n < MaxContexts /\ ctx'[n + 1].code.part = "entry" /\ ctx'[n + 1].temps = 0
  PROVE  Inv'
  <1>0. n \in Nat \ {0} /\ MaxContexts \in Nat
    BY MaxContextsAssumption DEF Inv, TypeOK
  <1>1. TypeOK'
    BY <1>0 DEF TypeOK
  <1>2. StaticScoping'
    <2>1. Agree(ctx, ctx', n)
      BY DEF Agree, Kept
    <2>2. ASSUME NEW k \in 1 .. n PROVE ContextOK(ctx', k)
      <3>1. ContextOK(ctx, k)
        BY DEF Inv, StaticScoping
      <3> QED
        BY <1>0, <2>1, <3>1, ContextStable
    <2>3. \A k \in 1 .. n + 1 : k \in 1 .. n \/ k = n + 1
      BY <1>0
    <2> QED
      BY <2>2, <2>3 DEF StaticScoping
  <1>3. PendingOperands'
    <2> SUFFICES ASSUME NEW k \in 1 .. n, ctx'[k + 1].res # "none"
                 PROVE  IF Combines(ctx'[k + 1].op) THEN ctx'[k].temps > 0
                                                    ELSE ctx'[k].temps < MaxTemps
      <3>1. Len(ctx') - 1 = n
        BY <1>0
      <3> QED
        BY <3>1 DEF PendingOperands
    <2>1. CASE k = n
      BY <2>1
    <2>2. CASE k # n
      <3>1. k \in 1 .. Len(ctx) - 1 /\ k + 1 \in 1 .. n
        BY <1>0, <2>2
      <3>2. Kept(ctx, ctx', k + 1) /\ ctx'[k].temps = ctx[k].temps
        BY <3>1
      <3>3. ctx[k + 1].res # "none" /\ ctx'[k + 1].op = ctx[k + 1].op
        BY <3>2 DEF Kept
      <3> QED
        BY <3>1, <3>2, <3>3 DEF Inv, PendingOperands
    <2> QED
      BY <2>1, <2>2
  <1>4. StdContexts'
    <2> SUFFICES ASSUME NEW k \in 1 .. n + 1, ctx'[k].code.home \in StdFun
                 PROVE  /\ k <= MaxContexts
                        /\ \/ ctx'[k].code.part = "std"
                           \/ ctx'[k].code.part = "entry" /\ k = n + 1 /\ ctx'[k].temps = 0
      BY DEF StdContexts
    <2>1. CASE k = n + 1
      BY <1>0, <2>1
    <2>2. CASE k # n + 1
      <3>1. k \in 1 .. n /\ k <= MaxContexts /\ Kept(ctx, ctx', k)
        BY <1>0, <2>2
      <3>2. ctx[k].code.home \in StdFun /\ (ctx'[k].code = ctx[k].code \/ ctx'[k].code.part = "std")
        BY <3>1, MainFacts DEF Kept, SameScope
      <3>3. ctx[k].code.part = "std" \/ k = n
        BY <3>1, <3>2 DEF Inv, StdContexts
      <3> QED
        BY <3>1, <3>2, <3>3
    <2> QED
      BY <2>1, <2>2
  <1>5. Bottom'
    <2>1. Kept(ctx, ctx', 1) /\ ctx[1].code.home = Main
      BY <1>0 DEF Inv, Bottom
    <2> QED
      BY <2>1, MainFacts DEF Inv, Bottom, Kept, SameScope
  <1> QED
    BY <1>1, <1>2, <1>3, <1>4, <1>5 DEF Inv

-----------------------------------------------------------------------------
(***************************************************************************)
(* The steps that enter a context.                                         *)
(***************************************************************************)

(* The stack under a new context: the old one, or with a standard function *)
(* on top that has asked for its parameter.                                *)
Under(s) ==
  /\ s \in Seq(ContextSet) /\ Len(s) = Len(ctx)
  /\ \A j \in 1 .. Len(ctx) : Kept(ctx, s, j) /\ s[j].temps = ctx[j].temps
  /\ s[Len(ctx)].code.home \in StdFun => s[Len(ctx)].code.part = "std"

(* There is room for the value, or an operand to combine it with. *)
Room(op) == IF Combines(op) THEN Top.temps > 0 ELSE Top.temps < MaxTemps

LEMMA Sizes ==
  ASSUME Inv
  PROVE  /\ Len(ctx) \in Nat \ {0} /\ Len(ctx) \in 1 .. Len(ctx)
         /\ ctx \in Seq(ContextSet)
         /\ \A k \in 1 .. Len(ctx) : ctx[k] \in ContextSet /\ ContextOK(ctx, k)
         /\ Top \in ContextSet
         /\ Fresh = Len(ctx) + 1
  <1>1. /\ Len(ctx) \in Nat \ {0} /\ Len(ctx) \in 1 .. Len(ctx)
        /\ ctx \in Seq(ContextSet)
    BY MaxContextsAssumption DEF Inv, TypeOK
  <1>2. \A k \in 1 .. Len(ctx) : ctx[k] \in ContextSet
    BY <1>1, ElementOfSeq
  <1>3. \A k \in 1 .. Len(ctx) : ContextOK(ctx, k)
    BY DEF Inv, StaticScoping
  <1> QED
    BY <1>1, <1>2, <1>3 DEF Top, Fresh

(* The place where user text is executing. *)
LEMMA UserFacts ==
  ASSUME Inv, InUserText
  PROVE  /\ Here \in Block \cup {Main} /\ Here \notin StdFun
         /\ ScopeOK(ctx, Here, Top.env, Len(ctx))
         /\ Top.env \in Seq(Nat)
  <1>1. Here \notin StdFun
    BY Sizes DEF Inv, StdContexts, InUserText, UserParts, ThunkParts, Here, Top
  <1>2. ScopeOK(ctx, Here, Top.env, Len(ctx))
    BY <1>1, Sizes DEF ContextOK, Here, Top
  <1> QED
    BY <1>1, <1>2, Sizes DEF ScopeOK, ContextSet

LEMMA UnderCtx ==
  ASSUME Inv, Here \notin StdFun
  PROVE  Under(ctx)
  BY Sizes DEF Under, Kept, SameScope, Here, Top

LEMMA Entered ==
  ASSUME Inv, NEW s, Under(s), NEW c \in ContextSet, ctx' = Append(s, c),
         Len(ctx) <= MaxContexts,
         ContextOK(ctx', Len(ctx) + 1),
         c.res # "none" => Room(c.op),
         c.code.home \in StdFun =>
           Len(ctx) < MaxContexts /\ c.code.part = "entry" /\ c.temps = 0
  PROVE  Inv'
  <1> DEFINE n == Len(ctx)
  <1>1. n \in Nat \ {0} /\ s \in Seq(ContextSet) /\ Len(s) = n
    BY Sizes DEF Under
  <1>2. /\ ctx' \in Seq(ContextSet) /\ Len(ctx') = n + 1
        /\ ctx'[n + 1] = c
        /\ \A j \in 1 .. n : ctx'[j] = s[j]
    BY <1>1, AppendProperties
  <1>3. \A j \in 1 .. n : Kept(ctx, ctx', j) /\ ctx'[j].temps = ctx[j].temps
    BY <1>2 DEF Under, Kept, SameScope
  <1>4. ctx'[n].code.home \in StdFun => ctx'[n].code.part = "std"
    BY <1>1, <1>2 DEF Under
  <1>5. c.res # "none" => IF Combines(c.op) THEN ctx[n].temps > 0 ELSE ctx[n].temps < MaxTemps
    BY DEF Room, Top
  <1> QED
    BY <1>1, <1>2, <1>3, <1>4, <1>5, Extended

LEMMA AgreeUnder ==
  ASSUME Inv, NEW s, Under(s), NEW c \in ContextSet, ctx' = Append(s, c)
  PROVE  /\ Agree(ctx, ctx', Len(ctx))
         /\ ctx'[Len(ctx) + 1] = c
  <1>1. Len(ctx) \in Nat /\ s \in Seq(ContextSet) /\ Len(s) = Len(ctx)
    BY Sizes DEF Under
  <1>2. /\ ctx'[Len(ctx) + 1] = c
        /\ \A j \in 1 .. Len(ctx) : ctx'[j] = s[j]
    BY <1>1, AppendProperties
  <1> QED
    BY <1>2 DEF Agree, Under, Kept, SameScope

LEMMA ActivationType ==
  ASSUME Inv, NEW h \in Block \cup {Main}, NEW b \in VisibleFrom(h),
         NEW env \in Seq(Nat), Len(env) = Level(h),
         NEW args \in Seq(ClosureSet), NEW op \in FormalOps, NEW res \in Results
  PROVE  Activation(b, env, args, op, res) \in ContextSet
  <1>1. Level(b) - 1 \in 0 .. Len(env) /\ b \in Block
    BY VisibleFacts
  <1>2. \A i \in 1 .. Level(b) - 1 : env[i] \in Nat
    BY <1>1, ElementOfSeq
  <1>3. SubSeq(env, 1, Level(b) - 1) \in Seq(Nat)
    BY <1>1, <1>2, SubSeqProperties
  <1>4. Append(SubSeq(env, 1, Level(b) - 1), Len(ctx) + 1) \in Seq(Nat)
    BY <1>3, Sizes, AppendProperties
  <1>5. 0 \in 0 .. MaxTemps
    BY ProgramAssumption
  <1> QED
    BY <1>1, <1>4, <1>5 DEF Activation, Context, ContextSet, At, Fresh, CodeParts, Parts

(* A procedure or block b is entered, in the environment of its declaration. *)
LEMMA ActivationStep ==
  ASSUME Inv, NEW s, Under(s), Len(ctx) <= MaxContexts,
         NEW h, NEW env \in Seq(Nat), ScopeOK(ctx, h, env, Len(ctx)),
         NEW b \in VisibleFrom(h),
         NEW args \in Seq(ClosureSet), ArgsOK(ctx, args, Formals[b], Len(ctx)),
         NEW op \in FormalOps, NEW res \in Results, res # "none" => Room(op),
         ctx' = Append(s, Activation(b, env, args, op, res))
  PROVE  Inv'
  <1> DEFINE c == Activation(b, env, args, op, res)
  <1>1. h \in Block \cup {Main} /\ Len(env) = Level(h)
    BY DEF ScopeOK
  <1>2. /\ c \in ContextSet /\ c.code = At(b, "body") /\ c.args = args
        /\ c.op = op /\ c.res = res
        /\ c.env = Append(SubSeq(env, 1, Level(b) - 1), Len(ctx) + 1)
    <2>1. c \in ContextSet
      BY <1>1, ActivationType
    <2> QED
      BY <2>1 DEF Activation, Context, Fresh
  <1> HIDE DEF c
  <1>3. ctx' = Append(s, c)
    BY DEF c
  <1>4. Agree(ctx, ctx', Len(ctx)) /\ ctx'[Len(ctx) + 1] = c
    BY <1>2, <1>3, AgreeUnder
  <1>5. ContextOK(ctx', Len(ctx) + 1)
    BY <1>2, <1>4, Sizes, ActivationOK
  <1>6. c.code.home \notin StdFun
    BY <1>1, <1>2, VisibleFacts, BlockFacts DEF At
  <1> QED
    BY <1>2, <1>3, <1>5, <1>6, Entered

(* An implicit subroutine of block h is entered, in the environment of the call. *)
LEMMA ThunkStep ==
  ASSUME Inv, NEW s, Under(s), Len(ctx) <= MaxContexts,
         NEW h, NEW env \in Seq(Nat), ScopeOK(ctx, h, env, Len(ctx)),
         NEW part \in ThunkParts,
         NEW op \in FormalOps, Room(op),
         ctx' = Append(s, Context(At(h, part), env, << >>, op, "undefined"))
  PROVE  Inv'
  <1> DEFINE c == Context(At(h, part), env, << >>, op, "undefined")
  <1>1. h \in Block \cup {Main} /\ h \notin StdFun
    BY BlockFacts, MainFacts DEF ScopeOK
  <1>2. << >> \in Seq(ClosureSet) /\ 0 \in 0 .. MaxTemps
    BY ProgramAssumption
  <1>3. /\ c \in ContextSet /\ c.code.home = h /\ c.code.part # "body"
        /\ c.env = env /\ c.op = op
    BY <1>1, <1>2 DEF Context, ContextSet, At, CodeParts, Parts, ThunkParts, Results
  <1> HIDE DEF c
  <1>4. ctx' = Append(s, c)
    BY DEF c
  <1>5. Agree(ctx, ctx', Len(ctx)) /\ ctx'[Len(ctx) + 1] = c
    BY <1>3, <1>4, AgreeUnder
  <1>6. ContextOK(ctx', Len(ctx) + 1)
    BY <1>3, <1>5, Sizes, ThunkOK
  <1> QED
    BY <1>1, <1>3, <1>4, <1>6, Entered

(* A standard function is entered. *)
LEMMA StdStep ==
  ASSUME Inv, NEW s, Under(s), Len(ctx) < MaxContexts,
         NEW b \in StdFun,
         NEW args \in Seq(ClosureSet), ArgsOK(ctx, args, ProcFormals, Len(ctx)),
         NEW res \in Results, Room("PUSH_VALUE"),
         ctx' = Append(s, Context(At(b, "entry"), << >>, args, "PUSH_VALUE", res))
  PROVE  Inv'
  <1> DEFINE c == Context(At(b, "entry"), << >>, args, "PUSH_VALUE", res)
  <1>2. << >> \in Seq(Nat) /\ 0 \in 0 .. MaxTemps
    BY ProgramAssumption
  <1>3. /\ c \in ContextSet /\ c.code.home = b /\ c.code.part = "entry"
        /\ c.args = args /\ c.op = "PUSH_VALUE" /\ c.temps = 0
    BY <1>2 DEF Context, ContextSet, At, CodeParts, Parts, FormalOps
  <1> HIDE DEF c
  <1>4. ctx' = Append(s, c)
    BY DEF c
  <1>5. Agree(ctx, ctx', Len(ctx)) /\ ctx'[Len(ctx) + 1] = c
    BY <1>3, <1>4, AgreeUnder
  <1>6. ContextOK(ctx', Len(ctx) + 1)
    BY <1>3, <1>5, Sizes, StdOK
  <1> QED
    BY <1>3, <1>4, <1>6, Sizes, MaxContextsAssumption, Entered

-----------------------------------------------------------------------------
(***************************************************************************)
(* Operands and actual parameters.                                         *)
(***************************************************************************)

(* The top context is replaced by one that differs in its operands only, or *)
(* is a standard function that goes on to take its parameter.              *)
LEMMA Replaced ==
  ASSUME Inv, NEW c \in ContextSet
  PROVE  LET s == [ctx EXCEPT ![Len(ctx)] = c]
         IN /\ s \in Seq(ContextSet) /\ Len(s) = Len(ctx)
            /\ s[Len(ctx)] = c
            /\ \A j \in 1 .. Len(ctx) - 1 : s[j] = ctx[j]
  <1>1. Len(ctx) \in 1 .. Len(ctx) /\ ctx \in Seq(ContextSet) /\ Len(ctx) \in Nat
    BY Sizes
  <1> QED
    BY <1>1, ExceptSeq

LEMMA ReplaceStep ==
  ASSUME Inv, NEW c \in ContextSet, Kept(ctx, [ctx EXCEPT ![Len(ctx)] = c], Len(ctx)),
         ctx' = [ctx EXCEPT ![Len(ctx)] = c],
         c.code.home \notin StdFun \/ c.code.part = "std" \/ c.temps = Top.temps
  PROVE  Inv'
  <1> DEFINE n == Len(ctx)
  <1>1. /\ ctx' \in Seq(ContextSet) /\ Len(ctx') = n
        /\ ctx'[n] = c
        /\ \A j \in 1 .. n - 1 : ctx'[j] = ctx[j]
    BY Replaced
  <1>2. n \in 1 .. Len(ctx) /\ n \in Nat
    BY Sizes
  <1>3. \A j \in 1 .. n : j \in 1 .. n - 1 \/ j = n
    BY <1>2
  <1>4. \A j \in 1 .. n - 1 : Kept(ctx, ctx', j) /\ ctx'[j].temps = ctx[j].temps
    BY <1>1 DEF Kept, SameScope
  <1>5. \A j \in 1 .. n : Kept(ctx, ctx', j)
    BY <1>3, <1>4
  <1> HIDE DEF n
  <1>6. n = Len(ctx)
    BY DEF n
  <1>7. ctx[n] = Top
    BY <1>6 DEF Top
  <1> QED
    BY <1>1, <1>2, <1>4, <1>5, <1>6, <1>7, Preserved

(* The actual parameters of a call, for formals of these kinds. *)
LEMMA ClosuresOK ==
  ASSUME Inv, Here \in Block \cup {Main}, ScopeOK(ctx, Here, Top.env, Len(ctx)),
         NEW kinds \in Seq(FormalKinds), NEW args \in ArgLists(Here, kinds)
  PROVE  /\ Closures(args) \in Seq(ClosureSet)
         /\ ArgsOK(ctx, Closures(args), kinds, Len(ctx))
  <1>1. /\ DOMAIN args = DOMAIN kinds
        /\ \A i \in DOMAIN kinds : args[i] \in Pords(Here, kinds[i]) /\ kinds[i] \in FormalKinds
    BY DEF ArgLists
  <1>2. ASSUME NEW i \in DOMAIN kinds
        PROVE  ClosureOK(ctx, Closure(args[i]), kinds[i], Len(ctx))
    <2>1. CASE args[i].kind = "formal"
      <3>1. PICK a \in FormalsInScope(Here, kinds[i]) : args[i] = Passed(a)
        BY <1>1, <2>1, PordFacts
      <3>2. Closure(args[i]) = ctx[Top.env[a.bn]].args[a.arg]
        BY <3>1 DEF Closure, Passed
      <3>3. Len(ctx) \in Nat /\ \A k \in 1 .. Len(ctx) : ContextOK(ctx, k)
        BY Sizes
      <3> QED
        BY <1>1, <3>1, <3>2, <3>3, ActualOK
    <2>2. CASE args[i].kind # "formal"
      BY <1>1, <2>2 DEF Closure, ClosureOK
    <2> QED
      BY <2>1, <2>2
  <1>3. ASSUME NEW i \in DOMAIN kinds
        PROVE  Closure(args[i]) \in ClosureSet
    <2>1. CASE args[i].kind = "formal"
      <3>1. PICK a \in FormalsInScope(Here, kinds[i]) : args[i] = Passed(a)
        BY <1>1, <2>1, PordFacts
      <3>2. Closure(args[i]) = ctx[Top.env[a.bn]].args[a.arg]
        BY <3>1 DEF Closure, Passed
      <3>3. /\ Top.env[a.bn] \in 1 .. Len(ctx)
            /\ a.arg \in DOMAIN ctx[Top.env[a.bn]].args
        BY <1>1, <3>1, Sizes, ActualOK
      <3>4. ctx[Top.env[a.bn]].args \in Seq(ClosureSet)
        BY <3>3, Sizes DEF ContextSet
      <3> QED
        BY <3>2, <3>3, <3>4
    <2>2. CASE args[i].kind # "formal"
      <3>1. args[i] \in PordSet
        BY <1>1 DEF PordSet
      <3> QED
        BY <2>2, <3>1, Sizes DEF Closure, ClosureSet, ContextSet, Here
    <2> QED
      BY <2>1, <2>2
  <1>4. DOMAIN kinds = 1 .. Len(kinds) /\ Len(kinds) \in Nat
    OBVIOUS
  <1>5. Closures(args) \in [1 .. Len(kinds) -> ClosureSet]
    BY <1>1, <1>3, <1>4 DEF Closures
  <1>6. Closures(args) \in Seq(ClosureSet)
    BY <1>4, <1>5, SeqDef
  <1> QED
    BY <1>1, <1>2, <1>6 DEF ArgsOK, Closures

(* What the number of operands of a context may become. *)
LEMMA TempsType ==
  ASSUME NEW c \in ContextSet, NEW t \in 0 .. MaxTemps
  PROVE  /\ [c EXCEPT !.temps = t] \in ContextSet
         /\ [c EXCEPT !.temps = t].code = c.code /\ [c EXCEPT !.temps = t].env = c.env
         /\ [c EXCEPT !.temps = t].args = c.args /\ [c EXCEPT !.temps = t].op = c.op
         /\ [c EXCEPT !.temps = t].res = c.res
  BY DEF ContextSet

LEMMA AppliedFacts ==
  ASSUME NEW c \in ContextSet, NEW op, ~Combines(op) => c.temps < MaxTemps
  PROVE  /\ Applied(c, op) \in ContextSet
         /\ Applied(c, op).code = c.code /\ Applied(c, op).env = c.env
         /\ Applied(c, op).args = c.args /\ Applied(c, op).op = c.op
         /\ Applied(c, op).res = c.res
  <1>1. CASE Combines(op)
    BY <1>1 DEF Applied
  <1>2. CASE ~Combines(op)
    <2>1. c.temps + 1 \in 0 .. MaxTemps
      BY <1>2, ProgramAssumption DEF ContextSet
    <2> QED
      BY <1>2, <2>1, TempsType DEF Applied
  <1> QED
    BY <1>1, <1>2

(* Evaluating an actual parameter: a variable, or an implicit subroutine. *)
LEMMA EvaluateStep ==
  ASSUME Inv, Len(ctx) <= MaxContexts,
         NEW kind \in {"num", "label"},
         NEW act \in ClosureSet, ClosureOK(ctx, act, kind, Len(ctx)),
         NEW op \in TakeOps, Room(op),
         NEW c \in ContextSet, c.code.home = Here, c.temps = Top.temps,
         Kept(ctx, [ctx EXCEPT ![Len(ctx)] = c], Len(ctx)),
         c.code.home \in StdFun => c.code.part = "std",
         Evaluate(act, op, c)
  PROVE  Inv'
  <1> DEFINE n == Len(ctx)
             s == [ctx EXCEPT ![n] = c]
             at == act.pord.at
             op1 == IF act.pord.kind = "asub" THEN Deref(op) ELSE op
  <1>1. /\ act.home \in Block \cup {Main} /\ kind \in FormalKinds
        /\ ScopeOK(ctx, act.home, act.env, n)
        /\ act.pord \in Pords(act.home, kind) /\ act.pord.kind # "formal"
        /\ act.env \in Seq(Nat)
    BY DEF ClosureOK, ScopeOK, ClosureSet, FormalKinds
  <1>2. Under(s)
    <2>1. /\ s \in Seq(ContextSet) /\ Len(s) = n /\ s[n] = c
          /\ \A j \in 1 .. n - 1 : s[j] = ctx[j]
      BY Replaced
    <2>2. n \in Nat /\ ctx[n] = Top
      BY Sizes DEF Top
    <2>3. \A j \in 1 .. n - 1 : Kept(ctx, s, j) /\ s[j].temps = ctx[j].temps
      BY <2>1 DEF Kept, SameScope
    <2>4. Kept(ctx, s, n) /\ s[n].temps = ctx[n].temps
      BY <2>1, <2>2
    <2>5. \A j \in 1 .. n : j \in 1 .. n - 1 \/ j = n
      BY <2>2
    <2>6. s[Len(ctx)].code.home \in StdFun => s[Len(ctx)].code.part = "std"
      BY <2>1
    <2> HIDE DEF s
    <2> QED
      BY <2>1, <2>3, <2>4, <2>5, <2>6 DEF Under
  <1>3. /\ op1 \in FormalOps /\ Room(op1)
    BY DEF Deref, TakeOps, FormalOps, Room, Combines
  <1>4. CASE /\ act.pord.kind \in {"static", "stack"}
             /\ Update(Applied(c, op))
    <2> DEFINE d == Applied(c, op)
    <2>1. /\ d \in ContextSet /\ d.code = c.code /\ d.env = c.env
          /\ d.args = c.args /\ d.op = c.op /\ d.res = c.res
      BY AppliedFacts DEF Room
    <2>2. [ctx EXCEPT ![n] = d][n] = d /\ s[n] = c
      BY <2>1, Replaced
    <2>3. Kept(ctx, [ctx EXCEPT ![n] = d], n)
      <3> HIDE DEF d
      <3> QED
        BY <2>1, <2>2 DEF Kept, SameScope
    <2> HIDE DEF d
    <2>4. ctx' = [ctx EXCEPT ![n] = d]
      BY <1>4 DEF Update, d
    <2> QED
      BY <2>1, <2>3, <2>4, ReplaceStep
  <1>5. CASE /\ act.pord.kind \in {"sub", "asub"}
             /\ ctx' = Append(s, IF at.part = "entry"
                                  THEN Activation(at.home, act.env, << >>, op1, "undefined")
                                  ELSE Context(at, act.env, << >>, op1, "undefined"))
    <2>1. \/ \E part \in ThunkParts : at = At(act.home, part)
          \/ \E b \in VisibleFrom(act.home) : at = At(b, "entry") /\ Formals[b] = << >>
      BY <1>1, <1>5, PordFacts DEF ThunkParts
    <2>2. CASE \E part \in ThunkParts : at = At(act.home, part)
      <3>1. PICK part \in ThunkParts : at = At(act.home, part)
        BY <2>2
      <3>2. at.part # "entry"
        BY <3>1 DEF At, ThunkParts
      <3>3. ctx' = Append(s, Context(At(act.home, part), act.env, << >>, op1, "undefined"))
        BY <1>5, <3>1, <3>2
      <3> HIDE DEF s, op1
      <3> QED
        BY <1>1, <1>2, <1>3, <3>3, ThunkStep
    <2>3. CASE \E b \in VisibleFrom(act.home) : at = At(b, "entry") /\ Formals[b] = << >>
      <3>1. PICK b \in VisibleFrom(act.home) : at = At(b, "entry") /\ Formals[b] = << >>
        BY <2>3
      <3>2. ctx' = Append(s, Activation(b, act.env, << >>, op1, "undefined"))
        BY <1>5, <3>1 DEF At
      <3>3. ArgsOK(ctx, << >>, Formals[b], n) /\ << >> \in Seq(ClosureSet)
        BY <3>1 DEF ArgsOK
      <3> HIDE DEF s, op1
      <3> QED
        BY <1>1, <1>2, <1>3, <3>2, <3>3, ActivationStep DEF Results
    <2> QED
      BY <2>1, <2>2, <2>3
  <1> QED
    BY <1>4, <1>5 DEF Evaluate

(* The closure a formal stands for where user text is executing. *)
LEMMA UserActual ==
  ASSUME Inv, InUserText, NEW kind \in FormalKinds, NEW a \in FormalsInScope(Here, kind)
  PROVE  /\ Actual(a) \in ClosureSet
         /\ ClosureOK(ctx, Actual(a), kind, Len(ctx))
  <1>1. /\ Top.env[a.bn] \in 1 .. Len(ctx)
        /\ a.arg \in DOMAIN ctx[Top.env[a.bn]].args
        /\ ClosureOK(ctx, ctx[Top.env[a.bn]].args[a.arg], kind, Len(ctx))
    BY Sizes, UserFacts, ActualOK
  <1>2. ctx[Top.env[a.bn]].args \in Seq(ClosureSet)
    BY <1>1, Sizes DEF ContextSet
  <1> QED
    BY <1>1, <1>2 DEF Actual

-----------------------------------------------------------------------------
(***************************************************************************)
(* One lemma for each action.                                              *)
(***************************************************************************)

(* A step that changes the operands of the top context only. *)
LEMMA TempsStep ==
  ASSUME Inv, Here \notin StdFun, NEW t \in 0 .. MaxTemps,
         Update([Top EXCEPT !.temps = t])
  PROVE  Inv'
  <1> DEFINE c == [Top EXCEPT !.temps = t]
  <1>1. /\ c \in ContextSet /\ c.code = Top.code /\ c.env = Top.env
        /\ c.args = Top.args /\ c.op = Top.op /\ c.res = Top.res
    BY Sizes, TempsType
  <1>2. [ctx EXCEPT ![Len(ctx)] = c][Len(ctx)] = c
    BY <1>1, Replaced
  <1>3. ctx' = [ctx EXCEPT ![Len(ctx)] = c]
    BY DEF Update
  <1> HIDE DEF c
  <1>4. Kept(ctx, [ctx EXCEPT ![Len(ctx)] = c], Len(ctx))
    BY <1>1, <1>2 DEF Kept, SameScope, Top
  <1>5. c.code.home \notin StdFun
    BY <1>1 DEF Here
  <1> QED
    BY <1>1, <1>3, <1>4, <1>5, ReplaceStep

LEMMA LoadOperandStep ==
  ASSUME Inv, InUserText, LoadOperand
  PROVE  Inv'
  <1>1. Top.temps + 1 \in 0 .. MaxTemps
    <2>1. Top.temps \in 0 .. MaxTemps
      BY Sizes DEF ContextSet
    <2> QED
      BY <2>1, ProgramAssumption DEF LoadOperand
  <1>2. Update([Top EXCEPT !.temps = Top.temps + 1])
    BY DEF LoadOperand
  <1> QED
    BY <1>1, <1>2, UserFacts, TempsStep

LEMMA ConsumeStep ==
  ASSUME Inv, InUserText, Consume
  PROVE  Inv'
  <1>1. Top.temps - 1 \in 0 .. MaxTemps
    <2>1. Top.temps \in 0 .. MaxTemps
      BY Sizes DEF ContextSet
    <2> QED
      BY <2>1, ProgramAssumption DEF Consume
  <1>2. Update([Top EXCEPT !.temps = Top.temps - 1])
    BY DEF Consume
  <1> QED
    BY <1>1, <1>2, UserFacts, TempsStep

LEMMA CallPointFacts ==
  ASSUME Inv, NEW res \in {"none", "undefined"}, CallPoint(res)
  PROVE  /\ res \in Results
         /\ Room("PUSH_VALUE")
  BY ProgramAssumption DEF CallPoint, Room, Combines, Results

LEMMA CallStep ==
  ASSUME Inv, InUserText, NEW b \in Block, NEW res \in {"none", "undefined"},
         NEW args \in ArgLists(Here, Formals[b]), Call(b, args, res)
  PROVE  Inv'
  <1>1. /\ Under(ctx) /\ b \in VisibleFrom(Here)
        /\ ScopeOK(ctx, Here, Top.env, Len(ctx)) /\ Top.env \in Seq(Nat)
    BY UserFacts, UnderCtx DEF Call
  <1>2. Len(ctx) <= MaxContexts
    BY Sizes, MaxContextsAssumption DEF Call
  <1>3. /\ Closures(args) \in Seq(ClosureSet)
        /\ ArgsOK(ctx, Closures(args), Formals[b], Len(ctx))
    BY <1>1, UserFacts, BlockFacts, ClosuresOK
  <1>4. res \in Results /\ Room("PUSH_VALUE") /\ "PUSH_VALUE" \in FormalOps
    BY CallPointFacts DEF Call, FormalOps
  <1>5. ctx' = Append(ctx, Activation(b, Top.env, Closures(args), "PUSH_VALUE", res))
    BY DEF Call, Enter
  <1> QED
    BY <1>1, <1>2, <1>3, <1>4, <1>5, ActivationStep

LEMMA EnterForStep ==
  ASSUME Inv, InUserText, NEW b \in Block, EnterFor(b)
  PROVE  Inv'
  <1>1. /\ Under(ctx) /\ b \in VisibleFrom(Here) /\ b \in ForBlock
        /\ ScopeOK(ctx, Here, Top.env, Len(ctx)) /\ Top.env \in Seq(Nat)
    BY UserFacts, UnderCtx DEF EnterFor
  <1>2. Len(ctx) <= MaxContexts
    BY Sizes, MaxContextsAssumption DEF EnterFor
  <1>3. /\ << >> \in Seq(ClosureSet)
        /\ ArgsOK(ctx, << >>, Formals[b], Len(ctx))
    BY <1>1, ProgramAssumption DEF ArgsOK
  <1>4. "none" \in Results /\ "PUSH_VALUE" \in FormalOps
    BY DEF Results, FormalOps
  <1>5. ctx' = Append(ctx, Activation(b, Top.env, << >>, "PUSH_VALUE", "none"))
    BY DEF EnterFor, Enter
  <1> QED
    BY <1>1, <1>2, <1>3, <1>4, <1>5, ActivationStep

LEMMA CallFormalStep ==
  ASSUME Inv, InUserText, NEW a \in FormalsInScope(Here, "proc"),
         NEW res \in {"none", "undefined"},
         NEW args \in ArgLists(Here, ProcFormals), CallFormal(a, args, res)
  PROVE  Inv'
  <1> DEFINE act == Actual(a)
             b   == act.pord.at.home
  <1>1. /\ Under(ctx) /\ Here \in Block \cup {Main}
        /\ ScopeOK(ctx, Here, Top.env, Len(ctx))
    BY UserFacts, UnderCtx
  <1>2. Len(ctx) < MaxContexts
    BY Sizes, MaxContextsAssumption DEF CallFormal
  <1>3. /\ Closures(args) \in Seq(ClosureSet)
        /\ ArgsOK(ctx, Closures(args), ProcFormals, Len(ctx))
    <2>1. ProcFormals \in Seq(FormalKinds)
      BY DEF ProcFormals, FormalKinds
    <2> QED
      BY <1>1, <2>1, ClosuresOK
  <1>4. res \in Results /\ Room("PUSH_VALUE") /\ "PUSH_VALUE" \in FormalOps
    BY CallPointFacts DEF CallFormal, FormalOps
  <1>5. act \in ClosureSet /\ ClosureOK(ctx, act, "proc", Len(ctx))
    BY UserActual DEF FormalKinds
  <1>6. PICK q \in (PassedProcs \cap VisibleFrom(act.home)) \cup StdFun : b = q
    <2>1. /\ act.home \in Block \cup {Main} /\ act.pord \in Pords(act.home, "proc")
          /\ act.pord.kind # "formal" /\ "proc" \in FormalKinds
      BY <1>5 DEF ClosureOK, ScopeOK, FormalKinds
    <2> HIDE DEF act
    <2>2. \E q \in (PassedProcs \cap VisibleFrom(act.home)) \cup StdFun :
            act.pord.at = At(q, "entry")
      BY <2>1, PordFacts
    <2> QED
      BY <2>2 DEF At
  <1>7. CASE b \in Block /\ Enter(Activation(b, act.env, Closures(args), "PUSH_VALUE", res))
    <2>1. b \in VisibleFrom(act.home) /\ Formals[b] = ProcFormals
      BY <1>6, <1>7, ProgramAssumption
    <2>2. act.env \in Seq(Nat) /\ ScopeOK(ctx, act.home, act.env, Len(ctx))
      BY <1>5 DEF ClosureOK, ClosureSet
    <2>3. ctx' = Append(ctx, Activation(b, act.env, Closures(args), "PUSH_VALUE", res))
      BY <1>7 DEF Enter
    <2>4. Len(ctx) <= MaxContexts
      BY <1>2, Sizes, MaxContextsAssumption
    <2>5. ArgsOK(ctx, Closures(args), Formals[b], Len(ctx))
      BY <1>3, <2>1
    <2> HIDE DEF act, b
    <2> QED
      BY <1>1, <1>3, <1>4, <2>1, <2>2, <2>3, <2>4, <2>5, ActivationStep
  <1>8. CASE /\ b \in StdFun
             /\ Enter(Context(At(b, "entry"), << >>, Closures(args), "PUSH_VALUE", res))
    <2>1. ctx' = Append(ctx, Context(At(b, "entry"), << >>, Closures(args), "PUSH_VALUE", res))
      BY <1>8 DEF Enter
    <2> HIDE DEF act, b
    <2> QED
      BY <1>1, <1>2, <1>3, <1>4, <1>8, <2>1, StdStep
  <1> QED
    BY <1>7, <1>8 DEF CallFormal

LEMMA TakeFormalStep ==
  ASSUME Inv, InUserText, NEW a \in FormalsInScope(Here, "num"), NEW op \in TakeOps,
         TakeFormal(a, op)
  PROVE  Inv'
  <1>1. Actual(a) \in ClosureSet /\ ClosureOK(ctx, Actual(a), "num", Len(ctx))
    BY UserActual DEF FormalKinds
  <1>2. Len(ctx) <= MaxContexts
    BY Sizes, MaxContextsAssumption DEF TakeFormal
  <1>3. Room(op) /\ Evaluate(Actual(a), op, Top)
    BY DEF TakeFormal, CanApply, Room
  <1>4. Top \in ContextSet /\ Top.code.home = Here /\ Here \notin StdFun
    BY Sizes, UserFacts DEF Here
  <1>5. Kept(ctx, [ctx EXCEPT ![Len(ctx)] = Top], Len(ctx))
    <2>1. [ctx EXCEPT ![Len(ctx)] = Top][Len(ctx)] = ctx[Len(ctx)]
      BY <1>4, Replaced DEF Top
    <2> QED
      BY <2>1 DEF Kept, SameScope
  <1> QED
    BY <1>1, <1>2, <1>3, <1>4, <1>5, EvaluateStep

LEMMA GotoFormalStep ==
  ASSUME Inv, InUserText, NEW a \in FormalsInScope(Here, "label"), GotoFormal(a)
  PROVE  Inv'
  <1>1. Actual(a) \in ClosureSet /\ ClosureOK(ctx, Actual(a), "label", Len(ctx))
    BY UserActual DEF FormalKinds
  <1>2. Len(ctx) <= MaxContexts
    BY Sizes, MaxContextsAssumption DEF GotoFormal
  <1>3. /\ "PUSH_VALUE" \in TakeOps /\ Room("PUSH_VALUE")
        /\ Evaluate(Actual(a), "PUSH_VALUE", Top)
    BY ProgramAssumption DEF GotoFormal, Room, Combines, TakeOps
  <1>4. Top \in ContextSet /\ Top.code.home = Here /\ Here \notin StdFun
    BY Sizes, UserFacts DEF Here
  <1>5. Kept(ctx, [ctx EXCEPT ![Len(ctx)] = Top], Len(ctx))
    <2>1. [ctx EXCEPT ![Len(ctx)] = Top][Len(ctx)] = ctx[Len(ctx)]
      BY <1>4, Replaced DEF Top
    <2> QED
      BY <2>1 DEF Kept, SameScope
  <1> QED
    BY <1>1, <1>2, <1>3, <1>4, <1>5, EvaluateStep

LEMMA TakeParameterStep ==
  ASSUME Inv, TakeParameter
  PROVE  Inv'
  <1> DEFINE c == [Top EXCEPT !.code.part = "std"]
             act == Top.args[1]
  <1>1. /\ Len(ctx) \in Nat \ {0} /\ Top \in ContextSet
        /\ Top = ctx[Len(ctx)] /\ Here = Top.code.home
    BY Sizes DEF Top, Here
  <1>2. /\ Len(ctx) <= MaxContexts /\ Top.temps = 0
    BY <1>1 DEF Inv, StdContexts, TakeParameter
  <1>3. ArgsOK(ctx, Top.args, ProcFormals, Len(ctx) - 1)
    BY <1>1, Sizes DEF ContextOK, TakeParameter
  <1>4. /\ DOMAIN ProcFormals = {1} /\ ProcFormals[1] = "num"
    BY DEF ProcFormals
  <1>5. /\ 1 \in DOMAIN Top.args
        /\ ClosureOK(ctx, act, "num", Len(ctx) - 1)
    BY <1>3, <1>4 DEF ArgsOK
  <1>6. ClosureOK(ctx, act, "num", Len(ctx))
    <2>1. Agree(ctx, ctx, Len(ctx))
      BY DEF Agree, SameScope
    <2>2. /\ Len(ctx) \in Nat /\ Len(ctx) \in Int /\ Len(ctx) - 1 \in Int
          /\ Len(ctx) - 1 <= Len(ctx)
      BY <1>1
    <2> HIDE DEF act
    <2> QED
      BY <1>5, <2>1, <2>2, ClosureStable
  <1>7. act \in ClosureSet
    <2>1. Top.args \in Seq(ClosureSet)
      BY <1>1 DEF ContextSet
    <2> QED
      BY <1>5, <2>1
  <1>8. /\ c \in ContextSet /\ c.code.home = Here /\ c.code.part = "std"
        /\ c.temps = Top.temps /\ c.env = Top.env /\ c.args = Top.args
        /\ c.op = Top.op /\ c.res = Top.res
    BY <1>1 DEF ContextSet, CodeParts, Parts
  <1>9. [ctx EXCEPT ![Len(ctx)] = c][Len(ctx)] = c
    BY <1>8, Replaced
  <1>10. Kept(ctx, [ctx EXCEPT ![Len(ctx)] = c], Len(ctx))
    <2>1. Here \in StdFun /\ Here \notin Block
      BY ProgramAssumption DEF TakeParameter
    <2> HIDE DEF c
    <2> QED
      BY <1>1, <1>8, <1>9, <2>1 DEF Kept, SameScope
  <1>11. /\ "PUSH_VALUE" \in TakeOps /\ Room("PUSH_VALUE")
         /\ Evaluate(act, "PUSH_VALUE", c)
    BY <1>2, ProgramAssumption DEF TakeParameter, Room, Combines, TakeOps
  <1> HIDE DEF c, act
  <1> QED
    BY <1>2, <1>6, <1>7, <1>8, <1>10, <1>11, EvaluateStep

(* A step that leaves the lowest n contexts, with other operands in the n-th. *)
LEMMA CutStep ==
  ASSUME Inv, NEW n \in 1 .. Len(ctx), NEW t \in 0 .. MaxTemps,
         ctx' = [SubSeq(ctx, 1, n) EXCEPT ![n].temps = t],
         n < Len(ctx) \/ ctx[n].code.home \notin StdFun
  PROVE  Inv'
  <1> DEFINE s == SubSeq(ctx, 1, n)
             c == [ctx[n] EXCEPT !.temps = t]
  <1>1. n \in Nat \ {0} /\ n \in 1 .. n
    BY Sizes
  <1>2. /\ s \in Seq(ContextSet) /\ Len(s) = n
        /\ \A j \in 1 .. n : s[j] = ctx[j]
    <2>1. \A j \in 1 .. n : ctx[j] \in ContextSet
      BY Sizes
    <2> QED
      BY <1>1, <2>1, Sizes, SubSeqProperties
  <1>3. /\ c \in ContextSet /\ c.code = ctx[n].code /\ c.env = ctx[n].env
        /\ c.args = ctx[n].args /\ c.op = ctx[n].op /\ c.res = ctx[n].res
    BY Sizes, TempsType
  <1>4. ctx' = [s EXCEPT ![n] = c]
    BY <1>1, <1>2
  <1> HIDE DEF s, c
  <1>5. /\ ctx' \in Seq(ContextSet) /\ Len(ctx') = n /\ ctx'[n] = c
        /\ \A j \in 1 .. n - 1 : ctx'[j] = ctx[j]
    <2>1. n \in 1 .. Len(s)
      BY <1>1, <1>2
    <2>2. /\ [s EXCEPT ![n] = c] \in Seq(ContextSet)
          /\ Len([s EXCEPT ![n] = c]) = Len(s)
          /\ \A j \in 1 .. Len(s) : [s EXCEPT ![n] = c][j] = IF j = n THEN c ELSE s[j]
      BY <1>2, <1>3, <2>1, ExceptSeq
    <2>3. \A j \in 1 .. n - 1 : j \in 1 .. n /\ j # n
      BY <1>1
    <2> QED
      BY <1>1, <1>2, <1>4, <2>2, <2>3
  <1>6. \A j \in 1 .. n : j = n \/ j \in 1 .. n - 1
    BY <1>1
  <1>7. \A j \in 1 .. n - 1 : Kept(ctx, ctx', j) /\ ctx'[j].temps = ctx[j].temps
    BY <1>5 DEF Kept, SameScope
  <1>8. Kept(ctx, ctx', n)
    BY <1>3, <1>5 DEF Kept, SameScope
  <1>9. \/ ctx'[n].code.home \notin StdFun
        \/ ctx'[n].code.part = "std"
    <2>1. ASSUME n < Len(ctx), ctx[n].code.home \in StdFun
          PROVE  ctx[n].code.part = "std"
      BY <2>1, Sizes DEF Inv, StdContexts
    <2> QED
      BY <1>3, <1>5, <2>1
  <1> QED
    BY <1>5, <1>6, <1>7, <1>8, <1>9, Preserved

LEMMA SameTemps ==
  ASSUME NEW s \in Seq(ContextSet), NEW n \in 1 .. Len(s)
  PROVE  [s EXCEPT ![n].temps = s[n].temps] = s
  <1>1. s[n] \in ContextSet
    BY ElementOfSeq
  <1>2. [s[n] EXCEPT !.temps = s[n].temps] = s[n]
    BY <1>1 DEF ContextSet
  <1>3. [s EXCEPT ![n].temps = s[n].temps] = [s EXCEPT ![n] = s[n]]
    BY <1>2
  <1> QED
    BY <1>3

(* The top context is left, and its value arrives in the one below. *)
LEMMA LeaveStep ==
  ASSUME Inv, Leave, Len(ctx) > 1
  PROVE  Inv'
  <1> DEFINE n == Len(ctx) - 1
             below == SubSeq(ctx, 1, n)
  <1>1. n \in 1 .. Len(ctx) /\ n \in Nat \ {0} /\ n < Len(ctx) /\ n + 1 = Len(ctx)
    BY Sizes
  <1>2. /\ below \in Seq(ContextSet) /\ Len(below) = n
        /\ \A j \in 1 .. n : below[j] = ctx[j]
    <2>1. \A j \in 1 .. n : ctx[j] \in ContextSet
      BY <1>1, Sizes
    <2> QED
      BY <1>1, <2>1, Sizes, SubSeqProperties
  <1>3. below[n] = ctx[n] /\ ctx[n] \in ContextSet /\ ctx[n].temps \in 0 .. MaxTemps
    <2>1. ctx[n] \in ContextSet
      BY <1>1, Sizes
    <2>2. below[n] = ctx[n]
      BY <1>1, <1>2
    <2> QED
      BY <2>1, <2>2 DEF ContextSet
  <1>4. PICK t \in 0 .. MaxTemps : ctx' = [below EXCEPT ![n].temps = t]
    <2>1. CASE Top.res = "none"
      <3>1. ctx' = below
        BY <1>2, <2>1 DEF Leave
      <3>2. [below EXCEPT ![n].temps = below[n].temps] = below
        <4> HIDE DEF below
        <4> QED
          BY <1>1, <1>2, SameTemps
      <3> QED
        BY <1>3, <3>1, <3>2
    <2>2. CASE Top.res # "none"
      <3>1. ctx' = [below EXCEPT ![n] = Applied(below[n], Top.op)]
        BY <1>2, <2>2 DEF Leave
      <3>2. IF Combines(Top.op) THEN ctx[n].temps > 0 ELSE ctx[n].temps < MaxTemps
        BY <1>1, <2>2 DEF Inv, PendingOperands, Top
      <3>3. CASE Combines(Top.op)
        <4>1. [below EXCEPT ![n].temps = ctx[n].temps] = [below EXCEPT ![n] = below[n]]
          BY <1>3 DEF ContextSet
        <4> QED
          BY <1>3, <3>1, <3>3, <4>1 DEF Applied
      <3>4. CASE ~Combines(Top.op)
        <4>1. ctx[n].temps + 1 \in 0 .. MaxTemps
          BY <1>3, <3>2, <3>4, ProgramAssumption
        <4>2. ctx' = [below EXCEPT ![n].temps = ctx[n].temps + 1]
          BY <1>3, <3>1, <3>4 DEF Applied
        <4> QED
          BY <4>1, <4>2
      <3> QED
        BY <3>3, <3>4
    <2> QED
      BY <2>1, <2>2
  <1>5. ctx' = [SubSeq(ctx, 1, n) EXCEPT ![n].temps = t]
    BY <1>4
  <1> HIDE DEF n, below
  <1> QED
    BY <1>1, <1>5, CutStep

(* Only the outermost block is at the bottom. *)
LEMMA NotBottom ==
  ASSUME Inv, Here # Main \/ Top.code.part \notin {"body", "stopped"}
  PROVE  Len(ctx) > 1
  BY Sizes DEF Inv, Bottom, Here, Top

LEMMA ReturnStep ==
  ASSUME Inv, Return
  PROVE  Inv'
  BY NotBottom, LeaveStep DEF Return

LEMMA ExitForStep ==
  ASSUME Inv, ExitFor
  PROVE  Inv'
  <1>1. Here # Main
    BY ProgramAssumption DEF ExitFor
  <1> QED
    BY <1>1, NotBottom, LeaveStep DEF ExitFor

LEMMA EndSubroutineStep ==
  ASSUME Inv, EndSubroutine
  PROVE  Inv'
  BY NotBottom, LeaveStep DEF EndSubroutine

LEMMA GotoStep ==
  ASSUME Inv, InUserText, NEW l \in 0 .. Level(Here), Goto(l)
  PROVE  Inv'
  <1> DEFINE t == IF l = 0 THEN 1 ELSE Top.env[l]
  <1>1. t \in 1 .. Len(ctx) /\ ctx[t].code.home \notin StdFun
    <2>1. CASE l = 0
      BY <2>1, Sizes, MainFacts DEF Inv, Bottom
    <2>2. CASE l # 0
      <3>1. l \in 1 .. Level(Here) /\ Here \in Block
        BY <2>2, UserFacts, LevelType, MainFacts
      <3>2. /\ Top.env[l] \in 2 .. Len(ctx)
            /\ ctx[Top.env[l]].code = At(Path[Here][l], "body")
        BY <3>1, UserFacts DEF ScopeOK
      <3>3. Path[Here][l] \in Block
        BY <3>1, BlockFacts
      <3> QED
        BY <2>2, <3>2, <3>3, Sizes, BlockFacts DEF At
    <2> QED
      BY <2>1, <2>2
  <1>2. 0 \in 0 .. MaxTemps
    BY ProgramAssumption
  <1>3. ctx' = [SubSeq(ctx, 1, t) EXCEPT ![t].temps = 0]
    BY DEF Goto
  <1> HIDE DEF t
  <1> QED
    BY <1>1, <1>2, <1>3, CutStep

LEMMA AssignResultStep ==
  ASSUME Inv, InUserText, NEW l \in 1 .. Level(Here), AssignResult(l)
  PROVE  Inv'
  <1> DEFINE n == Len(ctx)
             f == Top.env[l]
             r == IF ctx[f].res = "none" THEN "none" ELSE "assigned"
             d == [ctx EXCEPT ![n].temps = 0]
             c == [d[f] EXCEPT !.res = r]
  <1>1. n \in 1 .. n /\ n \in Nat /\ f \in 1 .. n
    BY UserFacts, Sizes DEF ScopeOK
  <1>2. /\ d \in Seq(ContextSet) /\ Len(d) = n
        /\ \A j \in 1 .. n : /\ d[j].code = ctx[j].code /\ d[j].env = ctx[j].env
                              /\ d[j].args = ctx[j].args /\ d[j].op = ctx[j].op
                              /\ d[j].res = ctx[j].res
        /\ \A j \in 1 .. n - 1 : d[j].temps = ctx[j].temps
    <2> DEFINE e == [Top EXCEPT !.temps = 0]
    <2>1. /\ e \in ContextSet /\ e.code = Top.code /\ e.env = Top.env
          /\ e.args = Top.args /\ e.op = Top.op /\ e.res = Top.res
      <3>1. 0 \in 0 .. MaxTemps
        BY ProgramAssumption
      <3> QED
        BY <3>1, Sizes, TempsType
    <2>2. /\ [ctx EXCEPT ![n] = e] \in Seq(ContextSet) /\ Len([ctx EXCEPT ![n] = e]) = n
          /\ [ctx EXCEPT ![n] = e][n] = e
          /\ \A j \in 1 .. n - 1 : [ctx EXCEPT ![n] = e][j] = ctx[j]
      BY <2>1, Replaced
    <2>3. d = [ctx EXCEPT ![n] = e]
      BY <1>1 DEF Top
    <2>4. \A j \in 1 .. n : j \in 1 .. n - 1 \/ j = n
      BY <1>1
    <2> HIDE DEF d, e
    <2> QED
      BY <2>1, <2>2, <2>3, <2>4 DEF Top
  <1>3. ctx' = [d EXCEPT ![f].res = r]
    BY DEF AssignResult
  <1>4. /\ r \in Results
        /\ r = "none" <=> ctx[f].res = "none"
    BY DEF Results
  <1> HIDE DEF d, r
  <1>5. /\ c \in ContextSet /\ c.code = d[f].code /\ c.env = d[f].env /\ c.args = d[f].args
        /\ c.op = d[f].op /\ c.temps = d[f].temps /\ c.res = r
    <2>1. d[f] \in ContextSet
      BY <1>1, <1>2, ElementOfSeq
    <2> QED
      BY <1>4, <2>1 DEF ContextSet
  <1>6. ctx' = [d EXCEPT ![f] = c]
    BY <1>3
  <1> HIDE DEF c
  <1>7. /\ ctx' \in Seq(ContextSet) /\ Len(ctx') = n
        /\ \A j \in 1 .. n : ctx'[j] = IF j = f THEN c ELSE d[j]
    <2>1. /\ [d EXCEPT ![f] = c] \in Seq(ContextSet)
          /\ Len([d EXCEPT ![f] = c]) = n
          /\ \A j \in 1 .. n : [d EXCEPT ![f] = c][j] = IF j = f THEN c ELSE d[j]
      BY <1>1, <1>2, <1>5, ExceptSeq
    <2> QED
      BY <1>6, <2>1
  <1>8. \A j \in 1 .. n : Kept(ctx, ctx', j)
    BY <1>2, <1>4, <1>5, <1>7 DEF Kept, SameScope
  <1>9. \A j \in 1 .. n - 1 : ctx'[j].temps = ctx[j].temps
    <2>1. \A j \in 1 .. n - 1 : j \in 1 .. n
      BY <1>1
    <2> QED
      BY <2>1, <1>2, <1>5, <1>7
  <1>10. ctx'[n].code.home \notin StdFun
    <2>1. Kept(ctx, ctx', n)
      BY <1>1, <1>8
    <2> QED
      BY <2>1, UserFacts DEF Kept, SameScope, Here, Top
  <1> HIDE DEF n, f
  <1>11. n = Len(ctx)
    BY DEF n
  <1> QED
    BY <1>1, <1>7, <1>8, <1>9, <1>10, <1>11, Preserved

LEMMA StopStep ==
  ASSUME Inv, InUserText, Stop
  PROVE  Inv'
  <1> DEFINE c == [Top EXCEPT !.code.part = "stopped"]
  <1>1. Here = Main /\ Top \in ContextSet /\ Here = Top.code.home /\ Top = ctx[Len(ctx)]
    BY Sizes DEF Inv, Bottom, Stop, Here, Top
  <1>2. /\ c \in ContextSet /\ c.code.home = Main /\ c.code.part = "stopped"
        /\ c.env = Top.env /\ c.args = Top.args /\ c.op = Top.op /\ c.res = Top.res
    BY <1>1 DEF ContextSet, CodeParts, Parts
  <1>3. [ctx EXCEPT ![Len(ctx)] = c][Len(ctx)] = c
    BY <1>2, Replaced
  <1>4. ctx' = [ctx EXCEPT ![Len(ctx)] = c]
    BY DEF Stop, Update
  <1> HIDE DEF c
  <1>5. Kept(ctx, [ctx EXCEPT ![Len(ctx)] = c], Len(ctx))
    BY <1>1, <1>2, <1>3, MainFacts DEF Kept, SameScope
  <1> QED
    BY <1>2, <1>4, <1>5, MainFacts, ReplaceStep

-----------------------------------------------------------------------------
LEMMA InitInv == Init => Inv
  <1> SUFFICES ASSUME Init PROVE Inv
    OBVIOUS
  <1> DEFINE c == Context(At(Main, "body"), << >>, << >>, "PUSH_VALUE", "none")
  <1>1. ctx = << c >>
    BY DEF Init
  <1>2. /\ c.code.home = Main /\ c.code.part = "body" /\ c.env = << >> /\ c.res = "none"
        /\ c \in ContextSet
    BY ProgramAssumption DEF Context, At, ContextSet, CodeParts, Parts, FormalOps, Results
  <1> HIDE DEF c
  <1>3. Len(ctx) = 1 /\ ctx[1] = c /\ ctx \in Seq(ContextSet)
    BY <1>1, <1>2
  <1>4. TypeOK
    BY <1>3, MaxContextsAssumption DEF TypeOK
  <1>5. ContextOK(ctx, 1)
    BY <1>2, <1>3, MainFacts DEF ContextOK, ScopeOK
  <1>6. StaticScoping
    BY <1>3, <1>5 DEF StaticScoping
  <1>7. PendingOperands
    BY <1>3 DEF PendingOperands
  <1>8. StdContexts
    BY <1>2, <1>3, MainFacts DEF StdContexts
  <1>9. Bottom
    BY <1>2, <1>3 DEF Bottom
  <1> QED
    BY <1>4, <1>6, <1>7, <1>8, <1>9 DEF Inv

LEMMA UserStepInv ==
  ASSUME Inv, InUserText, UserStep
  PROVE  Inv'
  <1>1. CASE LoadOperand
    BY <1>1, LoadOperandStep
  <1>2. CASE Consume
    BY <1>2, ConsumeStep
  <1>3. CASE \E b \in Block : EnterFor(b)
    BY <1>3, EnterForStep
  <1>4. CASE \E b \in Block, res \in {"none", "undefined"} :
               \E args \in ArgLists(Here, Formals[b]) : Call(b, args, res)
    BY <1>4, CallStep
  <1>5. CASE \E a \in FormalsInScope(Here, "num"), op \in TakeOps : TakeFormal(a, op)
    BY <1>5, TakeFormalStep
  <1>6. CASE \E a \in FormalsInScope(Here, "label") : GotoFormal(a)
    BY <1>6, GotoFormalStep
  <1>7. CASE \E a \in FormalsInScope(Here, "proc"), res \in {"none", "undefined"} :
               \E args \in ArgLists(Here, ProcFormals) : CallFormal(a, args, res)
    BY <1>7, CallFormalStep
  <1>8. CASE \E l \in 1 .. Level(Here) : AssignResult(l)
    BY <1>8, AssignResultStep
  <1>9. CASE \E l \in 0 .. Level(Here) : Goto(l)
    BY <1>9, GotoStep
  <1>10. CASE Return
    BY <1>10, ReturnStep
  <1>11. CASE ExitFor
    BY <1>11, ExitForStep
  <1>12. CASE Stop
    BY <1>12, StopStep
  <1> QED
    BY <1>1, <1>2, <1>3, <1>4, <1>5, <1>6, <1>7, <1>8, <1>9, <1>10, <1>11, <1>12 DEF UserStep

LEMMA StepInv == Inv /\ [Next]_ctx => Inv'
  <1> SUFFICES ASSUME Inv, [Next]_ctx PROVE Inv'
    OBVIOUS
  <1>1. CASE InUserText /\ UserStep
    BY <1>1, UserStepInv
  <1>2. CASE TakeParameter
    BY <1>2, TakeParameterStep
  <1>3. CASE EndSubroutine
    BY <1>3, EndSubroutineStep
  <1>4. CASE UNCHANGED ctx
    <2>1. \A j \in 1 .. Len(ctx) : Kept(ctx, ctx', j)
      BY <1>4 DEF Kept, SameScope
    <2> QED
      BY <1>4, <2>1, Sizes, Preserved
  <1> QED
    BY <1>1, <1>2, <1>3, <1>4 DEF Next, Stopped

LEMMA Invariance == Spec => []Inv
  BY InitInv, StepInv, PTL DEF Spec

(* The stack of contexts is always well formed, for any program. *)
THEOREM TypeCorrect == Spec => []TypeOK
  <1>1. Inv => TypeOK
    BY DEF Inv
  <1> QED
    BY <1>1, Invariance, PTL

(* Lexical scoping: whatever thunks, formal procedures and jumps are in   *)
(* progress, every environment leads to the activations of the blocks that *)
(* are written around the code, and no closure outlives one of them.       *)
THEOREM Scoping == Spec => []StaticScoping
  <1>1. Inv => StaticScoping
    BY DEF Inv
  <1> QED
    BY <1>1, Invariance, PTL

(* The operand an operation on a formal needs is still there when the     *)
(* implicit subroutine has computed the value.                             *)
THEOREM Operands == Spec => []PendingOperands
  <1>1. Inv => PendingOperands
    BY DEF Inv
  <1> QED
    BY <1>1, Invariance, PTL

(* A standard function takes its one parameter once, while it is on top   *)
(* of the stack and before anything is stacked in it (TFP of the library   *)
(* functions, which read their argument first).                            *)
THEOREM StdCalls == Spec => []StdContexts
  <1>1. Inv => StdContexts
    BY DEF Inv
  <1> QED
    BY <1>1, Invariance, PTL
=============================================================================
