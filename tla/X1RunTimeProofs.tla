-------------------------- MODULE X1RunTimeProofs --------------------------
(***************************************************************************)
(* Proofs about X1RunTime: the frames on the stack, their links and the    *)
(* display, for every block tree and every depth of recursion.             *)
(***************************************************************************)
EXTENDS X1RunTime, WellFoundedInduction, TLAPS

-----------------------------------------------------------------------------
(***************************************************************************)
(* Contexts.  The frames on the stack, from the oldest, are those of the   *)
(* contexts 1 to n; context 0 is the outermost block.  Each has its frame  *)
(* f, the place at in the object program, the frame pointer fp and stack   *)
(* base while it runs, the PORDs it was called with, and in dis the        *)
(* contexts, by level, whose frames are its display.                       *)
(***************************************************************************)
Context == [f : Nat, at : Code, fp : Nat, base : Nat, dis : Seq(Nat), pords : Seq(PordSet)]

Entered(c) == c.at.part \in {"body", "locals", "std"}

Nested(C, i) ==
  /\ Len(C[i].dis) <= MaxLevel
  /\ \A l \in 1 .. Len(C[i].dis) :
       LET e == C[i].dis[l]
       IN /\ e \in 1 .. i /\ Entered(C[e]) /\ Len(C[e].dis) = l
          /\ \A m \in 1 .. l : C[e].dis[m] = C[i].dis[m]

(* The display of context i leads through the blocks around b, up to top. *)
Encloses(C, i, b, top) ==
  top <= Len(C[i].dis) /\ \A l \in 1 .. top : C[C[i].dis[l]].at.home = Path[b][l]

Passes(C, i, kinds) ==
  /\ Len(C[i].pords) = Len(kinds)
  /\ \A k \in 1 .. Len(kinds) : C[i].pords[k] \in Pords(C[i - 1].at.home, kinds[k])
  /\ Len(kinds) > 0 => C[i - 1].at.part \in UserParts

Steps(b) == IF b \in ForBlock THEN 1 ELSE 0

AtEntry(C, i) ==
  LET c == C[i]
      b == c.at.home
  IN /\ b \in Block /\ c.at.part = "entry"
     /\ Passes(C, i, Formals[b]) /\ Encloses(C, i, b, Level(b) - 1)
     /\ c.base = c.f + FirstLocal(b)
     /\ c.fp # c.f => c.pords = << >> /\ Len(c.dis) > 0 /\ c.fp = C[c.dis[Len(c.dis)]].f
     /\ b \in ForBlock => /\ c.fp = c.f /\ C[i - 1].at.part = "body"
                          /\ Len(C[i - 1].dis) = Level(b) - 1 /\ (i = 1 => c.f = 1)

InBlock(C, i) ==
  LET c == C[i]
      b == c.at.home
  IN /\ b \in Block /\ c.at.part \in {"locals", "body"}
     /\ Passes(C, i, Formals[b]) /\ Encloses(C, i, b, Level(b))
     /\ c.base = c.f + FirstLocal(b) + Steps(b) + (IF c.at.part = "body" THEN Locals[b] ELSE 0)
     /\ c.fp = c.f /\ Len(c.dis) = Level(b) /\ c.dis[Level(b)] = i

InThunk(C, i) ==
  LET c == C[i]
      h == c.at.home
  IN /\ h \in Block \cup {Main} /\ c.at.part \in ThunkParts
     /\ c.pords = << >> /\ Encloses(C, i, h, Level(h)) /\ Len(c.dis) = Level(h)
     /\ c.base = c.f + 5
     /\ c.fp = IF Level(h) = 0 THEN c.f ELSE C[c.dis[Level(h)]].f

InStd(C, i) ==
  LET c == C[i]
  IN /\ c.at.home \in StdFun /\ c.at.part \in {"entry", "std"}
     /\ Passes(C, i, ProcFormals) /\ c.base = c.f + 7 /\ c.fp = c.f
     /\ Len(C[i - 1].dis) > 0
     /\ c.at.part = "entry" => c.dis = C[i - 1].dis
     /\ c.at.part = "std"   => c.dis = Append(C[i - 1].dis, i)

Sound(C, i) ==
  /\ Nested(C, i)
  /\ AtEntry(C, i) \/ InBlock(C, i) \/ InThunk(C, i) \/ InStd(C, i)
  /\ C[i - 1].base < C[i].f /\ C[i - 1].at.part \in UserParts \cup {"std"}

Outermost(c) ==
  /\ c.f = 0 /\ c.fp = 0 /\ c.base = 0 /\ c.dis = << >>
  /\ c.at.home = Main /\ c.at.part \in {"body", "stopped"}

Contexts(C, n) ==
  C \in [Nat -> Context] /\ Outermost(C[0]) /\ \A i \in 1 .. n : Sound(C, i)

-----------------------------------------------------------------------------
(***************************************************************************)
(* The cells of a context: the result that waits below its frame, linkage, *)
(* parameters, local variables, and then its intermediate results.         *)
(***************************************************************************)
Number(c) == c.t = "val" /\ c.v \in Nat

Linkage(C, i, st) ==
  LET c == C[i]
      k == C[i - 1]
  IN /\ st[c.f] = Null \/ Number(st[c.f])
     /\ c.at.part \in ThunkParts \/ c.at.home \in StdFun => st[c.f] # Null
     /\ st[c.f + 1] = Addr(k.fp)
     /\ st[c.f + 2] = Ret(k.at, c.pords)
     /\ st[c.f + 3] = Addr(k.base)
     /\ st[c.f + 4] = Addr(IF Entered(c) THEN Len(c.dis) ELSE 0)
     /\ st[c.f + 5].t = "addr" /\ st[c.f + 5].v \in Nat
     /\ Entered(c) /\ Len(c.dis) > 1 => st[c.f + 5].v = C[c.dis[Len(c.dis) - 1]].f
     /\ \A j \in 1 .. Len(c.pords) : /\ Number(st[c.f + 4 + 2 * j])
                                     /\ st[c.f + 5 + 2 * j] = Addr(Pard(Len(k.dis), k.fp))
     /\ \A a \in c.f + 6 + 2 * Len(c.pords) .. c.base : Number(st[a])

Operands(C, i, top, st) == \A a \in C[i].base + 1 .. top : Number(st[a])

Linked(C, n, st) == \A i \in 1 .. n : Linkage(C, i, st) /\ Operands(C, i - 1, C[i].f - 1, st)

Laid(C, n, st) == Linked(C, n, st) /\ C[n].base <= Len(st) /\ Operands(C, n, Len(st), st)

(* What each context does when it is left. *)
Ops(C, n, eis) ==
  \A i \in 1 .. n :
    LET op == eis[C[i].base]
    IN /\ C[i].base \in DOMAIN eis /\ op \in PostOps \ {"PUSH_ADDRESS"}
       /\ Combines(op) => C[i - 1].base + 1 < C[i].f
       /\ op = "REMOVE_ARG" <=> C[i].at.part = "std"
       /\ op \in {"PUSH_DEREF", "ADD_DEREF"} <=> C[i].at.part = "address"

Shown(C, n, d) == \A l \in 1 .. Len(C[n].dis) : d[l] = C[C[n].dis[l]].f

(* The state of the processor, as a record. *)
State == [stack : Seq(Cells), frame_ptr : Nat, last_frame_ptr : Nat, stack_base : Nat,
          display : [0 .. MaxLevel -> Nat],
          eis_operation : UNION {[D -> PostOps] : D \in SUBSET Nat}]

(* It is that of context n. *)
Runs(C, n, p) ==
  /\ p \in State /\ n \in Nat
  /\ Contexts(C, n) /\ Laid(C, n, p.stack) /\ Ops(C, n, p.eis_operation) /\ Shown(C, n, p.display)
  /\ p.frame_ptr = C[n].fp /\ p.stack_base = C[n].base
  /\ p.last_frame_ptr \in {C[i].f : i \in 0 .. n} /\ p.display[0] = 0

Coupled == \E C, n, p : Runs(C, n, p) /\ p = Now /\ ot = C[n].at

-----------------------------------------------------------------------------
(***************************************************************************)
(* Induction over the natural numbers.                                     *)
(***************************************************************************)
LEMMA Least ==
  ASSUME NEW S \in SUBSET Nat, S # {}
  PROVE  \E m \in S : \A k \in S : m <= k
<1> DEFINE R == {ss \in Nat \X Nat : ss[1] < ss[2]}
<1>1. IsWellFoundedOn(R, Nat)
  <2>1. OpToRel(<, Nat) = R
    BY DEF OpToRel
  <2> QED BY <2>1, NatLessThanWellFounded
<1>2. \E x \in S : \A y \in S : <<y, x>> \notin R
  <2> HIDE DEF R
  <2> QED BY <1>1, WFMin
<1>3. PICK x \in S : \A y \in S : <<y, x>> \notin R
  BY <1>2
<1>4. \A k \in S : ~ (k < x)
  BY <1>3
<1> QED BY <1>4

LEMMA Induction ==
  ASSUME NEW S \in SUBSET Nat, 0 \in S, \A n \in S : n + 1 \in S
  PROVE  S = Nat
<1>1. SUFFICES ASSUME Nat \ S # {} PROVE FALSE
  OBVIOUS
<1>2. PICK m \in Nat \ S : \A k \in Nat \ S : m <= k
  BY <1>1, Least
<1>3. m # 0 /\ m - 1 \in Nat /\ m - 1 \in S
  BY <1>2
<1> QED BY <1>2, <1>3

(* A loop whose body is the function g. *)
LEMMA Iterates ==
  ASSUME NEW V, NEW x \in V, NEW g \in [V -> V], NEW m \in Nat
  PROVE  \E h \in [0 .. m -> V] : h[0] = x /\ \A k \in 1 .. m : h[k] = g[h[k - 1]]
<1> DEFINE Good(k) == \E h \in [0 .. k -> V] : h[0] = x /\ \A j \in 1 .. k : h[j] = g[h[j - 1]]
           S == {k \in Nat : Good(k)}
<1>1. 0 \in S
  <2> DEFINE h == [j \in 0 .. 0 |-> x]
  <2>1. h \in [0 .. 0 -> V] /\ h[0] = x /\ \A j \in 1 .. 0 : h[j] = g[h[j - 1]]
    OBVIOUS
  <2> QED BY <2>1
<1>2. ASSUME NEW k \in S PROVE k + 1 \in S
  <2>1. PICK h \in [0 .. k -> V] : h[0] = x /\ \A j \in 1 .. k : h[j] = g[h[j - 1]]
    OBVIOUS
  <2> DEFINE h2 == [j \in 0 .. k + 1 |-> IF j = k + 1 THEN g[h[k]] ELSE h[j]]
  <2>2. k \in Nat /\ k \in 0 .. k /\ h[k] \in V
    OBVIOUS
  <2>3. h2 \in [0 .. k + 1 -> V] /\ h2[0] = x
    BY <2>1, <2>2
  <2>4. ASSUME NEW j \in 1 .. k + 1 PROVE h2[j] = g[h2[j - 1]]
    <3>1. CASE j = k + 1
      <4>1. j - 1 = k /\ h2[j - 1] = h[k] /\ h2[j] = g[h[k]]
        BY <2>2, <3>1
      <4> QED BY <4>1
    <3>2. CASE j \in 1 .. k
      <4>1. j # k + 1 /\ j - 1 # k + 1 /\ j - 1 \in 0 .. k + 1 /\ j \in 0 .. k + 1
        BY <2>2, <3>2
      <4>2. h2[j] = h[j] /\ h2[j - 1] = h[j - 1]
        BY <4>1
      <4> QED BY <2>1, <3>2, <4>2
    <3> QED BY <2>2, <3>1, <3>2
  <2> HIDE DEF h2
  <2> QED BY <2>2, <2>3, <2>4
<1>3. S = Nat
  <2>1. S \in SUBSET Nat
    OBVIOUS
  <2> HIDE DEF S
  <2> QED BY <1>1, <1>2, <2>1, Induction
<1> QED BY <1>3

-----------------------------------------------------------------------------
(***************************************************************************)
(* The contexts stand one above the other.                                 *)
(***************************************************************************)
LEMMA Typed ==
  ASSUME NEW C, NEW n \in Nat, Contexts(C, n), NEW i \in 0 .. n
  PROVE  /\ i \in Nat /\ C[i] \in Context
         /\ C[i].f \in Nat /\ C[i].fp \in Nat /\ C[i].base \in Nat /\ C[i].at \in Code
         /\ C[i].dis \in Seq(Nat) /\ Len(C[i].dis) \in Nat
         /\ C[i].pords \in Seq(PordSet) /\ Len(C[i].pords) \in Nat
<1>1. i \in Nat
  OBVIOUS
<1>2. C[i] \in Context
  BY <1>1 DEF Contexts
<1>3. /\ C[i].f \in Nat /\ C[i].fp \in Nat /\ C[i].base \in Nat /\ C[i].at \in Code
      /\ C[i].dis \in Seq(Nat) /\ C[i].pords \in Seq(PordSet)
  BY <1>2 DEF Context
<1> QED BY <1>1, <1>2, <1>3

LEMMA BlockTypes ==
  ASSUME NEW b \in Block
  PROVE  /\ Formals[b] \in Seq(FormalKinds) /\ Len(Formals[b]) \in Nat /\ Locals[b] \in Nat
         /\ Level(b) \in Nat /\ Level(b) >= 1 /\ Level(b) <= MaxLevel /\ Steps(b) \in {0, 1}
         /\ FirstLocal(b) = 5 + 2 * Len(Formals[b])
<1>1. Path[b] \in Seq(Block) /\ Level(b) > 0 /\ Level(b) <= MaxLevel
  BY ProgramAssumption, RunTimeAssumption
<1>2. Formals[b] \in Seq(FormalKinds) /\ Locals[b] \in Nat
  BY ProgramAssumption
<1> QED BY <1>1, <1>2 DEF Level, Steps, FirstLocal

LEMMA FrameWithin ==
  ASSUME NEW C, NEW n \in Nat, Contexts(C, n), NEW i \in 1 .. n
  PROVE  /\ i - 1 \in 0 .. n /\ C[i - 1].base < C[i].f
         /\ C[i].f + 5 + 2 * Len(C[i].pords) <= C[i].base
<1>1. C[i].f \in Nat /\ Len(C[i].pords) \in Nat /\ C[i].base \in Nat
  BY Typed
<1>2. Sound(C, i)
  BY DEF Contexts
<1> DEFINE Room == C[i].f + 5 + 2 * Len(C[i].pords) <= C[i].base
<1>3. ASSUME AtEntry(C, i) PROVE Room
  <2> DEFINE b == C[i].at.home
  <2>1. b \in Block /\ Len(C[i].pords) = Len(Formals[b]) /\ C[i].base = C[i].f + FirstLocal(b)
    BY <1>3 DEF AtEntry, Passes
  <2>2. FirstLocal(b) = 5 + 2 * Len(Formals[b])
    BY <2>1, BlockTypes
  <2>3. Room
    <3> HIDE DEF b
    <3> QED BY <1>1, <2>1, <2>2
  <2> QED BY <2>3
<1>4. ASSUME InBlock(C, i) PROVE Room
  <2> DEFINE b == C[i].at.home
  <2>1. b \in Block /\ Len(C[i].pords) = Len(Formals[b])
    BY <1>4 DEF InBlock, Passes
  <2>2. Steps(b) \in {0, 1} /\ Locals[b] \in Nat /\ FirstLocal(b) = 5 + 2 * Len(Formals[b])
    BY <2>1, BlockTypes
  <2> DEFINE x == IF C[i].at.part = "body" THEN Locals[b] ELSE 0
  <2>4. x \in Nat
    BY <2>2
  <2>5. C[i].base = C[i].f + FirstLocal(b) + Steps(b) + x
    BY <1>4 DEF InBlock
  <2>3. Room
    <3>1. /\ FirstLocal(b) \in Nat /\ Steps(b) \in Nat /\ x \in Nat
          /\ FirstLocal(b) = 5 + 2 * Len(C[i].pords)
      BY <1>1, <2>1, <2>2, <2>4
    <3>2. \A f, l, w, u, v \in Nat : w = 5 + 2 * l => f + 5 + 2 * l <= f + w + u + v
      OBVIOUS
    <3>3. C[i].f + 5 + 2 * Len(C[i].pords) <= C[i].f + FirstLocal(b) + Steps(b) + x
      <4> HIDE DEF b, x
      <4> QED BY <1>1, <3>1, <3>2
    <3> HIDE DEF b, x
    <3> QED BY <2>5, <3>3
  <2> QED BY <2>3
<1>5. ASSUME InThunk(C, i) PROVE Room
  <2>1. C[i].pords = << >> /\ C[i].base = C[i].f + 5
    BY <1>5 DEF InThunk
  <2> QED BY <1>1, <2>1
<1>6. ASSUME InStd(C, i) PROVE Room
  <2>1. Len(C[i].pords) = 1 /\ C[i].base = C[i].f + 7
    BY <1>6 DEF InStd, Passes, ProcFormals
  <2> QED BY <1>1, <2>1
<1>7. Room
  BY <1>2, <1>3, <1>4, <1>5, <1>6 DEF Sound
<1>8. i - 1 \in 0 .. n /\ C[i - 1].base < C[i].f
  BY <1>2 DEF Sound
<1> QED BY <1>7, <1>8

LEMMA Spaced ==
  ASSUME NEW C, NEW n \in Nat, Contexts(C, n)
  PROVE  \A j \in 0 .. n : \A i \in 0 .. n : i < j => C[i].base < C[j].f /\ C[i].f < C[j].f
<1> DEFINE S == {j \in Nat : j <= n => \A i \in 0 .. n : i < j => C[i].base < C[j].f}
<1>1. \A i \in 0 .. n : C[i].f \in Nat /\ C[i].base \in Nat /\ C[i].f <= C[i].base
  <2> SUFFICES ASSUME NEW i \in 0 .. n
               PROVE  C[i].f \in Nat /\ C[i].base \in Nat /\ C[i].f <= C[i].base
    OBVIOUS
  <2>1. C[i].f \in Nat /\ C[i].base \in Nat /\ Len(C[i].pords) \in Nat
    BY Typed
  <2>2. CASE i = 0
    <3>1. Outermost(C[0])
      BY DEF Contexts
    <3>2. C[0].f = 0 /\ C[0].base = 0
      BY ONLY <3>1 DEF Outermost
    <3> QED BY ONLY <2>2, <3>2
  <2>3. CASE i \in 1 .. n
    <3>1. C[i].f + 5 + 2 * Len(C[i].pords) <= C[i].base
      BY <2>3, FrameWithin
    <3>2. \A f, w, b \in Nat : f + 5 + 2 * w <= b => f <= b
      OBVIOUS
    <3> QED BY ONLY <2>1, <3>1, <3>2
  <2> QED BY <2>1, <2>2, <2>3
<1>2. 0 \in S /\ S \in SUBSET Nat
  OBVIOUS
<1>3. ASSUME NEW j \in S PROVE j + 1 \in S
  <2> SUFFICES ASSUME j + 1 <= n, NEW i \in 0 .. n, i < j + 1 PROVE C[i].base < C[j + 1].f
    OBVIOUS
  <2>1. j \in 0 .. n /\ j + 1 \in 1 .. n /\ (j + 1) - 1 = j
    OBVIOUS
  <2>2. C[j].base < C[j + 1].f
    BY <2>1, FrameWithin
  <2>3. CASE i = j
    BY <2>2, <2>3
  <2>4. CASE i < j
    <3>1. C[i].base < C[j].f
      BY <2>1, <2>4
    <3>2. /\ C[i].base \in Nat /\ C[j].f \in Nat /\ C[j].base \in Nat /\ C[j + 1].f \in Nat
          /\ C[j].f <= C[j].base
      BY <1>1, <2>1
    <3> QED BY <2>2, <3>1, <3>2
  <2> QED BY <2>1, <2>3, <2>4
<1>4. S = Nat
  <2> HIDE DEF S
  <2> QED BY <1>2, <1>3, Induction
<1>5. \A j \in 0 .. n : \A i \in 0 .. n : i < j => C[i].base < C[j].f
  BY <1>4
<1> QED BY <1>1, <1>5

-----------------------------------------------------------------------------
(***************************************************************************)
(* A PARD is read back as it was packed, as long as the frame pointer fits. *)
(***************************************************************************)
LEMMA Divides ==
  ASSUME NEW B \in Nat \ {0}, NEW x \in Nat, NEW y \in Nat, y < B
  PROVE  (x * B + y) \div B = x /\ (x * B + y) % B = y /\ y \div B = 0 /\ y % B = y
<1>1. /\ y \div B = 0 /\ y % B = y
  OBVIOUS
<1> DEFINE z == x * B + y
           q == z \div B
           r == z % B
<1>2. z \in Nat /\ q \in Int /\ r \in 0 .. B - 1 /\ z = B * q + r
  BY SMT
<1>3. x * B + y = B * q + r
  BY <1>2
<1>4. q = x
  <2>1. ASSUME q < x PROVE FALSE
    <3>1. q + 1 <= x /\ B * (q + 1) <= B * x
      BY <2>1, <1>2
    <3> QED BY <3>1, <1>2, <1>3
  <2>2. ASSUME q > x PROVE FALSE
    <3>1. q >= x + 1 /\ B * (x + 1) <= B * q
      BY <2>2, <1>2
    <3> QED BY <3>1, <1>2, <1>3
  <2> QED BY <1>2, <2>1, <2>2
<1> QED BY <1>1, <1>2, <1>3, <1>4

LEMMA PardIs ==
  ASSUME NEW l \in Nat, NEW fp \in Nat, fp < 2^FP_BITS
  PROVE  /\ Pard(l, fp) \in Nat
         /\ Pard(l, fp) \div 2^FP_BITS = l /\ Pard(l, fp) % 2^FP_BITS = fp
<1> DEFINE B == 2^FP_BITS
<1>1. B \in Nat \ {0}
  BY RunTimeAssumption
<1>2. Pard(l, fp) = l * B + fp
  <2>1. fp \div B = 0 /\ fp % B = fp
    BY <1>1, Divides
  <2> QED BY <2>1 DEF Pard
<1> HIDE DEF B
<1>3. l * B + fp \in Nat /\ (l * B + fp) \div B = l /\ (l * B + fp) % B = fp
  <2>1. fp < B
    BY DEF B
  <2> QED BY <1>1, <2>1, Divides
<1> QED BY <1>2, <1>3 DEF B

-----------------------------------------------------------------------------
(***************************************************************************)
(* What holds of a context depends on the contexts below it alone, and on  *)
(* the cells up to its stack base; a number may become another number.     *)
(***************************************************************************)
Same(C, D, k) == \A j \in 0 .. k : D[j] = C[j]

Alike(st, st2, top) ==
  \A a \in 1 .. top : st2[a] = st[a] \/ (Number(st[a]) /\ Number(st2[a]))

LEMMA SoundSame ==
  ASSUME NEW C, NEW D, NEW k \in Nat, NEW i \in 1 .. k, Same(C, D, k), Sound(C, i),
         C[i].dis \in Seq(Nat)
  PROVE  Sound(D, i)
<1>1. D[i] = C[i] /\ D[i - 1] = C[i - 1]
  BY DEF Same
<1>2. \A l \in 1 .. Len(C[i].dis) : D[C[i].dis[l]] = C[C[i].dis[l]]
  <2> SUFFICES ASSUME NEW l \in 1 .. Len(C[i].dis) PROVE D[C[i].dis[l]] = C[C[i].dis[l]]
    OBVIOUS
  <2>1. C[i].dis[l] \in 1 .. i
    BY DEF Sound, Nested
  <2>2. \A j \in 1 .. i : j \in 0 .. k
    OBVIOUS
  <2> QED BY <2>1, <2>2 DEF Same
<1>3. Nested(D, i)
  <2>1. Nested(C, i)
    BY DEF Sound
  <2>2. Len(D[i].dis) <= MaxLevel
    BY <1>1, <2>1 DEF Nested
  <2>3. ASSUME NEW l \in 1 .. Len(D[i].dis)
        PROVE  /\ D[i].dis[l] \in 1 .. i /\ Entered(D[D[i].dis[l]]) /\ Len(D[D[i].dis[l]].dis) = l
               /\ \A m \in 1 .. l : D[D[i].dis[l]].dis[m] = D[i].dis[m]
    <3>1. D[D[i].dis[l]] = C[C[i].dis[l]] /\ D[i].dis = C[i].dis
      BY <1>1, <1>2
    <3>2. /\ C[i].dis[l] \in 1 .. i /\ Entered(C[C[i].dis[l]]) /\ Len(C[C[i].dis[l]].dis) = l
          /\ \A m \in 1 .. l : C[C[i].dis[l]].dis[m] = C[i].dis[m]
      BY <1>1, <2>1 DEF Nested
    <3> QED BY <3>1, <3>2
  <2> QED BY <2>2, <2>3 DEF Nested
<1>4. ASSUME NEW b, NEW top \in Int, Encloses(C, i, b, top) PROVE Encloses(D, i, b, top)
  <2>1. Len(C[i].dis) \in Nat /\ top <= Len(C[i].dis)
    BY <1>4 DEF Encloses
  <2>2. \A l \in 1 .. top : l \in 1 .. Len(C[i].dis)
    BY <2>1
  <2> QED BY <1>1, <1>2, <1>4, <2>2 DEF Encloses
<1>5. ASSUME NEW kinds, Passes(C, i, kinds) PROVE Passes(D, i, kinds)
  BY <1>1, <1>5 DEF Passes
<1>6. ASSUME AtEntry(C, i) PROVE AtEntry(D, i)
  <2>1. C[i].at.home \in Block /\ Level(C[i].at.home) - 1 \in Int
    BY <1>6, BlockTypes DEF AtEntry
  <2>2. Encloses(D, i, C[i].at.home, Level(C[i].at.home) - 1)
    BY <1>4, <1>6, <2>1 DEF AtEntry
  <2>3. Passes(D, i, Formals[C[i].at.home])
    BY <1>5, <1>6 DEF AtEntry
  <2>4. Len(C[i].dis) > 0 => D[C[i].dis[Len(C[i].dis)]] = C[C[i].dis[Len(C[i].dis)]]
    BY <1>2
  <2> QED BY <1>1, <1>6, <2>2, <2>3, <2>4 DEF AtEntry
<1>7. ASSUME InBlock(C, i) PROVE InBlock(D, i)
  <2>1. C[i].at.home \in Block /\ Level(C[i].at.home) \in Int
    BY <1>7, BlockTypes DEF InBlock
  <2>2. Encloses(D, i, C[i].at.home, Level(C[i].at.home))
    BY <1>4, <1>7, <2>1 DEF InBlock
  <2>3. Passes(D, i, Formals[C[i].at.home])
    BY <1>5, <1>7 DEF InBlock
  <2> QED BY <1>1, <1>7, <2>2, <2>3 DEF InBlock
<1>8. ASSUME InThunk(C, i) PROVE InThunk(D, i)
  <2> DEFINE h == C[i].at.home
  <2>1. Level(h) = Len(C[i].dis) /\ Level(h) \in Nat
    BY <1>8 DEF InThunk
  <2>2. Encloses(D, i, h, Level(h))
    BY <1>4, <1>8, <2>1 DEF InThunk
  <2>3. Level(h) # 0 => D[C[i].dis[Level(h)]] = C[C[i].dis[Level(h)]]
    BY <1>2, <2>1
  <2> QED BY <1>1, <1>8, <2>2, <2>3 DEF InThunk
<1>9. ASSUME InStd(C, i) PROVE InStd(D, i)
  <2>1. Passes(D, i, ProcFormals)
    BY <1>5, <1>9 DEF InStd
  <2> QED BY <1>1, <1>9, <2>1 DEF InStd
<1> QED BY <1>1, <1>3, <1>6, <1>7, <1>8, <1>9 DEF Sound

LEMMA Within ==
  ASSUME NEW C, NEW n \in Nat, Contexts(C, n), NEW k \in 0 .. n, NEW i \in 1 .. k
  PROVE  /\ C[i].f \in Nat \ {0} /\ C[i].base \in Nat /\ C[k].base \in Nat
         /\ Len(C[i].pords) \in Nat
         /\ C[i].f + 5 + 2 * Len(C[i].pords) <= C[i].base /\ C[i].base <= C[k].base
<1>1. i \in 0 .. n /\ i \in 1 .. n /\ i - 1 \in 0 .. n
  OBVIOUS
<1>2. /\ C[i].f \in Nat /\ C[i].base \in Nat /\ C[k].base \in Nat /\ C[k].f \in Nat
      /\ C[i - 1].base \in Nat /\ Len(C[i].pords) \in Nat /\ Len(C[k].pords) \in Nat
  BY <1>1, Typed
<1>3. C[i].f + 5 + 2 * Len(C[i].pords) <= C[i].base /\ C[i - 1].base < C[i].f
  BY <1>1, FrameWithin
<1>4. C[i].f # 0
  BY <1>2, <1>3
<1>5. C[i].base <= C[k].base
  <2>1. CASE i = k
    BY <1>2, <2>1
  <2>2. CASE i < k
    <3>1. C[i].base < C[k].f
      BY <1>1, <2>2, Spaced
    <3>2. C[k].f + 5 + 2 * Len(C[k].pords) <= C[k].base
      <4>1. k \in 1 .. n
        BY <2>2
      <4> QED BY <4>1, FrameWithin
    <3>3. \A f, b, g, w \in Nat : b < f /\ f + 5 + 2 * w <= g => b <= g
      OBVIOUS
    <3> QED BY <1>2, <3>1, <3>2, <3>3
  <2> QED BY <2>1, <2>2
<1> QED BY <1>2, <1>3, <1>4, <1>5

LEMMA LinkageSame ==
  ASSUME NEW C, NEW D, NEW n \in Nat, Contexts(C, n), NEW k \in 0 .. n, NEW i \in 1 .. k,
         Same(C, D, k), NEW st, NEW st2, Alike(st, st2, C[k].base), Linkage(C, i, st)
  PROVE  Linkage(D, i, st2)
<1> DEFINE c == C[i]
<1>1. D[i] = C[i] /\ D[i - 1] = C[i - 1]
  BY DEF Same
<1>2. /\ c.f \in Nat \ {0} /\ c.base \in Nat /\ C[k].base \in Nat /\ Len(c.pords) \in Nat
      /\ c.f + 5 + 2 * Len(c.pords) <= c.base /\ c.base <= C[k].base
  BY Within
<1> HIDE DEF c
<1>3. \A a \in c.f .. c.base : st2[a] = st[a] \/ (Number(st[a]) /\ Number(st2[a]))
  <2>1. \A a \in c.f .. c.base : a \in 1 .. C[k].base
    BY ONLY <1>2
  <2>2. \A a \in 1 .. C[k].base : st2[a] = st[a] \/ (Number(st[a]) /\ Number(st2[a]))
    BY DEF Alike
  <2> QED BY ONLY <2>1, <2>2
<1>4. \A a \in c.f .. c.base : ~ Number(st[a]) => st2[a] = st[a]
  BY <1>3
<1>5. /\ c.f \in c.f .. c.base /\ c.f + 1 \in c.f .. c.base /\ c.f + 2 \in c.f .. c.base
      /\ c.f + 3 \in c.f .. c.base /\ c.f + 4 \in c.f .. c.base /\ c.f + 5 \in c.f .. c.base
  <2>1. \A f, b, w \in Nat : f + 5 + 2 * w <= b => \A x \in 0 .. 5 : f + x \in f .. b
    OBVIOUS
  <2>2. \A x \in 0 .. 5 : c.f + x \in c.f .. c.base
    BY <1>2, <2>1
  <2> QED BY <1>2, <2>2
<1>6. \A j \in 1 .. Len(c.pords) : /\ c.f + 4 + 2 * j \in c.f .. c.base
                                   /\ c.f + 5 + 2 * j \in c.f .. c.base
  <2>1. \A f, b, w \in Nat : f + 5 + 2 * w <= b =>
          \A j \in 1 .. w : f + 4 + 2 * j \in f .. b /\ f + 5 + 2 * j \in f .. b
    OBVIOUS
  <2> QED BY <1>2, <2>1
<1>7. \A a \in c.f + 6 + 2 * Len(c.pords) .. c.base : a \in c.f .. c.base
  <2>1. \A f, b, w \in Nat : \A a \in f + 6 + 2 * w .. b : a \in f .. b
    OBVIOUS
  <2> QED BY <1>2, <2>1
<1>8. st2[c.f] = Null \/ Number(st2[c.f])
  BY <1>3, <1>5 DEF Linkage, c
<1>9. st2[c.f] = Null => st[c.f] = Null
  BY <1>3, <1>5 DEF Number, Null
<1>10. /\ st2[c.f + 1] = st[c.f + 1] /\ st2[c.f + 2] = st[c.f + 2]
       /\ st2[c.f + 3] = st[c.f + 3] /\ st2[c.f + 4] = st[c.f + 4]
       /\ st2[c.f + 5] = st[c.f + 5]
  <2>1. /\ ~ Number(st[c.f + 1]) /\ ~ Number(st[c.f + 2]) /\ ~ Number(st[c.f + 3])
        /\ ~ Number(st[c.f + 4]) /\ ~ Number(st[c.f + 5])
    BY DEF Linkage, Number, Addr, Ret, c
  <2> QED BY <1>4, <1>5, <2>1
<1>11. \A j \in 1 .. Len(c.pords) : /\ Number(st2[c.f + 4 + 2 * j])
                                    /\ st2[c.f + 5 + 2 * j] = st[c.f + 5 + 2 * j]
  <2> SUFFICES ASSUME NEW j \in 1 .. Len(c.pords)
               PROVE  Number(st2[c.f + 4 + 2 * j]) /\ st2[c.f + 5 + 2 * j] = st[c.f + 5 + 2 * j]
    OBVIOUS
  <2>1. Number(st[c.f + 4 + 2 * j])
    BY DEF Linkage, c
  <2>2. ~ Number(st[c.f + 5 + 2 * j])
    <3>1. st[c.f + 5 + 2 * j] = Addr(Pard(Len(C[i - 1].dis), C[i - 1].fp))
      BY DEF Linkage, c
    <3> QED BY <3>1 DEF Number, Addr
  <2> QED BY <1>3, <1>4, <1>6, <2>1, <2>2
<1>12. \A a \in c.f + 6 + 2 * Len(c.pords) .. c.base : Number(st2[a])
  BY <1>3, <1>7 DEF Linkage, c
<1>13. Entered(c) /\ Len(c.dis) > 1 => D[c.dis[Len(c.dis) - 1]] = C[c.dis[Len(c.dis) - 1]]
  <2> SUFFICES ASSUME Len(c.dis) > 1
               PROVE  D[c.dis[Len(c.dis) - 1]] = C[c.dis[Len(c.dis) - 1]]
    OBVIOUS
  <2>1. Len(c.dis) \in Nat /\ Len(c.dis) - 1 \in 1 .. Len(c.dis)
    BY Typed DEF c
  <2>2. i \in 1 .. n
    OBVIOUS
  <2>3. c.dis[Len(c.dis) - 1] \in 1 .. i
    BY <2>1, <2>2 DEF Contexts, Sound, Nested, c
  <2>4. \A j \in 1 .. i : j \in 0 .. k
    OBVIOUS
  <2> QED BY <2>3, <2>4 DEF Same
<1>14. /\ c.at.part \in ThunkParts \/ c.at.home \in StdFun => st[c.f] # Null
       /\ st[c.f + 1] = Addr(C[i - 1].fp)
       /\ st[c.f + 2] = Ret(C[i - 1].at, c.pords)
       /\ st[c.f + 3] = Addr(C[i - 1].base)
       /\ st[c.f + 4] = Addr(IF Entered(c) THEN Len(c.dis) ELSE 0)
       /\ st[c.f + 5].t = "addr" /\ st[c.f + 5].v \in Nat
       /\ Entered(c) /\ Len(c.dis) > 1 => st[c.f + 5].v = C[c.dis[Len(c.dis) - 1]].f
       /\ \A j \in 1 .. Len(c.pords) :
            st[c.f + 5 + 2 * j] = Addr(Pard(Len(C[i - 1].dis), C[i - 1].fp))
  BY DEF Linkage, c
<1>15. /\ c.at.part \in ThunkParts \/ c.at.home \in StdFun => st2[c.f] # Null
       /\ st2[c.f + 1] = Addr(C[i - 1].fp)
       /\ st2[c.f + 2] = Ret(C[i - 1].at, c.pords)
       /\ st2[c.f + 3] = Addr(C[i - 1].base)
       /\ st2[c.f + 4] = Addr(IF Entered(c) THEN Len(c.dis) ELSE 0)
       /\ st2[c.f + 5].t = "addr" /\ st2[c.f + 5].v \in Nat
       /\ Entered(c) /\ Len(c.dis) > 1 => st2[c.f + 5].v = D[c.dis[Len(c.dis) - 1]].f
       /\ \A j \in 1 .. Len(c.pords) :
            st2[c.f + 5 + 2 * j] = Addr(Pard(Len(C[i - 1].dis), C[i - 1].fp))
  BY ONLY <1>9, <1>10, <1>11, <1>13, <1>14
<1>16. D[i] = c
  BY <1>1 DEF c
<1> QED BY ONLY <1>1, <1>8, <1>11, <1>12, <1>15, <1>16 DEF Linkage

(* When the contexts above k are left, those up to k stand as they stood. *)
LEMMA Below ==
  ASSUME NEW C, NEW D \in [Nat -> Context], NEW n \in Nat, Contexts(C, n), NEW k \in 0 .. n,
         Same(C, D, k), NEW st, NEW st2, Linked(C, n, st), Alike(st, st2, C[k].base)
  PROVE  Contexts(D, k) /\ Linked(D, k, st2)
<1>1. Contexts(D, k)
  <2>1. Outermost(D[0])
    BY DEF Same, Contexts
  <2>2. ASSUME NEW i \in 1 .. k PROVE Sound(D, i)
    <3>1. i \in 0 .. n /\ i \in 1 .. n
      OBVIOUS
    <3>2. Sound(C, i) /\ C[i].dis \in Seq(Nat) /\ k \in Nat
      BY <3>1, Typed DEF Contexts
    <3> QED BY <3>2, SoundSame
  <2> QED BY <2>1, <2>2 DEF Contexts
<1>2. ASSUME NEW i \in 1 .. k PROVE Linkage(D, i, st2)
  <2>1. i \in 1 .. n
    OBVIOUS
  <2>2. Linkage(C, i, st)
    BY <2>1 DEF Linked
  <2> QED BY <2>2, LinkageSame
<1>3. ASSUME NEW i \in 1 .. k PROVE Operands(D, i - 1, D[i].f - 1, st2)
  <2>1. i \in 1 .. n /\ i - 1 \in 0 .. n /\ i - 1 \in 0 .. k /\ i \in 0 .. k
    OBVIOUS
  <2>2. D[i] = C[i] /\ D[i - 1] = C[i - 1]
    BY <2>1 DEF Same
  <2>3. Operands(C, i - 1, C[i].f - 1, st)
    BY <2>1 DEF Linked
  <2>4. /\ C[i].f \in Nat /\ C[i].base \in Nat /\ C[k].base \in Nat /\ C[i].f <= C[k].base
        /\ C[i - 1].base \in Nat
    <3>1. \A f, b, g, w \in Nat : f + 5 + 2 * w <= b /\ b <= g => f <= g
      OBVIOUS
    <3>2. C[i - 1].base \in Nat
      BY <2>1, Typed
    <3> QED BY <3>1, <3>2, Within
  <2>5. \A a \in C[i - 1].base + 1 .. C[i].f - 1 : a \in 1 .. C[k].base
    BY <2>4
  <2> QED BY <2>2, <2>3, <2>5 DEF Operands, Alike
<1> QED BY <1>1, <1>2, <1>3 DEF Linked

(* A context is put on top of context m - 1, or changes there. *)
Replaces(C, D, m, c) == D = [C EXCEPT ![m] = c]

LEMMA OnTop ==
  ASSUME NEW C, NEW n \in Nat, Contexts(C, n), NEW m \in 1 .. n + 1, NEW c \in Context,
         NEW D, Replaces(C, D, m, c), NEW st, NEW st2, Linked(C, n, st),
         Alike(st, st2, C[m - 1].base), Operands(C, m - 1, c.f - 1, st2),
         Sound(D, m), Linkage(D, m, st2)
  PROVE  Contexts(D, m) /\ Linked(D, m, st2) /\ Same(C, D, m - 1) /\ D[m] = c
<1>1. m \in Nat /\ m - 1 \in 0 .. n /\ C \in [Nat -> Context]
  BY DEF Contexts
<1>2. D \in [Nat -> Context] /\ D[m] = c /\ \A j \in Nat : j # m => D[j] = C[j]
  BY <1>1 DEF Replaces
<1>3. Same(C, D, m - 1)
  <2>1. \A j \in 0 .. m - 1 : j \in Nat /\ j # m
    BY <1>1
  <2> QED BY <1>2, <2>1 DEF Same
<1>4. Contexts(D, m - 1) /\ Linked(D, m - 1, st2)
  <2> DEFINE k == m - 1
  <2>1. k \in 0 .. n /\ Same(C, D, k) /\ D \in [Nat -> Context] /\ Alike(st, st2, C[k].base)
    BY <1>1, <1>2, <1>3
  <2> HIDE DEF k
  <2>2. Contexts(D, k) /\ Linked(D, k, st2)
    BY <2>1, Below
  <2> QED BY <2>2 DEF k
<1>5. \A i \in 1 .. m : i = m \/ i \in 1 .. m - 1
  BY <1>1
<1>6. D[m - 1] = C[m - 1]
  BY <1>1, <1>3 DEF Same
<1>7. Operands(D, m - 1, D[m].f - 1, st2)
  BY <1>2, <1>6 DEF Operands
<1>8. Contexts(D, m)
  BY <1>4, <1>5 DEF Contexts
<1>9. Linked(D, m, st2)
  BY <1>4, <1>5, <1>7 DEF Linked
<1> QED BY <1>2, <1>3, <1>8, <1>9

-----------------------------------------------------------------------------
(***************************************************************************)
(* The chain of DISPLAY cells, read from the frame fp on.                  *)
(***************************************************************************)
Spine(p, level, fp) ==
  LET frame[l \in 0 .. level] ==
        IF l = level THEN fp ELSE Field(p, frame[l + 1], DISPLAY)
  IN frame

(* The chain that starts at fp is the display of context k. *)
Leads(C, k, fp) == Len(C[k].dis) > 0 => fp = C[C[k].dis[Len(C[k].dis)]].f

(* The contexts of a display. *)
LEMMA Encloser ==
  ASSUME NEW C, NEW n \in Nat, Contexts(C, n), NEW k \in 0 .. n, NEW l \in 1 .. Len(C[k].dis)
  PROVE  /\ k \in 1 .. n /\ l \in Nat /\ C[k].dis[l] \in 1 .. k /\ C[k].dis[l] \in 1 .. n
         /\ C[k].dis[l] \in 0 .. n
         /\ Entered(C[C[k].dis[l]]) /\ Len(C[C[k].dis[l]].dis) = l
         /\ \A m \in 1 .. l : C[C[k].dis[l]].dis[m] = C[k].dis[m]
         /\ Len(C[k].dis) <= MaxLevel
<1>1. k \in 1 .. n
  BY DEF Contexts, Outermost
<1>2. Nested(C, k)
  BY <1>1 DEF Contexts, Sound
<1>3. C[k].dis[l] \in 1 .. k
  BY <1>2 DEF Nested
<1>4. C[k].dis[l] \in 1 .. n /\ C[k].dis[l] \in 0 .. n
  BY <1>1, <1>3
<1>5. /\ Entered(C[C[k].dis[l]]) /\ Len(C[C[k].dis[l]].dis) = l
      /\ \A m \in 1 .. l : C[C[k].dis[l]].dis[m] = C[k].dis[m]
      /\ Len(C[k].dis) <= MaxLevel
  BY ONLY <1>2, l \in 1 .. Len(C[k].dis) DEF Nested
<1>6. l \in Nat
  OBVIOUS
<1> QED BY ONLY <1>1, <1>3, <1>4, <1>5, <1>6

LEMMA SpineIs ==
  ASSUME NEW C, NEW n \in Nat, Contexts(C, n), NEW p, Linked(C, n, p.stack),
         NEW k \in 0 .. n, NEW fp, Leads(C, k, fp)
  PROVE  \A l \in 1 .. Len(C[k].dis) :
           Spine(p, Len(C[k].dis), fp)[l] = C[C[k].dis[l]].f
<1> DEFINE top == Len(C[k].dis)
           g(l) == C[C[k].dis[l]].f
           S == Spine(p, top, fp)
<1>1. top \in Nat
  BY Typed
<1>2. ASSUME NEW l \in 1 .. top - 1 PROVE g(l) = Field(p, g(l + 1), DISPLAY)
  <2>1. l \in 1 .. top /\ l + 1 \in 1 .. top /\ l \in 1 .. l + 1 /\ l + 1 > 1 /\ (l + 1) - 1 = l
    BY <1>1
  <2> DEFINE e == C[k].dis[l + 1]
  <2>2. /\ e \in 1 .. n /\ e \in 0 .. n /\ Entered(C[e]) /\ Len(C[e].dis) = l + 1
        /\ C[e].dis[l] = C[k].dis[l]
    <3> DEFINE j == l + 1
    <3>1. j \in 1 .. Len(C[k].dis) /\ l \in 1 .. j
      BY <2>1
    <3> HIDE DEF j
    <3>2. /\ C[k].dis[j] \in 1 .. n /\ C[k].dis[j] \in 0 .. n
          /\ Entered(C[C[k].dis[j]]) /\ Len(C[C[k].dis[j]].dis) = j
          /\ C[C[k].dis[j]].dis[l] = C[k].dis[l]
      BY <3>1, Encloser
    <3> QED BY <3>2 DEF j
  <2>3. C[e].f \in Nat
    BY <2>2, Typed
  <2>4. Linkage(C, e, p.stack)
    BY <2>2 DEF Linked
  <2>5. p.stack[C[e].f + 5].v = C[C[e].dis[Len(C[e].dis) - 1]].f
    BY <2>1, <2>2, <2>4 DEF Linkage
  <2>6. C[e].f + DISPLAY + 1 = C[e].f + 5
    <3>1. \A x \in Nat : x + DISPLAY + 1 = x + 5
      BY DEF DISPLAY
    <3> QED BY <2>3, <3>1
  <2> HIDE DEF e
  <2>7. Field(p, C[e].f, DISPLAY) = C[C[k].dis[l]].f
    BY <2>1, <2>2, <2>5, <2>6 DEF Field
  <2> QED BY <2>7 DEF e
<1> DEFINE w == [l \in 0 .. top |-> IF l = top THEN fp ELSE
                                    IF l = 0 THEN Field(p, IF top = 1 THEN fp ELSE g(1), DISPLAY)
                                    ELSE g(l)]
<1>3. top > 0 => fp = g(top)
  BY DEF Leads
<1> HIDE DEF g
<1>4. w = [l \in 0 .. top |-> IF l = top THEN fp ELSE Field(p, w[l + 1], DISPLAY)]
  <2> SUFFICES ASSUME NEW l \in 0 .. top, l # top PROVE w[l] = Field(p, w[l + 1], DISPLAY)
    OBVIOUS
  <2>1. l + 1 \in 0 .. top /\ l + 1 # 0
    BY <1>1
  <2>2. CASE l = 0
    BY <1>1, <2>1, <2>2
  <2>3. CASE l # 0
    <3>1. l \in 1 .. top - 1
      BY <1>1, <2>3
    <3>2. w[l] = g(l) /\ w[l + 1] = g(l + 1)
      BY <1>1, <1>3, <2>1, <2>3
    <3> HIDE DEF w
    <3> QED BY <1>2, <3>1, <3>2
  <2> QED BY <2>2, <2>3
<1> HIDE DEF w
<1>5. S = [l \in 0 .. top |-> IF l = top THEN fp ELSE Field(p, S[l + 1], DISPLAY)]
  BY <1>4 DEF Spine
<1> HIDE DEF S
<1> DEFINE T == {j \in Nat : j < top => S[top - j] = g(top - j)}
<1>6. 0 \in T
  BY <1>1, <1>3, <1>5
<1>7. ASSUME NEW j \in T PROVE j + 1 \in T
  <2> SUFFICES ASSUME j + 1 < top PROVE S[top - (j + 1)] = g(top - (j + 1))
    OBVIOUS
  <2> DEFINE l == top - (j + 1)
  <2>1. l \in 1 .. top - 1 /\ l + 1 = top - j /\ l # top /\ l \in 0 .. top
    BY <1>1
  <2>2. S[l + 1] = g(l + 1)
    BY <1>1, <2>1
  <2> HIDE DEF l
  <2>3. S[l] = Field(p, S[l + 1], DISPLAY)
    BY <1>5, <2>1
  <2>4. S[l] = g(l)
    BY <1>2, <2>1, <2>2, <2>3
  <2> QED BY <2>4 DEF l
<1>8. T = Nat
  <2>1. T \in SUBSET Nat
    OBVIOUS
  <2> HIDE DEF T
  <2> QED BY <1>6, <1>7, <2>1, Induction
<1>9. ASSUME NEW l \in 1 .. top PROVE S[l] = g(l)
  <2>1. top - l \in Nat /\ top - l < top /\ top - (top - l) = l
    BY <1>1
  <2>2. top - l \in T
    BY <1>8, <2>1
  <2> QED BY <2>1, <2>2
<1> QED BY <1>9 DEF g, S

Showing(p, Y) == [p EXCEPT !.display = Y]

LEMMA ShowingIs ==
  ASSUME NEW p \in State, NEW Y
  PROVE  Showing(p, Y) = [stack |-> p.stack, frame_ptr |-> p.frame_ptr,
                          last_frame_ptr |-> p.last_frame_ptr, stack_base |-> p.stack_base,
                          display |-> Y, eis_operation |-> p.eis_operation]
BY DEF Showing, State

LEMMA DisplayIs ==
  ASSUME NEW C, NEW n \in Nat, Contexts(C, n), NEW p \in State, Linked(C, n, p.stack),
         NEW k \in 0 .. n, NEW fp \in Nat, Leads(C, k, fp)
  PROVE  \E Y \in [0 .. MaxLevel -> Nat] :
           /\ UpdateDisplay(p, Len(C[k].dis), fp) = Showing(p, Y)
           /\ Shown(C, k, Y) /\ Y[0] = p.display[0]
<1> DEFINE top == Len(C[k].dis)
           S == Spine(p, top, fp)
           Y == [l \in DOMAIN p.display |-> IF l \in 1 .. top THEN S[l] ELSE p.display[l]]
<1>1. UpdateDisplay(p, top, fp) = Showing(p, Y)
  BY DEF UpdateDisplay, Spine, Showing
<1>2. \A l \in 1 .. top : S[l] = C[C[k].dis[l]].f /\ S[l] \in Nat
  <2> SUFFICES ASSUME NEW l \in 1 .. top PROVE S[l] = C[C[k].dis[l]].f /\ S[l] \in Nat
    OBVIOUS
  <2>1. S[l] = C[C[k].dis[l]].f
    BY SpineIs
  <2>2. C[k].dis[l] \in 0 .. n
    BY Encloser
  <2>3. C[C[k].dis[l]].f \in Nat
    BY <2>2, Typed
  <2> QED BY <2>1, <2>3
<1>3. p.display \in [0 .. MaxLevel -> Nat] /\ MaxLevel \in Nat /\ top \in Nat
  BY RunTimeAssumption, Typed DEF State
<1>4. top <= MaxLevel
  <2>1. top > 0 => top \in 1 .. Len(C[k].dis)
    BY <1>3
  <2>2. top > 0 => top <= MaxLevel
    BY <2>1, Encloser
  <2> QED BY <1>3, <2>2
<1> HIDE DEF S
<1>5. Y \in [0 .. MaxLevel -> Nat] /\ Y[0] = p.display[0] /\ \A l \in 1 .. top : Y[l] = S[l]
  BY <1>2, <1>3, <1>4
<1>6. Shown(C, k, Y)
  BY <1>2, <1>5 DEF Shown
<1> QED BY <1>1, <1>5, <1>6

-----------------------------------------------------------------------------
(***************************************************************************)
(* What is read from the cells of a context.                               *)
(***************************************************************************)
LEMMA FieldsAre ==
  ASSUME NEW C, NEW n \in Nat, Contexts(C, n), NEW p, Linked(C, n, p.stack), NEW i \in 1 .. n
  PROVE  /\ Field(p, C[i].f, FP) = C[i - 1].fp
         /\ Get(p, C[i].f + PC) = Ret(C[i - 1].at, C[i].pords)
         /\ Field(p, C[i].f, SP) = C[i - 1].base
         /\ Field(p, C[i].f, BN) = IF Entered(C[i]) THEN Len(C[i].dis) ELSE 0
         /\ \A j \in 1 .. Len(C[i].pords) :
              Field(p, C[i].f, ARG + 2 * j - 1) = Pard(Len(C[i - 1].dis), C[i - 1].fp)
<1>1. C[i].f \in Nat /\ Len(C[i].pords) \in Nat
  BY Typed
<1>2. Linkage(C, i, p.stack)
  BY DEF Linked
<1>3. \A f \in Nat : /\ f + FP + 1 = f + 1 /\ f + PC + 1 = f + 2 /\ f + SP + 1 = f + 3
                     /\ f + BN + 1 = f + 4
  BY DEF FP, PC, SP, BN
<1>4. /\ p.stack[C[i].f + FP + 1] = Addr(C[i - 1].fp)
      /\ p.stack[C[i].f + PC + 1] = Ret(C[i - 1].at, C[i].pords)
      /\ p.stack[C[i].f + SP + 1] = Addr(C[i - 1].base)
      /\ p.stack[C[i].f + BN + 1] = Addr(IF Entered(C[i]) THEN Len(C[i].dis) ELSE 0)
  BY <1>1, <1>2, <1>3 DEF Linkage
<1>5. \A j \in 1 .. Len(C[i].pords) :
        p.stack[C[i].f + (ARG + 2 * j - 1) + 1] = Addr(Pard(Len(C[i - 1].dis), C[i - 1].fp))
  <2> SUFFICES ASSUME NEW j \in 1 .. Len(C[i].pords)
               PROVE  p.stack[C[i].f + (ARG + 2 * j - 1) + 1]
                        = Addr(Pard(Len(C[i - 1].dis), C[i - 1].fp))
    OBVIOUS
  <2>1. C[i].f + (ARG + 2 * j - 1) + 1 = C[i].f + 5 + 2 * j
    <3>1. \A f, k \in Nat : f + (ARG + 2 * k - 1) + 1 = f + 5 + 2 * k
      BY DEF ARG
    <3>2. j \in Nat
      OBVIOUS
    <3> QED BY <1>1, <3>1, <3>2
  <2>2. p.stack[C[i].f + 5 + 2 * j] = Addr(Pard(Len(C[i - 1].dis), C[i - 1].fp))
    BY <1>2 DEF Linkage
  <2> QED BY <2>1, <2>2
<1>6. \A j \in 1 .. Len(C[i].pords) :
        Field(p, C[i].f, ARG + 2 * j - 1) = Pard(Len(C[i - 1].dis), C[i - 1].fp)
  BY <1>5 DEF Field, Addr
<1> QED BY <1>4, <1>6 DEF Field, Get, Addr

(* The kinds of context, told apart by their place in the object program. *)
LEMMA Which ==
  ASSUME NEW C, NEW n \in Nat, Contexts(C, n), NEW i \in 1 .. n
  PROVE  /\ C[i].at.part \in {"locals", "body"} => InBlock(C, i)
         /\ C[i].at.part \in ThunkParts => InThunk(C, i)
         /\ C[i].at.part = "std" => InStd(C, i)
         /\ C[i].at.part = "entry" => AtEntry(C, i) \/ InStd(C, i)
         /\ C[i].at.part # "stopped"
         /\ Entered(C[i]) => Len(C[i].dis) > 0 /\ C[i].dis[Len(C[i].dis)] = i /\ C[i].fp = C[i].f
<1>1. Sound(C, i)
  BY DEF Contexts
<1>2. /\ C[i].at.part \in {"locals", "body"} => InBlock(C, i)
      /\ C[i].at.part \in ThunkParts => InThunk(C, i)
      /\ C[i].at.part = "std" => InStd(C, i)
      /\ C[i].at.part = "entry" => AtEntry(C, i) \/ InStd(C, i)
      /\ C[i].at.part # "stopped"
  BY <1>1 DEF Sound, AtEntry, InBlock, InThunk, InStd, ThunkParts
<1>3. ASSUME InBlock(C, i)
      PROVE  Len(C[i].dis) > 0 /\ C[i].dis[Len(C[i].dis)] = i /\ C[i].fp = C[i].f
  <2>1. C[i].at.home \in Block
    BY <1>3 DEF InBlock
  <2>2. Level(C[i].at.home) \in Nat /\ Level(C[i].at.home) >= 1
    BY <2>1, BlockTypes
  <2> QED BY <1>3, <2>2 DEF InBlock
<1>4. ASSUME InStd(C, i), C[i].at.part = "std"
      PROVE  Len(C[i].dis) > 0 /\ C[i].dis[Len(C[i].dis)] = i /\ C[i].fp = C[i].f
  <2>1. i - 1 \in 0 .. n
    OBVIOUS
  <2>2. C[i - 1].dis \in Seq(Nat) /\ Len(C[i - 1].dis) \in Nat
    BY <2>1, Typed
  <2>3. C[i].dis = Append(C[i - 1].dis, i) /\ C[i].fp = C[i].f
    BY <1>4 DEF InStd
  <2> QED BY <2>2, <2>3
<1>5. Entered(C[i]) => Len(C[i].dis) > 0 /\ C[i].dis[Len(C[i].dis)] = i /\ C[i].fp = C[i].f
  BY <1>2, <1>3, <1>4 DEF Entered
<1> QED BY <1>2, <1>5

(* The level and the display of a context that is in the text of a block. *)
Calls(c) == c.at.part \in UserParts \cup {"std"}

LEMMA LevelIs ==
  ASSUME NEW C, NEW n \in Nat, Contexts(C, n), NEW p, Linked(C, n, p.stack),
         NEW k \in 0 .. n, Calls(C[k]) \/ C[k].at.part = "locals" \/ k = 0
  PROVE  /\ Leads(C, k, C[k].fp)
         /\ k = 0 => C[k].base = 0 /\ Len(C[k].dis) = 0 /\ C[k].fp = 0
         /\ k # 0 => C[k].base # 0 /\ Field(p, C[k].fp, BN) = Len(C[k].dis)
<1>1. CASE k = 0
  BY <1>1 DEF Contexts, Outermost, Leads
<1>2. ASSUME k # 0
      PROVE  Leads(C, k, C[k].fp) /\ C[k].base # 0 /\ Field(p, C[k].fp, BN) = Len(C[k].dis)
  <2>1. k \in 1 .. n /\ k \in 1 .. k
    BY <1>2
  <2>2. /\ C[k].f \in Nat \ {0} /\ C[k].base \in Nat /\ Len(C[k].pords) \in Nat
        /\ C[k].f + 5 + 2 * Len(C[k].pords) <= C[k].base /\ Len(C[k].dis) \in Nat
    BY <2>1, Within, Typed
  <2>3. C[k].base # 0
    <3>1. \A f, b, w \in Nat : f + 5 + 2 * w <= b => b # 0
      OBVIOUS
    <3> QED BY <2>2, <3>1
  <2>4. ASSUME Entered(C[k])
        PROVE  Leads(C, k, C[k].fp) /\ Field(p, C[k].fp, BN) = Len(C[k].dis)
    BY <2>1, <2>4, Which, FieldsAre DEF Leads
  <2>5. ASSUME C[k].at.part \in ThunkParts
        PROVE  Leads(C, k, C[k].fp) /\ Field(p, C[k].fp, BN) = Len(C[k].dis)
    <3> DEFINE h == C[k].at.home
               e == C[k].dis[Len(C[k].dis)]
    <3>1. /\ Len(C[k].dis) = Level(h)
          /\ C[k].fp = IF Level(h) = 0 THEN C[k].f ELSE C[C[k].dis[Level(h)]].f
      BY <2>1, <2>5, Which DEF InThunk
    <3>2. CASE Level(h) = 0
      <4>1. ~ Entered(C[k])
        BY <2>5 DEF Entered, ThunkParts
      <4>2. Field(p, C[k].f, BN) = 0
        BY <2>1, <4>1, FieldsAre
      <4> QED BY <3>1, <3>2, <4>2 DEF Leads
    <3>3. CASE Level(h) # 0
      <4>1. Len(C[k].dis) \in 1 .. Len(C[k].dis)
        BY <2>2, <3>1, <3>3
      <4>2. e \in 1 .. n /\ Entered(C[e]) /\ Len(C[e].dis) = Len(C[k].dis)
        BY <4>1, Encloser
      <4>3. C[k].fp = C[e].f
        BY <3>1, <3>3
      <4> HIDE DEF e
      <4>4. Field(p, C[e].f, BN) = Len(C[e].dis)
        BY <4>2, FieldsAre
      <4> QED BY <4>2, <4>3, <4>4 DEF Leads, e
    <3> QED BY <3>2, <3>3
  <2>6. Entered(C[k]) \/ C[k].at.part \in ThunkParts
    BY <1>2 DEF Calls, UserParts, Entered
  <2> QED BY <2>3, <2>4, <2>5, <2>6
<1> QED BY <1>1, <1>2

-----------------------------------------------------------------------------
(***************************************************************************)
(* The display of the running context.                                     *)
(***************************************************************************)
LEMMA BlockLevelIs ==
  ASSUME NEW C, NEW n \in Nat, Contexts(C, n), NEW p, Linked(C, n, p.stack),
         NEW k \in 0 .. n, Calls(C[k]) \/ C[k].at.part = "locals" \/ k = 0,
         p.stack_base = C[k].base, p.frame_ptr = C[k].fp
  PROVE  BlockLevel(p) = Len(C[k].dis)
<1>1. CASE k = 0
  BY <1>1, LevelIs DEF BlockLevel
<1>2. CASE k # 0
  BY <1>2, LevelIs DEF BlockLevel
<1> QED BY <1>1, <1>2

LEMMA RestoreIs ==
  ASSUME NEW C, NEW n \in Nat, Contexts(C, n), NEW p \in State, Linked(C, n, p.stack),
         NEW k \in 0 .. n, Calls(C[k]) \/ k = 0,
         p.stack_base = C[k].base, p.frame_ptr = C[k].fp
  PROVE  \E Y \in [0 .. MaxLevel -> Nat] :
           /\ RestoreDisplay(p) = Showing(p, Y)
           /\ Shown(C, k, Y) /\ Y[0] = p.display[0]
<1>1. BlockLevel(p) = Len(C[k].dis)
  BY BlockLevelIs
<1>2. Leads(C, k, C[k].fp) /\ C[k].fp \in Nat
  BY LevelIs, Typed
<1>3. PICK Y \in [0 .. MaxLevel -> Nat] :
        /\ UpdateDisplay(p, Len(C[k].dis), C[k].fp) = Showing(p, Y)
        /\ Shown(C, k, Y) /\ Y[0] = p.display[0]
  BY <1>2, DisplayIs
<1>4. RestoreDisplay(p) = Showing(p, Y)
  BY <1>1, <1>3 DEF RestoreDisplay
<1> QED BY <1>3, <1>4

(* A frame pointer is that of a frame. *)
LEMMA Pointer ==
  ASSUME NEW C, NEW n \in Nat, Contexts(C, n), NEW k \in 0 .. n
  PROVE  \E i \in 0 .. k : C[k].fp = C[i].f /\ (k > 0 => i > 0)
<1>1. CASE k = 0
  BY <1>1 DEF Contexts, Outermost
<1>2. CASE k > 0 /\ C[k].fp = C[k].f
  BY <1>2
<1>3. ASSUME k > 0, C[k].fp # C[k].f
      PROVE  \E i \in 0 .. k : C[k].fp = C[i].f /\ (k > 0 => i > 0)
  <2>1. k \in 1 .. n /\ Sound(C, k) /\ Len(C[k].dis) \in Nat
    BY <1>3, Typed DEF Contexts
  <2>2. Len(C[k].dis) > 0 /\ C[k].fp = C[C[k].dis[Len(C[k].dis)]].f
    BY <1>3, <2>1 DEF Sound, AtEntry, InBlock, InThunk, InStd
  <2>3. Len(C[k].dis) \in 1 .. Len(C[k].dis)
    BY <2>1, <2>2
  <2>4. C[k].dis[Len(C[k].dis)] \in 1 .. k
    BY <2>3, Encloser
  <2>5. \A i \in 1 .. k : i \in 0 .. k /\ i > 0
    OBVIOUS
  <2> QED BY <2>2, <2>4, <2>5
<1> QED BY <1>1, <1>2, <1>3

-----------------------------------------------------------------------------
(***************************************************************************)
(* From a handler to the invariant.                                        *)
(***************************************************************************)
LEMMA Continues ==
  ASSUME NEW C, NEW n, NEW p, Runs(C, n, p), NEW at, at = C[n].at, Continue(p, at)
  PROVE  Coupled' /\ error' = error
<1>1. p \in State
  BY DEF Runs
<1>2. p = Now' /\ ot' = at /\ error' = error
  BY <1>1 DEF Continue, Becomes, Now, State
<1> QED BY <1>2 DEF Coupled

LEMMA CellTypes ==
  /\ Val(0) \in Cells /\ Val(1) \in Cells /\ Null \in Cells /\ Number(Val(0)) /\ Number(Val(1))
  /\ Null # Val(0) /\ Null # Val(1)
  /\ \A x \in Nat : Addr(x) \in Cells
  /\ \A at \in Code, pords \in Seq(PordSet) : Ret(at, pords) \in Cells
BY DEF Val, Addr, Null, Ret, Cells, Number, CodeAddress

LEMMA NotNull ==
  ASSUME NEW c, Number(c)
  PROVE  c # Null /\ c.t = "val"
BY DEF Number, Null

(* Context k runs, with the stack s above its base. *)
LEMMA Resumed ==
  ASSUME NEW C, NEW n \in Nat, Contexts(C, n), NEW st, Linked(C, n, st), NEW k \in 0 .. n,
         NEW p \in State, Alike(st, p.stack, C[k].base), C[k].base <= Len(p.stack),
         Operands(C, k, Len(p.stack), p.stack), Ops(C, k, p.eis_operation),
         Shown(C, k, p.display), p.frame_ptr = C[k].fp, p.stack_base = C[k].base,
         p.last_frame_ptr \in {C[i].f : i \in 0 .. k}, p.display[0] = 0
  PROVE  Runs(C, k, p)
<1>1. C \in [Nat -> Context] /\ Same(C, C, k) /\ k \in Nat
  BY DEF Contexts, Same
<1>2. Contexts(C, k) /\ Linked(C, k, p.stack)
  BY <1>1, Below
<1> QED BY <1>1, <1>2 DEF Runs, Laid

Stacked(p, s) == [p EXCEPT !.stack = s]

LEMMA OperandsChange ==
  ASSUME NEW C, NEW n, NEW p, Runs(C, n, p), NEW s \in Seq(Cells), Alike(p.stack, s, C[n].base),
         C[n].base <= Len(s), Operands(C, n, Len(s), s)
  PROVE  Runs(C, n, Stacked(p, s))
<1> DEFINE q == [p EXCEPT !.stack = s]
<1>1. /\ q \in State /\ q.stack = s /\ q.eis_operation = p.eis_operation /\ q.display = p.display
      /\ q.frame_ptr = p.frame_ptr /\ q.stack_base = p.stack_base
      /\ q.last_frame_ptr = p.last_frame_ptr
  BY DEF Runs, State
<1>2. /\ n \in Nat /\ n \in 0 .. n /\ Contexts(C, n) /\ Linked(C, n, p.stack)
      /\ Ops(C, n, p.eis_operation) /\ Shown(C, n, p.display)
      /\ p.frame_ptr = C[n].fp /\ p.stack_base = C[n].base
      /\ p.last_frame_ptr \in {C[i].f : i \in 0 .. n} /\ p.display[0] = 0
  BY DEF Runs, Laid
<1> HIDE DEF q
<1>3. Runs(C, n, q)
  BY <1>1, <1>2, Resumed
<1> QED BY <1>3 DEF q, Stacked

LEMMA Pushed ==
  ASSUME NEW C, NEW n, NEW p, Runs(C, n, p), NEW c \in Cells, Number(c)
  PROVE  Runs(C, n, Push(p, c))
<1> DEFINE s == Append(p.stack, c)
<1>1. /\ p.stack \in Seq(Cells) /\ n \in 0 .. n /\ n \in Nat /\ Contexts(C, n)
      /\ C[n].base <= Len(p.stack) /\ Operands(C, n, Len(p.stack), p.stack)
  BY DEF Runs, Laid, State
<1>2. C[n].base \in Nat /\ Len(p.stack) \in Nat
  BY <1>1, Typed
<1>3. /\ s \in Seq(Cells) /\ Len(s) = Len(p.stack) + 1 /\ s[Len(p.stack) + 1] = c
      /\ \A a \in 1 .. Len(p.stack) : s[a] = p.stack[a]
  BY <1>1
<1> HIDE DEF s
<1>4. Alike(p.stack, s, C[n].base)
  <2>1. \A a \in 1 .. C[n].base : a \in 1 .. Len(p.stack)
    BY <1>1, <1>2
  <2> QED BY <1>3, <2>1 DEF Alike
<1>5. Operands(C, n, Len(s), s)
  <2>1. \A a \in C[n].base + 1 .. Len(s) :
          \/ a = Len(p.stack) + 1
          \/ a \in 1 .. Len(p.stack) /\ a \in C[n].base + 1 .. Len(p.stack)
    BY <1>2, <1>3
  <2> QED BY <1>1, <1>3, <2>1 DEF Operands
<1>6. C[n].base <= Len(s)
  BY <1>1, <1>2, <1>3
<1>7. Runs(C, n, Stacked(p, s))
  BY <1>3, <1>4, <1>5, <1>6, OperandsChange
<1> QED BY <1>7 DEF Push, Stacked, s

LEMMA Popped ==
  ASSUME NEW C, NEW n, NEW p, Runs(C, n, p), Len(p.stack) > C[n].base
  PROVE  /\ Runs(C, n, Pop(p)) /\ Len(Pop(p).stack) = Len(p.stack) - 1
         /\ \A a \in 1 .. Len(p.stack) - 1 : Pop(p).stack[a] = p.stack[a]
<1> DEFINE s == SubSeq(p.stack, 1, Len(p.stack) - 1)
<1>1. /\ n \in 0 .. n /\ n \in Nat /\ Contexts(C, n)
      /\ Operands(C, n, Len(p.stack), p.stack) /\ p \in State
  BY DEF Runs, Laid
<1>0. p.stack \in Seq(Cells)
  BY <1>1 DEF State
<1>2. C[n].base \in Nat /\ Len(p.stack) \in Nat
  BY <1>0, <1>1, Typed
<1>3. /\ s \in Seq(Cells) /\ Len(s) = Len(p.stack) - 1
      /\ \A a \in 1 .. Len(p.stack) - 1 : s[a] = p.stack[a]
  BY <1>0, <1>2
<1> HIDE DEF s
<1>4. Alike(p.stack, s, C[n].base)
  <2>1. \A a \in 1 .. C[n].base : a \in 1 .. Len(p.stack) - 1
    BY <1>2
  <2> QED BY <1>3, <2>1 DEF Alike
<1>5. Operands(C, n, Len(s), s)
  <2>1. \A a \in C[n].base + 1 .. Len(s) :
          a \in 1 .. Len(p.stack) - 1 /\ a \in C[n].base + 1 .. Len(p.stack)
    BY <1>2, <1>3
  <2> QED BY <1>1, <1>3, <2>1 DEF Operands
<1>6. C[n].base <= Len(s)
  BY <1>2, <1>3
<1>7. Runs(C, n, Stacked(p, s))
  BY <1>3, <1>4, <1>5, <1>6, OperandsChange
<1>8. Pop(p) = Stacked(p, s) /\ Pop(p).stack = s
  BY <1>1 DEF Pop, Stacked, s, State
<1> QED BY <1>3, <1>7, <1>8

-----------------------------------------------------------------------------
(***************************************************************************)
(* Leaving the frames above context k: its frame, its base and its display *)
(* again, and the stack cut off above the result of context k + 1.         *)
(***************************************************************************)
Kept(C, k, st) == SubSeq(st, 1, C[k + 1].f)

Rolled(C, k, p, Y) ==
  [stack |-> Kept(C, k, p.stack), frame_ptr |-> C[k].fp, last_frame_ptr |-> C[k].fp,
   stack_base |-> C[k].base, display |-> Y, eis_operation |-> p.eis_operation]

LEMMA Cut ==
  ASSUME NEW C, NEW n \in Nat, Contexts(C, n), NEW k \in 0 .. n - 1, NEW st \in Seq(Cells),
         Linked(C, n, st), C[n].base <= Len(st)
  PROVE  /\ C[k + 1].f \in Nat \ {0} /\ C[k].base \in Nat /\ C[k].base < C[k + 1].f
         /\ C[k + 1].f <= Len(st) /\ Kept(C, k, st) \in Seq(Cells)
         /\ Len(Kept(C, k, st)) = C[k + 1].f
         /\ \A a \in 1 .. C[k + 1].f : Kept(C, k, st)[a] = st[a]
         /\ Alike(st, Kept(C, k, st), C[k].base)
         /\ Operands(C, k, C[k + 1].f - 1, Kept(C, k, st))
<1> DEFINE f == C[k + 1].f
           s == SubSeq(st, 1, f)
           i == k + 1
<1>1. i \in 1 .. n /\ i - 1 = k /\ n \in 0 .. n /\ k \in 0 .. n
  OBVIOUS
<1> HIDE DEF i
<1>2. /\ C[i].f \in Nat \ {0} /\ C[i].base \in Nat /\ C[n].base \in Nat
      /\ Len(C[i].pords) \in Nat
      /\ C[i].f + 5 + 2 * Len(C[i].pords) <= C[i].base /\ C[i].base <= C[n].base
  BY <1>1, Within
<1>3. C[k].base < C[i].f /\ C[k].base \in Nat
  BY <1>1, FrameWithin, Typed
<1>4. Operands(C, k, C[i].f - 1, st)
  BY <1>1 DEF Linked
<1>5. Len(st) \in Nat
  OBVIOUS
<1>6. C[i].f <= Len(st)
  <2>1. \A g, b, w, t, l \in Nat : g + 5 + 2 * w <= b /\ b <= t /\ t <= l => g <= l
    OBVIOUS
  <2> QED BY <1>2, <1>5, <2>1
<1>7. f = C[i].f
  BY DEF i
<1> HIDE DEF f
<1>8. s \in Seq(Cells) /\ Len(s) = f /\ \A a \in 1 .. f : s[a] = st[a]
  <2>1. st \in Seq(Cells) /\ f \in Nat /\ f <= Len(st)
    BY <1>2, <1>6, <1>7
  <2> QED BY ONLY <2>1
<1> HIDE DEF s
<1>9. Alike(st, s, C[k].base)
  <2>1. \A a \in 1 .. C[k].base : a \in 1 .. f
    BY <1>2, <1>3, <1>7
  <2> QED BY <1>8, <2>1 DEF Alike
<1>10. Operands(C, k, f - 1, s)
  <2>1. \A a \in C[k].base + 1 .. f - 1 : a \in 1 .. f
    BY <1>2, <1>3, <1>7
  <2> QED BY <1>4, <1>7, <1>8, <2>1 DEF Operands
<1> QED BY <1>2, <1>3, <1>6, <1>7, <1>8, <1>9, <1>10 DEF f, s, Kept

LEMMA Caller ==
  ASSUME NEW C, NEW n \in Nat, Contexts(C, n), NEW k \in 0 .. n - 1
  PROVE  Calls(C[k])
<1> DEFINE i == k + 1
<1>1. i \in 1 .. n /\ i - 1 = k
  OBVIOUS
<1> HIDE DEF i
<1>2. C[i - 1].at.part \in UserParts \cup {"std"}
  BY <1>1 DEF Contexts, Sound
<1> QED BY <1>1, <1>2 DEF Calls

LEMMA Released ==
  ASSUME NEW C, NEW n \in Nat, Contexts(C, n), NEW p \in State, Linked(C, n, p.stack),
         C[n].base <= Len(p.stack), NEW k \in 0 .. n - 1, p.frame_ptr = C[k + 1].f
  PROVE  \E Y \in [0 .. MaxLevel -> Nat] :
           /\ FrameRelease(p) = Rolled(C, k, p, Y) /\ ReturnAddress(p) = C[k].at
           /\ Shown(C, k, Y) /\ Y[0] = p.display[0]
<1> DEFINE fp == p.frame_ptr
           q  == [p EXCEPT !.stack = SubSeq(@, 1, fp),
                           !.stack_base = Field(p, fp, SP),
                           !.frame_ptr = Field(p, fp, FP),
                           !.last_frame_ptr = Field(p, fp, FP)]
           i == k + 1
<1>1. i \in 1 .. n /\ i - 1 = k /\ k \in 0 .. n /\ k \in Nat /\ k \in 0 .. k
  OBVIOUS
<1>2. fp = C[i].f
  OBVIOUS
<1> HIDE DEF i
<1>3. /\ Field(p, C[i].f, FP) = C[i - 1].fp /\ Field(p, C[i].f, SP) = C[i - 1].base
      /\ Get(p, C[i].f + PC) = Ret(C[i - 1].at, C[i].pords)
  BY <1>1, FieldsAre
<1>4. Field(p, fp, FP) = C[k].fp /\ Field(p, fp, SP) = C[k].base
  BY <1>1, <1>2, <1>3
<1>5. ReturnAddress(p) = C[k].at
  BY <1>1, <1>2, <1>3 DEF ReturnAddress, Ret
<1>6. C[k].fp \in Nat /\ C[k].base \in Nat
  BY <1>1, Typed
<1>7. p.stack \in Seq(Cells) /\ p.display \in [0 .. MaxLevel -> Nat]
  BY DEF State
<1>8. SubSeq(p.stack, 1, fp) \in Seq(Cells) /\ Alike(p.stack, SubSeq(p.stack, 1, fp), C[k].base)
  BY <1>7, Cut DEF Kept
<1>9. /\ q \in State /\ q.stack = SubSeq(p.stack, 1, fp) /\ q.stack_base = C[k].base
      /\ q.frame_ptr = C[k].fp /\ q.display = p.display
  BY <1>4, <1>6, <1>8 DEF State
<1>10. Contexts(C, k) /\ Linked(C, k, q.stack)
  <2>1. C \in [Nat -> Context] /\ Same(C, C, k)
    BY DEF Contexts, Same
  <2>2. Alike(p.stack, q.stack, C[k].base)
    BY <1>8, <1>9
  <2> HIDE DEF q
  <2> QED BY <1>1, <2>1, <2>2, Below
<1>11. Calls(C[k])
  BY Caller
<1>12. FrameRelease(p) = RestoreDisplay(q)
  BY DEF FrameRelease
<1>14. \A Y : Showing(q, Y) = Rolled(C, k, p, Y)
  <2> SUFFICES ASSUME NEW Y PROVE Showing(q, Y) = Rolled(C, k, p, Y)
    OBVIOUS
  <2>1. /\ q.last_frame_ptr = C[k].fp /\ q.eis_operation = p.eis_operation
        /\ q.stack = Kept(C, k, p.stack)
    BY <1>4 DEF State, Kept
  <2>2. /\ q.stack_base = C[k].base /\ q.frame_ptr = C[k].fp /\ q \in State
    BY <1>9
  <2> HIDE DEF q
  <2> QED BY <2>1, <2>2, ShowingIs DEF Rolled
<1> HIDE DEF q
<1>15. PICK Y \in [0 .. MaxLevel -> Nat] :
         RestoreDisplay(q) = Showing(q, Y) /\ Shown(C, k, Y) /\ Y[0] = q.display[0]
  BY <1>1, <1>9, <1>10, <1>11, RestoreIs
<1> QED BY <1>5, <1>9, <1>12, <1>14, <1>15

(* Context k goes on with the stack s. *)
LEMMA GoesOn ==
  ASSUME NEW C, NEW n \in Nat, Contexts(C, n), NEW p \in State, Linked(C, n, p.stack),
         Ops(C, n, p.eis_operation), NEW k \in 0 .. n - 1, NEW Y \in [0 .. MaxLevel -> Nat],
         Shown(C, k, Y), Y[0] = 0, NEW s \in Seq(Cells), Alike(p.stack, s, C[k].base),
         C[k].base <= Len(s), Operands(C, k, Len(s), s)
  PROVE  Runs(C, k, Stacked(Rolled(C, k, p, Y), s))
<1> DEFINE q == Stacked(Rolled(C, k, p, Y), s)
<1>1. k \in 0 .. n /\ k \in Nat /\ C[k].fp \in Nat /\ C[k].base \in Nat
  BY Typed
<1>2. /\ q \in State /\ q.stack = s /\ q.frame_ptr = C[k].fp /\ q.last_frame_ptr = C[k].fp
      /\ q.stack_base = C[k].base /\ q.display = Y /\ q.eis_operation = p.eis_operation
  BY <1>1 DEF Rolled, State, Stacked
<1>3. Ops(C, k, p.eis_operation)
  <2>1. \A i \in 1 .. k : i \in 1 .. n
    OBVIOUS
  <2> QED BY <2>1 DEF Ops
<1>4. C[k].fp \in {C[i].f : i \in 0 .. k}
  BY <1>1, Pointer
<1> HIDE DEF q
<1>5. Runs(C, k, q)
  BY <1>1, <1>2, <1>3, <1>4, Resumed
<1> QED BY <1>5 DEF q

(* Context k + 1 leaves no result: the cell that waited for it goes too. *)
LEMMA LeavesNothing ==
  ASSUME NEW C, NEW n \in Nat, Contexts(C, n), NEW p \in State, Linked(C, n, p.stack),
         C[n].base <= Len(p.stack),
         Ops(C, n, p.eis_operation), NEW k \in 0 .. n - 1, NEW Y \in [0 .. MaxLevel -> Nat],
         Shown(C, k, Y), Y[0] = 0
  PROVE  Runs(C, k, Pop(Rolled(C, k, p, Y)))
<1> DEFINE f == C[k + 1].f
           s == Kept(C, k, p.stack)
           t == SubSeq(s, 1, Len(s) - 1)
<1>1. p.stack \in Seq(Cells)
  BY DEF State
<1>2. /\ f \in Nat \ {0} /\ C[k].base \in Nat /\ C[k].base < f
      /\ s \in Seq(Cells) /\ Len(s) = f /\ \A a \in 1 .. f : s[a] = p.stack[a]
      /\ Alike(p.stack, s, C[k].base) /\ Operands(C, k, f - 1, s)
  BY <1>1, Cut
<1>3. Rolled(C, k, p, Y).stack = s
  BY DEF Rolled
<1>4. Pop(Rolled(C, k, p, Y)) = Stacked(Rolled(C, k, p, Y), t)
  BY <1>3 DEF Pop, Stacked
<1> HIDE DEF f, s
<1>5. t \in Seq(Cells) /\ Len(t) = f - 1 /\ \A a \in 1 .. f - 1 : t[a] = s[a]
  BY <1>2
<1> HIDE DEF t
<1>6. Alike(p.stack, t, C[k].base) /\ C[k].base <= Len(t)
  <2>1. \A a \in 1 .. C[k].base : a \in 1 .. f - 1
    BY <1>2
  <2>2. C[k].base <= Len(t)
    BY <1>2, <1>5
  <2>3. \A a \in 1 .. C[k].base : t[a] = s[a]
    BY ONLY <1>5, <2>1
  <2>4. Alike(p.stack, s, C[k].base)
    BY <1>2
  <2>5. Alike(p.stack, t, C[k].base)
    BY ONLY <2>3, <2>4 DEF Alike
  <2> QED BY ONLY <2>2, <2>5
<1>7. Operands(C, k, Len(t), t)
  <2>1. \A a \in C[k].base + 1 .. f - 1 : a \in 1 .. f - 1
    BY <1>2
  <2> QED BY <1>2, <1>5, <2>1 DEF Operands
<1> QED BY <1>4, <1>5, <1>6, <1>7, GoesOn

(* Context k + 1 leaves a number or an address, for the operation op. *)
LEMMA LeavesValue ==
  ASSUME NEW C, NEW n \in Nat, Contexts(C, n), NEW p \in State, Linked(C, n, p.stack),
         C[n].base <= Len(p.stack),
         Ops(C, n, p.eis_operation), NEW k \in 0 .. n - 1, NEW Y \in [0 .. MaxLevel -> Nat],
         Shown(C, k, Y), Y[0] = 0,
         NEW v \in Seq(Cells), Len(v) = C[k + 1].f,
         \A a \in 1 .. C[k + 1].f - 1 : v[a] = Rolled(C, k, p, Y).stack[a],
         NEW op \in PostOps \ {"PUSH_ADDRESS"}, Combines(op) => C[k].base + 1 < C[k + 1].f,
         IF op \in {"PUSH_DEREF", "ADD_DEREF"} THEN v[Len(v)].t = "addr" ELSE Number(v[Len(v)])
  PROVE  /\ ApplyFits(Stacked(Rolled(C, k, p, Y), v), op)
         /\ Runs(C, k, ApplyTop(Stacked(Rolled(C, k, p, Y), v), op))
<1> DEFINE f == C[k + 1].f
           R == Rolled(C, k, p, Y)
           q == Stacked(R, v)
<1>1. p.stack \in Seq(Cells)
  BY DEF State
<1>2. /\ f \in Nat \ {0} /\ C[k].base \in Nat /\ C[k].base < f
      /\ \A a \in 1 .. f : R.stack[a] = p.stack[a]
      /\ Alike(p.stack, R.stack, C[k].base) /\ Operands(C, k, f - 1, R.stack)
  <2>1. R.stack = Kept(C, k, p.stack)
    BY DEF Rolled
  <2>2. /\ f \in Nat \ {0} /\ C[k].base \in Nat /\ C[k].base < f
        /\ \A a \in 1 .. f : Kept(C, k, p.stack)[a] = p.stack[a]
        /\ Alike(p.stack, Kept(C, k, p.stack), C[k].base)
        /\ Operands(C, k, f - 1, Kept(C, k, p.stack))
    <3>1. /\ n \in Nat /\ Contexts(C, n) /\ k \in 0 .. n - 1 /\ p.stack \in Seq(Cells)
          /\ Linked(C, n, p.stack) /\ C[n].base <= Len(p.stack)
      BY <1>1
    <3>2. /\ C[k + 1].f \in Nat \ {0} /\ C[k].base \in Nat /\ C[k].base < C[k + 1].f
          /\ \A a \in 1 .. C[k + 1].f : Kept(C, k, p.stack)[a] = p.stack[a]
          /\ Alike(p.stack, Kept(C, k, p.stack), C[k].base)
          /\ Operands(C, k, C[k + 1].f - 1, Kept(C, k, p.stack))
      BY ONLY <3>1, Cut
    <3> QED BY ONLY <3>2
  <2> HIDE DEF f, R
  <2> QED BY ONLY <2>1, <2>2
<1>3. q.stack = v
  BY DEF Rolled, Stacked
<1>4. \A s : Stacked(q, s) = Stacked(R, s)
  BY DEF Rolled, Stacked
<1> HIDE DEF q
<1> SUFFICES ApplyFits(q, op) /\ Runs(C, k, ApplyTop(q, op))
  BY DEF q
<1>5. Len(v) = f
  OBVIOUS
<1> HIDE DEF f, R
<1>6. \A a \in 1 .. f - 1 : v[a] = R.stack[a]
  BY DEF f, R
<1>7. \A a \in C[k].base + 1 .. f - 1 : Number(v[a])
  <2>1. \A a \in C[k].base + 1 .. f - 1 : a \in 1 .. f - 1
    BY <1>2
  <2> QED BY <1>2, <1>6, <2>1 DEF Operands
<1>8. \A a \in 1 .. C[k].base : a \in 1 .. f - 1
  BY <1>2
<1>9. ASSUME NEW s \in Seq(Cells), C[k].base <= Len(s),
             \A a \in 1 .. C[k].base : s[a] = v[a],
             \A a \in C[k].base + 1 .. Len(s) : Number(s[a])
      PROVE  Runs(C, k, Stacked(R, s))
  <2>1. Alike(p.stack, s, C[k].base)
    BY <1>2, <1>6, <1>8, <1>9 DEF Alike
  <2>2. Operands(C, k, Len(s), s)
    BY <1>9 DEF Operands
  <2> QED BY <1>9, <2>1, <2>2, GoesOn DEF R
<1>10. Combines(op) => f - 1 \in C[k].base + 1 .. f - 1 /\ f - 1 \in 1 .. f - 1 /\ f > 1
  <2>1. Combines(op) => C[k].base + 1 < f
    BY DEF f
  <2> QED BY <1>2, <2>1
<1>11. ApplyFits(q, op)
  <2>1. TopCell(q) = v[f] /\ Count(q) = f
    BY <1>3, <1>5 DEF TopCell, Count
  <2>2. Combines(op) => Get(q, Count(q) - 2) = v[f - 1]
    <3>1. f - 2 + 1 = f - 1
      BY <1>2
    <3> QED BY <1>3, <2>1, <3>1 DEF Get
  <2>3. Combines(op) => Count(q) > 1 /\ Get(q, Count(q) - 2).t = "val"
    BY <1>7, <1>10, <2>1, <2>2 DEF Number
  <2>4. op \in {"PUSH_DEREF", "ADD_DEREF"} => TopCell(q).t = "addr"
    BY <1>5, <2>1
  <2>5. op \in {"ADD"} => TopCell(q).t = "val"
    BY <1>5, <2>1 DEF Number
  <2> HIDE DEF q
  <2> QED BY <2>3, <2>4, <2>5 DEF ApplyFits
<1>12. CASE Combines(op)
  <2> DEFINE s == SubSeq(v, 1, f - 1)
             u == [s EXCEPT ![f - 1] = Val(0)]
  <2>1. /\ s \in Seq(Cells) /\ Len(s) = f - 1 /\ \A a \in 1 .. f - 1 : s[a] = v[a]
    BY <1>2, <1>5
  <2> HIDE DEF s
  <2>2. /\ u \in Seq(Cells) /\ Len(u) = f - 1 /\ u[f - 1] = Val(0)
        /\ \A a \in 1 .. f - 1 : a # f - 1 => u[a] = v[a]
    BY <1>2, <1>10, <1>12, <2>1, CellTypes
  <2>3. ApplyTop(q, op) = Stacked(R, u)
    <3>1. Pop(q) = Stacked(q, s)
      BY <1>3, <1>5 DEF Pop, s, Stacked
    <3>2. CombineTop(q) = Stacked(q, u)
      <4>1. CombineTop(q) = Put(Stacked(q, s), f - 2, Val(0))
        BY <1>3, <1>5, <3>1 DEF CombineTop, Count
      <4>2. f - 2 + 1 = f - 1
        BY <1>2
      <4>3. Put(Stacked(q, s), f - 2, Val(0)) = Stacked(q, u)
        BY <4>2 DEF Put, Stacked, R, Rolled, q
      <4> QED BY <4>1, <4>3
    <3>3. ApplyTop(q, op) = CombineTop(q)
      BY <1>12 DEF ApplyTop, Combines
    <3> QED BY <1>4, <3>2, <3>3
  <2> HIDE DEF u
  <2>4. \A a \in 1 .. C[k].base : u[a] = v[a]
    <3>1. \A a \in 1 .. C[k].base : a \in 1 .. f - 1 /\ a # f - 1
      BY <1>2, <1>10, <1>12
    <3> QED BY <2>2, <3>1
  <2>5. \A a \in C[k].base + 1 .. Len(u) : Number(u[a])
    <3>1. \A a \in C[k].base + 1 .. f - 1 : a \in 1 .. f - 1
      BY <1>2
    <3> QED BY <1>7, <2>2, <3>1, CellTypes
  <2>6. C[k].base <= Len(u)
    BY <1>2, <2>2
  <2> QED BY <1>9, <1>11, <2>2, <2>3, <2>4, <2>5, <2>6
<1>13. CASE op = "PUSH_DEREF"
  <2> DEFINE u == [v EXCEPT ![f] = Val(0)]
  <2>1. /\ u \in Seq(Cells) /\ Len(u) = f /\ u[f] = Val(0)
        /\ \A a \in 1 .. f : a # f => u[a] = v[a]
    BY <1>2, <1>5, CellTypes
  <2>2. ApplyTop(q, op) = Stacked(R, u)
    <3>1. Count(q) - 1 + 1 = f
      BY <1>2, <1>3, <1>5 DEF Count
    <3>2. ApplyTop(q, op) = Put(q, f - 1, Val(0)) /\ f - 1 + 1 = f
      BY <1>2, <1>3, <1>5, <1>13, <3>1 DEF ApplyTop, Count
    <3>3. Put(q, f - 1, Val(0)) = Stacked(q, u)
      BY <1>3, <3>2 DEF Put, Stacked
    <3> QED BY <1>4, <3>2, <3>3
  <2> HIDE DEF u
  <2>3. \A a \in 1 .. C[k].base : u[a] = v[a]
    <3>1. \A a \in 1 .. C[k].base : a \in 1 .. f /\ a # f
      BY <1>2
    <3> QED BY <2>1, <3>1
  <2>4. \A a \in C[k].base + 1 .. Len(u) : Number(u[a])
    <3>1. \A a \in C[k].base + 1 .. f : a \in 1 .. f /\ (a = f \/ a \in C[k].base + 1 .. f - 1)
      BY <1>2
    <3> QED BY <1>7, <2>1, <3>1, CellTypes
  <2>5. C[k].base <= Len(u)
    BY <1>2, <2>1
  <2> QED BY <1>9, <1>11, <2>1, <2>2, <2>3, <2>4, <2>5
<1>14. CASE op \in {"PUSH_VALUE", "REMOVE_ARG"}
  <2>1. ApplyTop(q, op) = Stacked(R, v)
    BY <1>14 DEF ApplyTop, q
  <2>2. Number(v[f])
    BY <1>5, <1>14
  <2>3. \A a \in C[k].base + 1 .. Len(v) : Number(v[a])
    <3>1. \A a \in C[k].base + 1 .. f : a = f \/ a \in C[k].base + 1 .. f - 1
      BY <1>2
    <3> QED BY <1>5, <1>7, <2>2, <3>1
  <2>4. C[k].base <= Len(v)
    BY <1>2, <1>5
  <2> QED BY <1>9, <1>11, <2>1, <2>3, <2>4
<1>15. op \in {"PUSH_VALUE", "ADD", "PUSH_DEREF", "ADD_DEREF", "REMOVE_ARG"}
  BY DEF PostOps, FormalOps
<1> QED BY <1>12, <1>13, <1>14, <1>15 DEF Combines

LEMMA Leaves ==
  ASSUME NEW C, NEW n \in Nat \ {0}, Contexts(C, n), NEW p \in State, Linked(C, n, p.stack),
         C[n].base <= Len(p.stack), Ops(C, n, p.eis_operation), p.display[0] = 0,
         p.frame_ptr = C[n].f, p.stack_base = C[n].base, C[n].at.part # "address",
         LeaveFrame(p)
  PROVE  Coupled' /\ error' = error
<1> DEFINE k == n - 1
           q == FrameRelease(p)
           at == ReturnAddress(p)
           op == p.eis_operation[p.stack_base]
<1>1. k \in 0 .. n - 1 /\ k + 1 = n /\ n \in Nat /\ n \in 1 .. n
  OBVIOUS
<1>2. IF TopCell(q) = Null THEN Continue(Pop(q), at) ELSE FinishWith(q, op, at)
  BY DEF LeaveFrame
<1> HIDE DEF k
<1>3. PICK Y \in [0 .. MaxLevel -> Nat] :
        q = Rolled(C, k, p, Y) /\ at = C[k].at /\ Shown(C, k, Y) /\ Y[0] = 0
  BY <1>1, Released
<1> HIDE DEF q, at
<1>4. p.stack \in Seq(Cells)
  BY DEF State
<1>5. q.stack = Kept(C, k, p.stack)
  BY <1>3 DEF Rolled
<1>6. /\ C[n].f \in Nat \ {0} /\ q.stack \in Seq(Cells) /\ Len(q.stack) = C[n].f
      /\ q.stack[C[n].f] = p.stack[C[n].f]
  <2>1. /\ C[k + 1].f \in Nat \ {0} /\ q.stack \in Seq(Cells) /\ Len(q.stack) = C[k + 1].f
        /\ \A a \in 1 .. C[k + 1].f : q.stack[a] = p.stack[a]
    BY <1>1, <1>4, <1>5, Cut
  <2>2. C[k + 1].f \in 1 .. C[k + 1].f
    BY <2>1
  <2> QED BY <1>1, <2>1, <2>2
<1>7. TopCell(q) = p.stack[C[n].f]
  BY <1>6 DEF TopCell
<1>8. TopCell(q) = Null \/ Number(TopCell(q))
  BY <1>1, <1>7 DEF Linked, Linkage
<1>9. CASE TopCell(q) = Null
  <2>1. Runs(C, k, Pop(q))
    BY <1>1, <1>3, LeavesNothing
  <2>2. Continue(Pop(q), at)
    BY <1>2, <1>9
  <2> QED BY <1>3, <2>1, <2>2, Continues
<1>10. CASE TopCell(q) # Null
  <2>1. /\ op \in PostOps \ {"PUSH_ADDRESS"} /\ op \notin {"PUSH_DEREF", "ADD_DEREF"}
        /\ Combines(op) => C[k].base + 1 < C[k + 1].f
    BY <1>1 DEF Ops, k
  <2> HIDE DEF op
  <2>2. Number(q.stack[Len(q.stack)])
    BY <1>8, <1>10 DEF TopCell
  <2>3. Len(q.stack) = C[k + 1].f
    BY <1>1, <1>6
  <2>4. Stacked(Rolled(C, k, p, Y), q.stack) = q
    BY <1>3 DEF Stacked, Rolled
  <2>5. ApplyFits(q, op) /\ Runs(C, k, ApplyTop(q, op))
    <3>1. \A a \in 1 .. C[k + 1].f - 1 : q.stack[a] = Rolled(C, k, p, Y).stack[a]
      BY <1>3
    <3>2. /\ ApplyFits(Stacked(Rolled(C, k, p, Y), q.stack), op)
          /\ Runs(C, k, ApplyTop(Stacked(Rolled(C, k, p, Y), q.stack), op))
      BY <1>1, <1>3, <1>6, <2>1, <2>2, <2>3, <3>1, LeavesValue
    <3> QED BY <2>4, <3>2
  <2>6. Continue(ApplyTop(q, op), at)
    BY <1>2, <1>10, <2>5 DEF FinishWith
  <2> QED BY <1>3, <2>5, <2>6, Continues
<1> QED BY <1>9, <1>10

-----------------------------------------------------------------------------
(***************************************************************************)
(* The operations, one by one.                                             *)
(***************************************************************************)
LEMMA LoadOperandKeeps ==
  ASSUME Coupled, LoadOperand
  PROVE  Coupled' /\ error' = error
<1>1. PICK C, n, p : Runs(C, n, p) /\ p = Now /\ ot = C[n].at
  BY DEF Coupled
<1>2. Runs(C, n, Push(p, Val(0)))
  BY <1>1, Pushed, CellTypes
<1>3. Continue(Push(p, Val(0)), ot)
  BY <1>1 DEF LoadOperand
<1> QED BY <1>1, <1>2, <1>3, Continues

LEMMA TempsAre ==
  ASSUME NEW C, NEW n, NEW p, Runs(C, n, p), p = Now
  PROVE  /\ n \in Nat /\ n \in 0 .. n /\ C[n].base \in Nat /\ Len(p.stack) \in Nat
         /\ Temps = Len(p.stack) - C[n].base
         /\ stack = p.stack /\ frame_ptr = p.frame_ptr /\ last_frame_ptr = p.last_frame_ptr
         /\ stack_base = p.stack_base /\ display = p.display /\ eis_operation = p.eis_operation
         /\ p \in State /\ p.stack \in Seq(Cells) /\ Contexts(C, n) /\ Linked(C, n, p.stack)
         /\ C[n].base <= Len(p.stack) /\ Ops(C, n, p.eis_operation) /\ Shown(C, n, p.display)
         /\ p.display[0] = 0 /\ p.frame_ptr = C[n].fp /\ p.stack_base = C[n].base
<1>1. /\ n \in Nat /\ n \in 0 .. n /\ p \in State /\ Contexts(C, n) /\ Linked(C, n, p.stack)
      /\ C[n].base <= Len(p.stack) /\ Ops(C, n, p.eis_operation) /\ Shown(C, n, p.display)
      /\ p.display[0] = 0 /\ p.frame_ptr = C[n].fp /\ p.stack_base = C[n].base
  BY DEF Runs, Laid
<1>2. p.stack \in Seq(Cells) /\ Len(p.stack) \in Nat /\ C[n].base \in Nat
  BY <1>1, Typed DEF State
<1> QED BY <1>1, <1>2 DEF Now, Temps, Count

LEMMA ConsumeKeeps ==
  ASSUME Coupled, Consume
  PROVE  Coupled' /\ error' = error
<1>1. PICK C, n, p : Runs(C, n, p) /\ p = Now /\ ot = C[n].at
  BY DEF Coupled
<1>2. Temps > 0 /\ Continue(Pop(p), ot)
  BY <1>1 DEF Consume
<1>3. Len(p.stack) > C[n].base
  BY <1>1, <1>2, TempsAre
<1>4. Runs(C, n, Pop(p))
  BY <1>1, <1>3, Popped
<1> QED BY <1>1, <1>2, <1>4, Continues

(* A context in the body of a procedure, inner block or for statement. *)
LEMMA BodyIs ==
  ASSUME NEW C, NEW n \in Nat, Contexts(C, n), C[n].at.part = "body", C[n].at.home # Main
  PROVE  n # 0 /\ InBlock(C, n) /\ C[n].fp = C[n].f
<1>1. n # 0
  BY DEF Contexts, Outermost
<1>2. n \in 1 .. n
  BY <1>1
<1>3. InBlock(C, n)
  BY <1>2, Which
<1> QED BY <1>1, <1>3 DEF InBlock

LEMMA ReturnKeeps ==
  ASSUME Coupled, Return
  PROVE  Coupled' /\ error' = error
<1>1. PICK C, n, p : Runs(C, n, p) /\ p = Now /\ ot = C[n].at
  BY DEF Coupled
<1>2. C[n].at.part = "body" /\ C[n].at.home # Main /\ LeaveFrame(p)
  BY <1>1 DEF Return, InBody
<1>3. /\ n \in Nat /\ p \in State /\ Contexts(C, n) /\ Linked(C, n, p.stack)
      /\ C[n].base <= Len(p.stack) /\ Ops(C, n, p.eis_operation) /\ p.display[0] = 0
      /\ p.frame_ptr = C[n].fp /\ p.stack_base = C[n].base
  BY <1>1, TempsAre
<1>4. n # 0 /\ C[n].fp = C[n].f
  BY <1>2, <1>3, BodyIs
<1> QED BY <1>2, <1>3, <1>4, Leaves

(* A context in user text: its display holds the blocks around that text. *)
LEMMA UserIs ==
  ASSUME NEW C, NEW n \in Nat, Contexts(C, n), NEW k \in 0 .. n, C[k].at.part \in UserParts
  PROVE  LET h == C[k].at.home
         IN /\ h \in Block \cup {Main} /\ Level(h) \in Nat /\ Len(C[k].dis) = Level(h)
            /\ k = 0 => h = Main /\ C[k].at.part = "body"
            /\ k > 0 /\ C[k].at.part = "body" => h \in Block /\ InBlock(C, k)
            /\ \A l \in 1 .. Level(h) :
                 LET e == C[k].dis[l]
                 IN /\ e \in 1 .. n /\ e \in 1 .. k /\ InBlock(C, e)
                    /\ C[e].at.home = Path[h][l] /\ Path[h][l] \in Block
                    /\ e = k => l = Level(h) /\ C[k].at.part = "body"
<1> DEFINE h == C[k].at.home
<1>1. k = 0 => h = Main /\ C[k].at.part = "body" /\ Len(C[k].dis) = 0
  BY DEF Contexts, Outermost, UserParts, ThunkParts
<1>2. Path[Main] = << >> /\ Path \in [Block \cup {Main} -> Seq(Block)]
  BY ProgramAssumption
<1>3. k > 0 => k \in 1 .. n
  OBVIOUS
<1>4. k > 0 => \/ C[k].at.part = "body" /\ InBlock(C, k)
               \/ C[k].at.part \in ThunkParts /\ InThunk(C, k)
  BY <1>3, Which DEF UserParts
<1>5. /\ h \in Block \cup {Main} /\ Len(C[k].dis) = Level(h)
      /\ k > 0 => Encloses(C, k, h, Level(h))
  <2>1. CASE k = 0
    BY <1>1, <1>2, <2>1 DEF Level
  <2>2. CASE k > 0
    BY <1>4, <2>2 DEF InBlock, InThunk
  <2> QED BY <2>1, <2>2
<1>6. Level(h) \in Nat
  BY <1>5, Typed
<1>7. k > 0 /\ C[k].at.part = "body" => h \in Block /\ InBlock(C, k)
  BY <1>4 DEF InBlock, ThunkParts
<1>8. ASSUME NEW l \in 1 .. Level(h)
      PROVE  LET e == C[k].dis[l]
             IN /\ e \in 1 .. n /\ e \in 1 .. k /\ InBlock(C, e)
                /\ C[e].at.home = Path[h][l] /\ Path[h][l] \in Block
                /\ e = k => l = Level(h) /\ C[k].at.part = "body"
  <2> DEFINE e == C[k].dis[l]
  <2>1. l \in 1 .. Len(C[k].dis)
    BY <1>5
  <2>2. k \in 1 .. n /\ e \in 1 .. k /\ e \in 1 .. n /\ Entered(C[e]) /\ Len(C[e].dis) = l
    BY <2>1, Encloser
  <2>3. C[e].at.home = Path[h][l]
    <3>1. Encloses(C, k, h, Level(h))
      BY <1>5, <2>2
    <3> QED BY <3>1 DEF Encloses
  <2>4. Path[h] \in Seq(Block) /\ l \in 1 .. Len(Path[h])
    BY <1>2, <1>5 DEF Level
  <2>5. Path[h][l] \in Block
    BY <2>4
  <2> HIDE DEF e
  <2>6. InBlock(C, e)
    <3>1. Path[h][l] \notin StdFun
      BY <2>5, ProgramAssumption
    <3>2. ~ InStd(C, e)
      BY <2>3, <3>1 DEF InStd
    <3>3. C[e].at.part \in {"locals", "body"} => InBlock(C, e)
      BY <2>2, Which
    <3>4. C[e].at.part = "std" => InStd(C, e)
      BY <2>2, Which
    <3> QED BY <2>2, <3>2, <3>3, <3>4 DEF Entered
  <2>7. e = k => l = Level(h) /\ C[k].at.part = "body"
    BY <1>5, <2>2 DEF Entered, UserParts, ThunkParts
  <2> QED BY <2>2, <2>3, <2>5, <2>6, <2>7 DEF e
<1> QED BY <1>1, <1>5, <1>6, <1>7, <1>8

LEMMA StopKeeps ==
  ASSUME Coupled, Stop
  PROVE  Coupled' /\ error' = error
<1>1. PICK C, n, p : Runs(C, n, p) /\ p = Now /\ ot = C[n].at
  BY DEF Coupled
<1>2. C[n].at = At(Main, "body") /\ Continue(p, At(Main, "stopped"))
  BY <1>1 DEF Stop
<1>3. n \in Nat /\ Contexts(C, n) /\ n \in 0 .. n
  BY <1>1, TempsAre
<1>4. n = 0
  <2>1. n > 0 => C[n].at.home \in Block
    <3>1. C[n].at.part \in UserParts /\ C[n].at.part = "body"
      BY <1>2 DEF At, UserParts
    <3> QED BY <1>3, <3>1, UserIs
  <2>2. C[n].at.home \notin Block
    BY <1>2, ProgramAssumption DEF At
  <2> QED BY <1>3, <2>1, <2>2
<1> DEFINE c == [C[0] EXCEPT !.at = At(Main, "stopped")]
           D == [C EXCEPT ![0] = c]
<1>5. C \in [Nat -> Context] /\ Outermost(C[0]) /\ C[0] \in Context
  BY <1>3, <1>4 DEF Contexts
<1>6. c \in Context /\ Outermost(c) /\ c.at = At(Main, "stopped") /\ c.base = C[0].base
      /\ c.fp = C[0].fp /\ c.f = C[0].f /\ c.dis = C[0].dis
  BY <1>5 DEF Context, Outermost, At, Code, Parts
<1> HIDE DEF c
<1>7. D \in [Nat -> Context] /\ D[0] = c
  BY <1>5, <1>6
<1> HIDE DEF D
<1>8. Contexts(D, 0) /\ Ops(D, 0, p.eis_operation)
  BY <1>6, <1>7 DEF Contexts, Ops
<1>9. Laid(D, 0, p.stack) /\ Shown(D, 0, p.display)
  <2>1. C[0].base <= Len(p.stack) /\ Operands(C, 0, Len(p.stack), p.stack)
    BY <1>1, <1>4 DEF Runs, Laid
  <2>2. Operands(D, 0, Len(p.stack), p.stack)
    BY <1>6, <1>7, <2>1 DEF Operands
  <2>3. Linked(D, 0, p.stack)
    BY DEF Linked
  <2>4. Len(D[0].dis) = 0
    BY <1>6, <1>7 DEF Outermost
  <2>5. Shown(D, 0, p.display)
    BY <2>4 DEF Shown
  <2> QED BY <1>6, <1>7, <2>1, <2>2, <2>3, <2>5 DEF Laid
<1>10. {C[i].f : i \in 0 .. 0} = {D[i].f : i \in 0 .. 0}
  BY <1>6, <1>7
<1>11. Runs(D, 0, p)
  BY <1>1, <1>4, <1>6, <1>7, <1>8, <1>9, <1>10 DEF Runs
<1>12. D[0].at = At(Main, "stopped")
  BY <1>6, <1>7
<1> QED BY <1>2, <1>11, <1>12, Continues

(* The result that waits below a frame is assigned, or not called for. *)
LEMMA ResultIs ==
  ASSUME NEW C, NEW n \in Nat, Contexts(C, n), NEW st \in Seq(Cells), Linked(C, n, st),
         C[n].base <= Len(st), NEW i \in 1 .. n
  PROVE  /\ C[i].f \in 1 .. Len(st) /\ C[i].f \in 1 .. C[n].base /\ C[n].base \in Nat
         /\ st[C[i].f] = Null \/ Number(st[C[i].f])
<1>1. /\ C[i].f \in Nat \ {0} /\ C[i].base \in Nat /\ C[n].base \in Nat
      /\ Len(C[i].pords) \in Nat
      /\ C[i].f + 5 + 2 * Len(C[i].pords) <= C[i].base /\ C[i].base <= C[n].base
  <2>1. n \in 0 .. n
    OBVIOUS
  <2> QED BY <2>1, Within
<1>2. Len(st) \in Nat
  OBVIOUS
<1>3. \A f, b, w, t, l \in Nat : f + 5 + 2 * w <= b /\ b <= t /\ t <= l => f <= l /\ f <= t
  OBVIOUS
<1>4. C[i].f <= Len(st) /\ C[i].f <= C[n].base
  BY <1>1, <1>2, <1>3
<1>5. st[C[i].f] = Null \/ Number(st[C[i].f])
  BY DEF Linked, Linkage
<1> QED BY <1>1, <1>2, <1>4, <1>5

LEMMA AssignResultKeeps ==
  ASSUME Coupled, NEW l \in 1 .. Level(ot.home), AssignResult(l)
  PROVE  Coupled' /\ error' = error
<1>1. PICK C, n, p : Runs(C, n, p) /\ p = Now /\ ot = C[n].at
  BY DEF Coupled
<1> DEFINE q == Pop(p)
           e == C[n].dis[l]
<1>2. C[n].at.part \in UserParts /\ Temps = 1 /\ l \in 1 .. Level(C[n].at.home)
  BY <1>1 DEF AssignResult, InBody, UserParts
<1>3. Len(p.stack) > C[n].base /\ n \in Nat /\ n \in 0 .. n /\ Contexts(C, n) /\ display = p.display
  BY <1>1, <1>2, TempsAre
<1>4. Runs(C, n, q)
  BY <1>1, <1>3, Popped
<1>5. e \in 1 .. n /\ l \in 1 .. Len(C[n].dis)
  BY <1>2, <1>3, UserIs
<1>6. display[l] = C[e].f
  BY <1>1, <1>3, <1>5 DEF Runs, Shown
<1>7. q \in State /\ q.stack \in Seq(Cells) /\ Linked(C, n, q.stack) /\ C[n].base <= Len(q.stack)
      /\ Operands(C, n, Len(q.stack), q.stack)
  <2>1. q \in State /\ Laid(C, n, q.stack)
    BY <1>4 DEF Runs
  <2> QED BY <2>1 DEF State, Laid
<1> HIDE DEF q, e
<1>8. /\ C[e].f \in 1 .. Len(q.stack) /\ C[e].f \in 1 .. C[n].base /\ C[n].base \in Nat
      /\ q.stack[C[e].f] = Null \/ Number(q.stack[C[e].f])
  BY <1>3, <1>5, <1>7, ResultIs
<1>9. (display[l] - 1) + 1 = C[e].f
  BY <1>6, <1>8
<1>10. Continue(IF q.stack[C[e].f] = Null THEN q ELSE Put(q, display[l] - 1, Val(1)), ot)
  BY <1>1, <1>9 DEF AssignResult, Get, q
<1>11. CASE q.stack[C[e].f] = Null
  BY <1>1, <1>4, <1>10, <1>11, Continues
<1>12. CASE q.stack[C[e].f] # Null
  <2> DEFINE s == [q.stack EXCEPT ![C[e].f] = Val(1)]
  <2>1. /\ s \in Seq(Cells) /\ Len(s) = Len(q.stack) /\ s[C[e].f] = Val(1)
        /\ \A a \in 1 .. Len(q.stack) : a # C[e].f => s[a] = q.stack[a]
    BY <1>7, <1>8, CellTypes
  <2>2. Put(q, display[l] - 1, Val(1)) = Stacked(q, s)
    BY <1>9 DEF Put, Stacked
  <2> HIDE DEF s
  <2>3. Alike(q.stack, s, C[n].base)
    <3>1. \A a \in 1 .. C[n].base : a \in 1 .. Len(q.stack)
      BY <1>7, <1>8
    <3> QED BY <1>8, <1>12, <2>1, <3>1, CellTypes DEF Alike
  <2>4. Operands(C, n, Len(s), s)
    <3>1. \A a \in C[n].base + 1 .. Len(q.stack) : a \in 1 .. Len(q.stack) /\ a # C[e].f
      BY <1>7, <1>8
    <3> QED BY <1>7, <2>1, <3>1 DEF Operands
  <2>5. Runs(C, n, Stacked(q, s))
    BY <1>4, <1>7, <2>1, <2>3, <2>4, OperandsChange
  <2>6. Continue(Stacked(q, s), ot)
    BY <1>10, <1>12, <2>2
  <2> QED BY <1>1, <2>5, <2>6, Continues
<1> QED BY <1>11, <1>12

LEMMA ExitForKeeps ==
  ASSUME Coupled, ExitFor
  PROVE  Coupled' /\ error' = error
<1>1. PICK C, n, p : Runs(C, n, p) /\ p = Now /\ ot = C[n].at
  BY DEF Coupled
<1>2. C[n].at.part = "body" /\ C[n].at.home \in ForBlock /\ C[n].at.home \in Block /\ Temps = 1
  BY <1>1, ProgramAssumption DEF ExitFor, InBody
<1>3. /\ Len(p.stack) > C[n].base /\ n \in Nat /\ n \in 0 .. n /\ Contexts(C, n)
      /\ frame_ptr = C[n].fp
  BY <1>1, <1>2, TempsAre
<1>4. n # 0 /\ InBlock(C, n) /\ C[n].fp = C[n].f
  BY <1>2, <1>3, BodyIs, ProgramAssumption
<1>5. Runs(C, n, Pop(p))
  BY <1>1, <1>3, Popped
<1> DEFINE q == Pop(p)
           f == C[n].f
           s == [q.stack EXCEPT ![f] = Null]
           r == Stacked(q, s)
<1>6. /\ q \in State /\ q.stack \in Seq(Cells) /\ Linked(C, n, q.stack)
      /\ C[n].base <= Len(q.stack) /\ Ops(C, n, q.eis_operation) /\ q.display[0] = 0
      /\ q.stack_base = C[n].base /\ q.frame_ptr = f
  <2>1. q \in State /\ Laid(C, n, q.stack) /\ Ops(C, n, q.eis_operation) /\ q.display[0] = 0
        /\ q.stack_base = C[n].base /\ q.frame_ptr = C[n].fp
    BY <1>5 DEF Runs
  <2> HIDE DEF q
  <2> QED BY <1>4, <2>1 DEF State, Laid
<1> HIDE DEF q
<1>7. n \in 1 .. n /\ n \in 1 .. n + 1 /\ n - 1 \in 0 .. n /\ n - 1 \in Nat
  BY <1>3, <1>4
<1>8. f \in 1 .. Len(q.stack) /\ f \in Nat
  BY <1>3, <1>6, <1>7, ResultIs
<1>9. /\ s \in Seq(Cells) /\ Len(s) = Len(q.stack) /\ s[f] = Null
      /\ \A a \in 1 .. Len(q.stack) : a # f => s[a] = q.stack[a]
  BY <1>6, <1>8, CellTypes
<1>10. LeaveFrame(r)
  <2>1. LeaveFrame(Put(q, frame_ptr - 1, Null))
    BY <1>1 DEF ExitFor, q
  <2>2. frame_ptr - 1 + 1 = f
    BY <1>3, <1>4, <1>8
  <2>3. Put(q, frame_ptr - 1, Null) = r
    BY <2>2 DEF Put, Stacked
  <2> QED BY <2>1, <2>3
<1>11. /\ r \in State /\ r.stack = s /\ r.eis_operation = q.eis_operation
       /\ r.display = q.display /\ r.frame_ptr = q.frame_ptr /\ r.stack_base = q.stack_base
  BY <1>6, <1>9 DEF Stacked, State
<1> HIDE DEF s, r
<1>12. C[n - 1].base < f /\ C[n - 1].base \in Nat
  BY <1>3, <1>7, FrameWithin, Typed
<1>13. Alike(q.stack, s, C[n - 1].base) /\ Operands(C, n - 1, f - 1, s)
  <2>1. \A a \in 1 .. f - 1 : a \in 1 .. Len(q.stack) /\ a # f
    BY <1>6, <1>8
  <2>2. \A a \in 1 .. C[n - 1].base : a \in 1 .. f - 1
    BY <1>8, <1>12
  <2>3. \A a \in C[n - 1].base + 1 .. f - 1 : a \in 1 .. f - 1
    BY <1>8, <1>12
  <2>4. Operands(C, n - 1, f - 1, q.stack)
    BY <1>6, <1>7 DEF Linked
  <2> QED BY <1>9, <2>1, <2>2, <2>3, <2>4 DEF Alike, Operands
<1>14. Linkage(C, n, s)
  <2>1. Linkage(C, n, q.stack)
    BY <1>6, <1>7 DEF Linked
  <2>2. C[n].at.part \notin ThunkParts /\ C[n].at.home \notin StdFun
    BY <1>2, ProgramAssumption DEF ThunkParts
  <2>3. \A a \in f + 1 .. C[n].base : s[a] = q.stack[a]
    <3>1. C[n].base \in Nat
      BY <1>3, Typed
    <3>2. \A a \in f + 1 .. C[n].base : a \in 1 .. Len(q.stack) /\ a # f
      BY <1>6, <1>8, <3>1
    <3> QED BY <1>9, <3>2
  <2>4. /\ C[n].base \in Nat /\ Len(C[n].pords) \in Nat /\ f + 5 + 2 * Len(C[n].pords) <= C[n].base
    BY <1>3, <1>7, Within
  <2>5. \A g, b, w \in Nat : g + 5 + 2 * w <= b =>
          /\ g + 1 \in g + 1 .. b /\ g + 2 \in g + 1 .. b /\ g + 3 \in g + 1 .. b
          /\ g + 4 \in g + 1 .. b /\ g + 5 \in g + 1 .. b
          /\ \A j \in 1 .. w : g + 4 + 2 * j \in g + 1 .. b /\ g + 5 + 2 * j \in g + 1 .. b
          /\ \A a \in g + 6 + 2 * w .. b : a \in g + 1 .. b
    OBVIOUS
  <2>6. /\ f + 1 \in f + 1 .. C[n].base /\ f + 2 \in f + 1 .. C[n].base
        /\ f + 3 \in f + 1 .. C[n].base /\ f + 4 \in f + 1 .. C[n].base
        /\ f + 5 \in f + 1 .. C[n].base
        /\ \A j \in 1 .. Len(C[n].pords) : /\ f + 4 + 2 * j \in f + 1 .. C[n].base
                                           /\ f + 5 + 2 * j \in f + 1 .. C[n].base
        /\ \A a \in f + 6 + 2 * Len(C[n].pords) .. C[n].base : a \in f + 1 .. C[n].base
    BY <1>8, <2>4, <2>5
  <2>7. /\ s[f + 1] = q.stack[f + 1] /\ s[f + 2] = q.stack[f + 2] /\ s[f + 3] = q.stack[f + 3]
        /\ s[f + 4] = q.stack[f + 4] /\ s[f + 5] = q.stack[f + 5]
        /\ \A j \in 1 .. Len(C[n].pords) : /\ s[f + 4 + 2 * j] = q.stack[f + 4 + 2 * j]
                                           /\ s[f + 5 + 2 * j] = q.stack[f + 5 + 2 * j]
        /\ \A a \in f + 6 + 2 * Len(C[n].pords) .. C[n].base : s[a] = q.stack[a]
    BY <2>3, <2>6
  <2> QED BY <1>9, <2>1, <2>2, <2>7 DEF Linkage
<1>15. Linked(C, n, s)
  <2>1. C \in [Nat -> Context] /\ C[n] \in Context /\ Sound(C, n)
    BY <1>3, <1>7, Typed DEF Contexts
  <2>2. Replaces(C, C, n, C[n])
    BY <1>3, <2>1 DEF Replaces
  <2>3. Operands(C, n - 1, C[n].f - 1, s)
    BY <1>13
  <2> QED BY <1>3, <1>6, <1>7, <1>13, <1>14, <2>1, <2>2, <2>3, OnTop
<1>16. C[n].base <= Len(s)
  BY <1>6, <1>9
<1>17. C[n].at.part # "address" /\ n \in Nat \ {0}
  BY <1>2, <1>3, <1>4
<1> QED BY <1>3, <1>6, <1>10, <1>11, <1>15, <1>16, <1>17, Leaves

LEMMA EndSubroutineKeeps ==
  ASSUME Coupled, EndSubroutine
  PROVE  Coupled' /\ error' = error
<1>1. PICK C, n, p : Runs(C, n, p) /\ p = Now /\ ot = C[n].at
  BY DEF Coupled
<1>2. C[n].at.part \in {"value", "address", "std"} /\ Temps = 1
  BY <1>1 DEF EndSubroutine
<1>3. /\ Len(p.stack) > C[n].base /\ n \in Nat /\ n \in 0 .. n /\ Contexts(C, n)
      /\ stack_base = C[n].base /\ eis_operation = p.eis_operation /\ p.stack \in Seq(Cells)
      /\ Len(p.stack) = C[n].base + 1 /\ C[n].base \in Nat /\ C[n].f \in Nat
      /\ Operands(C, n, Len(p.stack), p.stack) /\ Ops(C, n, p.eis_operation)
  <2>1. Operands(C, n, Len(p.stack), p.stack)
    BY <1>1 DEF Runs, Laid
  <2>2. /\ n \in Nat /\ n \in 0 .. n /\ Contexts(C, n) /\ C[n].base \in Nat
        /\ stack_base = C[n].base /\ eis_operation = p.eis_operation /\ p.stack \in Seq(Cells)
        /\ Len(p.stack) \in Nat /\ 1 = Len(p.stack) - C[n].base /\ Ops(C, n, p.eis_operation)
    BY <1>1, <1>2, TempsAre
  <2>3. C[n].f \in Nat
    BY <2>2, Typed
  <2> QED BY <2>1, <2>2, <2>3
<1>4. n # 0
  BY <1>2, <1>3 DEF Contexts, Outermost
<1> DEFINE item == IF C[n].at.part = "address" THEN Addr(0) ELSE p.stack[Len(p.stack)]
           op   == p.eis_operation[C[n].base]
           base == IF op = "REMOVE_ARG" THEN C[n].base - 2 ELSE C[n].base
           r    == [Pop(p) EXCEPT !.frame_ptr = base - ARG]
           q    == FrameRelease(r)
           k    == n - 1
<1>5. FinishWith(Put(q, Count(q) - 1, item), op, ReturnAddress(r))
  BY <1>1, <1>3 DEF EndSubroutine, TopCell
<1>6. n \in 1 .. n /\ k \in 0 .. n - 1 /\ k + 1 = n
  BY <1>3, <1>4
<1>7. /\ op \in PostOps \ {"PUSH_ADDRESS"}
      /\ op = "REMOVE_ARG" <=> C[n].at.part = "std"
      /\ op \in {"PUSH_DEREF", "ADD_DEREF"} <=> C[n].at.part = "address"
      /\ Combines(op) => C[k].base + 1 < C[k + 1].f
  BY <1>3, <1>6 DEF Ops
<1>8. base - ARG = C[n].f
  <2>1. CASE C[n].at.part = "std"
    <3>1. C[n].base = C[n].f + 7 /\ base = C[n].base - 2
      BY <1>3, <1>6, <1>7, <2>1, Which DEF InStd
    <3> HIDE DEF base
    <3> QED BY <1>3, <3>1 DEF ARG
  <2>2. CASE C[n].at.part # "std"
    <3>1. C[n].base = C[n].f + 5 /\ base = C[n].base
      <4>1. C[n].at.part \in ThunkParts
        BY <1>2, <2>2 DEF ThunkParts
      <4>2. InThunk(C, n)
        BY <1>3, <1>6, <4>1, Which
      <4>3. C[n].base = C[n].f + 5
        BY <4>2 DEF InThunk
      <4>4. op # "REMOVE_ARG"
        BY <1>7, <2>2
      <4> HIDE DEF op
      <4> QED BY <4>3, <4>4
    <3> HIDE DEF base
    <3> QED BY <1>3, <3>1 DEF ARG
  <2> QED BY <2>1, <2>2
<1>9. item \in Cells /\ IF op \in {"PUSH_DEREF", "ADD_DEREF"} THEN item.t = "addr" ELSE Number(item)
  <2>1. C[n].at.part = "address" => item = Addr(0)
    OBVIOUS
  <2>2. p.stack[Len(p.stack)] \in Cells /\ Number(p.stack[Len(p.stack)])
    <3>1. Len(p.stack) \in 1 .. Len(p.stack) /\ Len(p.stack) \in C[n].base + 1 .. Len(p.stack)
      BY <1>3
    <3> QED BY <1>3, <3>1 DEF Operands
  <2> HIDE DEF op
  <2>3. Addr(0).t = "addr" /\ Addr(0) \in Cells
    BY CellTypes DEF Addr
  <2> QED BY <1>7, <2>1, <2>2, <2>3
<1> HIDE DEF item, op
<1>10. /\ r \in State /\ r.frame_ptr = C[k + 1].f /\ r.display[0] = 0
       /\ Linked(C, n, r.stack) /\ C[n].base <= Len(r.stack) /\ Ops(C, n, r.eis_operation)
       /\ r.stack \in Seq(Cells)
  <2>1. Runs(C, n, Pop(p))
    BY <1>1, <1>3, Popped
  <2> DEFINE w == Pop(p)
  <2>2. w \in State /\ Laid(C, n, w.stack) /\ Ops(C, n, w.eis_operation) /\ w.display[0] = 0
    BY <2>1 DEF Runs
  <2> HIDE DEF w
  <2>3. r = [w EXCEPT !.frame_ptr = C[n].f]
    BY <1>8 DEF w
  <2> HIDE DEF r
  <2>4. /\ r \in State /\ r.frame_ptr = C[n].f /\ r.stack = w.stack /\ r.display = w.display
        /\ r.eis_operation = w.eis_operation /\ w.stack \in Seq(Cells)
    BY <1>3, <2>2, <2>3 DEF State
  <2> QED BY <1>6, <2>2, <2>4 DEF Laid
<1> HIDE DEF base, r, k
<1>11. PICK Y \in [0 .. MaxLevel -> Nat] :
         /\ q = Rolled(C, k, r, Y) /\ ReturnAddress(r) = C[k].at
         /\ Shown(C, k, Y) /\ Y[0] = 0
  <2>1. n \in Nat /\ Contexts(C, n) /\ k \in 0 .. n - 1
    BY <1>3, <1>6
  <2>2. \E Y \in [0 .. MaxLevel -> Nat] :
          /\ FrameRelease(r) = Rolled(C, k, r, Y) /\ ReturnAddress(r) = C[k].at
          /\ Shown(C, k, Y) /\ Y[0] = r.display[0]
    BY <1>10, <2>1, Released
  <2> QED BY <1>10, <2>2
<1> HIDE DEF q
<1> DEFINE v == [q.stack EXCEPT ![C[n].f] = item]
<1>12. /\ C[n].f \in Nat \ {0} /\ q.stack \in Seq(Cells) /\ Len(q.stack) = C[n].f
  <2>1. q.stack = Kept(C, k, r.stack)
    BY <1>11 DEF Rolled
  <2>2. /\ C[k + 1].f \in Nat \ {0} /\ Kept(C, k, r.stack) \in Seq(Cells)
        /\ Len(Kept(C, k, r.stack)) = C[k + 1].f
    BY <1>3, <1>6, <1>10, Cut
  <2> QED BY <1>6, <2>1, <2>2
<1>13. /\ v \in Seq(Cells) /\ Len(v) = C[n].f /\ v[C[n].f] = item
       /\ \A a \in 1 .. C[n].f - 1 : v[a] = q.stack[a]
  BY <1>9, <1>12
<1>14. Put(q, Count(q) - 1, item) = Stacked(Rolled(C, k, r, Y), v)
  <2>1. Count(q) - 1 + 1 = C[n].f
    BY <1>12 DEF Count
  <2> QED BY <1>11, <2>1 DEF Put, Stacked
<1> HIDE DEF v
<1>15. /\ ApplyFits(Stacked(Rolled(C, k, r, Y), v), op)
       /\ Runs(C, k, ApplyTop(Stacked(Rolled(C, k, r, Y), v), op))
  <2>1. \A a \in 1 .. C[k + 1].f - 1 : v[a] = Rolled(C, k, r, Y).stack[a]
    BY <1>6, <1>11, <1>13
  <2>2. Len(v) = C[k + 1].f /\ v[Len(v)] = item
    BY <1>6, <1>13
  <2>3. n \in Nat /\ Contexts(C, n) /\ k \in 0 .. n - 1
    BY <1>3, <1>6
  <2>4. IF op \in {"PUSH_DEREF", "ADD_DEREF"} THEN v[Len(v)].t = "addr" ELSE Number(v[Len(v)])
    BY <1>9, <2>2
  <2>5. /\ r \in State /\ Linked(C, n, r.stack) /\ C[n].base <= Len(r.stack)
        /\ Ops(C, n, r.eis_operation) /\ Y \in [0 .. MaxLevel -> Nat] /\ Shown(C, k, Y)
        /\ Y[0] = 0 /\ v \in Seq(Cells) /\ Len(v) = C[k + 1].f
        /\ op \in PostOps \ {"PUSH_ADDRESS"}
        /\ Combines(op) => C[k].base + 1 < C[k + 1].f
    BY <1>7, <1>10, <1>11, <1>13, <2>2
  <2> QED BY <2>1, <2>3, <2>4, <2>5, LeavesValue
<1>16. Continue(ApplyTop(Stacked(Rolled(C, k, r, Y), v), op), C[k].at)
  BY <1>5, <1>11, <1>14, <1>15 DEF FinishWith
<1> QED BY <1>15, <1>16, Continues

-----------------------------------------------------------------------------
(***************************************************************************)
(* A jump: the search for the frame called from the frame of the label.    *)
(***************************************************************************)
LEMMA Many ==
  ASSUME NEW C, NEW n \in Nat, Contexts(C, n), NEW st \in Seq(Cells), C[n].base <= Len(st)
  PROVE  n <= Len(st)
<1> DEFINE S == {j \in Nat : j <= n => j <= C[j].f}
<1>1. 0 \in S
  BY DEF Contexts, Outermost
<1>2. ASSUME NEW j \in S PROVE j + 1 \in S
  <2> SUFFICES ASSUME j + 1 <= n PROVE j + 1 <= C[j + 1].f
    OBVIOUS
  <2>1. j \in 0 .. n /\ j + 1 \in 0 .. n /\ j < j + 1 /\ j \in Nat /\ j <= C[j].f
    OBVIOUS
  <2>2. C[j].f < C[j + 1].f /\ C[j].f \in Nat /\ C[j + 1].f \in Nat
    BY <2>1, Spaced, Typed
  <2> QED BY <2>1, <2>2
<1>3. S = Nat
  <2>1. S \in SUBSET Nat
    OBVIOUS
  <2> HIDE DEF S
  <2> QED BY <1>1, <1>2, <2>1, Induction
<1>4. n <= C[n].f
  BY <1>3
<1>5. C[n].f <= C[n].base /\ C[n].f \in Nat /\ C[n].base \in Nat /\ Len(st) \in Nat
  <2>1. n \in 0 .. n
    OBVIOUS
  <2>2. C[n].f \in Nat /\ C[n].base \in Nat /\ Len(C[n].pords) \in Nat
    BY <2>1, Typed
  <2>3. CASE n = 0
    BY <2>2, <2>3 DEF Contexts, Outermost
  <2>4. CASE n # 0
    <3>1. n \in 1 .. n
      BY <2>4
    <3>2. C[n].f + 5 + 2 * Len(C[n].pords) <= C[n].base
      BY <3>1, FrameWithin
    <3>3. \A f, b, w \in Nat : f + 5 + 2 * w <= b => f <= b
      OBVIOUS
    <3>4. C[n].f <= C[n].base
      BY <2>2, <3>2, <3>3
    <3> QED BY <2>2, <3>4
  <2> QED BY <2>2, <2>3, <2>4
<1> QED BY <1>4, <1>5

LEMMA CalledFromIs ==
  ASSUME NEW C, NEW n \in Nat, Contexts(C, n), NEW p, Linked(C, n, p.stack),
         p.stack \in Seq(Cells), C[n].base <= Len(p.stack), p.frame_ptr = C[n].f,
         NEW e \in 0 .. n - 1, \A i \in e .. n - 1 : C[i].fp = C[i].f
  PROVE  CalledFrom(p, C[e].f) = C[e + 1].f
<1> DEFINE N == Count(p)
           goto == C[e].f
           g(j) == C[IF n - j > e THEN n - j ELSE e + 1].f
           F == CHOOSE frame : frame = [m \in 0 .. N |->
                  IF m = 0 THEN p.frame_ptr
                  ELSE LET fp == frame[m - 1]
                       IN IF fp = 0 \/ Field(p, fp, FP) = goto THEN fp ELSE Field(p, fp, FP)]
<1>1. CalledFrom(p, goto) = F[N]
  BY DEF CalledFrom
<1>2. N \in Nat /\ n <= N
  <2>1. n <= Len(p.stack)
    BY Many
  <2> QED BY <2>1 DEF Count
<1>3. ASSUME NEW j \in 1 .. N
      PROVE  g(j) = IF g(j - 1) = 0 \/ Field(p, g(j - 1), FP) = goto
                    THEN g(j - 1) ELSE Field(p, g(j - 1), FP)
  <2> DEFINE m == IF n - (j - 1) > e THEN n - (j - 1) ELSE e + 1
  <2>1. /\ m \in 1 .. n /\ m - 1 \in e .. n - 1 /\ m \in 0 .. n /\ m - 1 \in 0 .. n /\ e \in 0 .. n
        /\ m - 1 = e => (IF n - j > e THEN n - j ELSE e + 1) = m
        /\ m - 1 # e => (IF n - j > e THEN n - j ELSE e + 1) = m - 1
    <3>1. n \in Nat /\ e \in Int /\ 0 <= e /\ e <= n - 1 /\ j \in Int /\ 1 <= j
      BY <1>2
    <3> HIDE DEF N, goto, F
    <3>2. CASE n - (j - 1) > e
      <4>1. m = n - (j - 1)
        BY <3>2
      <4> HIDE DEF m
      <4> QED BY <3>1, <3>2, <4>1
    <3>3. CASE ~ (n - (j - 1) > e)
      <4>1. m = e + 1
        BY <3>3
      <4> HIDE DEF m
      <4> QED BY <3>1, <3>3, <4>1
    <3> QED BY <3>2, <3>3
  <2>2. g(j - 1) = C[m].f
    OBVIOUS
  <2> HIDE DEF m
  <2>3. Field(p, C[m].f, FP) = C[m - 1].fp /\ C[m - 1].fp = C[m - 1].f
    BY <2>1, FieldsAre
  <2>4. C[m].f # 0
    <3>1. n \in 0 .. n
      OBVIOUS
    <3> QED BY <2>1, <3>1, Within
  <2>5. CASE m - 1 = e
    BY <2>1, <2>2, <2>3, <2>4, <2>5
  <2>6. CASE m - 1 # e
    <3>1. e < m - 1
      BY <2>1, <2>6
    <3>2. C[e].f < C[m - 1].f /\ C[e].f \in Nat /\ C[m - 1].f \in Nat
      BY <2>1, <3>1, Spaced, Typed
    <3>3. C[m - 1].f # goto
      BY <3>2
    <3> QED BY <2>1, <2>2, <2>3, <2>4, <2>6, <3>3
  <2> QED BY <2>5, <2>6
<1>4. g(0) = p.frame_ptr
  OBVIOUS
<1>5. g(N) = C[e + 1].f
  BY <1>2
<1> HIDE DEF g, goto
<1> DEFINE w == [j \in 0 .. N |-> g(j)]
<1>6. w = [m \in 0 .. N |->
             IF m = 0 THEN p.frame_ptr
             ELSE LET fp == w[m - 1]
                  IN IF fp = 0 \/ Field(p, fp, FP) = goto THEN fp ELSE Field(p, fp, FP)]
  <2> SUFFICES ASSUME NEW m \in 0 .. N
               PROVE  w[m] = IF m = 0 THEN p.frame_ptr
                             ELSE IF w[m - 1] = 0 \/ Field(p, w[m - 1], FP) = goto
                                  THEN w[m - 1] ELSE Field(p, w[m - 1], FP)
    OBVIOUS
  <2>1. CASE m = 0
    BY <1>2, <1>4, <2>1
  <2>2. CASE m # 0
    <3>1. m \in 1 .. N /\ m - 1 \in 0 .. N
      BY <1>2, <2>2
    <3>2. w[m] = g(m) /\ w[m - 1] = g(m - 1)
      BY <3>1
    <3> HIDE DEF w
    <3> QED BY <1>3, <2>2, <3>1, <3>2
  <2> QED BY <2>1, <2>2
<1> HIDE DEF w
<1>7. F = [m \in 0 .. N |->
             IF m = 0 THEN p.frame_ptr
             ELSE LET fp == F[m - 1]
                  IN IF fp = 0 \/ Field(p, fp, FP) = goto THEN fp ELSE Field(p, fp, FP)]
  BY <1>6
<1> HIDE DEF F
<1> DEFINE T == {j \in Nat : j <= N => F[j] = g(j)}
<1>8. 0 \in T
  BY <1>2, <1>4, <1>7
<1>9. ASSUME NEW j \in T PROVE j + 1 \in T
  <2> SUFFICES ASSUME j + 1 <= N PROVE F[j + 1] = g(j + 1)
    OBVIOUS
  <2>1. j \in Nat /\ j + 1 \in 1 .. N /\ j + 1 \in 0 .. N /\ (j + 1) - 1 = j /\ F[j] = g(j)
    BY <1>2
  <2>2. F[j + 1] = IF F[j] = 0 \/ Field(p, F[j], FP) = goto THEN F[j] ELSE Field(p, F[j], FP)
    <3> DEFINE i == j + 1
    <3>1. i \in 0 .. N /\ i # 0 /\ i - 1 = j
      BY <2>1
    <3> HIDE DEF i
    <3>2. F[i] = IF F[i - 1] = 0 \/ Field(p, F[i - 1], FP) = goto
                 THEN F[i - 1] ELSE Field(p, F[i - 1], FP)
      BY <1>7, <3>1
    <3> QED BY <3>1, <3>2 DEF i
  <2>3. g(j + 1) = IF g(j) = 0 \/ Field(p, g(j), FP) = goto THEN g(j) ELSE Field(p, g(j), FP)
    <3> DEFINE i == j + 1
    <3>1. i \in 1 .. N /\ i - 1 = j
      BY <2>1
    <3> HIDE DEF i
    <3>2. g(i) = IF g(j) = 0 \/ Field(p, g(j), FP) = goto THEN g(j) ELSE Field(p, g(j), FP)
      BY <1>3, <3>1
    <3> QED BY <3>2 DEF i
  <2> QED BY <2>1, <2>2, <2>3
<1>10. T = Nat
  <2>1. T \in SUBSET Nat
    OBVIOUS
  <2> HIDE DEF T
  <2> QED BY <1>8, <1>9, <2>1, Induction
<1>11. F[N] = g(N)
  BY <1>2, <1>10
<1> QED BY <1>1, <1>5, <1>11 DEF goto

LEMMA FrameIn ==
  ASSUME NEW C, NEW n \in Nat, Contexts(C, n), NEW p, Linked(C, n, p.stack), p = Now,
         p.stack \in Seq(Cells), C[n].base <= Len(p.stack), NEW i \in 1 .. n
  PROVE  C[i].f \in Frames
<1>1. /\ C[i].f \in Nat \ {0} /\ C[i].base \in Nat /\ C[n].base \in Nat
      /\ Len(C[i].pords) \in Nat /\ Len(p.stack) \in Nat
      /\ C[i].f + 5 + 2 * Len(C[i].pords) <= C[i].base /\ C[i].base <= C[n].base
  <2>1. n \in 0 .. n
    OBVIOUS
  <2> QED BY <2>1, Within
<1>2. \A f, b, w, t, l \in Nat : f + 5 + 2 * w <= b /\ b <= t /\ t <= l => f \in 0 .. l - 2
  OBVIOUS
<1>3. C[i].f \in 0 .. Len(p.stack) - 2
  BY <1>1, <1>2
<1>4. p.stack[C[i].f + 2].t = "ret"
  <2>1. Linkage(C, i, p.stack)
    BY DEF Linked
  <2>2. p.stack[C[i].f + 2] = Ret(C[i - 1].at, C[i].pords)
    BY <2>1 DEF Linkage
  <2> QED BY <2>2 DEF Ret
<1>5. p.stack = stack
  BY DEF Now
<1> QED BY <1>3, <1>4, <1>5 DEF Frames

LEMMA GotoKeeps ==
  ASSUME TameGoto = TRUE, Coupled, NEW l \in 0 .. Level(ot.home), Goto(l)
  PROVE  Coupled' /\ error' = error
<1>1. PICK C, n, p : Runs(C, n, p) /\ p = Now /\ ot = C[n].at
  BY DEF Coupled
<1> DEFINE h == C[n].at.home
           e == IF l = 0 THEN 0 ELSE C[n].dis[l]
<1>2. /\ C[n].at.part \in UserParts /\ l \in 0 .. Level(h) /\ Tame(l)
      /\ C[n].at.part = "body" => l < Level(h)
  BY <1>1 DEF Goto, InBody, UserParts, ThunkParts
<1>3. /\ n \in Nat /\ n \in 0 .. n /\ Contexts(C, n) /\ p \in State /\ p.stack \in Seq(Cells)
      /\ Linked(C, n, p.stack) /\ C[n].base <= Len(p.stack) /\ Ops(C, n, p.eis_operation)
      /\ Shown(C, n, p.display) /\ p.display[0] = 0 /\ display = p.display /\ stack = p.stack
      /\ last_frame_ptr = p.last_frame_ptr
  BY <1>1, TempsAre
<1>4. /\ Level(h) \in Nat /\ Len(C[n].dis) = Level(h)
      /\ n = 0 => h = Main /\ C[n].at.part = "body"
  BY <1>2, <1>3, UserIs
<1>5. n # 0
  <2>1. Level(Main) = 0
    BY ProgramAssumption DEF Level
  <2> QED BY <1>2, <1>4, <2>1
<1>6. ASSUME l # 0
      PROVE  /\ e \in 1 .. n /\ InBlock(C, e) /\ C[e].at.home = Path[h][l] /\ Path[h][l] \in Block
             /\ e # n /\ l \in 1 .. Len(C[n].dis)
  <2>1. l \in 1 .. Level(h)
    BY <1>2, <1>4, <1>6
  <2>2. /\ e \in 1 .. n /\ InBlock(C, e) /\ C[e].at.home = Path[h][l] /\ Path[h][l] \in Block
        /\ e = n => l = Level(h) /\ C[n].at.part = "body"
    BY <1>2, <1>3, <1>6, <2>1, UserIs
  <2> QED BY <1>2, <1>4, <2>1, <2>2
<1>7. e \in 0 .. n - 1 /\ e \in 0 .. n
  BY <1>3, <1>5, <1>6
<1>8. C[e].fp = C[e].f /\ display[l] = C[e].f
  <2>1. CASE l = 0
    BY <1>3, <2>1 DEF Contexts, Outermost
  <2>2. CASE l # 0
    BY <1>3, <1>6, <2>2 DEF InBlock, Shown
  <2> QED BY <2>1, <2>2
<1> HIDE DEF e, h
<1>9. \A i \in 1 .. n : C[i].f \in Frames /\ C[i].f \in Nat
  <2>1. \A i \in 1 .. n : C[i].f \in Frames
    BY <1>1, <1>3, FrameIn
  <2> QED BY <2>1 DEF Frames
<1>10. last_frame_ptr = C[n].f
  <2>1. n \in 1 .. n
    BY <1>3, <1>5
  <2>2. C[n].f <= last_frame_ptr
    BY <1>2, <1>9, <2>1 DEF Tame
  <2>3. PICK i \in 0 .. n : last_frame_ptr = C[i].f
    BY <1>1, <1>3 DEF Runs
  <2>4. i # n => C[i].f < C[n].f
    BY <1>3, Spaced
  <2>5. C[i].f \in Nat /\ C[n].f \in Nat
    BY <1>3, Typed
  <2> QED BY <2>2, <2>3, <2>4, <2>5
<1>11. ASSUME NEW i \in e .. n - 1 PROVE C[i].fp = C[i].f
  <2>1. CASE i = e
    BY <1>8, <2>1
  <2>2. CASE i # e
    <3>1. i \in 1 .. n /\ i \in 0 .. n /\ e < i /\ i < n /\ i \in 0 .. n - 1
      BY <1>3, <1>7, <2>2
    <3>2. C[e].f < C[i].f /\ C[i].f < C[n].f /\ C[i].f \in Nat /\ C[e].f \in Nat /\ C[n].f \in Nat
      BY <1>3, <1>7, <3>1, Spaced, Typed
    <3>3. C[i].f > display[l] /\ C[i].f # last_frame_ptr /\ C[i].f \in Frames
      BY <1>8, <1>9, <1>10, <3>1, <3>2
    <3>4. Get(Now, C[i].f - 1) = Null
      BY <1>2, <3>3 DEF Tame
    <3>5. C[i].f - 1 + 1 = C[i].f
      BY <3>2
    <3>6. p.stack[C[i].f] = Null
      BY <1>1, <3>4, <3>5 DEF Get
    <3>7. C[i].at.part \notin ThunkParts /\ C[i].at.home \notin StdFun
      BY <1>3, <3>1, <3>6 DEF Linked, Linkage
    <3>8. Calls(C[i])
      BY <1>3, <3>1, Caller
    <3>9. C[i].at.part = "body"
      <4>1. C[i].at.part = "std" => C[i].at.home \in StdFun
        BY <1>3, <3>1, Which DEF InStd
      <4> QED BY <3>7, <3>8, <4>1 DEF Calls, UserParts
    <3>10. InBlock(C, i)
      BY <1>3, <3>1, <3>9, Which
    <3> QED BY <3>10 DEF InBlock
  <2> QED BY <2>1, <2>2
<1> DEFINE s == [p EXCEPT !.frame_ptr = last_frame_ptr]
           r == [s EXCEPT !.frame_ptr = C[e + 1].f]
<1>12. /\ s \in State /\ s.stack = p.stack /\ s.frame_ptr = C[n].f
  BY <1>3, <1>10 DEF State
<1>13. CalledFrom(s, C[e].f) = C[e + 1].f
  <2> HIDE DEF s
  <2>1. /\ s.stack \in Seq(Cells) /\ Linked(C, n, s.stack) /\ C[n].base <= Len(s.stack)
    BY <1>3, <1>12
  <2> QED BY <1>3, <1>7, <1>11, <1>12, <2>1, CalledFromIs
<1>14. C[e + 1].f # 0 /\ C[e + 1].f \in Nat
  <2> DEFINE i == e + 1
  <2>1. i \in 1 .. n
    BY <1>3, <1>7
  <2> HIDE DEF i
  <2>2. C[i].f \in Nat \ {0}
    BY <1>3, <2>1, Within
  <2> QED BY <2>2 DEF i
<1>15. Continue(Pop(FrameRelease(r)), At(IF l = 0 THEN Main ELSE Path[h][l], "body"))
  BY <1>1, <1>8, <1>13, <1>14 DEF Goto, h
<1>16. /\ r \in State /\ r.frame_ptr = C[e + 1].f /\ r.stack = p.stack
       /\ r.eis_operation = p.eis_operation /\ r.display = p.display
  BY <1>3, <1>14 DEF State
<1> HIDE DEF s, r
<1>17. PICK Y \in [0 .. MaxLevel -> Nat] :
         FrameRelease(r) = Rolled(C, e, r, Y) /\ Shown(C, e, Y) /\ Y[0] = 0
  <2>1. Linked(C, n, r.stack) /\ C[n].base <= Len(r.stack) /\ r.display[0] = 0
    BY <1>3, <1>16
  <2>2. \E Y \in [0 .. MaxLevel -> Nat] :
          /\ FrameRelease(r) = Rolled(C, e, r, Y) /\ ReturnAddress(r) = C[e].at
          /\ Shown(C, e, Y) /\ Y[0] = r.display[0]
    BY <1>3, <1>7, <1>16, <2>1, Released
  <2> QED BY <2>1, <2>2
<1>18. Runs(C, e, Pop(FrameRelease(r)))
  <2>1. Linked(C, n, r.stack) /\ C[n].base <= Len(r.stack) /\ Ops(C, n, r.eis_operation)
    BY <1>3, <1>16
  <2>2. Runs(C, e, Pop(Rolled(C, e, r, Y)))
    BY <1>3, <1>7, <1>16, <1>17, <2>1, LeavesNothing
  <2> QED BY <1>17, <2>2
<1>19. C[e].at = At(IF l = 0 THEN Main ELSE Path[h][l], "body")
  <2>1. C[e].at \in Code /\ Calls(C[e])
    BY <1>3, <1>7, Typed, Caller
  <2>2. C[e].at.home = IF l = 0 THEN Main ELSE Path[h][l]
    <3>1. l = 0 => e = 0
      BY DEF e
    <3> QED BY <1>3, <1>6, <3>1 DEF Contexts, Outermost, e, h
  <2>3. C[e].at.part = "body"
    <3>1. CASE l = 0
      <4>1. e = 0
        BY <3>1 DEF e
      <4> QED BY <1>3, <2>1, <4>1 DEF Contexts, Outermost, Calls, UserParts, ThunkParts
    <3>2. CASE l # 0
      BY <1>6, <2>1, <3>2 DEF InBlock, Calls, UserParts, ThunkParts
    <3> QED BY <3>1, <3>2
  <2> QED BY <2>1, <2>2, <2>3 DEF Code, At
<1> QED BY <1>15, <1>18, <1>19, Continues

-----------------------------------------------------------------------------
(***************************************************************************)
(* A new frame.                                                            *)
(***************************************************************************)
LEMMA PointerFits ==
  ASSUME NEW C, NEW n \in Nat, Contexts(C, n), NEW st \in Seq(Cells), C[n].base <= Len(st),
         Len(st) < 2^FP_BITS, NEW k \in 0 .. n
  PROVE  C[k].fp \in Nat /\ C[k].fp < 2^FP_BITS
<1>1. PICK i \in 0 .. k : C[k].fp = C[i].f
  BY Pointer
<1>2. i \in 0 .. n /\ n \in 0 .. n /\ i \in Nat /\ (i = 0 \/ i \in 1 .. n)
  OBVIOUS
<1>3. C[i].f \in Nat /\ C[n].base \in Nat /\ Len(st) \in Nat /\ 2^FP_BITS \in Nat
  BY <1>2, Typed, RunTimeAssumption
<1>4. C[i].f <= C[n].base
  <2>1. CASE i = 0
    BY <1>3, <2>1 DEF Contexts, Outermost
  <2>2. CASE i \in 1 .. n
    <3>1. /\ C[i].base \in Nat /\ Len(C[i].pords) \in Nat
          /\ C[i].f + 5 + 2 * Len(C[i].pords) <= C[i].base /\ C[i].base <= C[n].base
      BY <1>2, <2>2, Within
    <3>2. \A f, b, v, t \in Nat : f + 5 + 2 * v <= b /\ b <= t => f <= t
      OBVIOUS
    <3> QED BY <1>3, <3>1, <3>2
  <2> QED BY <1>2, <2>1, <2>2
<1>5. \A f, b, l, m \in Nat : f <= b /\ b <= l /\ l < m => f < m
  OBVIOUS
<1>6. C[i].f < 2^FP_BITS
  BY <1>3, <1>4, <1>5
<1> QED BY <1>1, <1>3, <1>6

Joined(s, t) == s \o t

LEMMA JoinedIs ==
  ASSUME NEW s \in Seq(Cells), NEW t \in Seq(Cells)
  PROVE  /\ Joined(s, t) \in Seq(Cells) /\ Len(Joined(s, t)) = Len(s) + Len(t)
         /\ \A a \in 1 .. Len(s) : Joined(s, t)[a] = s[a]
         /\ \A a \in 1 .. Len(t) : Joined(s, t)[Len(s) + a] = t[a]
<1>1. s \o t \in Seq(Cells) /\ Len(s \o t) = Len(s) + Len(t)
  OBVIOUS
<1>2. Len(s) \in Nat /\ Len(t) \in Nat
  OBVIOUS
<1>3. \A a \in 1 .. Len(s) : (s \o t)[a] = s[a]
  OBVIOUS
<1>4. ASSUME NEW a \in 1 .. Len(t) PROVE (s \o t)[Len(s) + a] = t[a]
  <2> DEFINE b == Len(s) + a
  <2>1. b \in 1 .. Len(s) + Len(t) /\ ~ (b <= Len(s)) /\ b - Len(s) = a
    BY <1>2
  <2> HIDE DEF b
  <2>2. (s \o t)[b] = t[b - Len(s)]
    BY <2>1
  <2> QED BY <2>1, <2>2 DEF b
<1> QED BY <1>1, <1>3, <1>4 DEF Joined

LEMMA PushIs ==
  ASSUME NEW p \in State, NEW c
  PROVE  Push(p, c) = [stack |-> Append(p.stack, c), frame_ptr |-> p.frame_ptr,
                       last_frame_ptr |-> p.last_frame_ptr, stack_base |-> p.stack_base,
                       display |-> p.display, eis_operation |-> p.eis_operation]
<1>1. \A s : Stacked(p, s) = [stack |-> s, frame_ptr |-> p.frame_ptr,
                       last_frame_ptr |-> p.last_frame_ptr, stack_base |-> p.stack_base,
                       display |-> p.display, eis_operation |-> p.eis_operation]
  BY DEF Stacked, State
<1>2. Push(p, c) = Stacked(p, Append(p.stack, c))
  BY DEF Push, Stacked
<1> QED BY <1>1, <1>2

(* st is the stack of p, of w cells, after a call with num parameters. *)
Grown(C, n, p, result, pords, w, num, st) ==
  /\ result \in {Null, Val(0)} /\ pords \in Seq(PordSet) /\ num = Len(pords)
  /\ w = Len(p.stack) /\ w < 2^FP_BITS
  /\ st = FrameCreate(Push(p, result), Ret(C[n].at, pords), num).stack

(* Its cells. *)
Extended(p, c, result, pords, w, num, st) ==
  /\ w \in Nat /\ num \in Nat /\ st \in Seq(Cells) /\ Len(st) = w + 6 + 2 * num
  /\ \A a \in 1 .. w : st[a] = p.stack[a]
  /\ st[w + 1] = result /\ st[w + 2] = Addr(c.fp) /\ st[w + 3] = Ret(c.at, pords)
  /\ st[w + 4] = Addr(c.base) /\ st[w + 5] = Addr(0) /\ st[w + 6] = Addr(0)
  /\ \A j \in 1 .. num : /\ st[w + 5 + 2 * j] = Val(0)
                         /\ st[w + 6 + 2 * j] = Addr(Pard(Len(c.dis), c.fp))

LEMMA GrownIs ==
  ASSUME NEW C, NEW n, NEW p, Runs(C, n, p), Calls(C[n]), NEW result, NEW pords, NEW num, NEW w,
         NEW st, Grown(C, n, p, result, pords, w, num, st)
  PROVE  Extended(p, C[n], result, pords, w, num, st)
<1> DEFINE q == Push(p, result)
           a == Append(p.stack, result)
           pard == Addr(Pard(BlockLevel(q), q.frame_ptr))
           b == <<Addr(C[n].fp), Ret(C[n].at, pords), Addr(C[n].base), Addr(0), Addr(0)>>
           e == [i \in 1 .. 2 * num |-> IF i % 2 = 1 THEN Val(0) ELSE pard]
<1>22. /\ result \in {Null, Val(0)} /\ pords \in Seq(PordSet) /\ num = Len(pords)
       /\ w = Len(p.stack) /\ w < 2^FP_BITS
       /\ st = FrameCreate(Push(p, result), Ret(C[n].at, pords), num).stack
  BY DEF Grown
<1>1. /\ n \in Nat /\ n \in 0 .. n /\ p \in State /\ Contexts(C, n) /\ Linked(C, n, p.stack)
      /\ p.frame_ptr = C[n].fp /\ p.stack_base = C[n].base /\ C[n].base <= Len(p.stack)
  BY DEF Runs, Laid
<1>2. /\ p.stack \in Seq(Cells) /\ w \in Nat /\ num \in Nat
      /\ C[n].fp \in Nat /\ C[n].base \in Nat /\ C[n].at \in Code /\ Len(C[n].dis) \in Nat
  BY <1>1, <1>22, Typed DEF State
<1>3. a \in Seq(Cells) /\ Len(a) = w + 1 /\ a[w + 1] = result /\ \A i \in 1 .. w : a[i] = p.stack[i]
  BY <1>2, <1>22, CellTypes
<1>0. q = [stack |-> a, frame_ptr |-> C[n].fp, last_frame_ptr |-> p.last_frame_ptr,
            stack_base |-> C[n].base, display |-> p.display, eis_operation |-> p.eis_operation]
  BY <1>1, PushIs
<1>4. q.stack = a /\ q.frame_ptr = C[n].fp /\ q.stack_base = C[n].base
  BY <1>0
<1> HIDE DEF a
<1>5. st = a \o (b \o e)
  <2>1. /\ Addr(q.frame_ptr) = Addr(C[n].fp) /\ Addr(q.stack_base) = Addr(C[n].base)
    BY <1>4
  <2> HIDE DEF q
  <2>2. FrameCreate(q, Ret(C[n].at, pords), num).stack
          = q.stack \o (<<Addr(q.frame_ptr), Ret(C[n].at, pords), Addr(q.stack_base), Addr(0), Addr(0)>>
                         \o e)
    BY <1>0, <1>4 DEF FrameCreate, SetOperation
  <2> HIDE DEF e
  <2>3. st = FrameCreate(q, Ret(C[n].at, pords), num).stack
    BY <1>22 DEF q
  <2> QED BY <1>4, <2>1, <2>2, <2>3
<1> HIDE DEF q
<1>6. BlockLevel(q) = Len(C[n].dis)
  <2>1. Alike(p.stack, a, C[n].base)
    <3>1. \A i \in 1 .. C[n].base : i \in 1 .. w
      BY <1>1, <1>2, <1>22
    <3> QED BY <1>3, <3>1 DEF Alike
  <2>2. C \in [Nat -> Context] /\ Same(C, C, n)
    BY <1>1 DEF Contexts, Same
  <2>3. Linked(C, n, a)
    BY <1>1, <2>1, <2>2, Below
  <2> QED BY <1>1, <1>4, <2>3, BlockLevelIs
<1>7. pard = Addr(Pard(Len(C[n].dis), C[n].fp)) /\ pard \in Cells
  <2>1. Pard(Len(C[n].dis), C[n].fp) \in Nat
    <3>1. C[n].fp < 2^FP_BITS
      BY <1>1, <1>2, <1>22, PointerFits
    <3> QED BY <1>2, <3>1, PardIs
  <2> QED BY <1>4, <1>6, <2>1, CellTypes
<1> HIDE DEF pard
<1>8. b \in Seq(Cells) /\ Len(b) = 5
  <2>1. /\ Addr(C[n].fp) \in Cells /\ Ret(C[n].at, pords) \in Cells /\ Addr(C[n].base) \in Cells
        /\ Addr(0) \in Cells
    BY <1>2, <1>22, CellTypes
  <2> QED BY <2>1
<1>9. /\ b[1] = Addr(C[n].fp) /\ b[2] = Ret(C[n].at, pords) /\ b[3] = Addr(C[n].base)
      /\ b[4] = Addr(0) /\ b[5] = Addr(0)
  OBVIOUS
<1>10. e \in Seq(Cells) /\ Len(e) = 2 * num
  <2>1. 2 * num \in Nat /\ \A i \in 1 .. 2 * num : e[i] \in Cells
    BY <1>2, <1>7, CellTypes
  <2>2. e \in [1 .. 2 * num -> Cells]
    BY <2>1
  <2> HIDE DEF e
  <2> QED BY <2>1, <2>2
<1>11. \A j \in 1 .. num : e[2 * j - 1] = Val(0) /\ e[2 * j] = pard
  <2> SUFFICES ASSUME NEW j \in 1 .. num PROVE e[2 * j - 1] = Val(0) /\ e[2 * j] = pard
    OBVIOUS
  <2>1. /\ 2 * j - 1 \in 1 .. 2 * num /\ 2 * j \in 1 .. 2 * num
        /\ (2 * j - 1) % 2 = 1 /\ (2 * j) % 2 = 0
    BY <1>2
  <2> QED BY <2>1
<1> HIDE DEF b, e
<1> DEFINE d == Joined(b, e)
<1>12. /\ d \in Seq(Cells) /\ Len(d) = 5 + 2 * num
       /\ \A i \in 1 .. 5 : d[i] = b[i]
       /\ \A i \in 1 .. 2 * num : d[5 + i] = e[i]
  <2>0. b \in Seq(Cells) /\ e \in Seq(Cells)
    BY <1>8, <1>10
  <2>2. /\ Joined(b, e) \in Seq(Cells) /\ Len(Joined(b, e)) = Len(b) + Len(e)
        /\ \A i \in 1 .. Len(b) : Joined(b, e)[i] = b[i]
        /\ \A i \in 1 .. Len(e) : Joined(b, e)[Len(b) + i] = e[i]
    BY <2>0, JoinedIs
  <2>1. /\ d \in Seq(Cells) /\ Len(d) = Len(b) + Len(e)
        /\ \A i \in 1 .. Len(b) : d[i] = b[i]
        /\ \A i \in 1 .. Len(e) : d[Len(b) + i] = e[i]
    BY <2>2
  <2> HIDE DEF d
  <2> QED BY <1>8, <1>10, <2>1
<1> HIDE DEF d
<1>13. st = Joined(a, d)
  BY <1>5 DEF d, Joined
<1>19. \A v, k \in Nat : \A j \in 1 .. k :
          /\ 2 * j - 1 \in 1 .. 2 * k /\ 2 * j \in 1 .. 2 * k
          /\ v + 6 + (2 * j - 1) = v + 5 + 2 * j
  OBVIOUS
<1>20. \A v, k \in Nat : \A i \in 1 .. 2 * k :
          5 + i \in 1 .. 5 + 2 * k /\ (v + 1) + (5 + i) = v + 6 + i
  OBVIOUS
<1>21. \A v, k \in Nat :
          /\ (v + 1) + 1 = v + 2 /\ (v + 1) + 2 = v + 3 /\ (v + 1) + 3 = v + 4
          /\ (v + 1) + 4 = v + 5 /\ (v + 1) + 5 = v + 6 /\ (v + 1) + (5 + 2 * k) = v + 6 + 2 * k
          /\ v + 1 \in 1 .. v + 1 /\ \A i \in 1 .. v : i \in 1 .. v + 1
  OBVIOUS
<1>14. /\ st \in Seq(Cells) /\ Len(st) = (w + 1) + (5 + 2 * num)
       /\ \A i \in 1 .. w + 1 : st[i] = a[i]
       /\ \A i \in 1 .. 5 + 2 * num : st[(w + 1) + i] = d[i]
  <2>0. a \in Seq(Cells) /\ d \in Seq(Cells)
    BY <1>3, <1>12
  <2>2. /\ Joined(a, d) \in Seq(Cells) /\ Len(Joined(a, d)) = Len(a) + Len(d)
        /\ \A i \in 1 .. Len(a) : Joined(a, d)[i] = a[i]
        /\ \A i \in 1 .. Len(d) : Joined(a, d)[Len(a) + i] = d[i]
    BY <2>0, JoinedIs
  <2>1. /\ st \in Seq(Cells) /\ Len(st) = Len(a) + Len(d)
        /\ \A i \in 1 .. Len(a) : st[i] = a[i]
        /\ \A i \in 1 .. Len(d) : st[Len(a) + i] = d[i]
    BY <1>13, <2>2
  <2> QED BY <1>3, <1>12, <2>1
<1>15. \A i \in 1 .. 5 : st[(w + 1) + i] = b[i]
  <2>1. \A i \in 1 .. 5 : i \in 1 .. 5 + 2 * num
    BY <1>2
  <2> QED BY <1>12, <1>14, <2>1
<1>16. \A j \in 1 .. num : /\ st[w + 5 + 2 * j] = Val(0)
                           /\ st[w + 6 + 2 * j] = pard
  <2> SUFFICES ASSUME NEW j \in 1 .. num
               PROVE  st[w + 5 + 2 * j] = Val(0) /\ st[w + 6 + 2 * j] = pard
    OBVIOUS
  <2>1. ASSUME NEW i \in 1 .. 2 * num PROVE st[w + 6 + i] = e[i]
    <3>1. 5 + i \in 1 .. 5 + 2 * num /\ (w + 1) + (5 + i) = w + 6 + i
      BY <1>2, <1>20
    <3>2. st[(w + 1) + (5 + i)] = d[5 + i] /\ d[5 + i] = e[i]
      BY <1>12, <1>14, <3>1
    <3> QED BY <3>1, <3>2
  <2>2. /\ 2 * j - 1 \in 1 .. 2 * num /\ 2 * j \in 1 .. 2 * num
        /\ w + 6 + (2 * j - 1) = w + 5 + 2 * j
    BY <1>2, <1>19
  <2>3. st[w + 6 + (2 * j - 1)] = Val(0) /\ st[w + 6 + 2 * j] = pard
    BY <1>11, <2>1, <2>2
  <2> QED BY <2>2, <2>3
<1>17. /\ (w + 1) + 1 = w + 2 /\ (w + 1) + 2 = w + 3 /\ (w + 1) + 3 = w + 4
       /\ (w + 1) + 4 = w + 5 /\ (w + 1) + 5 = w + 6 /\ (w + 1) + (5 + 2 * num) = w + 6 + 2 * num
       /\ w + 1 \in 1 .. w + 1 /\ \A i \in 1 .. w : i \in 1 .. w + 1
  BY <1>2, <1>21
<1>18. /\ st[(w + 1) + 1] = b[1] /\ st[(w + 1) + 2] = b[2] /\ st[(w + 1) + 3] = b[3]
       /\ st[(w + 1) + 4] = b[4] /\ st[(w + 1) + 5] = b[5]
  BY <1>15
<1> QED BY <1>2, <1>3, <1>7, <1>9, <1>14, <1>16, <1>17, <1>18 DEF Extended

(* The post-operations, with one of them set. *)
Operations == UNION {[D -> PostOps] : D \in SUBSET Nat}

WithOperation(eis, base, op) == [b \in DOMAIN eis \cup {base} |-> IF b = base THEN op ELSE eis[b]]

LEMMA WithOperationIs ==
  ASSUME NEW eis \in Operations, NEW base \in Nat, NEW op \in PostOps
  PROVE  /\ WithOperation(eis, base, op) \in Operations
         /\ base \in DOMAIN WithOperation(eis, base, op) /\ WithOperation(eis, base, op)[base] = op
         /\ \A b \in DOMAIN eis : /\ b \in DOMAIN WithOperation(eis, base, op)
                                  /\ b # base => WithOperation(eis, base, op)[b] = eis[b]
<1> DEFINE e == WithOperation(eis, base, op)
<1>1. PICK D \in SUBSET Nat : eis \in [D -> PostOps]
  BY DEF Operations
<1>2. e \in [D \cup {base} -> PostOps]
  BY <1>1 DEF WithOperation
<1>3. D \cup {base} \in SUBSET Nat
  OBVIOUS
<1>4. e \in Operations
  BY <1>2, <1>3 DEF Operations
<1> QED BY <1>1, <1>4 DEF WithOperation

(* The processor after a frame has been created, and more has been set. *)
Made(p, st, f, base, fp, Y, op) ==
  [stack |-> st, frame_ptr |-> fp, last_frame_ptr |-> f, stack_base |-> base, display |-> Y,
   eis_operation |-> WithOperation(p.eis_operation, base, op)]

(* Context n calls: c is the new context, op what is done when it is left. *)
Enters(C, n, p, result, pords, w, num, st, c, D, op, Y) ==
  /\ Runs(C, n, p) /\ Calls(C[n]) /\ Grown(C, n, p, result, pords, w, num, st)
  /\ c \in Context /\ c.f = w + 1 /\ c.base = w + 6 + 2 * num /\ c.pords = pords /\ ~ Entered(c)
  /\ Replaces(C, D, n + 1, c) /\ Sound(D, n + 1)
  /\ c.at.part \in ThunkParts \/ c.at.home \in StdFun => result # Null
  /\ op \in PostOps \ {"PUSH_ADDRESS", "REMOVE_ARG"}
  /\ Combines(op) => C[n].base < w
  /\ op \in {"PUSH_DEREF", "ADD_DEREF"} <=> c.at.part = "address"
  /\ Y \in [0 .. MaxLevel -> Nat] /\ Y[0] = 0 /\ Shown(D, n + 1, Y)

LEMMA Entering ==
  ASSUME NEW C, NEW n, NEW p, NEW result, NEW pords, NEW w, NEW num, NEW st, NEW c, NEW D,
         NEW op, NEW Y, Enters(C, n, p, result, pords, w, num, st, c, D, op, Y)
  PROVE  Runs(D, n + 1, Made(p, st, w + 1, c.base, c.fp, Y, op)) /\ D[n + 1] = c
<1> SUFFICES ASSUME Runs(C, n, p), Calls(C[n]), Grown(C, n, p, result, pords, w, num, st),
         c \in Context, c.f = w + 1, c.base = w + 6 + 2 * num, c.pords = pords, ~ Entered(c),
         Replaces(C, D, n + 1, c), Sound(D, n + 1),
         c.at.part \in ThunkParts \/ c.at.home \in StdFun => result # Null,
         op \in PostOps \ {"PUSH_ADDRESS", "REMOVE_ARG"},
         Combines(op) => C[n].base < w,
         op \in {"PUSH_DEREF", "ADD_DEREF"} <=> c.at.part = "address",
         Y \in [0 .. MaxLevel -> Nat], Y[0] = 0, Shown(D, n + 1, Y)
             PROVE  Runs(D, n + 1, Made(p, st, w + 1, c.base, c.fp, Y, op)) /\ D[n + 1] = c
  BY DEF Enters
<1> DEFINE m == n + 1
           q == Made(p, st, w + 1, c.base, c.fp, Y, op)
<1>1. /\ n \in Nat /\ n \in 0 .. n /\ p \in State /\ Contexts(C, n) /\ Linked(C, n, p.stack)
      /\ C[n].base <= Len(p.stack) /\ Operands(C, n, Len(p.stack), p.stack)
      /\ Ops(C, n, p.eis_operation)
  BY DEF Runs, Laid
<1>2. m \in Nat /\ m \in 1 .. n + 1 /\ m - 1 = n /\ m \in 0 .. m
  BY <1>1
<1>3. C[n].base \in Nat /\ c.base \in Nat /\ c.fp \in Nat /\ c.f \in Nat
  BY <1>1, Typed DEF Context
<1>4. /\ w \in Nat /\ num \in Nat /\ st \in Seq(Cells) /\ Len(st) = w + 6 + 2 * num
      /\ \A a \in 1 .. w : st[a] = p.stack[a]
      /\ st[w + 1] = result /\ st[w + 2] = Addr(C[n].fp) /\ st[w + 3] = Ret(C[n].at, pords)
      /\ st[w + 4] = Addr(C[n].base) /\ st[w + 5] = Addr(0) /\ st[w + 6] = Addr(0)
      /\ \A j \in 1 .. num : /\ st[w + 5 + 2 * j] = Val(0)
                             /\ st[w + 6 + 2 * j] = Addr(Pard(Len(C[n].dis), C[n].fp))
  <2>1. Runs(C, n, p) /\ Calls(C[n]) /\ Grown(C, n, p, result, pords, w, num, st)
    OBVIOUS
  <2>2. Extended(p, C[n], result, pords, w, num, st)
    BY ONLY <2>1, GrownIs
  <2> QED BY <2>2 DEF Extended
<1>16. w = Len(p.stack) /\ num = Len(pords) /\ result \in {Null, Val(0)}
  BY DEF Grown
<1>5. Replaces(C, D, m, c) /\ Sound(D, m) /\ Shown(D, m, Y)
  OBVIOUS
<1> HIDE DEF m
<1>6. Alike(p.stack, st, C[m - 1].base)
  <2>1. \A a \in 1 .. C[n].base : a \in 1 .. w
    BY <1>1, <1>3, <1>4, <1>16
  <2> QED BY <1>2, <1>4, <2>1 DEF Alike
<1>7. Operands(C, m - 1, c.f - 1, st)
  <2>1. \A a \in C[n].base + 1 .. w : a \in 1 .. w
    BY <1>3, <1>4
  <2>2. c.f - 1 = w
    BY <1>4
  <2> QED BY <1>1, <1>2, <1>4, <1>16, <2>1, <2>2 DEF Operands
<1>8. D[m] = c /\ \A i \in 0 .. n : D[i] = C[i]
  <2>1. C \in [Nat -> Context]
    BY <1>1 DEF Contexts
  <2>2. \A i \in 0 .. n : i \in Nat /\ i # m
    BY <1>1, <1>2
  <2> QED BY <1>2, <1>5, <2>1, <2>2 DEF Replaces
<1>9. Linkage(D, m, st)
  <2>1. D[m - 1] = C[n]
    BY <1>1, <1>2, <1>8
  <2>2. \A v \in Nat : /\ (v + 1) + 1 = v + 2 /\ (v + 1) + 2 = v + 3 /\ (v + 1) + 3 = v + 4
                       /\ (v + 1) + 4 = v + 5 /\ (v + 1) + 5 = v + 6
    OBVIOUS
  <2>3. /\ c.f + 1 = w + 2 /\ c.f + 2 = w + 3 /\ c.f + 3 = w + 4 /\ c.f + 4 = w + 5
        /\ c.f + 5 = w + 6
    BY <1>4, <2>2
  <2>4. \A v, k \in Nat : \A j \in 1 .. k : /\ (v + 1) + 4 + 2 * j = v + 5 + 2 * j
                                            /\ (v + 1) + 5 + 2 * j = v + 6 + 2 * j
    OBVIOUS
  <2>5. \A j \in 1 .. num : c.f + 4 + 2 * j = w + 5 + 2 * j /\ c.f + 5 + 2 * j = w + 6 + 2 * j
    BY <1>4, <2>4
  <2>6. \A v, k \in Nat : (v + 1) + 6 + 2 * k .. v + 6 + 2 * k = {}
    OBVIOUS
  <2>7. c.f + 6 + 2 * num .. c.base = {}
    BY <1>4, <2>6
  <2>8. \A j \in 1 .. num : /\ Number(st[c.f + 4 + 2 * j])
                            /\ st[c.f + 5 + 2 * j] = Addr(Pard(Len(C[n].dis), C[n].fp))
    BY <1>4, <2>5, CellTypes
  <2>9. st[c.f] = Null \/ Number(st[c.f])
    BY <1>4, <1>16, CellTypes
  <2>10. st[c.f + 5].t = "addr" /\ st[c.f + 5].v \in Nat
    <3>1. st[c.f + 5] = Addr(0)
      BY <1>4, <2>3
    <3> QED BY <3>1 DEF Addr
  <2>11. \A a \in c.f + 6 + 2 * num .. c.base : Number(st[a])
    BY <2>7
  <2>12. /\ st[c.f + 1] = Addr(C[n].fp) /\ st[c.f + 2] = Ret(C[n].at, pords)
         /\ st[c.f + 3] = Addr(C[n].base) /\ st[c.f + 4] = Addr(0) /\ st[c.f] = result
    BY <1>4, <2>3
  <2> QED BY <1>8, <1>16, <2>1, <2>8, <2>9, <2>10, <2>11, <2>12 DEF Linkage
<1>10. Contexts(D, m) /\ Linked(D, m, st)
  <2>1. /\ n \in Nat /\ Contexts(C, n) /\ m \in 1 .. n + 1 /\ c \in Context
        /\ Replaces(C, D, m, c) /\ Linked(C, n, p.stack)
        /\ Alike(p.stack, st, C[m - 1].base) /\ Operands(C, m - 1, c.f - 1, st)
        /\ Sound(D, m) /\ Linkage(D, m, st)
    BY <1>1, <1>2, <1>5, <1>6, <1>7, <1>9
  <2> QED BY <2>1, OnTop
<1>11. Laid(D, m, st)
  <2>1. c.base <= Len(st) /\ c.base + 1 .. Len(st) = {}
    <3>1. \A b \in Nat : b <= b /\ b + 1 .. b = {}
      OBVIOUS
    <3> QED BY <1>3, <1>4, <3>1
  <2> QED BY <1>8, <1>10, <2>1 DEF Laid, Operands
<1>12. /\ q \in State /\ q.stack = st /\ q.frame_ptr = c.fp /\ q.last_frame_ptr = c.f
       /\ q.stack_base = c.base /\ q.display = Y
       /\ q.eis_operation = WithOperation(p.eis_operation, c.base, op)
  <2>1. p.eis_operation \in Operations
    BY <1>1 DEF State, Operations
  <2>2. WithOperation(p.eis_operation, c.base, op) \in Operations
    BY <1>3, <2>1, WithOperationIs
  <2> QED BY <1>3, <1>4, <2>2 DEF Made, State, Operations
<1>13. Ops(D, m, q.eis_operation)
  <2> DEFINE e == WithOperation(p.eis_operation, c.base, op)
  <2>1. p.eis_operation \in Operations
    BY <1>1 DEF State, Operations
  <2>2. /\ c.base \in DOMAIN e /\ e[c.base] = op
        /\ \A b \in DOMAIN p.eis_operation : /\ b \in DOMAIN e
                                             /\ b # c.base => e[b] = p.eis_operation[b]
    <3>1. c.base \in Nat /\ op \in PostOps
      BY <1>3
    <3> QED BY <2>1, <3>1, WithOperationIs
  <2> HIDE DEF e
  <2>3. ASSUME NEW i \in 1 .. n
        PROVE  LET x == e[D[i].base]
               IN /\ D[i].base \in DOMAIN e /\ x \in PostOps \ {"PUSH_ADDRESS"}
                  /\ Combines(x) => D[i - 1].base + 1 < D[i].f
                  /\ x = "REMOVE_ARG" <=> D[i].at.part = "std"
                  /\ x \in {"PUSH_DEREF", "ADD_DEREF"} <=> D[i].at.part = "address"
    <3>1. i \in 0 .. n /\ i - 1 \in 0 .. n
      BY <1>1
    <3>2. D[i] = C[i] /\ D[i - 1] = C[i - 1]
      BY <1>8, <3>1
    <3>3. C[i].base # c.base
      <4>1. C[i].base \in Nat /\ C[i].base <= C[n].base
        BY <1>1, <3>1, Within
      <4>2. \A b, t, v, k \in Nat : b <= t /\ t <= v => b # v + 6 + 2 * k
        OBVIOUS
      <4>3. C[n].base \in Nat /\ C[n].base <= w /\ w \in Nat /\ num \in Nat
        BY <1>1, <1>3, <1>4, <1>16
      <4>4. c.base = w + 6 + 2 * num
        OBVIOUS
      <4> QED BY <4>1, <4>2, <4>3, <4>4
    <3>4. C[i].base \in DOMAIN p.eis_operation
      BY <1>1 DEF Ops
    <3>5. e[C[i].base] = p.eis_operation[C[i].base] /\ C[i].base \in DOMAIN e
      BY <2>2, <3>3, <3>4
    <3> QED BY <1>1, <3>2, <3>5 DEF Ops
  <2>4. LET x == e[D[m].base]
        IN /\ D[m].base \in DOMAIN e /\ x \in PostOps \ {"PUSH_ADDRESS"}
           /\ Combines(x) => D[m - 1].base + 1 < D[m].f
           /\ x = "REMOVE_ARG" <=> D[m].at.part = "std"
           /\ x \in {"PUSH_DEREF", "ADD_DEREF"} <=> D[m].at.part = "address"
    <3>1. D[m - 1] = C[n] /\ D[m] = c /\ e[c.base] = op
      BY <1>1, <1>2, <1>8, <2>2
    <3>2. Combines(op) => C[n].base + 1 < c.f
      BY <1>3, <1>4
    <3>3. c.at.part # "std" /\ op # "REMOVE_ARG"
      BY DEF Entered
    <3> QED BY <2>2, <3>1, <3>2, <3>3
  <2>5. \A i \in 1 .. m : i = m \/ i \in 1 .. n
    BY <1>1, <1>2
  <2> QED BY <1>12, <2>3, <2>4, <2>5 DEF Ops, e
<1>14. c.f \in {D[i].f : i \in 0 .. m}
  BY <1>2, <1>8
<1> HIDE DEF q
<1>15. Runs(D, m, q)
  BY <1>2, <1>5, <1>8, <1>10, <1>11, <1>12, <1>13, <1>14 DEF Runs
<1> QED BY <1>8, <1>15 DEF m, q

(* A new context with the display of context k. *)
LEMMA NewDisplay ==
  ASSUME NEW C, NEW n \in Nat, Contexts(C, n), NEW k \in 0 .. n, NEW c \in Context,
         c.dis = C[k].dis, NEW D, Replaces(C, D, n + 1, c)
  PROVE  /\ D[n + 1] = c /\ \A i \in 0 .. n : D[i] = C[i]
         /\ Nested(D, n + 1)
         /\ \A l \in 1 .. Len(C[k].dis) : D[c.dis[l]] = C[C[k].dis[l]]
         /\ \A b : \A top \in Int : Encloses(C, k, b, top) => Encloses(D, n + 1, b, top)
         /\ \A Y : Shown(C, k, Y) => Shown(D, n + 1, Y)
<1> DEFINE m == n + 1
<1>1. m \in Nat /\ m > n
  OBVIOUS
<1>2. Replaces(C, D, m, c)
  OBVIOUS
<1> HIDE DEF m
<1>3. D[m] = c /\ \A i \in 0 .. n : D[i] = C[i]
  <2>1. C \in [Nat -> Context] /\ \A i \in 0 .. n : i \in Nat /\ i # m
    BY <1>1 DEF Contexts
  <2> QED BY <1>1, <1>2, <2>1 DEF Replaces
<1>4. Len(C[k].dis) \in Nat
  BY Typed
<1>5. ASSUME NEW l \in 1 .. Len(C[k].dis)
      PROVE  /\ C[k].dis[l] \in 1 .. m /\ D[C[k].dis[l]] = C[C[k].dis[l]]
             /\ Entered(C[C[k].dis[l]]) /\ Len(C[C[k].dis[l]].dis) = l
             /\ \A j \in 1 .. l : C[C[k].dis[l]].dis[j] = C[k].dis[j]
             /\ Len(C[k].dis) <= MaxLevel
  <2>1. /\ C[k].dis[l] \in 1 .. n /\ C[k].dis[l] \in 0 .. n
        /\ Entered(C[C[k].dis[l]]) /\ Len(C[C[k].dis[l]].dis) = l
        /\ \A j \in 1 .. l : C[C[k].dis[l]].dis[j] = C[k].dis[j]
        /\ Len(C[k].dis) <= MaxLevel
    BY Encloser
  <2>2. \A i \in 1 .. n : i \in 1 .. m
    BY <1>1
  <2> QED BY <1>3, <2>1, <2>2
<1>6. Len(C[k].dis) <= MaxLevel
  <2>1. CASE Len(C[k].dis) = 0
    BY <2>1, RunTimeAssumption
  <2>2. CASE Len(C[k].dis) > 0
    <3>1. Len(C[k].dis) \in 1 .. Len(C[k].dis)
      BY <1>4, <2>2
    <3> QED BY <1>5, <3>1
  <2> QED BY <1>4, <2>1, <2>2
<1>7. Nested(D, m)
  <2>1. D[m].dis = C[k].dis
    BY <1>3
  <2>2. ASSUME NEW l \in 1 .. Len(D[m].dis)
        PROVE  /\ D[m].dis[l] \in 1 .. m /\ Entered(D[D[m].dis[l]]) /\ Len(D[D[m].dis[l]].dis) = l
               /\ \A j \in 1 .. l : D[D[m].dis[l]].dis[j] = D[m].dis[j]
    <3> DEFINE e == C[k].dis[l]
    <3>1. l \in 1 .. Len(C[k].dis) /\ D[m].dis[l] = e
      BY <2>1
    <3>2. /\ e \in 1 .. m /\ D[e] = C[e] /\ Entered(C[e]) /\ Len(C[e].dis) = l
          /\ \A j \in 1 .. l : C[e].dis[j] = C[k].dis[j]
      BY <1>5, <3>1
    <3> HIDE DEF e
    <3> QED BY <2>1, <3>1, <3>2
  <2>3. Len(D[m].dis) <= MaxLevel
    BY <1>6, <2>1
  <2> QED BY <2>2, <2>3 DEF Nested
<1>8. ASSUME NEW b, NEW top \in Int, Encloses(C, k, b, top) PROVE Encloses(D, m, b, top)
  <2>1. top <= Len(C[k].dis)
    BY <1>8 DEF Encloses
  <2>2. \A l \in 1 .. top : l \in 1 .. Len(C[k].dis)
    BY <1>4, <2>1
  <2>3. \A l \in 1 .. top : C[C[k].dis[l]].at.home = Path[b][l]
    BY <1>8 DEF Encloses
  <2>4. D[m].dis = C[k].dis
    BY <1>3
  <2>5. \A l \in 1 .. top : D[C[k].dis[l]] = C[C[k].dis[l]]
    BY <1>5, <2>2
  <2> QED BY ONLY <2>1, <2>3, <2>4, <2>5 DEF Encloses
<1>9. ASSUME NEW Y, Shown(C, k, Y) PROVE Shown(D, m, Y)
  BY <1>3, <1>5, <1>9 DEF Shown
<1> QED BY <1>3, <1>5, <1>7, <1>8, <1>9 DEF m

Reset(r, s, x, y) ==
  [r EXCEPT !.stack = s, !.frame_ptr = x, !.last_frame_ptr = x, !.stack_base = y]

LEMMA ResetIs ==
  ASSUME NEW r \in State, NEW s \in Seq(Cells), NEW x \in Nat, NEW y \in Nat
  PROVE  Reset(r, s, x, y)
           = [stack |-> s, frame_ptr |-> x, last_frame_ptr |-> x, stack_base |-> y,
              display |-> r.display, eis_operation |-> r.eis_operation]
<1> DEFINE v == [r EXCEPT !.stack = s, !.frame_ptr = x, !.last_frame_ptr = x, !.stack_base = y]
<1>1. v \in State
  BY DEF State
<1>2. /\ v.stack = s /\ v.frame_ptr = x /\ v.last_frame_ptr = x /\ v.stack_base = y
      /\ v.display = r.display /\ v.eis_operation = r.eis_operation
  BY DEF State
<1> HIDE DEF v
<1>3. v = [stack |-> s, frame_ptr |-> x, last_frame_ptr |-> x, stack_base |-> y,
           display |-> r.display, eis_operation |-> r.eis_operation]
  BY <1>1, <1>2 DEF State
<1> QED BY <1>3 DEF v, Reset

LEMMA CreatedIs ==
  ASSUME NEW q \in State, NEW ret, NEW num \in Nat, NEW w \in Nat, w = Len(q.stack),
         NEW st \in Seq(Cells), st = FrameCreate(q, ret, num).stack
  PROVE  FrameCreate(q, ret, num)
           = Made(q, st, w, w + 5 + 2 * num, w, q.display, "PUSH_VALUE")
<1> DEFINE base == Count(q) + ARG + 2 * num
           pard  == Addr(Pard(BlockLevel(q), q.frame_ptr))
           frame == <<Addr(q.frame_ptr), ret, Addr(q.stack_base), Addr(0), Addr(0)>>
                    \o [i \in 1 .. 2 * num |-> IF i % 2 = 1 THEN Val(0) ELSE pard]
           s0 == q.stack \o frame
           R(s) == Reset(q, s, w, base)
<1>1. Count(q) = w /\ base = w + 5 + 2 * num
  BY DEF Count, ARG
<1>2. FrameCreate(q, ret, num) = SetOperation(R(s0), base, "PUSH_VALUE")
  BY <1>1 DEF FrameCreate, Reset
<1>3. st = s0
  <2> HIDE DEF base, frame
  <2> QED BY <1>2 DEF SetOperation, State, Reset
<1> HIDE DEF s0, frame
<1>4. R(s0) = [stack |-> st, frame_ptr |-> w, last_frame_ptr |-> w, stack_base |-> base,
               display |-> q.display, eis_operation |-> q.eis_operation]
  <2>1. base \in Nat
    <3>1. \A v, k \in Nat : v + 5 + 2 * k \in Nat
      OBVIOUS
    <3> HIDE DEF base
    <3> QED BY <1>1, <3>1
  <2>2. s0 \in Seq(Cells)
    BY <1>3
  <2>3. q \in State /\ w \in Nat
    OBVIOUS
  <2> HIDE DEF base
  <2>4. R(s0) = [stack |-> s0, frame_ptr |-> w, last_frame_ptr |-> w, stack_base |-> base,
                 display |-> q.display, eis_operation |-> q.eis_operation]
    BY ONLY <2>1, <2>2, <2>3, ResetIs
  <2> HIDE DEF R
  <2> QED BY <1>3, <2>4
<1>5. ASSUME NEW s, NEW x, NEW y
      PROVE  SetOperation([stack |-> s, frame_ptr |-> x, last_frame_ptr |-> x, stack_base |-> y,
                           display |-> q.display, eis_operation |-> q.eis_operation],
                          y, "PUSH_VALUE")
               = [stack |-> s, frame_ptr |-> x, last_frame_ptr |-> x, stack_base |-> y,
                  display |-> q.display,
                  eis_operation |-> WithOperation(q.eis_operation, y, "PUSH_VALUE")]
  BY DEF SetOperation, WithOperation
<1> HIDE DEF R, base
<1>6. FrameCreate(q, ret, num)
        = [stack |-> st, frame_ptr |-> w, last_frame_ptr |-> w, stack_base |-> base,
           display |-> q.display,
           eis_operation |-> WithOperation(q.eis_operation, base, "PUSH_VALUE")]
  BY <1>2, <1>4, <1>5
<1> QED BY <1>1, <1>6 DEF Made

(* What a call may give and where it may lead. *)
Calling(C, n, w, at, args, result) ==
  /\ at \in Code /\ at.part = "entry" /\ result \in {Null, Val(0)} /\ args \in Seq(PordSet)
  /\ C[n].at.part \in UserParts
  /\ \/ /\ at.home \in Block /\ Len(args) = Len(Formals[at.home])
        /\ \A k \in 1 .. Len(args) : args[k] \in Pords(C[n].at.home, Formals[at.home][k])
        /\ Encloses(C, n, at.home, Level(at.home) - 1)
        /\ at.home \in ForBlock => /\ C[n].at.part = "body" /\ Len(C[n].dis) = Level(at.home) - 1
                                   /\ n = 0 => w = 0
     \/ /\ at.home \in StdFun /\ Len(args) = 1 /\ args[1] \in Pords(C[n].at.home, "num")
        /\ result # Null /\ Len(C[n].dis) > 0

LEMMA Called ==
  ASSUME NEW C, NEW n, NEW p, Runs(C, n, p), NEW w, w = Len(p.stack), w < 2^FP_BITS,
         NEW at, NEW args, NEW result, Calling(C, n, w, at, args, result),
         Continue(FrameCreate(Push(p, result), Ret(C[n].at, args), Len(args)), at)
  PROVE  Coupled' /\ error' = error
<1> DEFINE num == Len(args)
           st == FrameCreate(Push(p, result), Ret(C[n].at, args), num).stack
           c == [f |-> w + 1, at |-> at, fp |-> w + 1, base |-> w + 6 + 2 * num,
                 dis |-> C[n].dis, pords |-> args]
           m == n + 1
           D == [C EXCEPT ![m] = c]
<1>1. /\ n \in Nat /\ n \in 0 .. n /\ p \in State /\ Contexts(C, n) /\ C[n].base <= w
      /\ Shown(C, n, p.display) /\ p.display[0] = 0 /\ p.stack \in Seq(Cells) /\ w \in Nat
      /\ p.display \in [0 .. MaxLevel -> Nat]
  BY DEF Runs, Laid, State
<1>2. /\ at \in Code /\ at.part = "entry" /\ result \in {Null, Val(0)} /\ args \in Seq(PordSet)
      /\ C[n].at.part \in UserParts /\ Calls(C[n]) /\ num \in Nat
  BY DEF Calling, Calls
<1>3. Grown(C, n, p, result, args, w, num, st)
  BY <1>2 DEF Grown
<1>4. /\ c \in Context /\ c.f = w + 1 /\ c.base = w + 6 + 2 * num /\ c.pords = args
      /\ c.fp = w + 1 /\ c.at = at /\ c.dis = C[n].dis /\ C[n].base \in Nat
  <2>1. w + 1 \in Nat /\ w + 6 + 2 * num \in Nat
    <3>1. \A v, k \in Nat : v + 1 \in Nat /\ v + 6 + 2 * k \in Nat
      OBVIOUS
    <3> HIDE DEF num
    <3> QED BY <1>1, <1>2, <3>1
  <2>2. C[n].dis \in Seq(Nat) /\ C[n].base \in Nat
    BY <1>1, Typed
  <2> QED BY <1>2, <2>1, <2>2 DEF Context
<1> HIDE DEF c, st, num
<1>5. Replaces(C, D, m, c)
  BY DEF Replaces
<1> HIDE DEF D
<1>6. /\ D[m] = c /\ Nested(D, m) /\ \A i \in 0 .. n : D[i] = C[i]
      /\ \A b : \A top \in Int : Encloses(C, n, b, top) => Encloses(D, m, b, top)
      /\ \A Y : Shown(C, n, Y) => Shown(D, m, Y)
  <2>1. /\ n \in Nat /\ Contexts(C, n) /\ n \in 0 .. n /\ c \in Context /\ c.dis = C[n].dis
        /\ Replaces(C, D, n + 1, c)
    BY <1>1, <1>4, <1>5
  <2>2. /\ D[n + 1] = c /\ \A i \in 0 .. n : D[i] = C[i]
        /\ Nested(D, n + 1)
        /\ \A l \in 1 .. Len(C[n].dis) : D[c.dis[l]] = C[C[n].dis[l]]
        /\ \A b : \A top \in Int : Encloses(C, n, b, top) => Encloses(D, n + 1, b, top)
        /\ \A Y : Shown(C, n, Y) => Shown(D, n + 1, Y)
    BY ONLY <2>1, NewDisplay
  <2> QED BY <2>2
<1>7. m - 1 = n /\ D[m - 1] = C[n]
  BY <1>1, <1>6
<1> HIDE DEF m
<1>8. ASSUME at.home \in Block PROVE AtEntry(D, m)
  <2> DEFINE b == at.home
  <2>1. b \notin StdFun
    BY <1>8, ProgramAssumption
  <2>2. /\ Len(args) = Len(Formals[b])
        /\ \A k \in 1 .. Len(args) : args[k] \in Pords(C[n].at.home, Formals[b][k])
        /\ Encloses(C, n, b, Level(b) - 1)
        /\ b \in ForBlock => /\ C[n].at.part = "body" /\ Len(C[n].dis) = Level(b) - 1
                             /\ n = 0 => w = 0
    BY <2>1 DEF Calling
  <2>3. Level(b) \in Nat /\ FirstLocal(b) = 5 + 2 * Len(Formals[b]) /\ Len(Formals[b]) \in Nat
    BY <1>8, BlockTypes
  <2>4. Encloses(D, m, b, Level(b) - 1)
    <3>1. Level(b) - 1 \in Int
      BY <2>3
    <3> QED BY <1>6, <2>2, <3>1
  <2>5. Passes(D, m, Formals[b])
    BY <1>2, <1>4, <1>6, <1>7, <2>2 DEF Passes
  <2>6. c.base = c.f + FirstLocal(b)
    <3>1. \A v, k \in Nat : v + 6 + 2 * k = (v + 1) + (5 + 2 * k)
      OBVIOUS
    <3>2. num = Len(Formals[b])
      BY <2>2 DEF num
    <3> QED BY <1>1, <1>4, <2>3, <3>1, <3>2
  <2>7. m = 1 => n = 0
    BY <1>1, <1>7
  <2>8. b \in ForBlock => /\ c.fp = c.f /\ C[n].at.part = "body"
                         /\ Len(C[n].dis) = Level(b) - 1 /\ (m = 1 => c.f = 1)
    BY <1>4, <2>2, <2>7
  <2> QED BY <1>2, <1>4, <1>6, <1>7, <1>8, <2>4, <2>5, <2>6, <2>8 DEF AtEntry
<1>9. ASSUME at.home \in StdFun PROVE InStd(D, m)
  <2>1. at.home \notin Block
    BY <1>9, ProgramAssumption
  <2>2. Len(args) = 1 /\ args[1] \in Pords(C[n].at.home, "num") /\ Len(C[n].dis) > 0
    BY <2>1 DEF Calling
  <2>3. Passes(D, m, ProcFormals)
    <3>1. Len(ProcFormals) = 1 /\ ProcFormals[1] = "num" /\ \A k \in 1 .. 1 : k = 1
      BY DEF ProcFormals
    <3> HIDE DEF ProcFormals
    <3> QED BY <1>2, <1>4, <1>6, <1>7, <2>2, <3>1 DEF Passes
  <2>4. c.base = c.f + 7
    <3>1. \A v \in Nat : v + 6 + 2 * 1 = (v + 1) + 7
      OBVIOUS
    <3>2. num = 1
      BY <2>2 DEF num
    <3> QED BY <1>1, <1>4, <3>1, <3>2
  <2> QED BY <1>2, <1>4, <1>6, <1>7, <1>9, <2>2, <2>3, <2>4 DEF InStd
<1>10. Sound(D, m)
  <2>1. C[n].base < c.f
    BY <1>1, <1>4
  <2>2. at.home \in Block \/ at.home \in StdFun
    BY DEF Calling
  <2> QED BY <1>2, <1>4, <1>6, <1>7, <1>8, <1>9, <2>1, <2>2 DEF Sound
<1>11. Runs(D, m, Made(p, st, w + 1, c.base, c.fp, p.display, "PUSH_VALUE"))
  <2>1. ~ Entered(c) /\ c.at.part \notin ThunkParts /\ c.at.part # "address"
    BY <1>2, <1>4 DEF Entered, ThunkParts
  <2>2. c.at.home \in StdFun => result # Null
    <3>1. at.home \in StdFun => at.home \notin Block
      BY ProgramAssumption
    <3> QED BY <1>4, <3>1 DEF Calling
  <2>3. /\ "PUSH_VALUE" \in PostOps \ {"PUSH_ADDRESS", "REMOVE_ARG"}
        /\ ~ Combines("PUSH_VALUE") /\ "PUSH_VALUE" \notin {"PUSH_DEREF", "ADD_DEREF"}
    BY DEF PostOps, FormalOps, Combines
  <2>4. Shown(D, m, p.display)
    BY <1>1, <1>6
  <2>5. Replaces(C, D, n + 1, c) /\ Sound(D, n + 1) /\ Shown(D, n + 1, p.display)
    BY <1>5, <1>10, <2>4 DEF m
  <2>6. Runs(D, n + 1, Made(p, st, w + 1, c.base, c.fp, p.display, "PUSH_VALUE"))
    <3>1. Enters(C, n, p, result, args, w, num, st, c, D, "PUSH_VALUE", p.display)
      BY <1>1, <1>2, <1>3, <1>4, <2>1, <2>2, <2>3, <2>5 DEF Enters
    <3> QED BY ONLY <3>1, Entering
  <2> QED BY <2>6 DEF m
<1>12. FrameCreate(Push(p, result), Ret(C[n].at, args), num)
         = Made(p, st, w + 1, c.base, c.fp, p.display, "PUSH_VALUE")
  <2> DEFINE q == Push(p, result)
             ret == Ret(C[n].at, args)
  <2>1. q = [stack |-> Append(p.stack, result), frame_ptr |-> p.frame_ptr,
             last_frame_ptr |-> p.last_frame_ptr, stack_base |-> p.stack_base,
             display |-> p.display, eis_operation |-> p.eis_operation]
    BY <1>1, PushIs
  <2>2. /\ Append(p.stack, result) \in Seq(Cells) /\ Len(Append(p.stack, result)) = w + 1
    BY <1>1, <1>2, CellTypes
  <2>3. /\ q \in State /\ q.display = p.display /\ q.eis_operation = p.eis_operation
        /\ Len(q.stack) = w + 1
    BY <1>1, <2>1, <2>2 DEF State
  <2>4. st \in Seq(Cells)
    <3>1. Extended(p, C[n], result, args, w, num, st)
      BY <1>2, <1>3, GrownIs
    <3> QED BY <3>1 DEF Extended
  <2>5. st = FrameCreate(q, ret, num).stack
    BY DEF st
  <2> HIDE DEF q, ret
  <2>6. FrameCreate(q, ret, num)
          = Made(q, st, w + 1, (w + 1) + 5 + 2 * num, w + 1, q.display, "PUSH_VALUE")
    <3>1. w + 1 \in Nat
      BY <1>1
    <3> QED BY <1>2, <2>3, <2>4, <2>5, <3>1, CreatedIs
  <2>7. (w + 1) + 5 + 2 * num = c.base
    <3>1. \A v, k \in Nat : (v + 1) + 5 + 2 * k = v + 6 + 2 * k
      OBVIOUS
    <3> QED BY <1>1, <1>2, <1>4, <3>1
  <2>8. Made(q, st, w + 1, c.base, w + 1, q.display, "PUSH_VALUE")
          = Made(p, st, w + 1, c.base, w + 1, p.display, "PUSH_VALUE")
    BY <2>3 DEF Made
  <2> QED BY <1>4, <2>6, <2>7, <2>8 DEF q, ret
<1>13. Continue(Made(p, st, w + 1, c.base, c.fp, p.display, "PUSH_VALUE"), at)
  BY <1>12 DEF num
<1> QED BY <1>4, <1>6, <1>11, <1>13, Continues

(* The parameters of a call, and the blocks around the procedure called. *)
LEMMA ArgsAre ==
  ASSUME NEW h \in Block \cup {Main}, NEW kinds \in Seq(FormalKinds), NEW args \in ArgLists(h, kinds)
  PROVE  /\ args \in Seq(PordSet) /\ Len(args) = Len(kinds)
         /\ \A k \in 1 .. Len(args) : args[k] \in Pords(h, kinds[k])
<1>1. DOMAIN kinds = 1 .. Len(kinds) /\ Len(kinds) \in Nat
  OBVIOUS
<1>2. /\ DOMAIN args = 1 .. Len(kinds)
      /\ args = [k \in 1 .. Len(kinds) |-> args[k]]
      /\ \A k \in 1 .. Len(kinds) : args[k] \in Pords(h, kinds[k])
  BY <1>1 DEF ArgLists
<1>3. \A k \in 1 .. Len(kinds) : kinds[k] \in FormalKinds
  OBVIOUS
<1>4. \A k \in 1 .. Len(kinds) : args[k] \in PordSet
  BY <1>2, <1>3 DEF PordSet
<1>5. args \in [1 .. Len(kinds) -> PordSet]
  BY <1>2, <1>4
<1>6. args \in Seq(PordSet)
  BY <1>1, <1>5
<1>7. Len(args) = Len(kinds)
  BY <1>1, <1>2, <1>6
<1> QED BY <1>2, <1>6, <1>7

LEMMA VisibleIs ==
  ASSUME NEW C, NEW n \in Nat, Contexts(C, n), C[n].at.part \in UserParts,
         NEW b \in VisibleFrom(C[n].at.home)
  PROVE  /\ b \in Block /\ Encloses(C, n, b, Level(b) - 1)
         /\ C[n].at.home \in Block \cup {Main} /\ Len(C[n].dis) = Level(C[n].at.home)
<1> DEFINE h == C[n].at.home
<1>1. n \in 0 .. n
  OBVIOUS
<1>2. /\ h \in Block \cup {Main} /\ Level(h) \in Nat /\ Len(C[n].dis) = Level(h)
      /\ \A l \in 1 .. Level(h) : C[C[n].dis[l]].at.home = Path[h][l]
  BY <1>1, UserIs
<1>3. b \in Block /\ Level(b) <= Level(h) + 1 /\ \A l \in 1 .. Level(b) - 1 : Path[b][l] = Path[h][l]
  BY DEF VisibleFrom
<1>4. Level(b) \in Nat
  BY <1>3, BlockTypes
<1> HIDE DEF h
<1>5. Level(b) - 1 <= Level(h) /\ \A l \in 1 .. Level(b) - 1 : l \in 1 .. Level(h)
  BY <1>2, <1>3, <1>4
<1>6. Encloses(C, n, b, Level(b) - 1)
  BY <1>2, <1>3, <1>5 DEF Encloses
<1> QED BY <1>2, <1>3, <1>6 DEF h

LEMMA CallKeeps ==
  ASSUME Coupled, InUserText, Len(stack) < 2^FP_BITS, NEW b \in Block, NEW result \in {Null, Val(0)},
         NEW args \in ArgLists(ot.home, Formals[b]), Call(b, args, result)
  PROVE  Coupled' /\ error' = error
<1>1. PICK C, n, p : Runs(C, n, p) /\ p = Now /\ ot = C[n].at
  BY DEF Coupled
<1>2. /\ n \in Nat /\ Contexts(C, n) /\ stack = p.stack /\ C[n].at.part \in UserParts
  BY <1>1, TempsAre DEF InUserText
<1>3. /\ Procedure(b) /\ b \in VisibleFrom(C[n].at.home)
      /\ Continue(FrameCreate(Push(p, result), Ret(C[n].at, args), Len(args)), At(b, "entry"))
  BY <1>1 DEF Call
<1>4. Encloses(C, n, b, Level(b) - 1) /\ C[n].at.home \in Block \cup {Main}
  BY <1>2, <1>3, VisibleIs
<1>5. Formals[b] \in Seq(FormalKinds)
  BY BlockTypes
<1>6. /\ args \in Seq(PordSet) /\ Len(args) = Len(Formals[b])
      /\ \A k \in 1 .. Len(args) : args[k] \in Pords(C[n].at.home, Formals[b][k])
  BY <1>1, <1>4, <1>5, ArgsAre
<1> DEFINE at == At(b, "entry")
           w == Len(p.stack)
<1>7. at \in Code /\ at.part = "entry" /\ at.home = b /\ b \notin ForBlock
  BY <1>3 DEF At, Code, Parts, Procedure
<1>8. w < 2^FP_BITS /\ w = Len(p.stack)
  BY <1>2
<1> HIDE DEF at, w
<1>9. Calling(C, n, w, at, args, result)
  BY <1>2, <1>4, <1>6, <1>7 DEF Calling
<1>10. Continue(FrameCreate(Push(p, result), Ret(C[n].at, args), Len(args)), at)
  BY <1>3 DEF at
<1> QED BY <1>1, <1>8, <1>9, <1>10, Called

LEMMA EnterForKeeps ==
  ASSUME Coupled, InUserText, Len(stack) < 2^FP_BITS, NEW b \in Block, EnterFor(b)
  PROVE  Coupled' /\ error' = error
<1>1. PICK C, n, p : Runs(C, n, p) /\ p = Now /\ ot = C[n].at
  BY DEF Coupled
<1>2. /\ n \in Nat /\ Contexts(C, n) /\ stack = p.stack /\ C[n].at.part \in UserParts
      /\ Temps = Len(p.stack) - C[n].base /\ C[n].base \in Nat /\ Len(p.stack) \in Nat
  BY <1>1, TempsAre DEF InUserText
<1> DEFINE args == << >>
           at == At(b, "entry")
           w == Len(p.stack)
<1>3. /\ b \in ForBlock /\ b \in VisibleFrom(C[n].at.home) /\ Level(b) = Level(C[n].at.home) + 1
      /\ C[n].at.part = "body" /\ Temps = 0
      /\ Continue(FrameCreate(Push(p, Null), Ret(C[n].at, args), 0), at)
  BY <1>1 DEF EnterFor, CallPoint, InBody
<1>4. /\ Encloses(C, n, b, Level(b) - 1) /\ Len(C[n].dis) = Level(C[n].at.home)
  BY <1>2, <1>3, VisibleIs
<1>5. args \in Seq(PordSet) /\ Len(args) = 0 /\ Formals[b] = << >> /\ Len(Formals[b]) = 0
  BY <1>3, ProgramAssumption
<1>6. Level(b) \in Nat /\ Len(C[n].dis) \in Nat
  <2>1. n \in 0 .. n
    BY <1>2
  <2> QED BY <1>2, <2>1, Typed, BlockTypes
<1>7. Len(C[n].dis) = Level(b) - 1
  BY <1>3, <1>4, <1>6
<1>8. at \in Code /\ at.part = "entry" /\ at.home = b
  BY DEF At, Code, Parts
<1>9. n = 0 => w = 0
  <2>1. n = 0 => C[n].base = 0
    BY <1>2 DEF Contexts, Outermost
  <2> QED BY <1>2, <1>3, <2>1
<1>10. w < 2^FP_BITS /\ w = Len(p.stack)
  BY <1>2
<1> HIDE DEF args, at, w
<1>11. Calling(C, n, w, at, args, Null)
  BY <1>2, <1>3, <1>4, <1>5, <1>7, <1>8, <1>9 DEF Calling
<1>12. Continue(FrameCreate(Push(p, Null), Ret(C[n].at, args), Len(args)), at)
  BY <1>3, <1>5
<1> QED BY <1>1, <1>10, <1>11, <1>12, Called

-----------------------------------------------------------------------------
(***************************************************************************)
(* Formal parameters.  A formal a of this kind can be taken in context k:  *)
(* the context of its block has a PORD for it, written in user text.       *)
(***************************************************************************)
Has(C, k, a, kind) ==
  /\ a \in [bn : Nat, arg : Nat] /\ a.bn \in 1 .. Len(C[k].dis)
  /\ LET e == C[k].dis[a.bn]
     IN /\ a.arg \in 1 .. Len(C[e].pords)
        /\ C[e].pords[a.arg] \in Pords(C[e - 1].at.home, kind)
        /\ C[e - 1].at.part \in UserParts

LEMMA HasIs ==
  ASSUME NEW C, NEW n \in Nat, Contexts(C, n), NEW k \in 0 .. n, C[k].at.part \in UserParts,
         NEW kind, NEW a \in FormalsInScope(C[k].at.home, kind)
  PROVE  Has(C, k, a, kind)
<1> DEFINE h == C[k].at.home
<1>1. /\ h \in Block \cup {Main} /\ Level(h) \in Nat /\ Len(C[k].dis) = Level(h)
      /\ \A l \in 1 .. Level(h) :
           LET e == C[k].dis[l]
           IN e \in 1 .. n /\ InBlock(C, e) /\ C[e].at.home = Path[h][l] /\ Path[h][l] \in Block
  BY UserIs
<1>2. PICK l \in 1 .. Level(h) :
        a \in {[bn |-> l, arg |-> i] : i \in {j \in DOMAIN Formals[Path[h][l]] :
                                                Formals[Path[h][l]][j] = kind}}
  BY DEF FormalsInScope
<1>3. PICK i \in DOMAIN Formals[Path[h][l]] : a = [bn |-> l, arg |-> i] /\ Formals[Path[h][l]][i] = kind
  BY <1>2
<1> DEFINE e == C[k].dis[l]
           b == Path[h][l]
<1>4. e \in 1 .. n /\ InBlock(C, e) /\ C[e].at.home = b /\ b \in Block
  BY <1>1
<1>5. Formals[b] \in Seq(FormalKinds) /\ Len(Formals[b]) \in Nat
  BY <1>4, BlockTypes
<1> HIDE DEF h, b, e
<1>6. Formals[b][i] = kind /\ i \in 1 .. Len(Formals[b]) /\ a.bn = l /\ a.arg = i
  <2>1. i \in DOMAIN Formals[b] /\ a = [bn |-> l, arg |-> i] /\ Formals[b][i] = kind
    BY <1>3 DEF b
  <2>2. DOMAIN Formals[b] = 1 .. Len(Formals[b])
    BY <1>5
  <2> QED BY <2>1, <2>2
<1>7. /\ Len(C[e].pords) = Len(Formals[b])
      /\ C[e].pords[i] \in Pords(C[e - 1].at.home, Formals[b][i])
      /\ C[e - 1].at.part \in UserParts
  <2>1. Passes(C, e, Formals[b])
    BY <1>4 DEF InBlock
  <2>2. Len(Formals[b]) > 0
    BY <1>5, <1>6
  <2> QED BY <1>6, <2>1, <2>2 DEF Passes
<1>8. a \in [bn : Nat, arg : Nat]
  <2>1. l \in Nat /\ i \in Nat
    BY <1>1, <1>6
  <2> QED BY <1>3, <2>1
<1>9. e = C[k].dis[a.bn]
  BY <1>6 DEF e
<1> QED BY <1>1, <1>6, <1>7, <1>8, <1>9 DEF Has

(* Its PORD, and the context it was written in, are what the code finds. *)
LEMMA DescriptorIs ==
  ASSUME NEW C, NEW n \in Nat, Contexts(C, n), NEW p \in State, Linked(C, n, p.stack),
         C[n].base <= Len(p.stack), Len(p.stack) < 2^FP_BITS, NEW k \in 0 .. n,
         Shown(C, k, p.display), NEW a, NEW kind, Has(C, k, a, kind)
  PROVE  \E e \in 1 .. k :
           /\ e \in 1 .. n /\ e - 1 \in 0 .. n /\ C[e - 1].at.part \in UserParts
           /\ ArgDescriptor(p, a) \in Pords(C[e - 1].at.home, kind)
           /\ ArgDescriptor(p, a) = C[e].pords[a.arg]
           /\ ArgDisplay(p, a) = [level |-> Len(C[e - 1].dis), fp |-> C[e - 1].fp]
<1> DEFINE e == C[k].dis[a.bn]
<1>1. /\ a.bn \in 1 .. Len(C[k].dis) /\ a.arg \in 1 .. Len(C[e].pords)
      /\ C[e].pords[a.arg] \in Pords(C[e - 1].at.home, kind) /\ C[e - 1].at.part \in UserParts
  BY DEF Has
<1>2. e \in 1 .. k /\ e \in 1 .. n
  BY <1>1, Encloser
<1>3. e - 1 \in 0 .. n
  BY <1>2
<1>4. p.display[a.bn] = C[e].f
  BY <1>1 DEF Shown
<1> HIDE DEF e
<1>5. /\ Get(p, C[e].f + PC) = Ret(C[e - 1].at, C[e].pords)
      /\ Field(p, C[e].f, ARG + 2 * a.arg - 1) = Pard(Len(C[e - 1].dis), C[e - 1].fp)
  BY <1>1, <1>2, FieldsAre
<1>6. ArgDescriptor(p, a) = C[e].pords[a.arg]
  BY <1>4, <1>5 DEF ArgDescriptor, Ret
<1>7. /\ Len(C[e - 1].dis) \in Nat /\ C[e - 1].fp \in Nat /\ C[e - 1].fp < 2^FP_BITS
  <2>1. p.stack \in Seq(Cells)
    BY DEF State
  <2> QED BY <1>3, <2>1, Typed, PointerFits
<1>8. ArgDisplay(p, a) = [level |-> Len(C[e - 1].dis), fp |-> C[e - 1].fp]
  <2> DEFINE pard == Pard(Len(C[e - 1].dis), C[e - 1].fp)
  <2>1. pard \div 2^FP_BITS = Len(C[e - 1].dis) /\ pard % 2^FP_BITS = C[e - 1].fp
    BY <1>7, PardIs
  <2>2. Field(p, p.display[a.bn], ARG + 2 * a.arg - 1) = pard
    BY <1>4, <1>5
  <2> HIDE DEF pard
  <2> QED BY <2>1, <2>2 DEF ArgDisplay
<1> QED BY <1>1, <1>2, <1>3, <1>6, <1>8

(* The PORDs of a number and of a label. *)
LEMMA PordIs ==
  ASSUME NEW h, NEW kind \in {"num", "label"}, NEW d \in Pords(h, kind)
  PROVE  \/ d.kind = "static"
         \/ /\ d.kind = "stack" /\ d.bn \in 1 .. Level(h) /\ Locals[Path[h][d.bn]] > 0
            /\ d.addr = FirstLocal(Path[h][d.bn])
         \/ d.kind = "formal" /\ \E a \in FormalsInScope(h, kind) : d = Passed(a)
         \/ /\ d.kind = "sub"
            /\ \/ d.at = At(h, "value") \/ d.at = At(h, "label")
               \/ \E b \in VisibleFrom(h) : /\ Procedure(b) /\ Formals[b] = << >>
                                            /\ d.at = At(b, "entry")
         \/ d.kind = "asub" /\ d.at = At(h, "address")
<1>1. CASE kind = "num"
  <2>1. \/ d \in {[kind |-> "static"]}
        \/ d \in {[kind |-> "stack", bn |-> l, addr |-> FirstLocal(Path[h][l])] :
                    l \in {m \in 1 .. Level(h) : Locals[Path[h][m]] > 0}}
        \/ d \in {Sub(At(h, "value"))} \/ d \in {ASub(At(h, "address"))}
        \/ d \in {Sub(At(b, "entry")) :
                    b \in {c \in VisibleFrom(h) : Procedure(c) /\ Formals[c] = << >>}}
        \/ d \in {Passed(a) : a \in FormalsInScope(h, "num")}
    BY <1>1 DEF Pords, NumPords, If
  <2>2. CASE d \in {[kind |-> "static"]}
    BY <2>2
  <2>3. CASE d \in {[kind |-> "stack", bn |-> l, addr |-> FirstLocal(Path[h][l])] :
                      l \in {m \in 1 .. Level(h) : Locals[Path[h][m]] > 0}}
    <3>1. PICK l \in 1 .. Level(h) : /\ Locals[Path[h][l]] > 0
                                     /\ d = [kind |-> "stack", bn |-> l, addr |-> FirstLocal(Path[h][l])]
      BY <2>3
    <3>2. d.kind = "stack" /\ d.bn = l /\ d.addr = FirstLocal(Path[h][l])
      BY <3>1
    <3> QED BY <3>1, <3>2
  <2>4. CASE d \in {Sub(At(h, "value"))}
    BY <2>4 DEF Sub
  <2>5. CASE d \in {ASub(At(h, "address"))}
    BY <2>5 DEF ASub
  <2>6. CASE d \in {Sub(At(b, "entry")) :
                      b \in {c \in VisibleFrom(h) : Procedure(c) /\ Formals[c] = << >>}}
    <3>1. PICK b \in VisibleFrom(h) : Procedure(b) /\ Formals[b] = << >> /\ d = Sub(At(b, "entry"))
      BY <2>6
    <3>2. d.kind = "sub" /\ d.at = At(b, "entry")
      BY <3>1 DEF Sub
    <3> QED BY <3>1, <3>2
  <2>7. CASE d \in {Passed(a) : a \in FormalsInScope(h, "num")}
    <3>1. PICK a \in FormalsInScope(h, "num") : d = Passed(a)
      BY <2>7
    <3>2. d.kind = "formal"
      BY <3>1 DEF Passed
    <3> QED BY <1>1, <3>1, <3>2
  <2> QED BY <2>1, <2>2, <2>3, <2>4, <2>5, <2>6, <2>7
<1>2. CASE kind = "label"
  <2>1. d \in {Sub(At(h, "label"))} \/ d \in {Passed(a) : a \in FormalsInScope(h, "label")}
    BY <1>2 DEF Pords, LabelPords, If
  <2>2. CASE d \in {Sub(At(h, "label"))}
    BY <2>2 DEF Sub
  <2>3. CASE d \in {Passed(a) : a \in FormalsInScope(h, "label")}
    <3>1. PICK a \in FormalsInScope(h, "label") : d = Passed(a)
      BY <2>3
    <3>2. d.kind = "formal"
      BY <3>1 DEF Passed
    <3> QED BY <1>2, <3>1, <3>2
  <2> QED BY <2>1, <2>2, <2>3
<1> QED BY <1>1, <1>2

(* A formal that was passed on is one of the context it was passed by. *)
PassedOn(C, k, p, kind, s) ==
  \E k2 \in 0 .. k - 1, Y \in [0 .. MaxLevel -> Nat] : \E a2 :
    /\ s = [p |-> Showing(p, Y), a |-> a2]
    /\ Shown(C, k2, Y) /\ Y[0] = p.display[0] /\ Has(C, k2, a2, kind)

LEMMA IndirectionIs ==
  ASSUME NEW C, NEW n \in Nat, Contexts(C, n), NEW p \in State, Linked(C, n, p.stack),
         C[n].base <= Len(p.stack), Len(p.stack) < 2^FP_BITS, NEW k \in 0 .. n,
         Shown(C, k, p.display), NEW a, NEW kind \in {"num", "label"}, Has(C, k, a, kind),
         ArgDescriptor(p, a).kind = "formal", NEW s, s = [p |-> p, a |-> a]
  PROVE  PassedOn(C, k, p, kind, Indirection(s))
<1> DEFINE d == ArgDescriptor(p, a)
           c == ArgDisplay(p, a)
<1>1. PICK e \in 1 .. k : /\ e \in 1 .. n /\ e - 1 \in 0 .. n /\ C[e - 1].at.part \in UserParts
                          /\ d \in Pords(C[e - 1].at.home, kind)
                          /\ c = [level |-> Len(C[e - 1].dis), fp |-> C[e - 1].fp]
  BY DescriptorIs
<1> DEFINE k2 == e - 1
<1>2. k2 \in 0 .. k - 1 /\ k2 \in 0 .. n
  OBVIOUS
<1>3. C[k2].at.part \in UserParts /\ d \in Pords(C[k2].at.home, kind)
      /\ c = [level |-> Len(C[k2].dis), fp |-> C[k2].fp]
  BY <1>1
<1> HIDE DEF k2
<1>4. d.kind = "formal"
  OBVIOUS
<1>5. Indirection(s) = [p |-> UpdateDisplay(p, c.level, c.fp), a |-> [bn |-> d.bn, arg |-> d.arg]]
  BY <1>4 DEF Indirection
<1> HIDE DEF d, c
<1>6. PICK a2 \in FormalsInScope(C[k2].at.home, kind) : d = Passed(a2)
  BY <1>3, <1>4, PordIs
<1>7. Has(C, k2, a2, kind)
  BY <1>2, <1>3, HasIs
<1>8. [bn |-> d.bn, arg |-> d.arg] = a2
  <2>1. a2 \in [bn : Nat, arg : Nat]
    BY <1>7 DEF Has
  <2>2. a2 = [bn |-> a2.bn, arg |-> a2.arg]
    BY <2>1
  <2> QED BY <1>6, <2>2 DEF Passed
<1>9. C[k2].fp \in Nat /\ Leads(C, k2, C[k2].fp)
  <2>1. Calls(C[k2])
    BY <1>3 DEF Calls
  <2> QED BY <1>2, <2>1, LevelIs, Typed
<1>10. PICK Y \in [0 .. MaxLevel -> Nat] :
         /\ UpdateDisplay(p, Len(C[k2].dis), C[k2].fp) = Showing(p, Y)
         /\ Shown(C, k2, Y) /\ Y[0] = p.display[0]
  BY <1>2, <1>9, DisplayIs
<1>11. Indirection(s) = [p |-> Showing(p, Y), a |-> a2]
  BY <1>3, <1>5, <1>8, <1>10
<1> QED BY <1>2, <1>7, <1>10, <1>11 DEF PassedOn

(* s stands for the formal in context k, j indirections from where it was taken. *)
Following(C, n, p, kind, s, j) ==
  \E k \in 0 .. n, Y \in [0 .. MaxLevel -> Nat] : \E b :
    /\ s = [p |-> Showing(p, Y), a |-> b]
    /\ Shown(C, k, Y) /\ Y[0] = p.display[0] /\ Has(C, k, b, kind)
    /\ ArgDescriptor(Showing(p, Y), b).kind = "formal" => k + j <= n

LEMMA ShowingAgain ==
  ASSUME NEW p \in State, NEW Y \in [0 .. MaxLevel -> Nat]
  PROVE  /\ Showing(p, Y) \in State /\ Showing(p, Y).display = Y
         /\ Showing(p, Y).stack = p.stack
         /\ \A Z : Showing(Showing(p, Y), Z) = Showing(p, Z)
         /\ Showing(p, p.display) = p
<1>1. Showing(p, Y) \in State /\ Showing(p, Y).display = Y /\ Showing(p, Y).stack = p.stack
  <2>1. Showing(p, Y) = [stack |-> p.stack, frame_ptr |-> p.frame_ptr,
                         last_frame_ptr |-> p.last_frame_ptr, stack_base |-> p.stack_base,
                         display |-> Y, eis_operation |-> p.eis_operation]
    BY ShowingIs
  <2> QED BY <2>1 DEF State
<1>2. ASSUME NEW Z PROVE Showing(Showing(p, Y), Z) = Showing(p, Z)
  <2> DEFINE q == Showing(p, Y)
  <2>1. /\ q.stack = p.stack /\ q.frame_ptr = p.frame_ptr /\ q.last_frame_ptr = p.last_frame_ptr
        /\ q.stack_base = p.stack_base /\ q.eis_operation = p.eis_operation
    BY ShowingIs
  <2>2. q \in State
    BY <1>1
  <2> HIDE DEF q
  <2>3. Showing(q, Z) = Showing(p, Z)
    BY <2>1, <2>2, ShowingIs
  <2> QED BY <2>3 DEF q
<1>3. Showing(p, p.display) = p
  <2>1. p = [stack |-> p.stack, frame_ptr |-> p.frame_ptr,
             last_frame_ptr |-> p.last_frame_ptr, stack_base |-> p.stack_base,
             display |-> p.display, eis_operation |-> p.eis_operation]
    BY DEF State
  <2> QED BY <2>1, ShowingIs
<1> QED BY <1>1, <1>2, <1>3

LEMMA FollowingOn ==
  ASSUME NEW C, NEW n \in Nat, Contexts(C, n), NEW p \in State, Linked(C, n, p.stack),
         C[n].base <= Len(p.stack), Len(p.stack) < 2^FP_BITS, NEW kind \in {"num", "label"},
         NEW s, NEW j \in Nat, Following(C, n, p, kind, s, j)
  PROVE  Following(C, n, p, kind, Indirection(s), j + 1)
<1>1a. PICK k \in 0 .. n, Y \in [0 .. MaxLevel -> Nat] : \E b :
        /\ s = [p |-> Showing(p, Y), a |-> b]
        /\ Shown(C, k, Y) /\ Y[0] = p.display[0] /\ Has(C, k, b, kind)
        /\ ArgDescriptor(Showing(p, Y), b).kind = "formal" => k + j <= n
  BY DEF Following
<1>1. PICK b :
        /\ s = [p |-> Showing(p, Y), a |-> b]
        /\ Shown(C, k, Y) /\ Y[0] = p.display[0] /\ Has(C, k, b, kind)
        /\ ArgDescriptor(Showing(p, Y), b).kind = "formal" => k + j <= n
  BY <1>1a
<1> DEFINE q == Showing(p, Y)
<1>2. /\ q \in State /\ q.stack = p.stack /\ q.display = Y
      /\ \A Z : Showing(q, Z) = Showing(p, Z)
  BY ShowingAgain
<1>3. s = [p |-> q, a |-> b] /\ s.p = q /\ s.a = b
  BY <1>1
<1> HIDE DEF q
<1>4. CASE ArgDescriptor(q, b).kind # "formal"
  <2>1. Indirection(s) = s
    BY <1>3, <1>4 DEF Indirection
  <2> QED BY <1>1, <1>4, <2>1 DEF Following, q
<1>5. CASE ArgDescriptor(q, b).kind = "formal"
  <2>1. /\ Linked(C, n, q.stack) /\ C[n].base <= Len(q.stack) /\ Len(q.stack) < 2^FP_BITS
        /\ Shown(C, k, q.display)
    BY <1>1, <1>2
  <2>2. PassedOn(C, k, q, kind, Indirection(s))
    <3>1. /\ n \in Nat /\ Contexts(C, n) /\ q \in State /\ Linked(C, n, q.stack)
          /\ C[n].base <= Len(q.stack) /\ Len(q.stack) < 2^FP_BITS /\ k \in 0 .. n
          /\ Shown(C, k, q.display) /\ kind \in {"num", "label"} /\ Has(C, k, b, kind)
          /\ ArgDescriptor(q, b).kind = "formal" /\ s = [p |-> q, a |-> b]
      BY <1>1, <1>2, <1>3, <1>5, <2>1
    <3> QED BY ONLY <3>1, IndirectionIs
  <2>6. PICK k2 \in 0 .. k - 1, Z \in [0 .. MaxLevel -> Nat] : \E a2 :
          /\ Indirection(s) = [p |-> Showing(q, Z), a |-> a2]
          /\ Shown(C, k2, Z) /\ Z[0] = q.display[0] /\ Has(C, k2, a2, kind)
    BY <2>2 DEF PassedOn
  <2>7. PICK a2 : /\ Indirection(s) = [p |-> Showing(q, Z), a |-> a2]
                  /\ Shown(C, k2, Z) /\ Z[0] = q.display[0] /\ Has(C, k2, a2, kind)
    BY <2>6
  <2>3. Indirection(s) = [p |-> Showing(p, Z), a |-> a2] /\ Z[0] = p.display[0]
    BY <1>1, <1>2, <1>3, <2>7
  <2>4. k + j <= n
    BY <1>1, <1>5 DEF q
  <2>5. k2 \in 0 .. n /\ k2 + (j + 1) <= n
    <3>1. \A x, y, v, m \in Int : x <= y - 1 /\ y + v <= m => x + (v + 1) <= m
      OBVIOUS
    <3> QED BY <2>4, <3>1
  <2> QED BY <2>7, <2>3, <2>5 DEF Following
<1> QED BY <1>4, <1>5

(* The formal a, taken in context n, is followed to its end. *)
LEMMA ResolveIs ==
  ASSUME NEW C, NEW n \in Nat, Contexts(C, n), NEW p \in State, Linked(C, n, p.stack),
         C[n].base <= Len(p.stack), Len(p.stack) < 2^FP_BITS, Shown(C, n, p.display),
         NEW kind \in {"num", "label"}, NEW a, Has(C, n, a, kind)
  PROVE  \E k \in 0 .. n, Y \in [0 .. MaxLevel -> Nat] : \E b :
           /\ Resolve(p, a) = [p |-> Showing(p, Y), a |-> b]
           /\ Shown(C, k, Y) /\ Y[0] = p.display[0] /\ Has(C, k, b, kind)
           /\ ArgDescriptor(Showing(p, Y), b).kind # "formal"
<1> DEFINE N == Count(p)
           x == [p |-> p, a |-> a]
           F == CHOOSE after : after = [m \in 0 .. N |->
                  IF m = 0 THEN x ELSE LET s == after[m - 1] IN Indirection(s)]
           V == {s \in [p : State, a : [bn : Nat, arg : Nat]] : Following(C, n, p, kind, s, 0)}
           g == [s \in V |-> Indirection(s)]
<1>1. Resolve(p, a) = F[N]
  BY DEF Resolve
<1>2. N \in Nat /\ n <= N
  <2>1. p.stack \in Seq(Cells)
    BY DEF State
  <2>2. n <= Len(p.stack)
    BY <2>1, Many
  <2> QED BY <2>1, <2>2 DEF Count
<1>3. Following(C, n, p, kind, x, 0)
  <2>1. n \in 0 .. n /\ n + 0 <= n
    OBVIOUS
  <2>2. p.display \in [0 .. MaxLevel -> Nat]
    BY DEF State
  <2>3. x = [p |-> Showing(p, p.display), a |-> a]
    BY <2>2, ShowingAgain
  <2> HIDE DEF x
  <2> QED BY <2>1, <2>2, <2>3 DEF Following
<1>4. ASSUME NEW s, NEW j \in Nat, Following(C, n, p, kind, s, j) PROVE s \in V
  <2>1a. PICK k \in 0 .. n, Y \in [0 .. MaxLevel -> Nat] : \E b :
          /\ s = [p |-> Showing(p, Y), a |-> b]
          /\ Shown(C, k, Y) /\ Y[0] = p.display[0] /\ Has(C, k, b, kind)
    BY <1>4 DEF Following
  <2>1. PICK b :
          /\ s = [p |-> Showing(p, Y), a |-> b]
          /\ Shown(C, k, Y) /\ Y[0] = p.display[0] /\ Has(C, k, b, kind)
    BY <2>1a
  <2>2. Showing(p, Y) \in State
    BY ShowingAgain
  <2>3. b \in [bn : Nat, arg : Nat]
    BY <2>1 DEF Has
  <2>4. k + 0 <= n
    OBVIOUS
  <2>5. Following(C, n, p, kind, s, 0)
    BY <2>1, <2>4 DEF Following
  <2> QED BY <2>1, <2>2, <2>3, <2>5
<1>5. x \in V
  BY <1>3, <1>4
<1>6. \A s \in V : Indirection(s) \in V
  <2> SUFFICES ASSUME NEW s \in V PROVE Indirection(s) \in V
    OBVIOUS
  <2>1. Following(C, n, p, kind, Indirection(s), 0 + 1)
    <3>1. Following(C, n, p, kind, s, 0) /\ 0 \in Nat
      OBVIOUS
    <3> QED BY <3>1, FollowingOn
  <2> QED BY <1>4, <2>1
<1> HIDE DEF V, x
<1>7. g \in [V -> V]
  BY <1>6
<1>8. PICK h \in [0 .. N -> V] : h[0] = x /\ \A m \in 1 .. N : h[m] = g[h[m - 1]]
  <2>1. x \in V /\ g \in [V -> V] /\ N \in Nat
    BY <1>2, <1>5, <1>7
  <2> HIDE DEF N, g
  <2>2. \E h \in [0 .. N -> V] : h[0] = x /\ \A k1 \in 1 .. N : h[k1] = g[h[k1 - 1]]
    BY ONLY <2>1, Iterates, SMTT(30)
  <2> QED BY ONLY <2>2
<1>9. h = [m \in 0 .. N |-> IF m = 0 THEN x ELSE LET s == h[m - 1] IN Indirection(s)]
  <2> SUFFICES ASSUME NEW m \in 0 .. N
               PROVE  h[m] = IF m = 0 THEN x ELSE Indirection(h[m - 1])
    OBVIOUS
  <2>1. CASE m = 0
    BY <1>8, <2>1
  <2>2. CASE m # 0
    <3>1. m \in 1 .. N /\ m - 1 \in 0 .. N
      BY <1>2, <2>2
    <3>2. h[m] = g[h[m - 1]] /\ h[m - 1] \in V
      BY <1>8, <3>1
    <3> QED BY <2>2, <3>2
  <2> QED BY <2>1, <2>2
<1>10. F = [m \in 0 .. N |-> IF m = 0 THEN x ELSE LET s == F[m - 1] IN Indirection(s)]
  BY <1>9
<1> HIDE DEF F, N, g
<1> DEFINE T == {j \in Nat : j <= N => Following(C, n, p, kind, F[j], j)}
<1>11. 0 \in T
  <2>1. F[0] = x
    BY <1>2, <1>10
  <2> QED BY <1>3, <2>1
<1>12. ASSUME NEW j \in T PROVE j + 1 \in T
  <2> SUFFICES ASSUME j + 1 <= N PROVE Following(C, n, p, kind, F[j + 1], j + 1)
    OBVIOUS
  <2> DEFINE i == j + 1
  <2>1. j \in Nat /\ j <= N /\ i \in 0 .. N /\ i # 0 /\ i - 1 = j
    BY <1>2
  <2>2. Following(C, n, p, kind, F[j], j)
    BY <2>1
  <2> HIDE DEF i, T
  <2>3. F[i] = Indirection(F[j])
    BY <1>10, <2>1
  <2>4. Following(C, n, p, kind, Indirection(F[j]), j + 1)
    BY <2>1, <2>2, FollowingOn
  <2> QED BY <2>3, <2>4 DEF i
<1>13. T = Nat
  <2>1. T \in SUBSET Nat
    OBVIOUS
  <2> HIDE DEF T
  <2> QED BY <1>11, <1>12, <2>1, Induction
<1>14. Following(C, n, p, kind, F[N], N)
  BY <1>2, <1>13
<1>15a. PICK k \in 0 .. n, Y \in [0 .. MaxLevel -> Nat] : \E b :
         /\ F[N] = [p |-> Showing(p, Y), a |-> b]
         /\ Shown(C, k, Y) /\ Y[0] = p.display[0] /\ Has(C, k, b, kind)
         /\ ArgDescriptor(Showing(p, Y), b).kind = "formal" => k + N <= n
  BY <1>14 DEF Following
<1>15. PICK b :
         /\ F[N] = [p |-> Showing(p, Y), a |-> b]
         /\ Shown(C, k, Y) /\ Y[0] = p.display[0] /\ Has(C, k, b, kind)
         /\ ArgDescriptor(Showing(p, Y), b).kind = "formal" => k + N <= n
  BY <1>15a
<1>16. ~ (k + N <= n)
  <2>1. k # 0
    <3>1. CASE k = 0
      <4>1. Len(C[0].dis) = 0
        BY DEF Contexts, Outermost
      <4>2. b.bn \in 1 .. Len(C[0].dis)
        BY <1>15, <3>1 DEF Has
      <4> QED BY <4>1, <4>2
    <3> QED BY <3>1
  <2> QED BY <1>2, <2>1
<1> QED BY <1>1, <1>15, <1>16

(* What is found at the end: a PORD that was written in context i. *)
Found(C, n, p, kind, s) ==
  \E i \in 0 .. n, Y \in [0 .. MaxLevel -> Nat] :
    /\ s.p = Showing(p, Y) /\ Y[0] = p.display[0]
    /\ C[i].at.part \in UserParts
    /\ ArgDescriptor(s.p, s.a) \in Pords(C[i].at.home, kind)
    /\ ArgDescriptor(s.p, s.a).kind # "formal"
    /\ ArgDisplay(s.p, s.a) = [level |-> Len(C[i].dis), fp |-> C[i].fp]

LEMMA FoundIs ==
  ASSUME NEW C, NEW n \in Nat, Contexts(C, n), NEW p \in State, Linked(C, n, p.stack),
         C[n].base <= Len(p.stack), Len(p.stack) < 2^FP_BITS, Shown(C, n, p.display),
         NEW kind \in {"num", "label"}, NEW a, Has(C, n, a, kind)
  PROVE  Found(C, n, p, kind, Resolve(p, a))
<1>1a. PICK k \in 0 .. n, Y \in [0 .. MaxLevel -> Nat] : \E b :
        /\ Resolve(p, a) = [p |-> Showing(p, Y), a |-> b]
        /\ Shown(C, k, Y) /\ Y[0] = p.display[0] /\ Has(C, k, b, kind)
        /\ ArgDescriptor(Showing(p, Y), b).kind # "formal"
  BY ResolveIs
<1>1. PICK b :
        /\ Resolve(p, a) = [p |-> Showing(p, Y), a |-> b]
        /\ Shown(C, k, Y) /\ Y[0] = p.display[0] /\ Has(C, k, b, kind)
        /\ ArgDescriptor(Showing(p, Y), b).kind # "formal"
  BY <1>1a
<1> DEFINE q == Showing(p, Y)
<1>2. q \in State /\ q.stack = p.stack /\ q.display = Y
  BY ShowingAgain
<1>3. ArgDescriptor(q, b).kind # "formal" /\ Resolve(p, a) = [p |-> q, a |-> b]
  BY <1>1
<1> HIDE DEF q
<1>4. PICK e \in 1 .. k : /\ e \in 1 .. n /\ e - 1 \in 0 .. n /\ C[e - 1].at.part \in UserParts
                          /\ ArgDescriptor(q, b) \in Pords(C[e - 1].at.home, kind)
                          /\ ArgDisplay(q, b) = [level |-> Len(C[e - 1].dis), fp |-> C[e - 1].fp]
  <2>1. /\ n \in Nat /\ Contexts(C, n) /\ q \in State /\ Linked(C, n, q.stack)
        /\ C[n].base <= Len(q.stack) /\ Len(q.stack) < 2^FP_BITS /\ k \in 0 .. n
        /\ Shown(C, k, q.display) /\ Has(C, k, b, kind)
    BY <1>1, <1>2
  <2> QED BY <2>1, DescriptorIs
<1>5. Resolve(p, a).p = q /\ Resolve(p, a).a = b
  BY <1>3
<1>6. Resolve(p, a).p = Showing(p, Y)
  BY <1>5 DEF q
<1> DEFINE i == e - 1
<1>7. /\ i \in 0 .. n /\ C[i].at.part \in UserParts /\ ArgDescriptor(q, b) \in Pords(C[i].at.home, kind)
      /\ ArgDisplay(q, b) = [level |-> Len(C[i].dis), fp |-> C[i].fp]
  BY <1>4
<1> HIDE DEF i
<1> QED BY <1>1, <1>3, <1>5, <1>6, <1>7 DEF Found

(* The frame of a variable of a block around the text of context i. *)
LEMMA ArgFrameIs ==
  ASSUME NEW C, NEW n \in Nat, Contexts(C, n), NEW p, Linked(C, n, p.stack), NEW i \in 0 .. n,
         Calls(C[i]), NEW a, ArgDisplay(p, a) = [level |-> Len(C[i].dis), fp |-> C[i].fp],
         NEW l \in 1 .. Len(C[i].dis)
  PROVE  ArgFrame(p, a, l) = C[C[i].dis[l]].f /\ C[C[i].dis[l]].f # 0
<1>1. Leads(C, i, C[i].fp)
  BY LevelIs
<1>2. Spine(p, Len(C[i].dis), C[i].fp)[l] = C[C[i].dis[l]].f
  BY <1>1, SpineIs
<1>3. /\ ArgDisplay(p, a).level = Len(C[i].dis) /\ ArgDisplay(p, a).fp = C[i].fp
  OBVIOUS
<1>4. ArgFrame(p, a, l) = Spine(p, Len(C[i].dis), C[i].fp)[l]
  BY <1>3 DEF ArgFrame, Spine
<1>5. C[C[i].dis[l]].f # 0
  <2>1. C[i].dis[l] \in 1 .. n /\ n \in 0 .. n
    BY Encloser
  <2> QED BY <2>1, Within
<1> QED BY <1>2, <1>4, <1>5

(* A value is taken: it is pushed, or combined with the operand below it. *)
LEMMA Redisplayed ==
  ASSUME NEW C, NEW n, NEW p, Runs(C, n, p), NEW Y \in [0 .. MaxLevel -> Nat], Y[0] = 0,
         Shown(C, n, Y)
  PROVE  Runs(C, n, Showing(p, Y))
<1> DEFINE q == Showing(p, Y)
<1>1. p \in State
  BY DEF Runs
<1>2. q \in State /\ q.display = Y /\ q.stack = p.stack
  BY <1>1, ShowingAgain
<1>3. /\ q.frame_ptr = p.frame_ptr /\ q.last_frame_ptr = p.last_frame_ptr
      /\ q.stack_base = p.stack_base /\ q.eis_operation = p.eis_operation
  BY <1>1, ShowingIs
<1> HIDE DEF q
<1>4. Runs(C, n, q)
  BY <1>2, <1>3 DEF Runs
<1> QED BY <1>4 DEF q

LEMMA PushShowing ==
  ASSUME NEW p \in State, NEW Y \in [0 .. MaxLevel -> Nat], NEW c \in Cells
  PROVE  Push(Showing(p, Y), c) = Showing(Push(p, c), Y)
<1> DEFINE q == Showing(p, Y)
           r == Push(p, c)
<1>1. q \in State /\ q.stack = p.stack /\ q.display = Y
  BY ShowingAgain
<1>2. /\ q.frame_ptr = p.frame_ptr /\ q.last_frame_ptr = p.last_frame_ptr
      /\ q.stack_base = p.stack_base /\ q.eis_operation = p.eis_operation
  BY ShowingIs
<1>3. r = [stack |-> Append(p.stack, c), frame_ptr |-> p.frame_ptr,
           last_frame_ptr |-> p.last_frame_ptr, stack_base |-> p.stack_base,
           display |-> p.display, eis_operation |-> p.eis_operation]
  BY PushIs
<1>4. Append(p.stack, c) \in Seq(Cells)
  BY DEF State
<1>5. r \in State
  BY <1>3, <1>4 DEF State
<1>6. /\ r.stack = Append(p.stack, c) /\ r.frame_ptr = p.frame_ptr
      /\ r.last_frame_ptr = p.last_frame_ptr /\ r.stack_base = p.stack_base
      /\ r.eis_operation = p.eis_operation
  BY <1>3
<1> HIDE DEF q, r
<1>7. Push(q, c) = [stack |-> Append(q.stack, c), frame_ptr |-> q.frame_ptr,
                    last_frame_ptr |-> q.last_frame_ptr, stack_base |-> q.stack_base,
                    display |-> q.display, eis_operation |-> q.eis_operation]
  BY <1>1, PushIs
<1>8. Showing(r, Y) = [stack |-> r.stack, frame_ptr |-> r.frame_ptr,
                       last_frame_ptr |-> r.last_frame_ptr, stack_base |-> r.stack_base,
                       display |-> Y, eis_operation |-> r.eis_operation]
  BY <1>5, ShowingIs
<1>9. Push(q, c) = Showing(r, Y)
  BY <1>1, <1>2, <1>6, <1>7, <1>8
<1> QED BY <1>9 DEF q, r

LEMMA Applied ==
  ASSUME NEW C, NEW n, NEW p, Runs(C, n, p), Calls(C[n]), NEW Y \in [0 .. MaxLevel -> Nat],
         Y[0] = 0, NEW op
  PROVE  Runs(C, n, RestoreDisplay(ApplyValue(Showing(p, Y), op)))
<1> DEFINE r == ApplyValue(p, op)
<1>1. p \in State
  BY DEF Runs
<1>2. Val(0) \in Cells /\ Number(Val(0))
  BY CellTypes
<1>3. Runs(C, n, r)
  <2>1. Runs(C, n, Push(p, Val(0)))
    BY <1>2, Pushed
  <2> QED BY <2>1 DEF ApplyValue
<1>4. ApplyValue(Showing(p, Y), op) = Showing(r, Y)
  <2>1. Push(Showing(p, Y), Val(0)) = Showing(Push(p, Val(0)), Y)
    BY <1>1, <1>2, PushShowing
  <2> QED BY <2>1 DEF ApplyValue
<1> HIDE DEF r
<1> DEFINE q == Showing(r, Y)
<1>5. r \in State /\ n \in Nat /\ Contexts(C, n) /\ Linked(C, n, r.stack)
      /\ r.stack_base = C[n].base /\ r.frame_ptr = C[n].fp
  BY <1>3 DEF Runs, Laid
<1>6. /\ q \in State /\ q.stack = r.stack /\ q.display = Y
      /\ \A Z : Showing(q, Z) = Showing(r, Z)
  BY <1>5, ShowingAgain
<1>7. q.stack_base = C[n].base /\ q.frame_ptr = C[n].fp
  BY <1>5, ShowingIs
<1> HIDE DEF q
<1>8. n \in 0 .. n
  BY <1>5
<1>9. PICK Z \in [0 .. MaxLevel -> Nat] :
        RestoreDisplay(q) = Showing(q, Z) /\ Shown(C, n, Z) /\ Z[0] = q.display[0]
  <2>1. /\ n \in Nat /\ Contexts(C, n) /\ q \in State /\ Linked(C, n, q.stack) /\ n \in 0 .. n
        /\ Calls(C[n]) /\ q.stack_base = C[n].base /\ q.frame_ptr = C[n].fp
    BY <1>5, <1>6, <1>7, <1>8
  <2> QED BY <2>1, RestoreIs
<1>10. Runs(C, n, Showing(r, Z))
  BY <1>3, <1>6, <1>9, Redisplayed
<1> QED BY <1>4, <1>6, <1>9, <1>10 DEF q

(* An implicit subroutine, or a function without parameters, is called. *)
LEMMA CreatedOver ==
  ASSUME NEW p \in State, NEW Y \in [0 .. MaxLevel -> Nat], NEW result \in Cells, NEW ret,
         NEW num \in Nat, NEW w \in Nat, w = Len(p.stack),
         NEW st \in Seq(Cells), st = FrameCreate(Push(p, result), ret, num).stack
  PROVE  FrameCreate(Push(Showing(p, Y), result), ret, num)
           = Made(p, st, w + 1, w + 6 + 2 * num, w + 1, Y, "PUSH_VALUE")
<1> DEFINE r == Push(p, result)
           q == Showing(r, Y)
<1>1. /\ r = [stack |-> Append(p.stack, result), frame_ptr |-> p.frame_ptr,
              last_frame_ptr |-> p.last_frame_ptr, stack_base |-> p.stack_base,
              display |-> p.display, eis_operation |-> p.eis_operation]
  BY PushIs
<1>2. Append(p.stack, result) \in Seq(Cells) /\ Len(Append(p.stack, result)) = w + 1
  BY DEF State
<1>3. r \in State /\ r.eis_operation = p.eis_operation /\ Len(r.stack) = w + 1
  BY <1>1, <1>2 DEF State
<1>4. Push(Showing(p, Y), result) = q
  BY PushShowing
<1>5. st = FrameCreate(r, ret, num).stack
  OBVIOUS
<1> HIDE DEF r
<1>6. q \in State /\ q.stack = r.stack /\ q.display = Y
  BY <1>3, ShowingAgain
<1>7. q.frame_ptr = r.frame_ptr /\ q.stack_base = r.stack_base /\ q.eis_operation = r.eis_operation
  BY <1>3, ShowingIs
<1> HIDE DEF q
<1>8. st = FrameCreate(q, ret, num).stack
  <2>1. BlockLevel(q) = BlockLevel(r)
    BY <1>6, <1>7 DEF BlockLevel, Field
  <2> DEFINE frame(x) ==
               <<Addr(x.frame_ptr), ret, Addr(x.stack_base), Addr(0), Addr(0)>>
               \o [i \in 1 .. 2 * num |->
                     IF i % 2 = 1 THEN Val(0) ELSE Addr(Pard(BlockLevel(x), x.frame_ptr))]
  <2>2. frame(q) = frame(r)
    BY <1>7, <2>1
  <2>3. FrameCreate(q, ret, num).stack = q.stack \o frame(q)
    BY <1>6 DEF FrameCreate, SetOperation, State
  <2>4. FrameCreate(r, ret, num).stack = r.stack \o frame(r)
    BY <1>3 DEF FrameCreate, SetOperation, State
  <2> HIDE DEF frame
  <2> QED BY <1>5, <1>6, <2>2, <2>3, <2>4
<1>9. FrameCreate(q, ret, num)
        = Made(q, st, w + 1, (w + 1) + 5 + 2 * num, w + 1, q.display, "PUSH_VALUE")
  <2> DEFINE v == w + 1
  <2>1. /\ v \in Nat /\ v = Len(q.stack) /\ q \in State /\ num \in Nat /\ st \in Seq(Cells)
        /\ st = FrameCreate(q, ret, num).stack
    BY <1>3, <1>6, <1>8
  <2> HIDE DEF v
  <2>2. FrameCreate(q, ret, num) = Made(q, st, v, v + 5 + 2 * num, v, q.display, "PUSH_VALUE")
    BY ONLY <2>1, CreatedIs
  <2> QED BY <2>2 DEF v
<1>10. (w + 1) + 5 + 2 * num = w + 6 + 2 * num
  OBVIOUS
<1> QED BY <1>3, <1>4, <1>6, <1>7, <1>9, <1>10 DEF Made

LEMMA SettingIs ==
  ASSUME NEW p, NEW st, NEW f, NEW base, NEW fp, NEW Y, NEW op, NEW op2
  PROVE  SetOperation(Made(p, st, f, base, fp, Y, op), base, op2)
           = Made(p, st, f, base, fp, Y, op2)
<1>1. WithOperation(WithOperation(p.eis_operation, base, op), base, op2)
        = WithOperation(p.eis_operation, base, op2)
  BY DEF WithOperation
<1>2. ASSUME NEW e
      PROVE  SetOperation([stack |-> st, frame_ptr |-> fp, last_frame_ptr |-> f,
                           stack_base |-> base, display |-> Y, eis_operation |-> e], base, op2)
               = [stack |-> st, frame_ptr |-> fp, last_frame_ptr |-> f,
                  stack_base |-> base, display |-> Y, eis_operation |-> WithOperation(e, base, op2)]
  BY DEF SetOperation, WithOperation
<1> QED BY <1>1, <1>2 DEF Made

(* Where the PORD of a subroutine leads. *)
LEMMA SubIs ==
  ASSUME NEW C, NEW n \in Nat, Contexts(C, n), NEW i \in 0 .. n, C[i].at.part \in UserParts,
         NEW kind \in {"num", "label"}, NEW d \in Pords(C[i].at.home, kind),
         d.kind \in {"sub", "asub"}
  PROVE  /\ d.at \in Code
         /\ d.kind = "asub" <=> d.at.part = "address"
         /\ \/ d.at.home = C[i].at.home /\ d.at.part \in ThunkParts
            \/ /\ d.at.home \in Block /\ d.at.part = "entry" /\ d.at.home \notin ForBlock
               /\ Formals[d.at.home] = << >> /\ Encloses(C, i, d.at.home, Level(d.at.home) - 1)
<1> DEFINE h == C[i].at.home
<1>1. h \in Block \cup {Main}
  BY UserIs
<1>2. d.kind # "static" /\ d.kind # "stack" /\ d.kind # "formal"
  OBVIOUS
<1>3. \/ /\ d.kind = "sub"
         /\ \/ d.at = At(h, "value") \/ d.at = At(h, "label")
            \/ \E b \in VisibleFrom(h) : /\ Procedure(b) /\ Formals[b] = << >>
                                         /\ d.at = At(b, "entry")
      \/ d.kind = "asub" /\ d.at = At(h, "address")
  BY <1>2, PordIs
<1> HIDE DEF h
<1>4. CASE d.at = At(h, "value") /\ d.kind = "sub"
  BY <1>1, <1>4 DEF At, Code, Parts, ThunkParts, h
<1>5. CASE d.at = At(h, "label") /\ d.kind = "sub"
  BY <1>1, <1>5 DEF At, Code, Parts, ThunkParts, h
<1>6. CASE d.at = At(h, "address") /\ d.kind = "asub"
  BY <1>1, <1>6 DEF At, Code, Parts, ThunkParts, h
<1>7. CASE d.kind = "sub" /\ \E b \in VisibleFrom(h) : /\ Procedure(b) /\ Formals[b] = << >>
                                                       /\ d.at = At(b, "entry")
  <2>1. PICK b \in VisibleFrom(h) : Procedure(b) /\ Formals[b] = << >> /\ d.at = At(b, "entry")
    BY <1>7
  <2>2. i \in Nat /\ Contexts(C, i)
    BY DEF Contexts
  <2>3. b \in Block /\ Encloses(C, i, b, Level(b) - 1)
    BY <2>1, <2>2, VisibleIs DEF h
  <2>4. d.at.home = b /\ d.at.part = "entry" /\ d.at \in Code
    BY <2>1, <2>3 DEF At, Code, Parts
  <2>5. b \notin ForBlock
    BY <2>1 DEF Procedure
  <2> QED BY <1>7, <2>1, <2>3, <2>4, <2>5
<1> QED BY <1>3, <1>4, <1>5, <1>6, <1>7

(* The context that is made for it. *)
LEMMA ThunkSound ==
  ASSUME NEW C, NEW n \in Nat, Contexts(C, n), C[n].at.part \in UserParts \cup {"std"},
         NEW i \in 0 .. n, C[i].at.part \in UserParts,
         NEW kind \in {"num", "label"}, NEW d \in Pords(C[i].at.home, kind),
         d.kind \in {"sub", "asub"},
         NEW c \in Context, c.at = d.at, c.dis = C[i].dis, c.pords = << >>, C[n].base < c.f,
         c.base = c.f + 5, c.fp = (IF Len(C[i].dis) > 0 THEN C[i].fp ELSE c.f),
         NEW D, Replaces(C, D, n + 1, c)
  PROVE  Sound(D, n + 1)
<1> DEFINE m == n + 1
<1>1. /\ D[n + 1] = c /\ \A j \in 0 .. n : D[j] = C[j]
      /\ Nested(D, n + 1)
      /\ \A l \in 1 .. Len(C[i].dis) : D[c.dis[l]] = C[C[i].dis[l]]
      /\ \A b : \A top \in Int : Encloses(C, i, b, top) => Encloses(D, n + 1, b, top)
      /\ \A Y : Shown(C, i, Y) => Shown(D, n + 1, Y)
  BY NewDisplay
<1>2. m - 1 = n /\ D[m - 1] = C[n] /\ D[m] = c /\ Nested(D, m)
  BY <1>1
<1>3. \A b : \A top \in Int : Encloses(C, i, b, top) => Encloses(D, m, b, top)
  BY <1>1
<1> HIDE DEF m
<1> DEFINE h == C[i].at.home
<1>4. /\ h \in Block \cup {Main} /\ Level(h) \in Nat /\ Len(C[i].dis) = Level(h)
      /\ \A l \in 1 .. Level(h) : C[C[i].dis[l]].at.home = Path[h][l]
  BY UserIs
<1>5. Leads(C, i, C[i].fp)
  <2>1. CASE i = 0
    BY <2>1 DEF Contexts, Outermost, Leads
  <2>2. CASE i # 0 /\ C[i].at.part = "body"
    <3>1. i \in 1 .. n /\ InBlock(C, i)
      BY <2>2, Which
    <3> QED BY <3>1 DEF InBlock, Leads
  <2>3. CASE i # 0 /\ C[i].at.part # "body"
    <3>1. i \in 1 .. n /\ InThunk(C, i)
      BY <2>3, Which DEF UserParts
    <3> QED BY <3>1 DEF InThunk, Leads
  <2> QED BY <2>1, <2>2, <2>3
<1>6. Len(c.dis) > 0 => c.fp = D[c.dis[Len(c.dis)]].f
  <2> SUFFICES ASSUME Len(c.dis) > 0 PROVE c.fp = D[c.dis[Len(c.dis)]].f
    OBVIOUS
  <2>1. Len(C[i].dis) \in 1 .. Len(C[i].dis) /\ c.fp = C[i].fp
    BY <1>4
  <2>2. D[c.dis[Len(c.dis)]] = C[C[i].dis[Len(C[i].dis)]]
    BY <1>1, <2>1
  <2> QED BY <1>5, <2>1, <2>2 DEF Leads
<1>7. \/ d.at.home = h /\ d.at.part \in ThunkParts
      \/ /\ d.at.home \in Block /\ d.at.part = "entry" /\ d.at.home \notin ForBlock
         /\ Formals[d.at.home] = << >> /\ Encloses(C, i, d.at.home, Level(d.at.home) - 1)
  BY SubIs
<1>8. ASSUME d.at.home = h, d.at.part \in ThunkParts PROVE InThunk(D, m)
  <2>1. Encloses(C, i, h, Level(h))
    BY <1>4 DEF Encloses
  <2>2. Encloses(D, m, h, Level(h)) /\ Len(c.dis) = Level(h)
    BY <1>3, <1>4, <2>1
  <2>3. c.fp = IF Level(h) = 0 THEN c.f ELSE D[c.dis[Level(h)]].f
    BY <1>4, <1>6
  <2> HIDE DEF h
  <2> QED BY <1>2, <1>4, <1>8, <2>2, <2>3 DEF InThunk
<1>9. ASSUME d.at.home \in Block, d.at.part = "entry", d.at.home \notin ForBlock,
             Formals[d.at.home] = << >>, Encloses(C, i, d.at.home, Level(d.at.home) - 1)
      PROVE  AtEntry(D, m)
  <2> DEFINE b == d.at.home
  <2>1. Level(b) - 1 \in Int /\ FirstLocal(b) = 5
    <3>1. Level(b) \in Nat /\ FirstLocal(b) = 5 + 2 * Len(Formals[b]) /\ Len(Formals[b]) = 0
      BY <1>9, BlockTypes
    <3> HIDE DEF b
    <3> QED BY <3>1
  <2>2. Encloses(D, m, b, Level(b) - 1)
    BY <1>3, <1>9, <2>1
  <2>3. Passes(D, m, Formals[b])
    BY <1>2, <1>9 DEF Passes
  <2>4. c.fp # c.f => Len(c.dis) > 0
    OBVIOUS
  <2> QED BY <1>2, <1>6, <1>9, <2>1, <2>2, <2>3, <2>4 DEF AtEntry
<1>10. D[m - 1].base < D[m].f /\ D[m - 1].at.part \in UserParts \cup {"std"}
  BY <1>2
<1> QED BY <1>2, <1>7, <1>8, <1>9, <1>10 DEF Sound, m

(* What take_formal does to the processor then; q is p with the display Y. *)
TakenTo(q, ret, level, fp, op) ==
  LET q1 == FrameCreate(Push(q, Val(0)), Ret(ret, << >>), 0)
      q2 == IF level > 0 THEN UpdateDisplay([q1 EXCEPT !.frame_ptr = fp], level, fp) ELSE q1
  IN SetOperation(q2, q2.stack_base, op)

Takes(C, n, p, w, i, Y, st) ==
  /\ Runs(C, n, p) /\ Calls(C[n]) /\ w = Len(p.stack) /\ w < 2^FP_BITS
  /\ i \in 0 .. n /\ Leads(C, i, C[i].fp) /\ Y \in [0 .. MaxLevel -> Nat] /\ Y[0] = 0
  /\ Grown(C, n, p, Val(0), << >>, w, 0, st)

Took(C, n, p, w, i, Y, st, op) ==
  \E Z \in [0 .. MaxLevel -> Nat] :
    /\ Z[0] = 0 /\ Shown(C, i, Z)
    /\ TakenTo(Showing(p, Y), C[n].at, Len(C[i].dis), C[i].fp, op)
         = Made(p, st, w + 1, w + 6, IF Len(C[i].dis) > 0 THEN C[i].fp ELSE w + 1, Z, op)

LEMMA TakenToIs ==
  ASSUME NEW C, NEW n, NEW p, NEW w, NEW i, NEW Y, NEW st, Takes(C, n, p, w, i, Y, st), NEW op
  PROVE  Took(C, n, p, w, i, Y, st, op)
<1> USE DEF Takes, Took
<1> DEFINE ret == Ret(C[n].at, << >>)
           q1 == FrameCreate(Push(Showing(p, Y), Val(0)), ret, 0)
           level == Len(C[i].dis)
           q3 == [q1 EXCEPT !.frame_ptr = C[i].fp]
           q2 == IF level > 0 THEN UpdateDisplay(q3, level, C[i].fp) ELSE q1
<1>1. /\ n \in Nat /\ n \in 0 .. n /\ p \in State /\ Contexts(C, n) /\ Linked(C, n, p.stack)
      /\ C[n].base <= w /\ p.stack \in Seq(Cells) /\ w \in Nat
  BY DEF Runs, Laid, State
<1>2. level \in Nat /\ C[i].fp \in Nat /\ C[n].base \in Nat
  BY <1>1, Typed
<1>3. /\ st \in Seq(Cells) /\ \A a \in 1 .. w : st[a] = p.stack[a]
  <2>1. Extended(p, C[n], Val(0), << >>, w, 0, st)
    BY GrownIs
  <2> QED BY <2>1 DEF Extended
<1>4. q1 = Made(p, st, w + 1, w + 6, w + 1, Y, "PUSH_VALUE")
  <2>1. /\ Val(0) \in Cells /\ 0 \in Nat /\ st = FrameCreate(Push(p, Val(0)), ret, 0).stack
    BY CellTypes DEF Grown
  <2> HIDE DEF ret
  <2>2. FrameCreate(Push(Showing(p, Y), Val(0)), ret, 0)
          = Made(p, st, w + 1, w + 6 + 2 * 0, w + 1, Y, "PUSH_VALUE")
    <3>1. /\ p \in State /\ Y \in [0 .. MaxLevel -> Nat] /\ w \in Nat /\ w = Len(p.stack)
          /\ st \in Seq(Cells)
      BY <1>1, <1>3
    <3> QED BY ONLY <2>1, <3>1, CreatedOver
  <2>3. w + 6 + 2 * 0 = w + 6
    BY <1>1
  <2> QED BY <2>2, <2>3
<1> HIDE DEF q1
<1>5. q1 \in State /\ q1.stack = st /\ q1.display = Y
  <2>1. p.eis_operation \in Operations /\ w + 6 \in Nat /\ w + 1 \in Nat /\ "PUSH_VALUE" \in PostOps
    BY <1>1 DEF State, Operations, PostOps, FormalOps
  <2>2. WithOperation(p.eis_operation, w + 6, "PUSH_VALUE") \in Operations
    BY <2>1, WithOperationIs
  <2> QED BY <1>3, <1>4, <2>1, <2>2 DEF Made, State, Operations
<1>6. /\ q3 \in State /\ q3.stack = st /\ q3.display = Y
      /\ q3.frame_ptr = C[i].fp /\ q3.last_frame_ptr = q1.last_frame_ptr
      /\ q3.stack_base = q1.stack_base /\ q3.eis_operation = q1.eis_operation
  BY <1>2, <1>5 DEF State
<1> HIDE DEF q3
<1>7. ASSUME level > 0
      PROVE  \E Z \in [0 .. MaxLevel -> Nat] :
               /\ Z[0] = 0 /\ Shown(C, i, Z)
               /\ q2 = Made(p, st, w + 1, w + 6, C[i].fp, Z, "PUSH_VALUE")
  <2>1. Linked(C, n, q3.stack)
    <3>1. Alike(p.stack, st, C[n].base)
      <4>1. \A a \in 1 .. C[n].base : a \in 1 .. w
        BY <1>1, <1>2
      <4> QED BY <1>3, <4>1 DEF Alike
    <3>2. C \in [Nat -> Context] /\ Same(C, C, n)
      BY <1>1 DEF Contexts, Same
    <3>3. Linked(C, n, st)
      BY <1>1, <3>1, <3>2, Below
    <3> QED BY <1>6, <3>3
  <2>2. PICK Z \in [0 .. MaxLevel -> Nat] :
          /\ UpdateDisplay(q3, level, C[i].fp) = Showing(q3, Z)
          /\ Shown(C, i, Z) /\ Z[0] = q3.display[0]
    <3>1. /\ n \in Nat /\ Contexts(C, n) /\ q3 \in State /\ Linked(C, n, q3.stack)
          /\ i \in 0 .. n /\ C[i].fp \in Nat /\ Leads(C, i, C[i].fp)
      BY <1>1, <1>2, <1>6, <2>1
    <3>2. \E Z \in [0 .. MaxLevel -> Nat] :
            /\ UpdateDisplay(q3, Len(C[i].dis), C[i].fp) = Showing(q3, Z)
            /\ Shown(C, i, Z) /\ Z[0] = q3.display[0]
      BY ONLY <3>1, DisplayIs
    <3> QED BY <3>2
  <2>3. q2 = Showing(q3, Z)
    BY <1>7, <2>2
  <2>4. Showing(q3, Z) = Made(p, st, w + 1, w + 6, C[i].fp, Z, "PUSH_VALUE")
    <3>1. Showing(q3, Z) = [stack |-> q3.stack, frame_ptr |-> q3.frame_ptr,
                            last_frame_ptr |-> q3.last_frame_ptr, stack_base |-> q3.stack_base,
                            display |-> Z, eis_operation |-> q3.eis_operation]
      BY <1>6, ShowingIs
    <3>2. /\ q1.last_frame_ptr = w + 1 /\ q1.stack_base = w + 6
          /\ q1.eis_operation = WithOperation(p.eis_operation, w + 6, "PUSH_VALUE")
      BY <1>4 DEF Made
    <3> QED BY <1>6, <3>1, <3>2 DEF Made
  <2> QED BY <1>6, <2>2, <2>3, <2>4
<1>8. ASSUME ~ (level > 0)
      PROVE  /\ Shown(C, i, Y) /\ q2 = Made(p, st, w + 1, w + 6, w + 1, Y, "PUSH_VALUE")
  <2>1. level = 0
    BY <1>2, <1>8
  <2>2. 1 .. Len(C[i].dis) = {}
    BY <2>1
  <2> QED BY <1>4, <1>8, <2>2 DEF Shown
<1>9. TakenTo(Showing(p, Y), C[n].at, level, C[i].fp, op) = SetOperation(q2, q2.stack_base, op)
  BY DEF TakenTo, q1, q3
<1> HIDE DEF q2
<1>10. ASSUME NEW fp, NEW Z, q2 = Made(p, st, w + 1, w + 6, fp, Z, "PUSH_VALUE")
       PROVE  SetOperation(q2, q2.stack_base, op) = Made(p, st, w + 1, w + 6, fp, Z, op)
  <2>1. q2.stack_base = w + 6
    BY <1>10 DEF Made
  <2> QED BY <1>10, <2>1, SettingIs
<1>11. CASE level > 0
  BY <1>7, <1>9, <1>10, <1>11
<1>12. CASE ~ (level > 0)
  BY <1>8, <1>9, <1>10, <1>12
<1> QED BY <1>11, <1>12

LEMMA TakenByKeeps ==
  ASSUME NEW C, NEW n, NEW p, Runs(C, n, p), C[n].at.part \in UserParts \cup {"std"},
         NEW w, w = Len(p.stack), w < 2^FP_BITS, NEW i \in 0 .. n, C[i].at.part \in UserParts,
         NEW kind \in {"num", "label"}, NEW d \in Pords(C[i].at.home, kind),
         d.kind \in {"sub", "asub"}, NEW Y \in [0 .. MaxLevel -> Nat], Y[0] = 0,
         NEW op \in TakeOps, Combines(op) => C[n].base < w,
         Continue(TakenTo(Showing(p, Y), C[n].at, Len(C[i].dis), C[i].fp,
                          IF d.kind = "asub" THEN Deref(op) ELSE op), d.at)
  PROVE  Coupled' /\ error' = error
<1> DEFINE op2 == IF d.kind = "asub" THEN Deref(op) ELSE op
           fp == IF Len(C[i].dis) > 0 THEN C[i].fp ELSE w + 1
           c == [f |-> w + 1, at |-> d.at, fp |-> fp, base |-> w + 6, dis |-> C[i].dis,
                 pords |-> << >>]
           D == [C EXCEPT ![n + 1] = c]
           st == FrameCreate(Push(p, Val(0)), Ret(C[n].at, << >>), 0).stack
<1>1. /\ n \in Nat /\ n \in 0 .. n /\ p \in State /\ Contexts(C, n) /\ Linked(C, n, p.stack)
      /\ C[n].base <= w /\ p.stack \in Seq(Cells) /\ w \in Nat
  BY DEF Runs, Laid, State
<1>2. /\ C[i].fp \in Nat /\ C[n].base \in Nat /\ C[i].dis \in Seq(Nat) /\ Calls(C[n]) /\ Calls(C[i])
  BY <1>1, Typed DEF Calls
<1>3. Leads(C, i, C[i].fp)
  BY <1>1, <1>2, LevelIs
<1>4. /\ d.at \in Code /\ (d.kind = "asub" <=> d.at.part = "address")
      /\ d.at.part \in ThunkParts \cup {"entry"}
      /\ d.at.home \notin StdFun
  <2>1. /\ d.at \in Code /\ (d.kind = "asub" <=> d.at.part = "address")
        /\ \/ d.at.home = C[i].at.home /\ d.at.part \in ThunkParts
           \/ d.at.home \in Block /\ d.at.part = "entry"
    BY <1>1, SubIs
  <2>2. C[i].at.home \in Block \cup {Main}
    BY <1>1, UserIs
  <2> QED BY <2>1, <2>2, ProgramAssumption
<1>5. /\ op2 \in PostOps \ {"PUSH_ADDRESS", "REMOVE_ARG"}
      /\ (Combines(op2) => C[n].base < w)
      /\ (op2 \in {"PUSH_DEREF", "ADD_DEREF"} <=> d.at.part = "address")
  BY <1>4 DEF TakeOps, Deref, PostOps, FormalOps, Combines
<1> HIDE DEF op2
<1>6. /\ c \in Context /\ c.f = w + 1 /\ c.at = d.at /\ c.fp = fp /\ c.base = w + 6
      /\ c.dis = C[i].dis /\ c.pords = << >>
  <2>1. w + 1 \in Nat /\ w + 6 \in Nat
    BY <1>1
  <2>2. fp \in Nat
    BY <1>2, <2>1
  <2>3. << >> \in Seq(PordSet)
    OBVIOUS
  <2> HIDE DEF fp
  <2> QED BY <1>2, <1>4, <2>1, <2>2, <2>3 DEF Context
<1> HIDE DEF c
<1>7. Replaces(C, D, n + 1, c)
  BY DEF Replaces
<1> HIDE DEF D
<1>8. Sound(D, n + 1)
  <2>1. C[n].base < c.f /\ c.base = c.f + 5 /\ c.fp = IF Len(C[i].dis) > 0 THEN C[i].fp ELSE c.f
    <3>1. C[n].base < w + 1 /\ w + 6 = (w + 1) + 5
      BY <1>1, <1>2
    <3> QED BY <1>6, <3>1
  <2> HIDE DEF fp
  <2>2. /\ n \in Nat /\ Contexts(C, n) /\ C[n].at.part \in UserParts \cup {"std"}
        /\ i \in 0 .. n /\ C[i].at.part \in UserParts
        /\ kind \in {"num", "label"} /\ d \in Pords(C[i].at.home, kind)
        /\ d.kind \in {"sub", "asub"} /\ c \in Context /\ c.at = d.at /\ c.dis = C[i].dis
        /\ c.pords = << >> /\ Replaces(C, D, n + 1, c)
    BY <1>1, <1>6, <1>7
  <2> QED BY ONLY <2>1, <2>2, ThunkSound
<1>9. Grown(C, n, p, Val(0), << >>, w, 0, st)
  BY DEF Grown
<1> HIDE DEF st
<1>10. PICK Z \in [0 .. MaxLevel -> Nat] :
         /\ Z[0] = 0 /\ Shown(C, i, Z)
         /\ TakenTo(Showing(p, Y), C[n].at, Len(C[i].dis), C[i].fp, op2)
              = Made(p, st, w + 1, w + 6, IF Len(C[i].dis) > 0 THEN C[i].fp ELSE w + 1, Z, op2)
  <2>1. Takes(C, n, p, w, i, Y, st)
    BY <1>2, <1>3, <1>9 DEF Takes
  <2>2. Took(C, n, p, w, i, Y, st, op2)
    BY ONLY <2>1, TakenToIs
  <2> QED BY <2>2 DEF Took
<1>11. Shown(D, n + 1, Z)
  <2>1. /\ n \in Nat /\ Contexts(C, n) /\ i \in 0 .. n /\ c \in Context /\ c.dis = C[i].dis
        /\ Replaces(C, D, n + 1, c)
    BY <1>1, <1>6, <1>7
  <2>2. \A X : Shown(C, i, X) => Shown(D, n + 1, X)
    BY ONLY <2>1, NewDisplay
  <2> QED BY <1>10, <2>2
<1>12. Runs(D, n + 1, Made(p, st, w + 1, c.base, c.fp, Z, op2)) /\ D[n + 1] = c
  <2>1. ~ Entered(c) /\ Val(0) # Null
    BY <1>4, <1>6, CellTypes DEF Entered, ThunkParts
  <2>2. c.base = w + 6 + 2 * 0
    BY <1>1, <1>6
  <2> HIDE DEF fp
  <2>3. Enters(C, n, p, Val(0), << >>, w, 0, st, c, D, op2, Z)
    BY <1>2, <1>5, <1>6, <1>7, <1>8, <1>9, <1>10, <1>11, <2>1, <2>2 DEF Enters
  <2> QED BY ONLY <2>3, Entering
<1>13. Continue(Made(p, st, w + 1, c.base, c.fp, Z, op2), d.at)
  BY <1>6, <1>10 DEF op2
<1> QED BY <1>6, <1>12, <1>13, Continues

(* take_formal, as long as every frame pointer fits in a PARD. *)
LEMMA TakeKeeps ==
  ASSUME NEW C, NEW n, NEW p, Runs(C, n, p), C[n].at.part \in UserParts \cup {"std"},
         Len(p.stack) < 2^FP_BITS, NEW kind \in {"num", "label"}, NEW a, Has(C, n, a, kind),
         NEW op \in TakeOps, Combines(op) => C[n].base < Len(p.stack),
         Take(p, a, op, C[n].at)
  PROVE  Coupled' /\ error' = error
<1> DEFINE s == Resolve(p, a)
           d == ArgDescriptor(s.p, s.a)
           ret == C[n].at
<1>1. /\ n \in Nat /\ n \in 0 .. n /\ p \in State /\ Contexts(C, n) /\ Linked(C, n, p.stack)
      /\ C[n].base <= Len(p.stack) /\ Shown(C, n, p.display) /\ p.display[0] = 0
  BY DEF Runs, Laid
<1>2. Calls(C[n])
  BY DEF Calls
<1>3. Found(C, n, p, kind, s)
  BY <1>1, FoundIs
<1>4. \/ d.kind = "static" /\ Continue(RestoreDisplay(ApplyValue(s.p, op)), ret)
      \/ /\ d.kind = "stack"
         /\ IF ArgFrame(s.p, s.a, d.bn) = 0 THEN Fail("Cannot find arg address")
            ELSE Continue(RestoreDisplay(ApplyValue(s.p, op)), ret)
      \/ /\ d.kind \in {"sub", "asub"}
         /\ Continue(TakenTo(s.p, ret, ArgDisplay(s.p, s.a).level, ArgDisplay(s.p, s.a).fp,
                             IF d.kind = "asub" THEN Deref(op) ELSE op), d.at)
      \/ d.kind \notin {"static", "stack", "sub", "asub"}
  BY DEF Take, TakenTo
<1> HIDE DEF s
<1>5. PICK i \in 0 .. n, Y \in [0 .. MaxLevel -> Nat] :
        /\ s.p = Showing(p, Y) /\ Y[0] = p.display[0]
        /\ C[i].at.part \in UserParts
        /\ d \in Pords(C[i].at.home, kind) /\ d.kind # "formal"
        /\ ArgDisplay(s.p, s.a) = [level |-> Len(C[i].dis), fp |-> C[i].fp]
  BY <1>3 DEF Found
<1>6. Y[0] = 0
  BY <1>1, <1>5
<1>7. ASSUME Continue(RestoreDisplay(ApplyValue(s.p, op)), ret) PROVE Coupled' /\ error' = error
  <2>1. Runs(C, n, RestoreDisplay(ApplyValue(s.p, op)))
    BY <1>2, <1>5, <1>6, Applied
  <2> QED BY <1>7, <2>1, Continues
<1> HIDE DEF d
<1>8. CASE d.kind = "static"
  BY <1>4, <1>7, <1>8
<1>9. CASE d.kind = "stack"
  <2>1. d.bn \in 1 .. Level(C[i].at.home)
    BY <1>5, <1>9, PordIs
  <2>2. d.bn \in 1 .. Len(C[i].dis)
    BY <1>1, <1>5, <2>1, UserIs
  <2>3. s.p.stack = p.stack
    BY <1>1, <1>5, ShowingAgain
  <2>4. ArgFrame(s.p, s.a, d.bn) # 0
    <3> DEFINE q == s.p
               x == s.a
               l == d.bn
    <3>1. /\ n \in Nat /\ Contexts(C, n) /\ Linked(C, n, q.stack) /\ i \in 0 .. n /\ Calls(C[i])
          /\ ArgDisplay(q, x) = [level |-> Len(C[i].dis), fp |-> C[i].fp]
          /\ l \in 1 .. Len(C[i].dis)
      BY <1>1, <1>5, <2>2, <2>3 DEF Calls
    <3> HIDE DEF q, x, l
    <3>2. ArgFrame(q, x, l) = C[C[i].dis[l]].f /\ C[C[i].dis[l]].f # 0
      BY ONLY <3>1, ArgFrameIs
    <3>3. ArgFrame(q, x, l) # 0
      BY <3>2
    <3> QED BY <3>3 DEF q, x, l
  <2> QED BY <1>4, <1>7, <1>9, <2>4
<1>10. CASE d.kind \in {"sub", "asub"}
  <2>1. Continue(TakenTo(Showing(p, Y), C[n].at, Len(C[i].dis), C[i].fp,
                         IF d.kind = "asub" THEN Deref(op) ELSE op), d.at)
    <3> DEFINE c == ArgDisplay(s.p, s.a)
               op2 == IF d.kind = "asub" THEN Deref(op) ELSE op
    <3>1. c = [level |-> Len(C[i].dis), fp |-> C[i].fp] /\ s.p = Showing(p, Y)
      BY <1>5
    <3>2. Continue(TakenTo(s.p, C[n].at, c.level, c.fp, op2), d.at)
      <4>1. d.kind # "static" /\ d.kind # "stack"
        BY <1>10
      <4> QED BY <1>4, <1>10, <4>1
    <3> HIDE DEF c, op2
    <3>3. c.level = Len(C[i].dis) /\ c.fp = C[i].fp
      BY <3>1
    <3>4. Continue(TakenTo(Showing(p, Y), C[n].at, Len(C[i].dis), C[i].fp, op2), d.at)
      BY ONLY <3>1, <3>2, <3>3
    <3> QED BY <3>4 DEF op2
  <2> DEFINE w == Len(p.stack)
  <2>2. /\ Runs(C, n, p) /\ C[n].at.part \in UserParts \cup {"std"} /\ w = Len(p.stack)
        /\ w < 2^FP_BITS /\ i \in 0 .. n /\ C[i].at.part \in UserParts
        /\ kind \in {"num", "label"} /\ d \in Pords(C[i].at.home, kind)
        /\ d.kind \in {"sub", "asub"} /\ Y \in [0 .. MaxLevel -> Nat] /\ Y[0] = 0
        /\ op \in TakeOps /\ (Combines(op) => C[n].base < w)
    BY <1>5, <1>6, <1>10
  <2> HIDE DEF w
  <2> QED BY ONLY <2>1, <2>2, TakenByKeeps
<1>11. d.kind \in {"static", "stack", "sub", "asub"}
  BY <1>5, PordIs
<1> QED BY <1>8, <1>9, <1>10, <1>11

LEMMA TakeFormalKeeps ==
  ASSUME Coupled, InUserText, Len(stack) < 2^FP_BITS,
         NEW a \in FormalsInScope(ot.home, "num"), NEW op \in TakeOps, TakeFormal(a, op)
  PROVE  Coupled' /\ error' = error
<1>1. PICK C, n, p : Runs(C, n, p) /\ p = Now /\ ot = C[n].at
  BY DEF Coupled
<1>2. /\ n \in Nat /\ n \in 0 .. n /\ Contexts(C, n) /\ stack = p.stack
      /\ Temps = Len(p.stack) - C[n].base /\ C[n].base \in Nat /\ Len(p.stack) \in Nat
  BY <1>1, TempsAre
<1>3. C[n].at.part \in UserParts
  BY <1>1 DEF InUserText
<1>4. Has(C, n, a, "num")
  BY <1>1, <1>2, <1>3, HasIs
<1>5. Take(p, a, op, C[n].at) /\ (Combines(op) => Temps > 0)
  BY <1>1 DEF TakeFormal, CanApply
<1>6. Combines(op) => C[n].base < Len(p.stack)
  BY <1>2, <1>5
<1> QED BY <1>1, <1>2, <1>3, <1>4, <1>5, <1>6, TakeKeeps

LEMMA GotoFormalKeeps ==
  ASSUME Coupled, InUserText, Len(stack) < 2^FP_BITS,
         NEW a \in FormalsInScope(ot.home, "label"), GotoFormal(a)
  PROVE  Coupled' /\ error' = error
<1>1. PICK C, n, p : Runs(C, n, p) /\ p = Now /\ ot = C[n].at
  BY DEF Coupled
<1>2. n \in Nat /\ n \in 0 .. n /\ Contexts(C, n) /\ stack = p.stack
  BY <1>1, TempsAre
<1>3. C[n].at.part \in UserParts
  BY <1>1 DEF InUserText
<1>4. Has(C, n, a, "label")
  BY <1>1, <1>2, <1>3, HasIs
<1>5. Take(p, a, "PUSH_VALUE", C[n].at)
  BY <1>1 DEF GotoFormal
<1>6. "PUSH_VALUE" \in TakeOps /\ ~ Combines("PUSH_VALUE")
  BY DEF TakeOps, Combines
<1> QED BY <1>1, <1>2, <1>3, <1>4, <1>5, <1>6, TakeKeeps

(* A call of a formal procedure; one that was passed on is not known. *)
LEMMA CallFormalKeeps ==
  ASSUME Coupled, InUserText, Len(stack) < 2^FP_BITS, \A b \in PassedProcs : Level(b) = 1,
         NEW a \in FormalsInScope(ot.home, "proc"), NEW result \in {Null, Val(0)},
         NEW args \in ArgLists(ot.home, ProcFormals), CallFormal(a, args, result)
  PROVE  /\ Coupled'
         /\ \/ error' = error
            \/ /\ error' = "Unknown descriptor of formal procedure"
               /\ "formal procedure" \in Actuals
<1>1. PICK C, n, p : Runs(C, n, p) /\ p = Now /\ ot = C[n].at
  BY DEF Coupled
<1>2. /\ n \in Nat /\ n \in 0 .. n /\ Contexts(C, n) /\ stack = p.stack /\ p \in State
      /\ Linked(C, n, p.stack) /\ C[n].base <= Len(p.stack) /\ Shown(C, n, p.display)
  BY <1>1, TempsAre
<1>3. C[n].at.part \in UserParts
  BY <1>1 DEF InUserText
<1>4. Has(C, n, a, "proc")
  BY <1>1, <1>2, <1>3, HasIs
<1> DEFINE d == ArgDescriptor(Now, a)
<1>5. PICK e \in 1 .. n : d \in Pords(C[e - 1].at.home, "proc")
  BY <1>1, <1>2, <1>4, DescriptorIs
<1> HIDE DEF d
<1>6. \/ d \in {Sub(At(b, "entry")) : b \in PassedProcs \cup StdFun}
      \/ /\ d \in {Passed(x) : x \in FormalsInScope(C[e - 1].at.home, "proc")}
         /\ "formal procedure" \in Actuals
  BY <1>5 DEF Pords, ProcPords, If
<1>7. CASE d.kind # "sub"
  <2>1. Fail("Unknown descriptor of formal procedure")
    BY <1>7 DEF CallFormal, d
  <2>2. Coupled'
    <3>1. p = Now' /\ ot' = C[n].at
      BY <1>1, <2>1 DEF Fail, Now
    <3> QED BY <1>1, <3>1 DEF Coupled
  <2>3. "formal procedure" \in Actuals
    <3>1. d \notin {Sub(At(b, "entry")) : b \in PassedProcs \cup StdFun}
      BY <1>7 DEF Sub
    <3> QED BY <1>6, <3>1
  <2>4. error' = "Unknown descriptor of formal procedure"
    BY <2>1 DEF Fail
  <2> QED BY <2>2, <2>3, <2>4
<1>8. CASE d.kind = "sub"
  <2>1. PICK b \in PassedProcs \cup StdFun : d = Sub(At(b, "entry"))
    <3>1. d \notin {Passed(x) : x \in FormalsInScope(C[e - 1].at.home, "proc")}
      BY <1>8 DEF Passed
    <3> QED BY <1>6, <3>1
  <2> DEFINE at == At(b, "entry")
             w == Len(p.stack)
  <2>2. /\ d.at = at /\ d.at.home = b /\ at.home = b /\ at.part = "entry"
    BY <2>1 DEF Sub, At
  <2>3. /\ b \in StdFun => result # Null
        /\ Continue(FrameCreate(Push(p, result), Ret(C[n].at, args), Len(args)), at)
    BY <1>1, <1>8, <2>2 DEF CallFormal, d
  <2>4. /\ C[n].at.home \in Block \cup {Main} /\ Level(C[n].at.home) \in Nat
        /\ Len(C[n].dis) = Level(C[n].at.home)
    BY <1>2, <1>3, UserIs
  <2>5. ProcFormals \in Seq(FormalKinds) /\ Len(ProcFormals) = 1 /\ ProcFormals[1] = "num"
    BY DEF ProcFormals, FormalKinds
  <2> HIDE DEF at, w
  <2>6. /\ args \in Seq(PordSet) /\ Len(args) = Len(ProcFormals)
        /\ \A k \in 1 .. Len(args) : args[k] \in Pords(C[n].at.home, ProcFormals[k])
    BY <1>1, <2>4, <2>5, ArgsAre
  <2>7. at \in Code
    <3>1. b \in Block \cup {Main} \cup StdFun
      BY ProgramAssumption
    <3> QED BY <3>1 DEF at, At, Code, Parts
  <2>8. CASE b \in StdFun
    <3>1. Len(C[n].dis) > 0
      <4>1. a.bn \in 1 .. Len(C[n].dis)
        BY <1>4 DEF Has
      <4> QED BY <2>4, <4>1
    <3>2. args[1] \in Pords(C[n].at.home, "num")
      BY <2>5, <2>6
    <3>3. Calling(C, n, w, at, args, result)
      BY <1>3, <2>2, <2>3, <2>5, <2>6, <2>7, <2>8, <3>1, <3>2 DEF Calling
    <3>4. w = Len(p.stack) /\ w < 2^FP_BITS
      BY <1>2 DEF w
    <3> QED BY <1>1, <2>3, <3>3, <3>4, Called
  <2>9. CASE b \in PassedProcs
    <3>1. /\ b \in Block /\ Formals[b] = ProcFormals /\ Level(b) = 1 /\ b \notin ForBlock
      <4>1. b \in Block /\ Formals[b] = ProcFormals /\ ForBlock \subseteq {x \in Block : Formals[x] = << >>}
        BY <2>9, ProgramAssumption
      <4>2. b \notin ForBlock
        <5>1. ProcFormals # << >>
          BY DEF ProcFormals
        <5> QED BY <4>1, <5>1
      <4> QED BY <2>9, <4>1, <4>2
    <3>2. Encloses(C, n, b, Level(b) - 1)
      <4>1. Level(b) - 1 = 0 /\ 1 .. 0 = {} /\ 0 <= Len(C[n].dis)
        BY <2>4, <3>1
      <4> QED BY <4>1 DEF Encloses
    <3>3. Calling(C, n, w, at, args, result)
      BY <1>3, <2>2, <2>6, <2>7, <3>1, <3>2 DEF Calling
    <3>4. w = Len(p.stack) /\ w < 2^FP_BITS
      BY <1>2 DEF w
    <3> QED BY <1>1, <2>3, <3>3, <3>4, Called
  <2> QED BY <2>8, <2>9
<1> QED BY <1>7, <1>8

-----------------------------------------------------------------------------
(***************************************************************************)
(* A block is entered: its frame gets a block number and a DISPLAY cell,   *)
(* and the display gets the frame.                                         *)
(***************************************************************************)
Numbered(p, f, L, st) ==
  /\ st \in Seq(Cells) /\ Len(st) = Len(p.stack)
  /\ st[f + 4] = Addr(L) /\ st[f + 5] = (IF L > 1 THEN Addr(p.display[L - 1]) ELSE p.stack[f + 5])
  /\ \A a \in 1 .. Len(p.stack) : a \notin {f + 4, f + 5} => st[a] = p.stack[a]

LEMMA Overwritten ==
  ASSUME NEW S, NEW s \in Seq(S), NEW i \in 1 .. Len(s), NEW v \in S
  PROVE  /\ [s EXCEPT ![i] = v] \in Seq(S) /\ Len([s EXCEPT ![i] = v]) = Len(s)
         /\ [s EXCEPT ![i] = v][i] = v
         /\ \A a \in 1 .. Len(s) : a # i => [s EXCEPT ![i] = v][a] = s[a]
OBVIOUS

LEMMA NumberedIs ==
  ASSUME NEW p \in State, NEW f \in Nat, p.frame_ptr = f, NEW L \in 1 .. MaxLevel,
         f + 5 <= Len(p.stack), Field(p, f, BN) = 0
  PROVE  \E st : Numbered(p, f, L, st) /\ SetBlockLevel(p, L) = Stacked(p, st)
<1> DEFINE i == f + 4
           j == f + 5
           s1 == [p.stack EXCEPT ![i] = Addr(L)]
           v == p.display[L - 1]
           s2 == [s1 EXCEPT ![j] = Addr(v)]
           st == IF L > 1 THEN s2 ELSE s1
<1>1. p.stack \in Seq(Cells) /\ p.display \in [0 .. MaxLevel -> Nat] /\ MaxLevel \in Nat
  BY RunTimeAssumption DEF State
<1>2. i \in 1 .. Len(p.stack) /\ j \in 1 .. Len(p.stack) /\ i # j /\ L \in Nat /\ L - 1 \in 0 .. MaxLevel
  BY <1>1
<1>3. Addr(L) \in Cells /\ v \in Nat /\ Addr(v) \in Cells
  BY <1>1, <1>2, CellTypes
<1> DEFINE q == Put(p, f + BN, Addr(L))
<1>4. q = Stacked(p, s1)
  <2>1. (f + BN) + 1 = i
    BY DEF BN
  <2> HIDE DEF i
  <2> QED BY <2>1 DEF Put, Stacked
<1>5. Stacked(p, s1).stack = s1 /\ Stacked(p, s1).frame_ptr = f /\ Stacked(p, s1).display = p.display
  BY DEF State, Stacked
<1>6. Put(Stacked(p, s1), f + DISPLAY, Addr(v)) = Stacked(p, s2)
  <2>1. (f + DISPLAY) + 1 = j
    BY DEF DISPLAY
  <2> HIDE DEF j, s1
  <2>2. Put(Stacked(p, s1), f + DISPLAY, Addr(v))
          = [Stacked(p, s1) EXCEPT !.stack = [Stacked(p, s1).stack EXCEPT ![j] = Addr(v)]]
    BY <2>1 DEF Put
  <2>3. Put(Stacked(p, s1), f + DISPLAY, Addr(v)) = [Stacked(p, s1) EXCEPT !.stack = s2]
    BY <1>5, <2>2
  <2> QED BY <2>3 DEF Stacked, State
<1>7. SetBlockLevel(p, L) = IF L > 1 THEN Stacked(p, s2) ELSE Stacked(p, s1)
  <2> HIDE DEF q, s1, s2, v
  <2>1. SetBlockLevel(p, L) = IF L > 1 THEN Put(q, q.frame_ptr + DISPLAY, Addr(q.display[L - 1])) ELSE q
    BY DEF SetBlockLevel, q
  <2>2. q.frame_ptr = f /\ q.display[L - 1] = v
    BY <1>4, <1>5 DEF v
  <2>3. SetBlockLevel(p, L) = IF L > 1 THEN Put(q, f + DISPLAY, Addr(v)) ELSE q
    BY <2>1, <2>2
  <2> QED BY <1>4, <1>6, <2>3
<1>8. SetBlockLevel(p, L) = Stacked(p, st)
  <2> HIDE DEF s1, s2
  <2> QED BY <1>7
<1>9. /\ s1 \in Seq(Cells) /\ Len(s1) = Len(p.stack) /\ s1[i] = Addr(L)
      /\ \A a \in 1 .. Len(p.stack) : a # i => s1[a] = p.stack[a]
  <2> HIDE DEF i
  <2> QED BY ONLY <1>1, <1>2, <1>3, Overwritten
<1>10. /\ s2 \in Seq(Cells) /\ Len(s2) = Len(p.stack) /\ s2[j] = Addr(v)
       /\ \A a \in 1 .. Len(p.stack) : a # j => s2[a] = s1[a]
  <2> HIDE DEF i, j, s1, v
  <2> QED BY ONLY <1>2, <1>3, <1>9, Overwritten
<1>11. Numbered(p, f, L, st)
  <2> HIDE DEF s1, s2
  <2>1. st \in Seq(Cells) /\ Len(st) = Len(p.stack)
    BY <1>9, <1>10
  <2>2. st[i] = Addr(L)
    BY <1>2, <1>9, <1>10
  <2>3. st[j] = IF L > 1 THEN Addr(v) ELSE p.stack[j]
    BY <1>2, <1>9, <1>10
  <2>4. \A a \in 1 .. Len(p.stack) : a \notin {i, j} => st[a] = p.stack[a]
    BY <1>9, <1>10
  <2> QED BY <2>1, <2>2, <2>3, <2>4 DEF Numbered
<1> HIDE DEF st
<1> QED BY <1>8, <1>11

(* Context n becomes c, with level L and a frame that is its own display. *)
Opens(C, n, c, L) ==
  /\ L \in 1 .. MaxLevel /\ L - 1 <= Len(C[n].dis) /\ ~ Entered(C[n])
  /\ c \in Context /\ Entered(c) /\ c.f = C[n].f /\ c.fp = c.f
  /\ c.pords = C[n].pords /\ c.base >= C[n].base
  /\ Len(c.dis) = L /\ c.dis[L] = n /\ \A l \in 1 .. L - 1 : c.dis[l] = C[n].dis[l]
  /\ c.at.home \in StdFun => C[n].at.home \in StdFun

LEMMA OpensOver ==
  ASSUME NEW C, NEW n \in Nat \ {0}, Contexts(C, n), NEW c, NEW L, Opens(C, n, c, L),
         NEW D, Replaces(C, D, n, c)
  PROVE  /\ D[n] = c /\ \A i \in 0 .. n - 1 : D[i] = C[i]
         /\ \A l \in 1 .. L - 1 : /\ l \in 1 .. Len(C[n].dis) /\ c.dis[l] \in 1 .. n - 1
                                  /\ D[c.dis[l]] = C[C[n].dis[l]]
         /\ Nested(D, n)
<1>1. C \in [Nat -> Context] /\ n \in 1 .. n /\ n \in 0 .. n
  BY DEF Contexts
<1>2. D[n] = c /\ \A i \in 0 .. n - 1 : D[i] = C[i]
  BY <1>1 DEF Replaces
<1>3. L \in Nat /\ L >= 1 /\ L <= MaxLevel /\ Len(C[n].dis) \in Nat /\ MaxLevel \in Nat /\ C[n].dis \in Seq(Nat)
  BY <1>1, Typed, RunTimeAssumption DEF Opens
<1>4. \A l \in 1 .. L - 1 : /\ l \in 1 .. Len(C[n].dis) /\ c.dis[l] = C[n].dis[l]
                            /\ c.dis[l] \in 1 .. n - 1
  <2> TAKE l \in 1 .. L - 1
  <2>1. l \in 1 .. Len(C[n].dis) /\ c.dis[l] = C[n].dis[l]
    BY <1>3 DEF Opens
  <2>2. C[n].dis[l] \in 1 .. n /\ Entered(C[C[n].dis[l]])
    BY <1>1, <2>1, Encloser
  <2>3. C[n].dis[l] # n
    BY <2>2 DEF Opens
  <2> QED BY <2>1, <2>2, <2>3
<1>5. \A l \in 1 .. L - 1 : D[c.dis[l]] = C[C[n].dis[l]]
  <2> TAKE l \in 1 .. L - 1
  <2>1. c.dis[l] \in 0 .. n - 1 /\ c.dis[l] = C[n].dis[l]
    BY <1>4
  <2> QED BY <1>2, <2>1
<1>6. \A l \in 1 .. L : LET e == c.dis[l]
                        IN /\ e \in 1 .. n /\ Entered(D[e]) /\ Len(D[e].dis) = l
                           /\ \A m \in 1 .. l : D[e].dis[m] = c.dis[m]
  <2> TAKE l \in 1 .. L
  <2>1. CASE l = L
    BY <1>1, <1>2, <2>1 DEF Opens
  <2>2. CASE l # L
    <3>1. l \in 1 .. L - 1 /\ l \in Nat
      BY <1>3, <2>2
    <3>2. c.dis[l] \in 1 .. n
      BY <1>4, <3>1
    <3>3. /\ Entered(C[C[n].dis[l]]) /\ Len(C[C[n].dis[l]].dis) = l
          /\ \A m \in 1 .. l : C[C[n].dis[l]].dis[m] = C[n].dis[m]
      BY <1>1, <1>4, <3>1, Encloser
    <3>4. \A m \in 1 .. l : m \in 1 .. L - 1
      BY <1>3, <3>1
    <3>5. \A m \in 1 .. l : c.dis[m] = C[n].dis[m]
      BY <1>4, <3>4
    <3>6. D[c.dis[l]] = C[C[n].dis[l]]
      BY <1>5, <3>1
    <3> QED BY <3>2, <3>3, <3>5, <3>6
  <2> QED BY <2>1, <2>2
<1>7. Nested(D, n)
  <2>1. D[n] = c
    BY <1>2
  <2>2. Len(c.dis) = L /\ L <= MaxLevel
    BY <1>3 DEF Opens
  <2> QED BY ONLY <1>6, <2>1, <2>2 DEF Nested
<1> QED BY <1>2, <1>4, <1>5, <1>7

(* The processor p in context n, but for the base, which c already has. *)
Opening(C, n, p, c, L, D) ==
  /\ n \in Nat \ {0} /\ Contexts(C, n) /\ p \in State /\ Linked(C, n, p.stack)
  /\ p.frame_ptr = C[n].f /\ c.base <= Len(p.stack) /\ Operands(C, n, Len(p.stack), p.stack)
  /\ Shown(C, n, p.display) /\ p.display[0] = 0
  /\ Opens(C, n, c, L) /\ Replaces(C, D, n, c) /\ Sound(D, n)

Opened(D, n, p, c, q) ==
  \E st, Y : /\ q = Showing(Stacked(p, st), Y)
             /\ st \in Seq(Cells) /\ Y \in [0 .. MaxLevel -> Nat]
             /\ Contexts(D, n) /\ Laid(D, n, st) /\ Shown(D, n, Y) /\ Y[0] = 0 /\ D[n] = c
             /\ Len(st) = Len(p.stack)

LEMMA NumberedLinked ==
  ASSUME NEW C, NEW n, NEW p, NEW c, NEW L, NEW D, Opening(C, n, p, c, L, D),
         NEW st, Numbered(p, C[n].f, L, st)
  PROVE  Contexts(D, n) /\ Laid(D, n, st)
<1> DEFINE f == C[n].f
           m == Len(C[n].pords)
<1>1. /\ n \in Nat \ {0} /\ Contexts(C, n) /\ p \in State /\ Linked(C, n, p.stack)
      /\ p.frame_ptr = f /\ c.base <= Len(p.stack) /\ Operands(C, n, Len(p.stack), p.stack)
      /\ Shown(C, n, p.display) /\ Opens(C, n, c, L) /\ Replaces(C, D, n, c) /\ Sound(D, n)
  BY DEF Opening
<1>2. n \in 1 .. n /\ n \in 0 .. n /\ n - 1 \in 0 .. n - 1 /\ n \in 1 .. n + 1 /\ n - 1 \in 0 .. n
  BY <1>1
<1>3. /\ f \in Nat \ {0} /\ C[n].base \in Nat /\ m \in Nat /\ f + 5 + 2 * m <= C[n].base
      /\ C[n - 1].base \in Nat /\ C[n - 1].base < f
  BY <1>1, <1>2, Within, FrameWithin, Typed
<1>4. /\ c.f = f /\ c.pords = C[n].pords /\ c.base >= C[n].base /\ c.base \in Nat /\ c \in Context
      /\ c.fp = c.f /\ Entered(c) /\ Len(c.dis) = L /\ L \in Nat /\ ~ Entered(C[n])
      /\ L \in 1 .. MaxLevel
      /\ c.at.home \in StdFun => C[n].at.home \in StdFun
  BY <1>1 DEF Opens, Context
<1>5. /\ st \in Seq(Cells) /\ Len(st) = Len(p.stack)
      /\ st[f + 4] = Addr(L) /\ st[f + 5] = (IF L > 1 THEN Addr(p.display[L - 1]) ELSE p.stack[f + 5])
      /\ \A a \in 1 .. Len(p.stack) : a \notin {f + 4, f + 5} => st[a] = p.stack[a]
      /\ Len(p.stack) \in Nat
  BY <1>1 DEF Numbered, State
<1>6. /\ D[n] = c /\ \A i \in 0 .. n - 1 : D[i] = C[i]
      /\ \A l \in 1 .. L - 1 : l \in 1 .. Len(C[n].dis) /\ D[c.dis[l]] = C[C[n].dis[l]]
  <2>1. n \in Nat \ {0} /\ Contexts(C, n) /\ Opens(C, n, c, L) /\ Replaces(C, D, n, c)
    BY <1>1
  <2>2. /\ D[n] = c /\ \A i \in 0 .. n - 1 : D[i] = C[i]
        /\ \A l \in 1 .. L - 1 : /\ l \in 1 .. Len(C[n].dis) /\ c.dis[l] \in 1 .. n - 1
                                /\ D[c.dis[l]] = C[C[n].dis[l]]
    BY ONLY <2>1, OpensOver
  <2> QED BY ONLY <2>2
<1>7. D[n - 1] = C[n - 1]
  BY <1>2, <1>6
<1>8. Linkage(C, n, p.stack) /\ Operands(C, n - 1, f - 1, p.stack)
  BY <1>1, <1>2 DEF Linked
<1> HIDE DEF f, m
<1>9. \A a \in 1 .. f + 3 : st[a] = p.stack[a]
  <2>1. \A g, w, b, b2, t \in Nat : \A a \in 1 .. g + 3 : g + 5 + 2 * w <= b /\ b2 >= b /\ b2 <= t
          => a \in 1 .. t /\ a \notin {g + 4, g + 5}
    OBVIOUS
  <2>2. \A a \in 1 .. f + 3 : a \in 1 .. Len(p.stack) /\ a \notin {f + 4, f + 5}
    BY <1>1, <1>3, <1>4, <1>5, <2>1
  <2> QED BY <1>5, <2>2
<1>10. \A a \in Nat : a > f + 5 /\ a <= Len(p.stack) => st[a] = p.stack[a]
  <2>1. \A a \in Nat : a > f + 5 /\ a <= Len(p.stack) => a \in 1 .. Len(p.stack) /\ a \notin {f + 4, f + 5}
    BY <1>3, <1>5
  <2> QED BY <1>5, <2>1
<1>11. Alike(p.stack, st, C[n - 1].base)
  <2>1. \A a \in 1 .. C[n - 1].base : a \in 1 .. f + 3
    BY <1>3
  <2> QED BY <1>9, <2>1 DEF Alike
<1>12. Operands(C, n - 1, c.f - 1, st)
  <2>1. \A a \in C[n - 1].base + 1 .. f - 1 : a \in 1 .. f + 3
    BY <1>3
  <2> QED BY <1>4, <1>8, <1>9, <2>1 DEF Operands
<1>13. Linkage(D, n, st)
  <2>1. /\ st[f] = p.stack[f] /\ st[f + 1] = p.stack[f + 1] /\ st[f + 2] = p.stack[f + 2]
        /\ st[f + 3] = p.stack[f + 3]
    <3>1. f \in 1 .. f + 3 /\ f + 1 \in 1 .. f + 3 /\ f + 2 \in 1 .. f + 3 /\ f + 3 \in 1 .. f + 3
      BY <1>3
    <3> QED BY <1>9, <3>1
  <2>2. /\ st[f] = Null \/ Number(st[f])
        /\ c.at.part \in ThunkParts \/ c.at.home \in StdFun => st[f] # Null
        /\ st[f + 1] = Addr(C[n - 1].fp) /\ st[f + 2] = Ret(C[n - 1].at, C[n].pords)
        /\ st[f + 3] = Addr(C[n - 1].base)
    <3>1. c.at.part \notin ThunkParts
      BY <1>4 DEF Entered, ThunkParts
    <3> QED BY <1>4, <1>8, <2>1, <3>1 DEF Linkage, f
  <2>3. st[f + 5].t = "addr" /\ st[f + 5].v \in Nat
    <3>1. p.stack[f + 5].t = "addr" /\ p.stack[f + 5].v \in Nat
      BY <1>8 DEF Linkage, f
    <3>2. L > 1 => p.display[L - 1] \in Nat
      <4>1. L > 1 => L - 1 \in 0 .. MaxLevel
        BY <1>4, RunTimeAssumption
      <4> QED BY <1>1, <4>1 DEF State
    <3> QED BY <1>5, <3>1, <3>2 DEF Addr
  <2>4. L > 1 => st[f + 5].v = D[c.dis[L - 1]].f
    <3> SUFFICES ASSUME L > 1 PROVE st[f + 5].v = D[c.dis[L - 1]].f
      OBVIOUS
    <3>1. L - 1 \in 1 .. L - 1
      BY <1>4
    <3>2. L - 1 \in 1 .. Len(C[n].dis) /\ D[c.dis[L - 1]] = C[C[n].dis[L - 1]]
      BY <1>6, <3>1
    <3>3. p.display[L - 1] = C[C[n].dis[L - 1]].f
      BY <1>1, <3>2 DEF Shown
    <3> QED BY <1>5, <3>2, <3>3 DEF Addr
  <2>5. \A j \in 1 .. m : /\ Number(st[f + 4 + 2 * j])
                          /\ st[f + 5 + 2 * j] = Addr(Pard(Len(C[n - 1].dis), C[n - 1].fp))
    <3> TAKE j \in 1 .. m
    <3>1. \A b, g, w, t \in Nat : \A y \in 1 .. w : g + 5 + 2 * w <= b /\ b <= t =>
             /\ g + 4 + 2 * y > g + 5 /\ g + 4 + 2 * y <= t /\ g + 4 + 2 * y \in Nat
             /\ g + 5 + 2 * y > g + 5 /\ g + 5 + 2 * y <= t /\ g + 5 + 2 * y \in Nat
      OBVIOUS
    <3>2. C[n].base <= Len(p.stack)
      BY <1>1, <1>3, <1>4, <1>5
    <3>3. st[f + 4 + 2 * j] = p.stack[f + 4 + 2 * j] /\ st[f + 5 + 2 * j] = p.stack[f + 5 + 2 * j]
      <4>1. /\ f + 4 + 2 * j > f + 5 /\ f + 4 + 2 * j <= Len(p.stack) /\ f + 4 + 2 * j \in Nat
            /\ f + 5 + 2 * j > f + 5 /\ f + 5 + 2 * j <= Len(p.stack) /\ f + 5 + 2 * j \in Nat
        BY <1>3, <1>5, <3>1, <3>2
      <4> QED BY <1>10, <4>1
    <3> QED BY <1>8, <3>3 DEF Linkage, f, m
  <2>6. \A a \in f + 6 + 2 * m .. c.base : Number(st[a])
    <3> TAKE a \in f + 6 + 2 * m .. c.base
    <3>1. a \in Nat /\ a > f + 5 /\ a <= Len(p.stack)
      <4>1. \A g, w, b, t \in Nat : \A y \in g + 6 + 2 * w .. b : b <= t => y \in Nat /\ y > g + 5 /\ y <= t
        OBVIOUS
      <4> QED BY <1>1, <1>3, <1>4, <1>5, <4>1
    <3>2. st[a] = p.stack[a]
      BY <1>10, <3>1
    <3>3. CASE a <= C[n].base
      <4>1. a \in f + 6 + 2 * m .. C[n].base
        BY <1>3, <3>1, <3>3
      <4> QED BY <1>8, <3>2, <4>1 DEF Linkage, f, m
    <3>4. CASE ~ a <= C[n].base
      <4>1. a \in C[n].base + 1 .. Len(p.stack)
        BY <1>3, <1>5, <3>1, <3>4
      <4> QED BY <1>1, <3>2, <4>1 DEF Operands
    <3> QED BY <3>3, <3>4
  <2>7. D[n].f = f /\ D[n].pords = C[n].pords /\ D[n].dis = c.dis
    BY <1>4, <1>6
  <2> QED BY <1>4, <1>5, <1>6, <1>7, <2>2, <2>3, <2>4, <2>5, <2>6, <2>7 DEF Linkage, m
<1>14. Contexts(D, n) /\ Linked(D, n, st)
  BY <1>1, <1>2, <1>4, <1>11, <1>12, <1>13, OnTop
<1>15. Operands(D, n, Len(st), st)
  <2> SUFFICES ASSUME NEW a \in c.base + 1 .. Len(st) PROVE Number(st[a])
    BY <1>6 DEF Operands
  <2>1. a \in Nat /\ a > f + 5 /\ a <= Len(p.stack) /\ a \in C[n].base + 1 .. Len(p.stack)
    <3>1. \A g, w, b, b2, t \in Nat : \A y \in b2 + 1 .. t : g + 5 + 2 * w <= b /\ b2 >= b
             => y \in Nat /\ y > g + 5 /\ y <= t /\ y \in b + 1 .. t
      OBVIOUS
    <3> QED BY <1>3, <1>4, <1>5, <3>1
  <2> QED BY <1>1, <1>10, <2>1 DEF Operands
<1> QED BY <1>1, <1>5, <1>6, <1>14, <1>15 DEF Laid

LEMMA OpenedIs ==
  ASSUME NEW C, NEW n, NEW p, NEW c, NEW L, NEW D, Opening(C, n, p, c, L, D)
  PROVE  Opened(D, n, p, c, UpdateDisplay(SetBlockLevel(p, L), L, C[n].f))
<1>1. /\ n \in Nat \ {0} /\ Contexts(C, n) /\ p \in State /\ Linked(C, n, p.stack)
      /\ p.frame_ptr = C[n].f /\ c.base <= Len(p.stack) /\ p.display[0] = 0
      /\ Opens(C, n, c, L) /\ Replaces(C, D, n, c)
  BY DEF Opening
<1>2. n \in 1 .. n /\ n \in 0 .. n /\ n \in Nat
  BY <1>1
<1>3. /\ C[n].f \in Nat /\ C[n].base \in Nat /\ Len(C[n].pords) \in Nat
      /\ C[n].f + 5 + 2 * Len(C[n].pords) <= C[n].base
  BY <1>1, <1>2, FrameWithin, Typed
<1>4. /\ L \in 1 .. MaxLevel /\ c.base >= C[n].base /\ c.base \in Nat /\ ~ Entered(C[n])
      /\ Len(c.dis) = L /\ c.dis[L] = n /\ c.f = C[n].f
  BY <1>1 DEF Opens, Context
<1>5. C[n].f + 5 <= Len(p.stack)
  <2>1. \A f, m, b, b2, t \in Nat : f + 5 + 2 * m <= b /\ b2 >= b /\ b2 <= t => f + 5 <= t
    OBVIOUS
  <2>2. Len(p.stack) \in Nat
    BY <1>1 DEF State
  <2> QED BY <1>1, <1>3, <1>4, <2>1, <2>2
<1>6. Field(p, C[n].f, BN) = 0
  BY <1>1, <1>2, <1>4, FieldsAre
<1>7. PICK st : Numbered(p, C[n].f, L, st) /\ SetBlockLevel(p, L) = Stacked(p, st)
  BY <1>1, <1>3, <1>4, <1>5, <1>6, NumberedIs
<1>8. Contexts(D, n) /\ Laid(D, n, st)
  BY <1>7, NumberedLinked
<1>9. st \in Seq(Cells) /\ Len(st) = Len(p.stack)
  BY <1>7 DEF Numbered
<1> DEFINE q == Stacked(p, st)
<1>10. q \in State /\ q.stack = st /\ q.display = p.display
  BY <1>1, <1>9 DEF Stacked, State
<1>11. D[n] = c
  BY <1>1, OpensOver
<1>12. Leads(D, n, C[n].f)
  BY <1>4, <1>11 DEF Leads
<1>13. Linked(D, n, q.stack)
  BY <1>8, <1>10 DEF Laid
<1> HIDE DEF q
<1>14. PICK Y \in [0 .. MaxLevel -> Nat] :
         /\ UpdateDisplay(q, Len(D[n].dis), C[n].f) = Showing(q, Y)
         /\ Shown(D, n, Y) /\ Y[0] = q.display[0]
  <2>1. /\ n \in Nat /\ Contexts(D, n) /\ q \in State /\ Linked(D, n, q.stack) /\ n \in 0 .. n
        /\ C[n].f \in Nat /\ Leads(D, n, C[n].f)
    BY <1>2, <1>3, <1>8, <1>10, <1>12, <1>13
  <2> QED BY ONLY <2>1, DisplayIs
<1>15. UpdateDisplay(SetBlockLevel(p, L), L, C[n].f) = Showing(Stacked(p, st), Y)
  BY <1>4, <1>7, <1>11, <1>14 DEF q
<1> QED BY <1>1, <1>8, <1>9, <1>10, <1>11, <1>14, <1>15 DEF Opened

(* The new context runs, whatever else of the processor has been set. *)
LEMMA OpenedRuns ==
  ASSUME NEW C, NEW n, NEW q, NEW c, NEW L, NEW D, Opening(C, n, q, c, L, D),
         NEW r, Opened(D, n, q, c, r), NEW r2 \in State,
         r2.stack = r.stack, r2.display = r.display, r2.frame_ptr = c.fp, r2.stack_base = c.base,
         r2.last_frame_ptr \in {C[i].f : i \in 0 .. n}, Ops(D, n, r2.eis_operation)
  PROVE  Runs(D, n, r2)
<1>1. PICK st, Y : /\ r = Showing(Stacked(q, st), Y)
                   /\ st \in Seq(Cells) /\ Y \in [0 .. MaxLevel -> Nat]
                   /\ Contexts(D, n) /\ Laid(D, n, st) /\ Shown(D, n, Y) /\ Y[0] = 0 /\ D[n] = c
  BY DEF Opened
<1>2. q \in State /\ n \in Nat /\ Opens(C, n, c, L) /\ Replaces(C, D, n, c) /\ Contexts(C, n) /\ n # 0
  BY DEF Opening
<1>3. r.stack = st /\ r.display = Y
  BY <1>1, <1>2 DEF Showing, Stacked, State
<1>4. \A i \in 0 .. n : D[i].f = C[i].f
  <2>1. D[n].f = C[n].f /\ \A i \in 0 .. n - 1 : D[i] = C[i]
    BY <1>2, OpensOver DEF Opens
  <2>2. \A i \in 0 .. n : i = n \/ i \in 0 .. n - 1
    BY <1>2
  <2> QED BY <2>1, <2>2
<1>5. r2.last_frame_ptr \in {D[i].f : i \in 0 .. n}
  BY <1>4
<1> QED BY <1>1, <1>2, <1>3, <1>5 DEF Runs

(* The post-operations, when the base of context n becomes that of c. *)
LEMMA OpsOver ==
  ASSUME NEW C, NEW n \in Nat \ {0}, Contexts(C, n), NEW eis, Ops(C, n, eis),
         NEW c \in Context, c.f = C[n].f, NEW D, Replaces(C, D, n, c), NEW eis2,
         \A i \in 1 .. n - 1 : /\ C[i].base \in DOMAIN eis2
                               /\ eis2[C[i].base] = eis[C[i].base],
         c.base \in DOMAIN eis2, NEW op, eis2[c.base] = op, op \in PostOps \ {"PUSH_ADDRESS"},
         Combines(op) => C[n - 1].base + 1 < C[n].f,
         op = "REMOVE_ARG" <=> c.at.part = "std",
         op \in {"PUSH_DEREF", "ADD_DEREF"} <=> c.at.part = "address"
  PROVE  Ops(D, n, eis2)
<1>1. D[n] = c /\ \A i \in 0 .. n - 1 : D[i] = C[i]
  <2>1. C \in [Nat -> Context] /\ \A i \in 0 .. n - 1 : i \in Nat /\ i # n
    BY DEF Contexts
  <2> QED BY <2>1 DEF Replaces
<1>2. n - 1 \in 0 .. n - 1
  OBVIOUS
<1> SUFFICES ASSUME NEW i \in 1 .. n
             PROVE  LET x == eis2[D[i].base]
                    IN /\ D[i].base \in DOMAIN eis2 /\ x \in PostOps \ {"PUSH_ADDRESS"}
                       /\ Combines(x) => D[i - 1].base + 1 < D[i].f
                       /\ x = "REMOVE_ARG" <=> D[i].at.part = "std"
                       /\ x \in {"PUSH_DEREF", "ADD_DEREF"} <=> D[i].at.part = "address"
  BY DEF Ops
<1>3. CASE i = n
  BY <1>1, <1>2, <1>3
<1>4. CASE i # n
  <2>1. i \in 1 .. n - 1 /\ i \in 0 .. n - 1 /\ i - 1 \in 0 .. n - 1
    BY <1>4
  <2>2. D[i] = C[i] /\ D[i - 1] = C[i - 1]
    BY <1>1, <2>1
  <2>3. eis2[C[i].base] = eis[C[i].base] /\ C[i].base \in DOMAIN eis2
    BY <2>1
  <2> QED BY <2>2, <2>3 DEF Ops
<1> QED BY <1>3, <1>4

(* Words are reserved, and become part of the frame. *)
Zeros(m) == [i \in 1 .. m |-> Val(0)]

LEMMA AllocatedIs ==
  ASSUME NEW p \in State, NEW m \in Nat
  PROVE  /\ IncrementStackBase(AllocateStack(p, m), m)
              = [stack |-> Joined(p.stack, Zeros(m)), frame_ptr |-> p.frame_ptr,
                 last_frame_ptr |-> p.last_frame_ptr, stack_base |-> p.stack_base + m,
                 display |-> p.display,
                 eis_operation |-> WithOperation(p.eis_operation, p.stack_base + m,
                                                 p.eis_operation[p.stack_base])]
         /\ Joined(p.stack, Zeros(m)) \in Seq(Cells)
         /\ Len(Joined(p.stack, Zeros(m))) = Len(p.stack) + m
         /\ \A a \in 1 .. Len(p.stack) : Joined(p.stack, Zeros(m))[a] = p.stack[a]
         /\ \A a \in Len(p.stack) + 1 .. Len(p.stack) + m : Number(Joined(p.stack, Zeros(m))[a])
<1>1. p.stack \in Seq(Cells) /\ Len(p.stack) \in Nat
  BY DEF State
<1>2. Zeros(m) \in Seq(Cells) /\ Len(Zeros(m)) = m /\ \A a \in 1 .. m : Number(Zeros(m)[a])
  BY CellTypes DEF Zeros
<1> DEFINE q == [p EXCEPT !.stack = @ \o Zeros(m)]
<1>3. q = [stack |-> Joined(p.stack, Zeros(m)), frame_ptr |-> p.frame_ptr,
           last_frame_ptr |-> p.last_frame_ptr, stack_base |-> p.stack_base,
           display |-> p.display, eis_operation |-> p.eis_operation]
  <2>1. \A s : Stacked(p, s) = [stack |-> s, frame_ptr |-> p.frame_ptr,
                 last_frame_ptr |-> p.last_frame_ptr, stack_base |-> p.stack_base,
                 display |-> p.display, eis_operation |-> p.eis_operation]
    BY DEF Stacked, State
  <2>2. q = Stacked(p, Joined(p.stack, Zeros(m)))
    BY DEF Joined, Stacked
  <2> QED BY <2>1, <2>2
<1>4. AllocateStack(p, m) = q
  BY DEF AllocateStack, Zeros
<1> HIDE DEF q
<1> DEFINE s == Joined(p.stack, Zeros(m))
<1>5. /\ s \in Seq(Cells) /\ Len(s) = Len(p.stack) + m
      /\ \A a \in 1 .. Len(p.stack) : s[a] = p.stack[a]
      /\ \A a \in 1 .. m : s[Len(p.stack) + a] = Zeros(m)[a]
  <2> DEFINE t == p.stack
             z == Zeros(m)
  <2>1. t \in Seq(Cells) /\ z \in Seq(Cells) /\ Len(z) = m
    BY <1>1, <1>2
  <2> HIDE DEF t, z
  <2>2. /\ Joined(t, z) \in Seq(Cells) /\ Len(Joined(t, z)) = Len(t) + Len(z)
        /\ \A a \in 1 .. Len(t) : Joined(t, z)[a] = t[a]
        /\ \A a \in 1 .. Len(z) : Joined(t, z)[Len(t) + a] = z[a]
    BY ONLY <2>1, JoinedIs
  <2> QED BY <2>1, <2>2 DEF t, z
<1> HIDE DEF s
<1>6. \A a \in Len(p.stack) + 1 .. Len(p.stack) + m : Number(s[a])
  <2> TAKE a \in Len(p.stack) + 1 .. Len(p.stack) + m
  <2>1. a - Len(p.stack) \in 1 .. m /\ Len(p.stack) + (a - Len(p.stack)) = a
    BY <1>1
  <2> QED BY <1>2, <1>5, <2>1
<1>7. IncrementStackBase(q, m)
        = [stack |-> s, frame_ptr |-> p.frame_ptr,
           last_frame_ptr |-> p.last_frame_ptr, stack_base |-> p.stack_base + m,
           display |-> p.display,
           eis_operation |-> WithOperation(p.eis_operation, p.stack_base + m,
                                           p.eis_operation[p.stack_base])]
  <2> DEFINE q2 == [q EXCEPT !.stack_base = @ + m]
  <2>1. q2 = [stack |-> s, frame_ptr |-> p.frame_ptr,
              last_frame_ptr |-> p.last_frame_ptr, stack_base |-> p.stack_base + m,
              display |-> p.display, eis_operation |-> p.eis_operation]
    BY <1>3 DEF s
  <2>2. IncrementStackBase(q, m) = SetOperation(q2, p.stack_base + m, p.eis_operation[p.stack_base])
    BY <1>3 DEF IncrementStackBase
  <2> HIDE DEF q2
  <2>3. SetOperation(q2, p.stack_base + m, p.eis_operation[p.stack_base])
          = [q2 EXCEPT !.eis_operation = WithOperation(q2.eis_operation, p.stack_base + m,
                                                       p.eis_operation[p.stack_base])]
    BY DEF SetOperation, WithOperation
  <2>4. q2.eis_operation = p.eis_operation
    BY <2>1
  <2> QED BY <2>1, <2>2, <2>3, <2>4
<1> QED BY <1>4, <1>5, <1>6, <1>7 DEF s

(* q is p with words reserved above context n, and base the new stack base. *)
Widened(C, n, p, q, base) ==
  /\ q \in State /\ q.frame_ptr = C[n].fp /\ q.last_frame_ptr = p.last_frame_ptr
  /\ q.stack_base = base /\ q.display = p.display
  /\ Linked(C, n, q.stack) /\ Operands(C, n, Len(q.stack), q.stack)
  /\ base \in Nat /\ base >= C[n].base /\ base <= Len(q.stack)
  /\ base \in DOMAIN q.eis_operation /\ q.eis_operation[base] = p.eis_operation[C[n].base]
  /\ \A i \in 1 .. n - 1 : /\ C[i].base \in DOMAIN q.eis_operation
                           /\ q.eis_operation[C[i].base] = p.eis_operation[C[i].base]

LEMMA WidenedIs ==
  ASSUME NEW C, NEW n, NEW p, Runs(C, n, p), n # 0, NEW m \in Nat,
         NEW q, q = IncrementStackBase(AllocateStack(p, m), m)
  PROVE  /\ Widened(C, n, p, p, C[n].base)
         /\ Widened(C, n, p, q, C[n].base + m)
<1>1. /\ n \in Nat \ {0} /\ Contexts(C, n) /\ Linked(C, n, p.stack) /\ p \in State
      /\ C[n].base <= Len(p.stack) /\ Operands(C, n, Len(p.stack), p.stack)
      /\ p.stack_base = C[n].base /\ p.frame_ptr = C[n].fp /\ Ops(C, n, p.eis_operation)
  BY DEF Runs, Laid
<1>2. /\ n \in 0 .. n /\ n \in 1 .. n /\ C[n].base \in Nat /\ Len(p.stack) \in Nat
      /\ C \in [Nat -> Context] /\ n \in Nat
  BY <1>1, Typed DEF State, Contexts
<1>3. \A i \in 1 .. n - 1 : i \in 1 .. n /\ C[i].base \in DOMAIN p.eis_operation /\ C[i].base # C[n].base
                            /\ C[i].base \in Nat /\ C[i].base < C[n].base
  <2> TAKE i \in 1 .. n - 1
  <2>1. i \in 0 .. n /\ i \in 1 .. n /\ i < n /\ n \in 0 .. n
    BY <1>1
  <2>2. C[i].base < C[n].f /\ C[i].base \in Nat /\ C[n].f \in Nat /\ Len(C[n].pords) \in Nat
    BY <1>1, <1>2, <2>1, Spaced, Typed
  <2>3. C[n].f + 5 + 2 * Len(C[n].pords) <= C[n].base
    BY <1>1, <1>2, FrameWithin
  <2>4. C[i].base < C[n].base
    <3>1. \A x, f, w, b \in Nat : x < f /\ f + 5 + 2 * w <= b => x < b
      OBVIOUS
    <3> QED BY <1>2, <2>2, <2>3, <3>1
  <2> QED BY <1>1, <1>2, <2>1, <2>2, <2>4 DEF Ops
<1>4. Widened(C, n, p, p, C[n].base)
  <2>1. C[n].base \in DOMAIN p.eis_operation
    BY <1>1, <1>2 DEF Ops
  <2> QED BY <1>1, <1>2, <1>3, <2>1 DEF Widened
<1> DEFINE s == Joined(p.stack, Zeros(m))
           op == p.eis_operation[C[n].base]
           e == WithOperation(p.eis_operation, C[n].base + m, op)
<1>5. /\ q = [stack |-> s, frame_ptr |-> p.frame_ptr, last_frame_ptr |-> p.last_frame_ptr,
              stack_base |-> C[n].base + m, display |-> p.display, eis_operation |-> e]
      /\ s \in Seq(Cells) /\ Len(s) = Len(p.stack) + m
      /\ \A a \in 1 .. Len(p.stack) : s[a] = p.stack[a]
      /\ \A a \in Len(p.stack) + 1 .. Len(p.stack) + m : Number(s[a])
  BY <1>1, AllocatedIs
<1>6. op \in PostOps /\ p.eis_operation \in Operations /\ C[n].base + m \in Nat
  BY <1>1, <1>2 DEF Ops, State, Operations
<1>7. /\ e \in Operations /\ C[n].base + m \in DOMAIN e /\ e[C[n].base + m] = op
      /\ \A b \in DOMAIN p.eis_operation : /\ b \in DOMAIN e
                                           /\ b # C[n].base + m => e[b] = p.eis_operation[b]
  BY <1>6, WithOperationIs
<1> HIDE DEF s, e, op
<1>8. q \in State
  BY <1>1, <1>5, <1>6, <1>7 DEF State, Operations
<1>9. /\ q.stack = s /\ q.frame_ptr = p.frame_ptr /\ q.last_frame_ptr = p.last_frame_ptr
      /\ q.stack_base = C[n].base + m /\ q.display = p.display /\ q.eis_operation = e
  BY <1>5
<1>10. Linked(C, n, s)
  <2>1. \A a \in 1 .. C[n].base : a \in 1 .. Len(p.stack)
    BY <1>1, <1>2
  <2>2. Alike(p.stack, s, C[n].base)
    BY <1>5, <2>1 DEF Alike
  <2>3. Same(C, C, n)
    BY DEF Same
  <2> QED BY <1>1, <1>2, <2>2, <2>3, Below
<1>11. Operands(C, n, Len(s), s)
  <2> SUFFICES ASSUME NEW a \in C[n].base + 1 .. Len(s) PROVE Number(s[a])
    BY DEF Operands
  <2>1. \/ a \in 1 .. Len(p.stack) /\ a \in C[n].base + 1 .. Len(p.stack)
        \/ a \in Len(p.stack) + 1 .. Len(p.stack) + m
    BY <1>2, <1>5
  <2> QED BY <1>1, <1>5, <2>1 DEF Operands
<1>12. C[n].base + m >= C[n].base /\ C[n].base + m <= Len(s)
  BY <1>1, <1>2, <1>5
<1>13. \A i \in 1 .. n - 1 : C[i].base \in DOMAIN e /\ e[C[i].base] = p.eis_operation[C[i].base]
  <2> TAKE i \in 1 .. n - 1
  <2>1. C[i].base \in DOMAIN p.eis_operation /\ C[i].base # C[n].base + m
    BY <1>2, <1>3
  <2> QED BY <1>7, <2>1
<1>14. Widened(C, n, p, q, C[n].base + m)
  BY <1>1, <1>6, <1>7, <1>8, <1>9, <1>10, <1>11, <1>12, <1>13 DEF Widened, op
<1> QED BY <1>4, <1>14

(* SCC finds the frame, whether it was called for or by an implicit subroutine. *)
LEMMA EntryPointer ==
  ASSUME NEW C, NEW n, NEW p, Runs(C, n, p), n # 0, AtEntry(C, n),
         NEW q, NEW base, Widened(C, n, p, q, base),
         C[n].at.home \notin ForBlock => base = C[n].base
  PROVE  (IF BlockLevel(q) # 0 THEN q.stack_base - ARG ELSE q.frame_ptr) = C[n].f
<1>1. /\ n \in Nat \ {0} /\ n \in Nat /\ Contexts(C, n) /\ n \in 0 .. n /\ n \in 1 .. n
  BY DEF Runs
<1>2. /\ C[n].f \in Nat /\ C[n].base \in Nat /\ Len(C[n].pords) \in Nat
      /\ C[n].f + 5 + 2 * Len(C[n].pords) <= C[n].base /\ Len(C[n].dis) \in Nat
      /\ C[n].dis \in Seq(Nat)
  BY <1>1, FrameWithin, Typed
<1>3. /\ q.frame_ptr = C[n].fp /\ q.stack_base = base /\ Linked(C, n, q.stack)
      /\ base \in Nat /\ base >= C[n].base
  BY DEF Widened
<1>4. base # 0
  <2>1. \A f, w, b, b2 \in Nat : f + 5 + 2 * w <= b /\ b2 >= b => b2 # 0
    OBVIOUS
  <2> QED BY <1>2, <1>3, <2>1
<1>5. BlockLevel(q) = Field(q, C[n].fp, BN)
  BY <1>3, <1>4 DEF BlockLevel
<1>6. C[n].at.home \in Block /\ C[n].at.part = "entry" /\ ~ Entered(C[n])
  BY DEF AtEntry, Entered
<1>7. CASE C[n].fp = C[n].f
  <2>1. Field(q, C[n].f, BN) = 0
    BY <1>1, <1>3, <1>6, FieldsAre
  <2> QED BY <1>3, <1>5, <1>7, <2>1
<1>8. CASE C[n].fp # C[n].f
  <2> DEFINE k == Len(C[n].dis)
             e == C[n].dis[k]
             b == C[n].at.home
  <2>1. /\ C[n].pords = << >> /\ k > 0 /\ C[n].fp = C[e].f /\ b \notin ForBlock
        /\ C[n].base = C[n].f + FirstLocal(b) /\ Len(C[n].pords) = Len(Formals[b])
    BY <1>8 DEF AtEntry, Passes
  <2>2. k \in 1 .. Len(C[n].dis)
    BY <1>2, <2>1
  <2>3. e \in 1 .. n /\ Entered(C[e]) /\ Len(C[e].dis) = k
    BY <1>1, <2>2, Encloser
  <2> HIDE DEF e
  <2>4. Field(q, C[e].f, BN) = Len(C[e].dis)
    BY <1>1, <1>3, <2>3, FieldsAre
  <2>5. Len(Formals[b]) = 0
    BY <2>1
  <2>6. FirstLocal(b) = 5
    BY <2>5 DEF FirstLocal
  <2>7. base - ARG = C[n].f
    BY <1>2, <1>3, <2>1, <2>6 DEF ARG
  <2> QED BY <1>3, <1>5, <2>1, <2>3, <2>4, <2>7
<1> QED BY <1>7, <1>8

LEMMA AimedIs ==
  ASSUME NEW q \in State, NEW f \in Nat, NEW r, r = [q EXCEPT !.frame_ptr = f]
  PROVE  /\ r \in State /\ r.stack = q.stack /\ r.frame_ptr = f /\ r.display = q.display
         /\ r.last_frame_ptr = q.last_frame_ptr /\ r.stack_base = q.stack_base
         /\ r.eis_operation = q.eis_operation
  BY DEF State

(* The block number SCC is given; a for statement counts from its caller. *)
LEMMA NumberIs ==
  ASSUME NEW C, NEW n, NEW p, Runs(C, n, p), n # 0, AtEntry(C, n), C[n].at.home \in ForBlock
  PROVE  Field(p, Field(p, p.frame_ptr, FP), BN) + 1 = Level(C[n].at.home)
<1> DEFINE b == C[n].at.home
           k == n - 1
<1>1. /\ n \in Nat \ {0} /\ n \in Nat /\ Contexts(C, n) /\ Linked(C, n, p.stack)
      /\ n \in 1 .. n /\ k \in 0 .. n /\ p.frame_ptr = C[n].fp
  BY DEF Runs, Laid
<1>2. /\ C[n].fp = C[n].f /\ C[k].at.part = "body" /\ Len(C[k].dis) = Level(b) - 1
      /\ n = 1 => C[n].f = 1
      /\ b \in Block
  BY DEF AtEntry
<1>3. Level(b) \in Nat
  BY <1>2, BlockTypes
<1>4. Field(p, p.frame_ptr, FP) = C[k].fp
  BY <1>1, <1>2, FieldsAre
<1>5. Calls(C[k])
  BY <1>2 DEF Calls, UserParts
<1>6. CASE k = 0
  <2>1. n = 1 /\ C[n].f = 1 /\ k = 0
    BY <1>1, <1>2, <1>6
  <2>2. C[k].fp = 0 /\ C[k].base = 0 /\ Len(C[k].dis) = 0
    BY <1>1, <1>5, <1>6, LevelIs
  <2>3. Linkage(C, n, p.stack)
    BY <1>1 DEF Linked
  <2>4. p.stack[C[n].f + 3] = Addr(C[k].base)
    BY <2>3 DEF Linkage
  <2>5. p.stack[4] = Addr(0)
    <3>1. C[n].f + 3 = 4
      BY <2>1
    <3> QED BY <2>2, <2>4, <3>1
  <2>6. Field(p, 0, BN) = 0
    <3>1. (0 + BN) + 1 = 4
      BY DEF BN
    <3> QED BY <2>5, <3>1 DEF Field, Addr
  <2> QED BY <1>2, <1>3, <1>4, <2>2, <2>6
<1>7. CASE k # 0
  <2>1. Field(p, C[k].fp, BN) = Len(C[k].dis)
    BY <1>1, <1>5, <1>7, LevelIs
  <2> QED BY <1>2, <1>3, <1>4, <2>1
<1> QED BY <1>6, <1>7

LEMMA EnterBlockKeeps ==
  ASSUME Coupled, EnterBlock
  PROVE  Coupled' /\ error' = error
<1>1. PICK C, n, p : Runs(C, n, p) /\ p = Now /\ ot = C[n].at
  BY DEF Coupled
<1> DEFINE b == C[n].at.home
           L == Level(b)
           m == IF b \in ForBlock THEN 1 ELSE 0
           base == C[n].base + m
           at == At(b, IF Locals[b] > 0 THEN "locals" ELSE "body")
<1>2. b \in Block /\ C[n].at.part = "entry"
  BY <1>1 DEF EnterBlock
<1>3. /\ n \in Nat /\ n \in 0 .. n /\ Contexts(C, n) /\ p \in State /\ C[n].base \in Nat
      /\ Ops(C, n, p.eis_operation) /\ Shown(C, n, p.display) /\ p.display[0] = 0
      /\ p.last_frame_ptr \in {C[i].f : i \in 0 .. n} /\ p.frame_ptr = frame_ptr
  BY <1>1, TempsAre DEF Runs
<1>4. n # 0
  BY <1>2, <1>3 DEF Contexts, Outermost
<1>5. n \in Nat \ {0} /\ n \in 1 .. n /\ n - 1 \in 0 .. n - 1 /\ n - 1 \in 0 .. n
  BY <1>3, <1>4
<1>6. AtEntry(C, n)
  <2>1. b \notin StdFun
    BY <1>2, ProgramAssumption
  <2> QED BY <1>2, <1>3, <1>5, <2>1, Which DEF InStd
<1>7. /\ Passes(C, n, Formals[b]) /\ Encloses(C, n, b, L - 1)
      /\ C[n].base = C[n].f + FirstLocal(b)
  BY <1>6 DEF AtEntry
<1>8. L \in Nat /\ L >= 1 /\ L <= MaxLevel /\ Locals[b] \in Nat /\ FirstLocal(b) \in Nat /\ L \in 1 .. MaxLevel
  BY <1>2, BlockTypes, RunTimeAssumption
<1>9. C[n].f \in Nat /\ C[n] \in Context /\ C[n].dis \in Seq(Nat) /\ C[n].pords \in Seq(PordSet)
  BY <1>3, Typed
<1> HIDE DEF L, m, base, at, b
<1>10. \E q : /\ Continue(ShortCircuit(q, L), at)
              /\ Widened(C, n, p, q, base)
  <2> DEFINE isFor == b \in ForBlock
             q == IF isFor THEN IncrementStackBase(AllocateStack(p, 1), 1) ELSE p
             B == IF isFor THEN Field(p, Field(p, frame_ptr, FP), BN) + 1 ELSE L
  <2>1. B = L
    BY <1>1, <1>3, <1>4, <1>6, NumberIs DEF b, L
  <2>2. IF B > MaxLevel THEN Fail("Bad block level in SCC") ELSE Continue(ShortCircuit(q, B), at)
    BY <1>1 DEF EnterBlock, b, L, at
  <2>3. Widened(C, n, p, q, base)
    <3>1. /\ Widened(C, n, p, p, C[n].base)
          /\ Widened(C, n, p, IncrementStackBase(AllocateStack(p, 1), 1), C[n].base + 1)
      BY <1>1, <1>4, WidenedIs
    <3> QED BY <1>3, <3>1 DEF base, m
  <2> HIDE DEF B, q
  <2>4. Continue(ShortCircuit(q, L), at)
    <3>1. ~ (L > MaxLevel)
      BY <1>8, RunTimeAssumption
    <3> QED BY <2>1, <2>2, <3>1
  <2> QED BY <2>3, <2>4
<1>11. PICK q : Continue(ShortCircuit(q, L), at) /\ Widened(C, n, p, q, base)
  BY <1>10
<1>12. (IF BlockLevel(q) # 0 THEN q.stack_base - ARG ELSE q.frame_ptr) = C[n].f
  <2>1. C[n].at.home \notin ForBlock => base = C[n].base
    BY <1>3 DEF base, m, b
  <2> QED BY <1>1, <1>4, <1>6, <1>11, <2>1, EntryPointer
<1> DEFINE r == [q EXCEPT !.frame_ptr = C[n].f]
<1>13. ShortCircuit(q, L) = UpdateDisplay(SetBlockLevel(r, L), L, r.frame_ptr)
  BY <1>12 DEF ShortCircuit
<1>14. /\ q \in State /\ q.last_frame_ptr = p.last_frame_ptr
       /\ q.stack_base = base /\ q.display = p.display
       /\ Linked(C, n, q.stack) /\ Operands(C, n, Len(q.stack), q.stack)
       /\ base \in Nat /\ base >= C[n].base /\ base <= Len(q.stack)
       /\ base \in DOMAIN q.eis_operation /\ q.eis_operation[base] = p.eis_operation[C[n].base]
       /\ \A i \in 1 .. n - 1 : /\ C[i].base \in DOMAIN q.eis_operation
                                /\ q.eis_operation[C[i].base] = p.eis_operation[C[i].base]
  BY <1>11 DEF Widened
<1> HIDE DEF r
<1>15. /\ r \in State /\ r.stack = q.stack /\ r.frame_ptr = C[n].f /\ r.display = q.display
       /\ r.last_frame_ptr = q.last_frame_ptr /\ r.stack_base = q.stack_base
       /\ r.eis_operation = q.eis_operation
  BY <1>9, <1>14, AimedIs DEF r
<1> DEFINE dis == Append(SubSeq(C[n].dis, 1, L - 1), n)
           c == [f |-> C[n].f, at |-> at, fp |-> C[n].f, base |-> base, dis |-> dis,
                 pords |-> C[n].pords]
           D == [C EXCEPT ![n] = c]
<1>16. L - 1 <= Len(C[n].dis) /\ \A l \in 1 .. L - 1 : C[C[n].dis[l]].at.home = Path[b][l]
  BY <1>7 DEF Encloses
<1>17. dis \in Seq(Nat) /\ Len(dis) = L /\ dis[L] = n /\ \A l \in 1 .. L - 1 : dis[l] = C[n].dis[l]
  <2> DEFINE x == C[n].dis
             y == SubSeq(x, 1, L - 1)
  <2>1. x \in Seq(Nat) /\ L - 1 <= Len(x) /\ L - 1 \in Nat /\ Len(x) \in Nat
    BY <1>8, <1>9, <1>16
  <2> HIDE DEF x
  <2>2. y \in Seq(Nat) /\ Len(y) = L - 1 /\ \A l \in 1 .. L - 1 : y[l] = x[l]
    BY <2>1
  <2> HIDE DEF y
  <2>3. /\ Append(y, n) \in Seq(Nat) /\ Len(Append(y, n)) = L /\ Append(y, n)[L] = n
        /\ \A l \in 1 .. L - 1 : Append(y, n)[l] = x[l]
    BY <1>3, <1>8, <2>1, <2>2
  <2> QED BY <2>3 DEF x, y
<1>18. at \in Code /\ at.home = b /\ at.part = (IF Locals[b] > 0 THEN "locals" ELSE "body")
  BY <1>2 DEF at, At, Code, Parts
<1> HIDE DEF dis
<1>19. c \in Context
  BY <1>9, <1>14, <1>17, <1>18 DEF Context
<1>20. /\ c.f = C[n].f /\ c.at = at /\ c.fp = C[n].f /\ c.base = base /\ c.dis = dis
       /\ c.pords = C[n].pords
  OBVIOUS
<1> HIDE DEF c
<1>21. Replaces(C, D, n, c)
  BY DEF Replaces
<1> HIDE DEF D
<1>22. Opens(C, n, c, L)
  <2>1. ~ Entered(C[n]) /\ Entered(c)
    BY <1>2, <1>18, <1>20 DEF Entered
  <2>2. c.at.home \notin StdFun
    BY <1>2, <1>18, <1>20, ProgramAssumption
  <2> QED BY <1>8, <1>14, <1>16, <1>17, <1>19, <1>20, <2>1, <2>2 DEF Opens
<1>23. /\ D[n] = c /\ \A i \in 0 .. n - 1 : D[i] = C[i]
       /\ \A l \in 1 .. L - 1 : D[c.dis[l]] = C[C[n].dis[l]]
       /\ Nested(D, n)
  BY <1>3, <1>5, <1>21, <1>22, OpensOver
<1>24. D[n - 1] = C[n - 1]
  BY <1>5, <1>23
<1>25. Sound(D, n)
  <2>1. Passes(D, n, Formals[b])
    BY <1>7, <1>20, <1>23, <1>24 DEF Passes
  <2>2. Encloses(D, n, b, L)
    <3>1. \A l \in 1 .. L : D[c.dis[l]].at.home = Path[b][l]
      <4> TAKE l \in 1 .. L
      <4>1. CASE l = L
        <5>1. Path[b][L] = b
          BY <1>2, ProgramAssumption DEF L
        <5> QED BY <1>17, <1>18, <1>20, <1>23, <4>1, <5>1
      <4>2. CASE l # L
        <5>1. l \in 1 .. L - 1
          BY <1>8, <4>2
        <5> QED BY <1>16, <1>23, <5>1
      <4> QED BY <4>1, <4>2
    <3>2. L <= Len(D[n].dis)
      BY <1>8, <1>17, <1>20, <1>23
    <3> QED BY <1>23, <3>1, <3>2 DEF Encloses
  <2>3. c.base = c.f + FirstLocal(b) + Steps(b) + (IF c.at.part = "body" THEN Locals[b] ELSE 0)
    <3>1. base = C[n].f + FirstLocal(b) + Steps(b)
      BY <1>7 DEF base, m, Steps
    <3>2. (IF c.at.part = "body" THEN Locals[b] ELSE 0) = 0
      BY <1>8, <1>18, <1>20
    <3>3. base + 0 = base
      BY <1>14
    <3> QED BY <1>20, <3>1, <3>2, <3>3
  <2>4. InBlock(D, n)
    <3>1. c.at.part \in {"locals", "body"}
      BY <1>18, <1>20
    <3> QED BY <1>2, <1>17, <1>18, <1>20, <1>23, <2>1, <2>2, <2>3, <3>1 DEF InBlock, L
  <2>5. C[n - 1].base < C[n].f /\ C[n - 1].at.part \in UserParts \cup {"std"}
    BY <1>3, <1>5 DEF Contexts, Sound
  <2> QED BY <1>20, <1>23, <1>24, <2>4, <2>5 DEF Sound
<1>26. Opening(C, n, r, c, L, D)
  BY <1>3, <1>5, <1>14, <1>15, <1>20, <1>21, <1>22, <1>25 DEF Opening
<1> DEFINE z == UpdateDisplay(SetBlockLevel(r, L), L, C[n].f)
<1>27. Opened(D, n, r, c, z)
  BY <1>26, OpenedIs
<1> HIDE DEF z
<1>28. /\ z \in State /\ z.frame_ptr = c.fp /\ z.stack_base = c.base
       /\ z.last_frame_ptr = p.last_frame_ptr /\ z.eis_operation = r.eis_operation
  <2>1. PICK st, Y : z = Showing(Stacked(r, st), Y) /\ st \in Seq(Cells) /\ Y \in [0 .. MaxLevel -> Nat]
    BY <1>27 DEF Opened
  <2>2. z = [stack |-> st, frame_ptr |-> r.frame_ptr, last_frame_ptr |-> r.last_frame_ptr,
             stack_base |-> r.stack_base, display |-> Y, eis_operation |-> r.eis_operation]
    BY <1>15, <2>1 DEF Showing, Stacked, State
  <2> QED BY <1>14, <1>15, <1>20, <2>1, <2>2 DEF State
<1>29. Ops(D, n, z.eis_operation)
  <2> DEFINE op == p.eis_operation[C[n].base]
             eis == p.eis_operation
             eis2 == z.eis_operation
  <2>1. /\ op \in PostOps \ {"PUSH_ADDRESS"} /\ (Combines(op) => C[n - 1].base + 1 < C[n].f)
        /\ (op = "REMOVE_ARG" <=> c.at.part = "std")
        /\ (op \in {"PUSH_DEREF", "ADD_DEREF"} <=> c.at.part = "address")
    BY <1>2, <1>3, <1>5, <1>18, <1>20 DEF Ops
  <2>2. /\ Ops(C, n, eis) /\ c.f = C[n].f
        /\ \A i \in 1 .. n - 1 : /\ C[i].base \in DOMAIN eis2
                                 /\ eis2[C[i].base] = eis[C[i].base]
        /\ c.base \in DOMAIN eis2 /\ eis2[c.base] = op
    BY <1>3, <1>14, <1>15, <1>20, <1>28
  <2> HIDE DEF op, eis, eis2
  <2>3. Ops(D, n, eis2)
    BY ONLY <1>3, <1>5, <1>19, <1>21, <2>1, <2>2, OpsOver
  <2> QED BY <2>3 DEF eis2
<1>30. Runs(D, n, z)
  BY <1>3, <1>26, <1>27, <1>28, <1>29, OpenedRuns
<1>31. Continue(z, at)
  BY <1>11, <1>13, <1>15 DEF z
<1>32. at = D[n].at
  BY <1>20, <1>23
<1> QED BY <1>30, <1>31, <1>32, Continues

(* The words reserved for local variables become part of the frame. *)
LEMMA ReserveLocalsKeeps ==
  ASSUME Coupled, ReserveLocals
  PROVE  Coupled' /\ error' = error
<1>1. PICK C, n, p : Runs(C, n, p) /\ p = Now /\ ot = C[n].at
  BY DEF Coupled
<1> DEFINE b == C[n].at.home
           m == Locals[b]
           base == C[n].base + m
           at == At(b, "body")
           q == IncrementStackBase(AllocateStack(p, m), m)
           c == [f |-> C[n].f, at |-> at, fp |-> C[n].f, base |-> base, dis |-> C[n].dis,
                 pords |-> C[n].pords]
           D == [C EXCEPT ![n] = c]
<1>2. C[n].at.part = "locals" /\ Continue(q, at)
  BY <1>1 DEF ReserveLocals
<1>3. /\ n \in Nat /\ n \in 0 .. n /\ Contexts(C, n) /\ p \in State /\ C[n].base \in Nat
      /\ Ops(C, n, p.eis_operation) /\ Shown(C, n, p.display) /\ p.display[0] = 0
      /\ p.last_frame_ptr \in {C[i].f : i \in 0 .. n} /\ Linked(C, n, p.stack)
      /\ C[n].base <= Len(p.stack)
  BY <1>1, TempsAre DEF Runs
<1>4. n # 0
  BY <1>2, <1>3 DEF Contexts, Outermost
<1>5. /\ n \in Nat \ {0} /\ n \in 1 .. n /\ n - 1 \in 0 .. n - 1 /\ n - 1 \in 0 .. n
      /\ n \in 1 .. n + 1 /\ C \in [Nat -> Context]
  BY <1>3, <1>4 DEF Contexts
<1>6. InBlock(C, n)
  BY <1>2, <1>3, <1>5, Which
<1>7. /\ b \in Block /\ Passes(C, n, Formals[b]) /\ Encloses(C, n, b, Level(b))
      /\ C[n].base = C[n].f + FirstLocal(b) + Steps(b) + 0
      /\ C[n].fp = C[n].f /\ Len(C[n].dis) = Level(b) /\ C[n].dis[Level(b)] = n
  BY <1>2, <1>6 DEF InBlock
<1>8. m \in Nat /\ FirstLocal(b) \in Nat /\ Steps(b) \in Nat /\ Level(b) \in Nat
  BY <1>7, BlockTypes
<1>9. /\ C[n].f \in Nat /\ C[n] \in Context /\ C[n].dis \in Seq(Nat) /\ C[n].pords \in Seq(PordSet)
      /\ C[n].f + 5 + 2 * Len(C[n].pords) <= C[n].base /\ Len(C[n].pords) \in Nat
      /\ C[n - 1].base \in Nat /\ C[n - 1].base < C[n].f
  BY <1>3, <1>5, Typed, FrameWithin
<1> HIDE DEF b, m, q, at, base
<1>10. base \in Nat /\ base >= C[n].base /\ base = C[n].base + m
  BY <1>3, <1>8 DEF base
<1>11. Widened(C, n, p, q, base)
  BY <1>1, <1>4, <1>8, WidenedIs DEF base, q
<1>12. /\ q \in State /\ q.last_frame_ptr = p.last_frame_ptr
       /\ q.stack_base = base /\ q.display = p.display /\ q.frame_ptr = C[n].fp
       /\ Linked(C, n, q.stack) /\ Operands(C, n, Len(q.stack), q.stack)
       /\ base <= Len(q.stack)
       /\ base \in DOMAIN q.eis_operation /\ q.eis_operation[base] = p.eis_operation[C[n].base]
       /\ \A i \in 1 .. n - 1 : /\ C[i].base \in DOMAIN q.eis_operation
                                /\ q.eis_operation[C[i].base] = p.eis_operation[C[i].base]
  BY <1>11 DEF Widened
<1>13. at \in Code /\ at.home = b /\ at.part = "body"
  BY <1>7 DEF at, At, Code, Parts
<1>14. c \in Context
  BY <1>9, <1>10, <1>13 DEF Context
<1>15. /\ c.f = C[n].f /\ c.at = at /\ c.fp = C[n].f /\ c.base = base /\ c.dis = C[n].dis
       /\ c.pords = C[n].pords
  OBVIOUS
<1> HIDE DEF c
<1>16. Replaces(C, D, n, c) /\ D[n] = c /\ \A i \in 0 .. n - 1 : D[i] = C[i]
  <2>1. \A i \in 0 .. n - 1 : i \in Nat /\ i # n
    BY <1>3
  <2> QED BY <1>5, <2>1 DEF Replaces
<1> HIDE DEF D
<1>17. D[n - 1] = C[n - 1]
  BY <1>5, <1>16
<1>18. Entered(c) /\ Entered(C[n])
  BY <1>2, <1>13, <1>15 DEF Entered
<1>19. \A i \in 0 .. n : /\ D[i].f = C[i].f /\ D[i].dis = C[i].dis /\ D[i].at.home = C[i].at.home
                         /\ Entered(C[i]) => Entered(D[i])
  <2>1. \A i \in 0 .. n : i = n \/ i \in 0 .. n - 1
    BY <1>3
  <2>2. c.at.home = C[n].at.home
    BY <1>13, <1>15 DEF b
  <2> QED BY <1>15, <1>16, <1>18, <2>1, <2>2
<1>20. \A l \in 1 .. Len(C[n].dis) : C[n].dis[l] \in 0 .. n
  BY <1>3, Encloser
<1>21. Sound(D, n)
  <2>1. Nested(D, n)
    <3>1. Nested(C, n)
      BY <1>3, <1>5 DEF Contexts, Sound
    <3>2. Len(C[n].dis) <= MaxLevel
      BY <3>1 DEF Nested
    <3>3. D[n].dis = C[n].dis
      BY <1>15, <1>16
    <3>4. ASSUME NEW l \in 1 .. Len(C[n].dis)
          PROVE  LET e == C[n].dis[l]
                 IN /\ e \in 1 .. n /\ Entered(D[e]) /\ Len(D[e].dis) = l
                    /\ \A i \in 1 .. l : D[e].dis[i] = C[n].dis[i]
      <4> DEFINE e == C[n].dis[l]
      <4>1. /\ e \in 1 .. n /\ Entered(C[e]) /\ Len(C[e].dis) = l
            /\ \A i \in 1 .. l : C[e].dis[i] = C[n].dis[i]
        BY <3>1 DEF Nested
      <4>2. e \in 0 .. n
        BY <1>20
      <4> HIDE DEF e
      <4>3. D[e].dis = C[e].dis /\ Entered(D[e])
        BY <1>19, <4>1, <4>2
      <4>4. /\ e \in 1 .. n /\ Entered(D[e]) /\ Len(D[e].dis) = l
            /\ \A i \in 1 .. l : D[e].dis[i] = C[n].dis[i]
        BY <4>1, <4>3
      <4> QED BY <4>4 DEF e
    <3> QED BY <3>2, <3>3, <3>4 DEF Nested
  <2>2. Passes(D, n, Formals[b])
    BY <1>7, <1>15, <1>16, <1>17 DEF Passes
  <2>3. Encloses(D, n, b, Level(b))
    <3>1. \A l \in 1 .. Level(b) : D[c.dis[l]].at.home = C[C[n].dis[l]].at.home
      BY <1>7, <1>15, <1>19, <1>20
    <3> QED BY <1>7, <1>15, <1>16, <3>1 DEF Encloses
  <2>4. c.base = c.f + FirstLocal(b) + Steps(b) + (IF c.at.part = "body" THEN Locals[b] ELSE 0)
    <3>1. base = C[n].f + FirstLocal(b) + Steps(b) + m
      BY <1>7, <1>8, <1>9, <1>10
    <3> QED BY <1>13, <1>15, <3>1 DEF m
  <2>5. InBlock(D, n)
    BY <1>7, <1>13, <1>15, <1>16, <2>2, <2>3, <2>4 DEF InBlock
  <2>6. C[n - 1].base < C[n].f /\ C[n - 1].at.part \in UserParts \cup {"std"}
    BY <1>3, <1>5 DEF Contexts, Sound
  <2> QED BY <1>15, <1>16, <1>17, <2>1, <2>5, <2>6 DEF Sound
<1> DEFINE st == q.stack
           f == C[n].f
           w == Len(C[n].pords)
<1>22. Linkage(C, n, st) /\ Operands(C, n - 1, f - 1, st) /\ Operands(C, n, Len(st), st)
       /\ Linked(C, n, st) /\ base <= Len(st)
  BY <1>5, <1>12 DEF Linked
<1> HIDE DEF st
<1>23. Linkage(D, n, st)
  <2>1. Entered(c) /\ Len(c.dis) > 1 => D[c.dis[Len(c.dis) - 1]].f = C[C[n].dis[Len(c.dis) - 1]].f
    <3> SUFFICES ASSUME Len(c.dis) > 1
                 PROVE  D[c.dis[Len(c.dis) - 1]].f = C[C[n].dis[Len(c.dis) - 1]].f
      OBVIOUS
    <3>1. Len(c.dis) - 1 \in 1 .. Len(C[n].dis)
      BY <1>7, <1>8, <1>15
    <3> QED BY <1>15, <1>19, <1>20, <3>1
  <2>2. \A a \in f + 6 + 2 * w .. base : Number(st[a])
    <3> TAKE a \in f + 6 + 2 * w .. base
    <3>1. CASE a <= C[n].base
      <4>1. a \in f + 6 + 2 * w .. C[n].base
        BY <1>3, <1>9, <1>10, <3>1
      <4> QED BY <1>22, <4>1 DEF Linkage
    <3>2. CASE ~ a <= C[n].base
      <4>1. Len(st) \in Nat
        BY <1>12 DEF st, State
      <4>2. a \in C[n].base + 1 .. Len(st)
        <5> DEFINE lo == f + 6 + 2 * w
        <5>1. lo \in Int /\ a \in lo .. base
          BY <1>9
        <5> HIDE DEF lo
        <5>2. a \in Int /\ a <= base
          BY <1>10, <5>1
        <5> QED BY <1>3, <1>10, <1>22, <3>2, <4>1, <5>2
      <4> QED BY <1>22, <4>2 DEF Operands
    <3> QED BY <3>1, <3>2
  <2>3. c.at.part \notin ThunkParts /\ c.at.home = C[n].at.home
    BY <1>13, <1>15 DEF b, ThunkParts
  <2> QED BY <1>15, <1>16, <1>17, <1>18, <1>22, <2>1, <2>2, <2>3 DEF Linkage
<1>24. Contexts(D, n) /\ Linked(D, n, st)
  <2>1. Alike(st, st, C[n - 1].base)
    BY DEF Alike
  <2>2. Operands(C, n - 1, c.f - 1, st)
    BY <1>15, <1>22
  <2>3. /\ n \in Nat /\ Contexts(C, n) /\ n \in 1 .. n + 1 /\ c \in Context /\ Replaces(C, D, n, c)
        /\ Linked(C, n, st) /\ Sound(D, n) /\ Linkage(D, n, st)
    BY <1>3, <1>5, <1>14, <1>16, <1>21, <1>22, <1>23
  <2> QED BY ONLY <2>1, <2>2, <2>3, OnTop
<1>25. Operands(D, n, Len(st), st)
  <2>1. \A a \in base + 1 .. Len(st) : a \in C[n].base + 1 .. Len(st)
    <3>1. Len(st) \in Nat
      BY <1>12 DEF st, State
    <3> QED BY <1>3, <1>10, <3>1
  <2> QED BY <1>15, <1>16, <1>22, <2>1 DEF Operands
<1>26. Shown(D, n, q.display)
  <2>1. D[n].dis = C[n].dis /\ q.display = p.display
    BY <1>12, <1>15, <1>16
  <2>2. \A l \in 1 .. Len(C[n].dis) : p.display[l] = C[C[n].dis[l]].f
    BY <1>3 DEF Shown
  <2>3. \A l \in 1 .. Len(C[n].dis) : D[C[n].dis[l]].f = C[C[n].dis[l]].f
    BY ONLY <1>19, <1>20
  <2> QED BY ONLY <2>1, <2>2, <2>3 DEF Shown
<1>27. Ops(D, n, q.eis_operation)
  <2> DEFINE op == p.eis_operation[C[n].base]
             eis == p.eis_operation
             eis2 == q.eis_operation
  <2>1. /\ op \in PostOps \ {"PUSH_ADDRESS"} /\ (Combines(op) => C[n - 1].base + 1 < C[n].f)
        /\ (op = "REMOVE_ARG" <=> c.at.part = "std")
        /\ (op \in {"PUSH_DEREF", "ADD_DEREF"} <=> c.at.part = "address")
    BY <1>2, <1>3, <1>5, <1>13, <1>15 DEF Ops
  <2>2. /\ Ops(C, n, eis) /\ c.f = C[n].f
        /\ \A i \in 1 .. n - 1 : /\ C[i].base \in DOMAIN eis2
                                 /\ eis2[C[i].base] = eis[C[i].base]
        /\ c.base \in DOMAIN eis2 /\ eis2[c.base] = op
    BY <1>3, <1>12, <1>15
  <2> HIDE DEF op, eis, eis2
  <2>3. /\ n \in Nat \ {0} /\ Contexts(C, n) /\ Ops(C, n, eis) /\ c \in Context /\ c.f = C[n].f
        /\ Replaces(C, D, n, c)
        /\ \A i \in 1 .. n - 1 : /\ C[i].base \in DOMAIN eis2
                                 /\ eis2[C[i].base] = eis[C[i].base]
        /\ c.base \in DOMAIN eis2 /\ eis2[c.base] = op
        /\ op \in PostOps \ {"PUSH_ADDRESS"} /\ (Combines(op) => C[n - 1].base + 1 < C[n].f)
        /\ (op = "REMOVE_ARG" <=> c.at.part = "std")
        /\ (op \in {"PUSH_DEREF", "ADD_DEREF"} <=> c.at.part = "address")
    BY ONLY <1>3, <1>5, <1>14, <1>16, <2>1, <2>2
  <2>4. Ops(D, n, eis2)
    BY ONLY <2>3, OpsOver
  <2> QED BY <2>4 DEF eis2
<1>28. q.last_frame_ptr \in {D[i].f : i \in 0 .. n}
  BY <1>3, <1>12, <1>19
<1>29. Runs(D, n, q)
  <2>1. /\ q \in State /\ q.frame_ptr = D[n].fp /\ q.stack_base = D[n].base /\ q.display[0] = 0
        /\ D[n].base <= Len(q.stack) /\ Linked(D, n, q.stack) /\ Operands(D, n, Len(q.stack), q.stack)
    BY <1>3, <1>7, <1>12, <1>15, <1>16, <1>24, <1>25 DEF st
  <2> QED BY <1>3, <1>24, <1>26, <1>27, <1>28, <2>1 DEF Runs, Laid
<1>30. at = D[n].at
  BY <1>15, <1>16
<1> QED BY <1>2, <1>29, <1>30, Continues

(* A standard function takes its parameter through take_formal. *)
LEMMA TakeParameterKeeps ==
  ASSUME Coupled, Len(stack) < 2^FP_BITS, TakeParameter
  PROVE  /\ Coupled'
         /\ \/ error' = error
            \/ error' = "Bad block level" /\ StdFun # {} /\ \E b \in Block : Level(b) = MaxLevel
<1>1. PICK C, n, p : Runs(C, n, p) /\ p = Now /\ ot = C[n].at
  BY DEF Coupled
<1> DEFINE b == C[n].at.home
           k == n - 1
           L == Len(C[k].dis) + 1
           at == At(b, "std")
<1>2. b \in StdFun /\ C[n].at.part = "entry"
  BY <1>1 DEF TakeParameter
<1>3. /\ n \in Nat /\ n \in 0 .. n /\ Contexts(C, n) /\ p \in State /\ C[n].base \in Nat
      /\ Ops(C, n, p.eis_operation) /\ Shown(C, n, p.display) /\ p.display[0] = 0
      /\ p.last_frame_ptr \in {C[i].f : i \in 0 .. n} /\ p.frame_ptr = frame_ptr
      /\ p.stack_base = stack_base /\ p.stack_base = C[n].base /\ p.frame_ptr = C[n].fp
      /\ Linked(C, n, p.stack) /\ C[n].base <= Len(p.stack) /\ p.stack = stack
      /\ Operands(C, n, Len(p.stack), p.stack)
  BY <1>1, TempsAre DEF Runs, Laid
<1>4. n # 0
  BY <1>2, <1>3, ProgramAssumption DEF Contexts, Outermost
<1>5. n \in Nat \ {0} /\ n \in 1 .. n /\ k \in 0 .. n - 1 /\ k \in 0 .. n
  BY <1>3, <1>4
<1>6. InStd(C, n)
  <2>1. b \notin Block
    BY <1>2, ProgramAssumption
  <2> QED BY <1>2, <1>3, <1>5, <2>1, Which DEF AtEntry
<1>7. /\ Passes(C, n, ProcFormals) /\ C[n].base = C[n].f + 7 /\ C[n].fp = C[n].f
      /\ Len(C[k].dis) > 0 /\ C[n].dis = C[k].dis
  BY <1>2, <1>6 DEF InStd
<1>8. /\ Len(C[n].pords) = 1 /\ C[n].pords[1] \in Pords(C[k].at.home, "num")
      /\ C[k].at.part \in UserParts
  <2>1. Len(ProcFormals) = 1 /\ ProcFormals[1] = "num" /\ 1 \in 1 .. 1 /\ 1 > 0
    BY DEF ProcFormals
  <2> QED BY <1>7, <2>1 DEF Passes
<1>9. /\ C[n].f \in Nat /\ C[n] \in Context /\ C[n].dis \in Seq(Nat) /\ C[n].pords \in Seq(PordSet)
      /\ Len(C[n].dis) \in Nat /\ L \in Nat /\ L >= 1 /\ L = Len(C[n].dis) + 1
  <2>1. /\ C[n].f \in Nat /\ C[n] \in Context /\ C[n].dis \in Seq(Nat)
        /\ C[n].pords \in Seq(PordSet) /\ Len(C[n].dis) \in Nat
    BY ONLY <1>3, Typed
  <2>2. L = Len(C[n].dis) + 1
    BY <1>7
  <2> HIDE DEF L
  <2> QED BY ONLY <2>1, <2>2
<1> HIDE DEF at, b
<1>10. BlockLevel(p) = 0
  <2>1. ~ Entered(C[n])
    BY <1>2 DEF Entered
  <2>2. Field(p, C[n].f, BN) = 0
    BY <1>3, <1>5, <2>1, FieldsAre
  <2> QED BY <1>3, <1>7, <2>2 DEF BlockLevel
<1>11. Field(p, Field(p, p.frame_ptr, FP), BN) + 1 = L
  <2>1. Field(p, p.frame_ptr, FP) = C[k].fp
    BY <1>3, <1>5, <1>7, FieldsAre
  <2>2. Calls(C[k])
    BY <1>8 DEF Calls
  <2>3. k # 0
    BY <1>3, <1>7 DEF Contexts, Outermost
  <2>4. Field(p, C[k].fp, BN) = Len(C[k].dis)
    BY <1>3, <1>5, <2>2, <2>3, LevelIs
  <2> QED BY <2>1, <2>4
<1> DEFINE q == UpdateDisplay(SetBlockLevel(p, L), L, frame_ptr)
<1>12. IF L > MaxLevel THEN Fail("Bad block level")
       ELSE Take(SetOperation(q, stack_base, "REMOVE_ARG"), [bn |-> L, arg |-> 1], "PUSH_VALUE", at)
  <2> DEFINE prev_fp == Field(p, p.frame_ptr, FP)
             level == IF BlockLevel(p) = 0 THEN Field(p, prev_fp, BN) + 1 ELSE BlockLevel(p)
             x == IF BlockLevel(p) = 0 THEN UpdateDisplay(SetBlockLevel(p, level), level, frame_ptr)
                  ELSE p
  <2>1. IF level > MaxLevel THEN Fail("Bad block level")
        ELSE Take(SetOperation(x, stack_base, "REMOVE_ARG"), [bn |-> level, arg |-> 1],
                  "PUSH_VALUE", at)
    BY <1>1, <1>3 DEF TakeParameter, at, b
  <2>2. level = L
    BY <1>10, <1>11
  <2> HIDE DEF level, L
  <2>3. x = q
    BY <1>10, <2>2
  <2> HIDE DEF x, q
  <2> QED BY <2>1, <2>2, <2>3
<1> HIDE DEF L
<1>13. CASE L > MaxLevel
  <2>1. Fail("Bad block level")
    BY <1>12, <1>13
  <2>2. Coupled'
    <3>1. p = Now' /\ ot' = C[n].at
      BY <1>1, <2>1 DEF Fail, Now
    <3> QED BY <1>1, <3>1 DEF Coupled
  <2>3. \E x \in Block : Level(x) = MaxLevel
    <3> DEFINE h == C[k].at.home
    <3>1. h \in Block \cup {Main} /\ Level(h) \in Nat /\ Len(C[k].dis) = Level(h)
      BY <1>3, <1>5, <1>8, UserIs
    <3>2. Level(Main) = 0
      BY ProgramAssumption DEF Level
    <3>3. h \in Block
      BY <1>7, <3>1, <3>2
    <3>4. L = Level(h) + 1
      BY <3>1 DEF L
    <3>5. Level(h) <= MaxLevel /\ MaxLevel \in Nat
      BY <3>3, RunTimeAssumption
    <3>6. Level(h) = MaxLevel
      BY <1>13, <3>1, <3>4, <3>5
    <3> QED BY <3>3, <3>6
  <2>4. error' = "Bad block level" /\ StdFun # {}
    BY <1>2, <2>1 DEF Fail
  <2> QED BY <2>2, <2>3, <2>4
<1>14. CASE ~ L > MaxLevel
  <2> DEFINE dis == Append(C[n].dis, n)
             c == [f |-> C[n].f, at |-> at, fp |-> C[n].f, base |-> C[n].base, dis |-> dis,
                   pords |-> C[n].pords]
             D == [C EXCEPT ![n] = c]
             r == SetOperation(q, stack_base, "REMOVE_ARG")
             a == [bn |-> L, arg |-> 1]
  <2>1. L \in 1 .. MaxLevel
    BY <1>9, <1>14, RunTimeAssumption
  <2>2. dis \in Seq(Nat) /\ Len(dis) = L /\ dis[L] = n /\ \A l \in 1 .. L - 1 : dis[l] = C[n].dis[l]
    <3> DEFINE x == C[n].dis
    <3>1. x \in Seq(Nat) /\ L = Len(x) + 1 /\ Len(x) \in Nat
      BY <1>9
    <3> HIDE DEF x
    <3>2. /\ Append(x, n) \in Seq(Nat) /\ Len(Append(x, n)) = L /\ Append(x, n)[L] = n
          /\ \A l \in 1 .. L - 1 : Append(x, n)[l] = x[l]
      BY <1>3, <3>1
    <3> QED BY <3>2 DEF x
  <2>3. at \in Code /\ at.home = b /\ at.part = "std"
    BY <1>2 DEF at, At, Code, Parts
  <2>4. dis = Append(C[k].dis, n)
    BY <1>7
  <2> HIDE DEF dis
  <2>5. c \in Context
    BY <1>3, <1>9, <2>2, <2>3 DEF Context
  <2>6. /\ c.f = C[n].f /\ c.at = at /\ c.fp = C[n].f /\ c.base = C[n].base /\ c.dis = dis
        /\ c.pords = C[n].pords
    OBVIOUS
  <2> HIDE DEF c
  <2>7. Replaces(C, D, n, c)
    BY DEF Replaces
  <2> HIDE DEF D
  <2>8. Opens(C, n, c, L)
    <3>1. ~ Entered(C[n]) /\ Entered(c)
      BY <1>2, <2>3, <2>6 DEF Entered
    <3>2. L - 1 <= Len(C[n].dis) /\ c.base >= C[n].base /\ c.fp = c.f
      BY <1>3, <1>9, <2>6
    <3>3. C[n].at.home \in StdFun
      BY <1>2 DEF b
    <3> QED BY <2>1, <2>2, <2>5, <2>6, <3>1, <3>2, <3>3 DEF Opens
  <2>9. /\ D[n] = c /\ \A i \in 0 .. n - 1 : D[i] = C[i]
        /\ Nested(D, n)
    BY <1>3, <1>5, <2>7, <2>8, OpensOver
  <2>10. D[n - 1] = C[n - 1]
    BY <1>5, <2>9
  <2>11. Sound(D, n)
    <3>1. Passes(D, n, ProcFormals)
      BY <1>7, <2>6, <2>9, <2>10 DEF Passes
    <3>2. InStd(D, n)
      BY <1>2, <1>7, <2>3, <2>4, <2>6, <2>9, <2>10, <3>1 DEF InStd
    <3>3. C[n - 1].base < C[n].f /\ C[n - 1].at.part \in UserParts \cup {"std"}
      BY <1>3, <1>5 DEF Contexts, Sound
    <3> QED BY <2>6, <2>9, <2>10, <3>2, <3>3 DEF Sound
  <2>12. Opening(C, n, p, c, L, D)
    BY <1>3, <1>5, <1>7, <2>6, <2>7, <2>8, <2>11 DEF Opening
  <2>13. Opened(D, n, p, c, q)
    <3>1. Opened(D, n, p, c, UpdateDisplay(SetBlockLevel(p, L), L, C[n].f))
      BY <2>12, OpenedIs
    <3> QED BY <1>3, <1>7, <3>1
  <2> HIDE DEF q
  <2>14. PICK st, Y : /\ q = Showing(Stacked(p, st), Y) /\ st \in Seq(Cells)
                      /\ Y \in [0 .. MaxLevel -> Nat] /\ Len(st) = Len(p.stack)
    BY <2>13 DEF Opened
  <2> DEFINE eis == WithOperation(p.eis_operation, C[n].base, "REMOVE_ARG")
  <2>15. q = [stack |-> st, frame_ptr |-> p.frame_ptr, last_frame_ptr |-> p.last_frame_ptr,
              stack_base |-> p.stack_base, display |-> Y, eis_operation |-> p.eis_operation]
    BY <1>3, <2>14 DEF Showing, Stacked, State
  <2>16. r = [stack |-> st, frame_ptr |-> p.frame_ptr, last_frame_ptr |-> p.last_frame_ptr,
              stack_base |-> p.stack_base, display |-> Y, eis_operation |-> eis]
    <3>1. r = [q EXCEPT !.eis_operation = WithOperation(q.eis_operation, C[n].base, "REMOVE_ARG")]
      BY <1>3 DEF SetOperation, WithOperation
    <3>2. q.eis_operation = p.eis_operation
      BY <2>15
    <3> HIDE DEF r
    <3>3. r = [q EXCEPT !.eis_operation = eis]
      BY <3>1, <3>2
    <3> HIDE DEF eis
    <3> QED BY <2>15, <3>3
  <2>17. "REMOVE_ARG" \in PostOps /\ p.eis_operation \in Operations
    BY <1>3 DEF PostOps, State, Operations
  <2>18. /\ eis \in Operations /\ C[n].base \in DOMAIN eis /\ eis[C[n].base] = "REMOVE_ARG"
         /\ \A x \in DOMAIN p.eis_operation : /\ x \in DOMAIN eis
                                              /\ x # C[n].base => eis[x] = p.eis_operation[x]
    <3>1. C[n].base \in Nat
      BY <1>3
    <3> QED BY ONLY <2>17, <3>1, WithOperationIs
  <2> HIDE DEF eis, r
  <2>19. /\ r \in State /\ r.stack = q.stack /\ r.display = q.display /\ r.frame_ptr = c.fp
         /\ r.stack_base = c.base /\ r.last_frame_ptr = p.last_frame_ptr /\ r.eis_operation = eis
         /\ Len(r.stack) = Len(stack)
    <3>1. p \in State /\ p.stack = stack /\ Len(st) = Len(stack) /\ eis \in Operations
      BY <1>3, <2>14, <2>18
    <3>2. p.frame_ptr = c.fp /\ p.stack_base = c.base
      BY <1>3, <1>7, <2>6
    <3>3. /\ r.stack = q.stack /\ r.display = q.display /\ r.frame_ptr = p.frame_ptr
          /\ r.stack_base = p.stack_base /\ r.last_frame_ptr = p.last_frame_ptr
          /\ r.eis_operation = eis /\ r.stack = st
      BY ONLY <2>15, <2>16
    <3>4. r \in State
      BY ONLY <2>14, <2>16, <3>1 DEF State, Operations
    <3> QED BY ONLY <3>1, <3>2, <3>3, <3>4
  <2>20. Ops(D, n, eis)
    <3>1. \A i \in 1 .. n - 1 : C[i].base \in DOMAIN eis /\ eis[C[i].base] = p.eis_operation[C[i].base]
      <4> TAKE i \in 1 .. n - 1
      <4>1. i \in 1 .. n /\ i \in 0 .. n /\ i < n
        BY <1>3
      <4>2. C[i].base < C[n].f /\ C[i].base \in Nat
        BY <1>3, <4>1, Spaced, Typed
      <4>3. C[i].base # C[n].base
        <5>1. C[n].base \in Nat /\ C[n].f \in Nat /\ C[n].f <= C[n].base
          <6>1. C[n].base = C[n].f + 7 /\ C[n].f \in Nat
            BY <1>7, <1>9
          <6> QED BY ONLY <6>1
        <5>2. \A x, y, z \in Nat : x < y /\ y <= z => x # z
          OBVIOUS
        <5> QED BY ONLY <4>2, <5>1, <5>2
      <4>4. C[i].base \in DOMAIN p.eis_operation
        BY <1>3, <4>1 DEF Ops
      <4> QED BY <2>18, <4>3, <4>4
    <3>2. /\ "REMOVE_ARG" \in PostOps \ {"PUSH_ADDRESS"} /\ ~ Combines("REMOVE_ARG")
          /\ c.at.part = "std" /\ "REMOVE_ARG" \notin {"PUSH_DEREF", "ADD_DEREF"}
          /\ c.at.part # "address"
      BY <2>3, <2>6 DEF PostOps, Combines
    <3>3. /\ Ops(C, n, p.eis_operation) /\ c.f = C[n].f /\ c.base \in DOMAIN eis
          /\ eis[c.base] = "REMOVE_ARG"
      BY <1>3, <2>6, <2>18
    <3> QED BY ONLY <1>3, <1>5, <2>5, <2>7, <3>1, <3>2, <3>3, OpsOver
  <2>21. Runs(D, n, r)
    BY <1>3, <2>12, <2>13, <2>19, <2>20, OpenedRuns
  <2>22. Has(D, n, a, "num")
    <3>1. a \in [bn : Nat, arg : Nat] /\ a.bn = L /\ a.arg = 1
      BY <1>9
    <3>2. L \in 1 .. Len(D[n].dis) /\ D[n].dis[L] = n
      BY <1>9, <2>2, <2>6, <2>9
    <3>3. 1 \in 1 .. Len(D[n].pords) /\ D[n].pords[1] \in Pords(D[n - 1].at.home, "num")
          /\ D[n - 1].at.part \in UserParts
      BY <1>8, <2>6, <2>9, <2>10
    <3> HIDE DEF a
    <3> QED BY <3>1, <3>2, <3>3 DEF Has
  <2>23. Take(r, a, "PUSH_VALUE", D[n].at)
    BY <1>12, <1>14, <2>6, <2>9 DEF r
  <2>24. /\ "PUSH_VALUE" \in TakeOps /\ ~ Combines("PUSH_VALUE") /\ "num" \in {"num", "label"}
         /\ D[n].at.part \in UserParts \cup {"std"} /\ Len(r.stack) < 2^FP_BITS
    BY <2>3, <2>6, <2>9, <2>19 DEF TakeOps, Combines
  <2> HIDE DEF a
  <2> QED BY <2>21, <2>22, <2>23, <2>24, TakeKeeps
<1> QED BY <1>13, <1>14

-----------------------------------------------------------------------------
(***************************************************************************)
(* The invariant of the specification.  Two exceptions are left to a       *)
(* program whose jumps are tame: a formal procedure that was passed on is  *)
(* not known where it is called, and the frame of a standard function that *)
(* is a parameter may be one level too deep.                               *)
(***************************************************************************)
Exceptions ==
  {"none"}
  \cup {e \in {"Unknown descriptor of formal procedure"} : "formal procedure" \in Actuals}
  \cup {e \in {"Bad block level"} : StdFun # {} /\ \E b \in Block : Level(b) = MaxLevel}

Linkages == Coupled /\ error \in Exceptions

LEMMA InitCoupled ==
  ASSUME Init
  PROVE  Linkages
<1> DEFINE c == [f |-> 0, at |-> At(Main, "body"), fp |-> 0, base |-> 0, dis |-> << >>,
                 pords |-> << >>]
           C == [i \in Nat |-> c]
           p == Now
<1>1. c \in Context
  BY DEF Context, Code, At, Parts
<1>2. C \in [Nat -> Context] /\ C[0] = c
  BY <1>1
<1>3. Outermost(c)
  <2>1. At(Main, "body").home = Main /\ At(Main, "body").part = "body"
    BY DEF At
  <2> QED BY <2>1 DEF Outermost
<1>4. /\ p.stack = << >> /\ p.frame_ptr = 0 /\ p.last_frame_ptr = 0 /\ p.stack_base = 0
      /\ p.display = [l \in 0 .. MaxLevel |-> 0] /\ p.eis_operation = [b \in {} |-> "PUSH_VALUE"]
  BY DEF Init, Now
<1>5. p \in State
  <2>1. [b \in {} |-> "PUSH_VALUE"] \in [{} -> PostOps] /\ {} \in SUBSET Nat
    OBVIOUS
  <2>2. [b \in {} |-> "PUSH_VALUE"] \in UNION {[D -> PostOps] : D \in SUBSET Nat}
    BY <2>1
  <2>3. << >> \in Seq(Cells) /\ [l \in 0 .. MaxLevel |-> 0] \in [0 .. MaxLevel -> Nat]
    OBVIOUS
  <2> QED BY <2>2, <2>3 DEF Init, Now, State
<1>6. c.dis = << >> /\ c.fp = 0 /\ c.base = 0 /\ c.f = 0 /\ ot = c.at
  BY DEF Init
<1> HIDE DEF c, C, p
<1>7. 1 .. 0 = {} /\ Len(<< >>) = 0 /\ \A x : 0 + 1 .. 0 = {}
  OBVIOUS
<1>8. Runs(C, 0, p)
  <2>1. Contexts(C, 0)
    BY <1>2, <1>3, <1>7 DEF Contexts
  <2>2. Laid(C, 0, p.stack)
    BY <1>2, <1>4, <1>6, <1>7 DEF Laid, Linked, Operands
  <2>3. Ops(C, 0, p.eis_operation) /\ Shown(C, 0, p.display)
    BY <1>2, <1>6, <1>7 DEF Ops, Shown
  <2>4. p.last_frame_ptr \in {C[i].f : i \in 0 .. 0}
    BY <1>2, <1>4, <1>6
  <2>5. p.display[0] = 0
    BY <1>4, RunTimeAssumption
  <2> QED BY <1>2, <1>4, <1>5, <1>6, <2>1, <2>2, <2>3, <2>4, <2>5 DEF Runs
<1>9. Coupled
  BY <1>2, <1>6, <1>8 DEF Coupled, p
<1> QED BY <1>9 DEF Linkages, Exceptions, Init

LEMMA NextKeeps ==
  ASSUME TameGoto = TRUE, \A b \in PassedProcs : Level(b) = 1,
         Linkages, Len(stack) < 2^FP_BITS, [Next]_vars
  PROVE  Linkages'
<1> USE DEF Linkages
<1>1. CASE UNCHANGED vars
  BY <1>1 DEF vars, Coupled, Now
<1>2. ASSUME Coupled' /\ error' = error PROVE Linkages'
  BY <1>2
<1>3. CASE InUserText /\ UserStep
  <2>1. CASE LoadOperand
    BY <1>2, <2>1, LoadOperandKeeps
  <2>2. CASE Consume
    BY <1>2, <2>2, ConsumeKeeps
  <2>3. CASE \E b \in Block : EnterFor(b)
    BY <1>2, <1>3, <2>3, EnterForKeeps
  <2>4. CASE \E b \in Block, result \in {Null, Val(0)} :
               \E args \in ArgLists(ot.home, Formals[b]) : Call(b, args, result)
    BY <1>2, <1>3, <2>4, CallKeeps
  <2>5. CASE \E a \in FormalsInScope(ot.home, "num"), op \in TakeOps : TakeFormal(a, op)
    BY <1>2, <1>3, <2>5, TakeFormalKeeps
  <2>6. CASE \E a \in FormalsInScope(ot.home, "label") : GotoFormal(a)
    BY <1>2, <1>3, <2>6, GotoFormalKeeps
  <2>7. CASE \E a \in FormalsInScope(ot.home, "proc"), result \in {Null, Val(0)} :
               \E args \in ArgLists(ot.home, ProcFormals) : CallFormal(a, args, result)
    <3>1. /\ Coupled'
          /\ \/ error' = error
             \/ /\ error' = "Unknown descriptor of formal procedure"
                /\ "formal procedure" \in Actuals
      BY <1>3, <2>7, CallFormalKeeps
    <3> QED BY <3>1 DEF Exceptions
  <2>8. CASE \E l \in 1 .. Level(ot.home) : AssignResult(l)
    BY <1>2, <2>8, AssignResultKeeps
  <2>9. CASE \E l \in 0 .. Level(ot.home) : Goto(l)
    BY <1>2, <2>9, GotoKeeps
  <2>10. CASE Return
    BY <1>2, <2>10, ReturnKeeps
  <2>11. CASE ExitFor
    BY <1>2, <2>11, ExitForKeeps
  <2>12. CASE Stop
    BY <1>2, <2>12, StopKeeps
  <2> QED BY <1>3, <2>1, <2>2, <2>3, <2>4, <2>5, <2>6, <2>7, <2>8, <2>9, <2>10, <2>11, <2>12
          DEF UserStep
<1>4. CASE EnterBlock
  BY <1>2, <1>4, EnterBlockKeeps
<1>5. CASE ReserveLocals
  BY <1>2, <1>5, ReserveLocalsKeeps
<1>6. CASE TakeParameter
  <2>1. /\ Coupled'
        /\ \/ error' = error
           \/ error' = "Bad block level" /\ StdFun # {} /\ \E b \in Block : Level(b) = MaxLevel
    BY <1>6, TakeParameterKeeps
  <2> QED BY <2>1 DEF Exceptions
<1>7. CASE EndSubroutine
  BY <1>2, <1>7, EndSubroutineKeeps
<1>8. CASE Stopped
  BY <1>1, <1>8 DEF Stopped
<1> QED BY <1>1, <1>3, <1>4, <1>5, <1>6, <1>7, <1>8 DEF Next

-----------------------------------------------------------------------------
(***************************************************************************)
(* The frames found on the stack are those of the contexts.                *)
(***************************************************************************)
LEMMA Greatest ==
  ASSUME NEW n \in Nat, NEW S \in SUBSET (0 .. n), 0 \in S
  PROVE  \E m \in S : \A k \in S : k <= m
<1> DEFINE T == {n - k : k \in S}
<1>1. T \in SUBSET Nat /\ n - 0 \in T
  OBVIOUS
<1>2. PICK t \in T : \A k \in T : t <= k
  BY <1>1, Least
<1>3. PICK m \in S : t = n - m
  OBVIOUS
<1>4. \A k \in S : k <= m
  <2> TAKE k \in S
  <2>1. n - m <= n - k
    BY <1>2, <1>3
  <2> QED BY <2>1
<1> QED BY <1>4

LEMMA OnlyReturn ==
  ASSUME NEW C, NEW n \in Nat, Contexts(C, n), NEW i \in 1 .. n, NEW st, Linkage(C, i, st),
         NEW top, Operands(C, i, top, st), NEW a \in Nat, a >= C[i].f, a <= top \/ a <= C[i].base,
         st[a].t = "ret"
  PROVE  a = C[i].f + 2
<1> DEFINE f == C[i].f
           w == Len(C[i].pords)
<1>1. /\ f \in Nat /\ w \in Nat /\ C[i].base \in Nat /\ i \in 0 .. n /\ i - 1 \in 0 .. n
      /\ f + 5 + 2 * w <= C[i].base
  BY FrameWithin, Typed
<1>2. /\ st[f] = Null \/ Number(st[f])
      /\ st[f + 1] = Addr(C[i - 1].fp) /\ st[f + 3] = Addr(C[i - 1].base)
      /\ st[f + 4].t = "addr" /\ st[f + 5].t = "addr"
      /\ \A j \in 1 .. w : Number(st[f + 4 + 2 * j]) /\ st[f + 5 + 2 * j].t = "addr"
      /\ \A x \in f + 6 + 2 * w .. C[i].base : Number(st[x])
  BY ONLY Linkage(C, i, st) DEF Linkage, Addr
<1>3. \A x \in C[i].base + 1 .. top : Number(st[x])
  BY DEF Operands
<1>4. ~ Number(st[a]) /\ st[a] # Null /\ st[a].t # "addr"
  BY DEF Number, Null
<1> HIDE DEF f, w
<1>5. a # f /\ a # f + 1 /\ a # f + 3 /\ a # f + 4 /\ a # f + 5
  BY <1>2, <1>4 DEF Addr
<1>6. \A j \in 1 .. w : a # f + 4 + 2 * j /\ a # f + 5 + 2 * j
  BY <1>2, <1>4
<1>7. a \notin f + 6 + 2 * w .. C[i].base
  BY <1>2, <1>4
<1>8. ~ (a > C[i].base)
  <2> SUFFICES ASSUME a > C[i].base PROVE FALSE
    OBVIOUS
  <2>1. a <= top
    BY <1>1
  <2>2. a \in C[i].base + 1 .. top
    BY <1>1, <2>1
  <2> QED BY <1>3, <1>4, <2>2
<1>9. a >= f
  BY DEF f
<1>10. a \notin f + 6 .. f + 5 + 2 * w
  <2> SUFFICES ASSUME a \in f + 6 .. f + 5 + 2 * w PROVE FALSE
    OBVIOUS
  <2> DEFINE j == (a - f - 4) \div 2
  <2>1. j \in 1 .. w /\ (a = f + 4 + 2 * j \/ a = f + 5 + 2 * j)
    BY <1>1
  <2> HIDE DEF j
  <2> QED BY <1>6, <2>1
<1>11. a < f + 6
  <2>1. ~ (a > f + 5 + 2 * w)
    <3>1. a > f + 5 + 2 * w => a \in f + 6 + 2 * w .. C[i].base
      BY <1>1, <1>8
    <3> QED BY <1>7, <3>1
  <2> QED BY <1>1, <1>10, <2>1
<1> QED BY <1>1, <1>5, <1>9, <1>11 DEF f

LEMMA FramesAre ==
  ASSUME NEW C, NEW n, NEW p, Runs(C, n, p), p = Now
  PROVE  Frames = {C[i].f : i \in 1 .. n}
<1>1. /\ n \in Nat /\ Contexts(C, n) /\ Linked(C, n, p.stack) /\ C[n].base <= Len(p.stack)
      /\ p.stack \in Seq(Cells) /\ stack = p.stack /\ Len(stack) \in Nat
      /\ Operands(C, n, Len(p.stack), p.stack)
  BY TempsAre DEF Runs, Laid
<1>2. \A i \in 1 .. n : C[i].f \in Frames
  BY <1>1, FrameIn
<1>3. ASSUME NEW g \in Frames PROVE \E i \in 1 .. n : g = C[i].f
  <2> DEFINE a == g + 2
             S == {i \in 0 .. n : C[i].f <= a}
  <2>1. g \in 0 .. Len(stack) - 2 /\ stack[a].t = "ret" /\ a \in Nat /\ a <= Len(stack) /\ a >= 1
    BY <1>1 DEF Frames
  <2>2. 0 \in S /\ S \in SUBSET (0 .. n)
    BY <1>1, <2>1 DEF Contexts, Outermost
  <2>3. PICK i \in S : \A k \in S : k <= i
    BY <1>1, <2>2, Greatest
  <2>4. i \in 0 .. n /\ C[i].f <= a /\ C[i].f \in Nat /\ C[i].base \in Nat
    BY <1>1, <2>2, Typed
  <2>5. \E top \in Nat : Operands(C, i, top, stack) /\ a <= top
    <3>1. CASE i = n
      BY <1>1, <2>1, <3>1
    <3>2. CASE i # n
      <4>1. i + 1 \in 1 .. n /\ i + 1 \in 0 .. n /\ ~ (i + 1 <= i) /\ (i + 1) - 1 = i
        BY <1>1, <2>4, <3>2
      <4>2. i + 1 \notin S
        BY <2>3, <4>1
      <4>3. ~ (C[i + 1].f <= a) /\ C[i + 1].f \in Nat
        BY <1>1, <4>1, <4>2, Typed
      <4>4. Operands(C, i, C[i + 1].f - 1, stack)
        BY <1>1, <4>1 DEF Linked
      <4>5. C[i + 1].f - 1 \in Nat /\ a <= C[i + 1].f - 1
        BY <2>1, <4>3
      <4> QED BY <4>4, <4>5
    <3> QED BY <3>1, <3>2
  <2>6. PICK top \in Nat : Operands(C, i, top, stack) /\ a <= top
    BY <2>5
  <2> HIDE DEF a, S
  <2>7. CASE i = 0
    <3>1. C[i].base = 0
      BY <1>1, <2>7 DEF Contexts, Outermost
    <3>2. a \in C[i].base + 1 .. top
      BY <2>1, <2>6, <3>1
    <3>3. Number(stack[a])
      BY <2>6, <3>2 DEF Operands
    <3> QED BY <2>1, <3>3 DEF Number
  <2>8. CASE i # 0
    <3>1. i \in 1 .. n
      BY <1>1, <2>4, <2>8
    <3>2. Linkage(C, i, stack)
      BY <1>1, <3>1 DEF Linked
    <3>3. a = C[i].f + 2
      BY <1>1, <2>1, <2>4, <2>6, <3>1, <3>2, OnlyReturn
    <3>4. g = C[i].f
      BY <2>1, <2>4, <3>3 DEF a
    <3> QED BY <3>1, <3>4
  <2> QED BY <2>7, <2>8
<1> QED BY <1>2, <1>3

-----------------------------------------------------------------------------
(***************************************************************************)
(* What the invariant says of the frames, the display and the parameters.  *)
(***************************************************************************)
LEMMA CoupledTypes ==
  ASSUME Linkages
  PROVE  TypeOK
<1>1. PICK C, n, p : Runs(C, n, p) /\ p = Now /\ ot = C[n].at
  BY DEF Linkages, Coupled
<1>2. /\ n \in Nat /\ n \in 0 .. n /\ C[n].base \in Nat /\ p \in State /\ Contexts(C, n)
      /\ stack = p.stack /\ frame_ptr = p.frame_ptr /\ last_frame_ptr = p.last_frame_ptr
      /\ stack_base = p.stack_base /\ display = p.display /\ eis_operation = p.eis_operation
      /\ C[n].base <= Len(p.stack) /\ p.stack_base = C[n].base
  BY <1>1, TempsAre
<1>3. stack \in Seq(Cells) /\ frame_ptr \in Nat /\ last_frame_ptr \in Nat
      /\ display \in [0 .. MaxLevel -> Nat] /\ Len(stack) \in Nat
  BY <1>2 DEF State
<1>4. stack_base \in 0 .. Len(stack)
  BY <1>2, <1>3
<1>5. DOMAIN eis_operation \subseteq Nat /\ \A b \in DOMAIN eis_operation : eis_operation[b] \in PostOps
  <2>1. PICK D \in SUBSET Nat : eis_operation \in [D -> PostOps]
    BY <1>2 DEF State
  <2> QED BY <2>1
<1>6. ot \in Code
  BY <1>1, <1>2, Typed
<1>7. error \in Errors
  BY DEF Linkages, Exceptions, Errors
<1> QED BY <1>3, <1>4, <1>5, <1>6, <1>7 DEF TypeOK

LEMMA CoupledFrames ==
  ASSUME Linkages
  PROVE  FramesLinked
<1>1. PICK C, n, p : Runs(C, n, p) /\ p = Now /\ ot = C[n].at
  BY DEF Linkages, Coupled
<1>2. /\ n \in Nat /\ n \in 0 .. n /\ Contexts(C, n) /\ Linked(C, n, p.stack)
      /\ frame_ptr = C[n].fp /\ stack_base = C[n].base
  BY <1>1, TempsAre
<1>3. Frames = {C[i].f : i \in 1 .. n}
  BY <1>1, FramesAre
<1>4. \A k \in 0 .. n : C[k].fp \in {C[j].f : j \in 1 .. k} \cup {0}
  <2> TAKE k \in 0 .. n
  <2>1. PICK i \in 0 .. k : C[k].fp = C[i].f /\ (k > 0 => i > 0)
    BY <1>2, Pointer
  <2>2. CASE k = 0
    BY <1>2, <2>1, <2>2 DEF Contexts, Outermost
  <2>3. CASE k # 0
    <3>1. i \in 1 .. k
      BY <1>2, <2>1, <2>3
    <3> QED BY <2>1, <3>1
  <2> QED BY <2>2, <2>3
<1>5. frame_ptr \in Frames \cup {0}
  BY <1>2, <1>3, <1>4
<1>6. ASSUME NEW k \in 0 .. n, NEW j \in 1 .. k PROVE C[k].base >= C[j].f + ARG
  <2>1. /\ C[j].f \in Nat /\ C[j].base \in Nat /\ C[k].base \in Nat /\ Len(C[j].pords) \in Nat
        /\ C[j].f + 5 + 2 * Len(C[j].pords) <= C[j].base /\ C[j].base <= C[k].base
    BY <1>2, Within
  <2>2. \A f, w, b, b2 \in Nat : f + 5 + 2 * w <= b /\ b <= b2 => b2 >= f + 5
    OBVIOUS
  <2> QED BY <2>1, <2>2 DEF ARG
<1>7. \A g \in Frames : stack_base >= g + ARG
  BY <1>2, <1>3, <1>6
<1>8. ASSUME NEW f \in Frames
      PROVE  /\ Field(Now, f, FP) \in {g \in Frames : g < f} \cup {0}
             /\ Field(Now, f, SP) < f
             /\ \A g \in Frames : g < f => Field(Now, f, SP) >= g + ARG
  <2>1. PICK i \in 1 .. n : f = C[i].f
    BY <1>3
  <2>2. i - 1 \in 0 .. n /\ i \in 0 .. n /\ i \in Nat
    BY <1>2
  <2>3. Field(Now, f, FP) = C[i - 1].fp /\ Field(Now, f, SP) = C[i - 1].base
    BY <1>1, <1>2, <2>1, FieldsAre
  <2>4. Field(Now, f, SP) < f
    BY <1>2, <2>1, <2>3, FrameWithin
  <2>5. Field(Now, f, FP) \in {g \in Frames : g < f} \cup {0}
    <3>1. CASE C[i - 1].fp = 0
      BY <2>3, <3>1
    <3>2. CASE C[i - 1].fp # 0
      <4>1. PICK j \in 1 .. i - 1 : C[i - 1].fp = C[j].f
        BY <1>4, <2>2, <3>2
      <4>2. j \in 1 .. n /\ j \in 0 .. n /\ j < i
        BY <1>2, <2>2
      <4>3. C[j].f < C[i].f
        BY <1>2, <2>2, <4>2, Spaced
      <4> QED BY <1>3, <2>1, <2>3, <4>1, <4>2, <4>3
    <3> QED BY <3>1, <3>2
  <2>6. ASSUME NEW g \in Frames, g < f PROVE Field(Now, f, SP) >= g + ARG
    <3>1. PICK j \in 1 .. n : g = C[j].f
      BY <1>3
    <3>2. j \in 0 .. n /\ C[j].f \in Nat /\ C[i].f \in Nat
      BY <1>2, <2>2, <3>1, Typed
    <3>3. j < i
      <4>1. i < j => C[i].f < C[j].f
        BY <1>2, <2>2, <3>2, Spaced
      <4>2. ~ (i < j) /\ i # j
        BY <2>1, <2>6, <3>1, <3>2, <4>1
      <4> QED BY <2>2, <4>2
    <3>4. j \in 1 .. i - 1
      BY <2>2, <3>3
    <3> QED BY <1>6, <2>2, <2>3, <3>1, <3>4
  <2> QED BY <2>4, <2>5, <2>6
<1> QED BY <1>5, <1>7, <1>8 DEF FramesLinked

LEMMA CoupledBase ==
  ASSUME Linkages
  PROVE  BaseOfCurrentBlock
<1>1. PICK C, n, p : Runs(C, n, p) /\ p = Now /\ ot = C[n].at
  BY DEF Linkages, Coupled
<1>2. /\ n \in Nat /\ n \in 0 .. n /\ Contexts(C, n)
      /\ frame_ptr = C[n].fp /\ stack_base = C[n].base
  BY <1>1, TempsAre
<1> SUFFICES ASSUME C[n].at.part = "body"
             PROVE  stack_base = IF C[n].at.home = Main THEN 0
                      ELSE frame_ptr + FirstLocal(C[n].at.home) + Locals[C[n].at.home]
                           + IF C[n].at.home \in ForBlock THEN 1 ELSE 0
  BY <1>1 DEF BaseOfCurrentBlock, InBody
<1> DEFINE b == C[n].at.home
<1>3. CASE b = Main
  <2>1. n = 0
    <3> SUFFICES ASSUME n # 0 PROVE FALSE
      OBVIOUS
    <3>1. n \in 1 .. n
      BY <1>2
    <3>2. InBlock(C, n)
      BY <1>2, <3>1, Which
    <3> QED BY <1>3, <3>2, ProgramAssumption DEF InBlock
  <2> QED BY <1>2, <1>3, <2>1 DEF Contexts, Outermost
<1>4. CASE b # Main
  <2>1. InBlock(C, n) /\ C[n].fp = C[n].f
    BY <1>2, <1>4, BodyIs
  <2>2. b \in Block /\ C[n].base = C[n].f + FirstLocal(b) + Steps(b) + Locals[b]
    BY <2>1 DEF InBlock
  <2>3. FirstLocal(b) \in Nat /\ Locals[b] \in Nat /\ C[n].f \in Nat
    BY <1>2, <2>2, BlockTypes, Typed
  <2>4. Steps(b) = IF b \in ForBlock THEN 1 ELSE 0
    BY DEF Steps
  <2> HIDE DEF b
  <2>5. C[n].base = C[n].f + FirstLocal(b) + Locals[b] + IF b \in ForBlock THEN 1 ELSE 0
    BY <2>2, <2>3, <2>4
  <2> QED BY <1>2, <1>4, <2>1, <2>5 DEF b
<1> QED BY <1>3, <1>4

LEMMA CoupledPards ==
  ASSUME Linkages, Len(stack) < 2^FP_BITS
  PROVE  PardsPointToCaller
<1>1. PICK C, n, p : Runs(C, n, p) /\ p = Now /\ ot = C[n].at
  BY DEF Linkages, Coupled
<1>2. /\ n \in Nat /\ n \in 0 .. n /\ Contexts(C, n) /\ Linked(C, n, p.stack)
      /\ p.stack \in Seq(Cells) /\ C[n].base <= Len(p.stack) /\ stack = p.stack
  BY <1>1, TempsAre
<1>3. Frames = {C[i].f : i \in 1 .. n}
  BY <1>1, FramesAre
<1> SUFFICES ASSUME NEW f \in Frames, NEW j \in DOMAIN Get(Now, f + PC).pords
             PROVE  LET pard   == Field(Now, f, ARG + 2 * j - 1)
                        caller == Field(Now, f, FP)
                    IN /\ pard % 2^FP_BITS = caller
                       /\ pard \div 2^FP_BITS = IF caller = 0 THEN 0 ELSE Field(Now, caller, BN)
  BY DEF PardsPointToCaller
<1>4. PICK i \in 1 .. n : f = C[i].f
  BY <1>3
<1> DEFINE k == i - 1
<1>5. k \in 0 .. n /\ k \in 0 .. n - 1
  BY <1>2
<1>6. Field(Now, f, FP) = C[k].fp /\ Get(Now, f + PC) = Ret(C[k].at, C[i].pords)
  BY <1>1, <1>2, <1>4, FieldsAre
<1>7. j \in 1 .. Len(C[i].pords)
  <2>1. i \in 0 .. n
    OBVIOUS
  <2>2. C[i].pords \in Seq(PordSet)
    BY <1>2, <2>1, Typed
  <2>3. DOMAIN Ret(C[k].at, C[i].pords).pords = 1 .. Len(C[i].pords)
    BY <2>2 DEF Ret
  <2> QED BY <1>6, <2>3
<1>8. Field(Now, f, ARG + 2 * j - 1) = Pard(Len(C[k].dis), C[k].fp)
  BY <1>1, <1>2, <1>4, <1>7, FieldsAre
<1> HIDE DEF k
<1>9. C[k].fp \in Nat /\ C[k].fp < 2^FP_BITS /\ Len(C[k].dis) \in Nat
  BY <1>2, <1>5, PointerFits, Typed
<1>10. /\ Pard(Len(C[k].dis), C[k].fp) \div 2^FP_BITS = Len(C[k].dis)
       /\ Pard(Len(C[k].dis), C[k].fp) % 2^FP_BITS = C[k].fp
  BY <1>9, PardIs
<1>11. Len(C[k].dis) = IF C[k].fp = 0 THEN 0 ELSE Field(p, C[k].fp, BN)
  <2>1. Calls(C[k])
    BY <1>2, <1>5, Caller
  <2>2. CASE k = 0
    BY <1>2, <1>5, <2>1, <2>2, LevelIs
  <2>3. CASE k # 0
    <3>1. PICK m \in 0 .. k : C[k].fp = C[m].f /\ (k > 0 => m > 0)
      BY <1>2, <1>5, Pointer
    <3>2. m \in 1 .. k
      BY <1>5, <2>3, <3>1
    <3>3. C[m].f # 0
      BY <1>2, <1>5, <3>2, Within
    <3>4. Field(p, C[k].fp, BN) = Len(C[k].dis)
      BY <1>2, <1>5, <2>1, <2>3, LevelIs
    <3> QED BY <3>1, <3>3, <3>4
  <2> QED BY <2>2, <2>3
<1> QED BY <1>1, <1>6, <1>8, <1>10, <1>11

LEMMA CoupledDisplay ==
  ASSUME Linkages
  PROVE  DisplayCoherent
<1>1. PICK C, n, p : Runs(C, n, p) /\ p = Now /\ ot = C[n].at
  BY DEF Linkages, Coupled
<1>2. /\ n \in Nat /\ n \in 0 .. n /\ Contexts(C, n) /\ Linked(C, n, p.stack) /\ p \in State
      /\ Shown(C, n, p.display) /\ display = p.display /\ p.stack_base = C[n].base
      /\ p.frame_ptr = C[n].fp
  BY <1>1, TempsAre
<1>3. C[n].dis \in Seq(Nat) /\ Len(C[n].dis) \in Nat /\ p.display \in [0 .. MaxLevel -> Nat]
  BY <1>2, Typed DEF State
<1> DEFINE L == BlockLevel(p)
<1>4. L = 0 \/ (L = Len(C[n].dis) /\ Leads(C, n, C[n].fp))
  <2>1. CASE n = 0 \/ Calls(C[n]) \/ C[n].at.part = "locals"
    BY <1>2, <2>1, LevelIs, BlockLevelIs
  <2>2. CASE ~ (n = 0 \/ Calls(C[n]) \/ C[n].at.part = "locals")
    <3>1. n \in 1 .. n /\ ~ Entered(C[n])
      BY <1>2, <2>2 DEF Calls, UserParts, Entered
    <3>2. C[n].at.part = "entry"
      <4>1. C[n].at \in Code
        BY <1>2, Typed
      <4>2. C[n].at.part \in Parts /\ C[n].at.part # "stopped"
        BY <1>2, <3>1, <4>1, Which DEF Code
      <4> QED BY <2>2, <4>2 DEF Parts, Calls, UserParts, ThunkParts
    <3>3. AtEntry(C, n) \/ InStd(C, n)
      BY <1>2, <3>1, <3>2, Which
    <3>4. L = 0 \/ L = Field(p, C[n].fp, BN)
      BY <1>2 DEF BlockLevel
    <3>5. CASE C[n].fp = C[n].f
      <4>1. Field(p, C[n].f, BN) = 0
        BY <1>2, <3>1, FieldsAre
      <4> QED BY <3>4, <3>5, <4>1
    <3>6. CASE C[n].fp # C[n].f
      <4> DEFINE e == C[n].dis[Len(C[n].dis)]
      <4>1. Len(C[n].dis) > 0 /\ C[n].fp = C[e].f
        BY <3>3, <3>6 DEF AtEntry, InStd
      <4>2. Len(C[n].dis) \in 1 .. Len(C[n].dis)
        BY <1>3, <4>1
      <4>3. e \in 1 .. n /\ Entered(C[e]) /\ Len(C[e].dis) = Len(C[n].dis)
        <5> DEFINE m == Len(C[n].dis)
        <5>1. n \in Nat /\ Contexts(C, n) /\ n \in 0 .. n /\ m \in 1 .. Len(C[n].dis)
          BY <1>2, <4>2
        <5> HIDE DEF m
        <5>2. C[n].dis[m] \in 1 .. n /\ Entered(C[C[n].dis[m]]) /\ Len(C[C[n].dis[m]].dis) = m
          BY ONLY <5>1, Encloser
        <5> QED BY <5>2 DEF m
      <4>4. Leads(C, n, C[n].fp)
        BY <4>1 DEF Leads
      <4> HIDE DEF e
      <4>5. Field(p, C[e].f, BN) = Len(C[e].dis)
        BY <1>2, <4>3, FieldsAre
      <4> QED BY <3>4, <4>1, <4>3, <4>4, <4>5
    <3> QED BY <3>5, <3>6
  <2> QED BY <2>1, <2>2
<1> HIDE DEF L
<1>5. \A l \in 1 .. L : l \in 1 .. Len(C[n].dis) /\ Spine(p, L, C[n].fp)[l] = C[C[n].dis[l]].f
  <2>1. CASE L = 0
    <3>1. 1 .. 0 = {}
      OBVIOUS
    <3> QED BY <2>1, <3>1
  <2>2. CASE L # 0
    BY <1>2, <1>4, <2>2, SpineIs
  <2> QED BY <2>1, <2>2
<1>6. \A l \in 1 .. L : p.display[l] = C[C[n].dis[l]].f
  BY <1>2, <1>5 DEF Shown
<1>7. RestoreDisplay(p).display
        = [l \in DOMAIN p.display |-> IF l \in 1 .. L THEN Spine(p, L, C[n].fp)[l] ELSE p.display[l]]
  <2>1. RestoreDisplay(p) = UpdateDisplay(p, L, C[n].fp)
    BY <1>2 DEF RestoreDisplay, L
  <2>2. UpdateDisplay(p, L, C[n].fp)
          = [p EXCEPT !.display = [l \in DOMAIN p.display |->
               IF l \in 1 .. L THEN Spine(p, L, C[n].fp)[l] ELSE p.display[l]]]
    BY DEF UpdateDisplay, Spine
  <2> DEFINE Y == [l \in DOMAIN p.display |->
                     IF l \in 1 .. L THEN Spine(p, L, C[n].fp)[l] ELSE p.display[l]]
  <2> HIDE DEF Y
  <2>3. Showing(p, Y).display = Y
    BY <1>2, ShowingIs
  <2>4. RestoreDisplay(p) = Showing(p, Y)
    BY <2>1, <2>2 DEF Showing, Y
  <2> QED BY <2>3, <2>4 DEF Y
<1>8. RestoreDisplay(p).display = p.display
  <2> DEFINE Y == [l \in DOMAIN p.display |->
                     IF l \in 1 .. L THEN Spine(p, L, C[n].fp)[l] ELSE p.display[l]]
  <2>1. \A l \in DOMAIN p.display : Y[l] = p.display[l]
    BY <1>5, <1>6
  <2>2. DOMAIN Y = DOMAIN p.display /\ Y = [l \in DOMAIN p.display |-> Y[l]]
    OBVIOUS
  <2>3. p.display = [l \in DOMAIN p.display |-> p.display[l]]
    BY <1>3
  <2> HIDE DEF Y
  <2>4. Y = p.display
    BY <2>1, <2>2, <2>3
  <2> QED BY <1>7, <2>4 DEF Y
<1>9. \A l \in 1 .. L : Field(p, p.display[l], BN) = l
  <2> TAKE l \in 1 .. L
  <2> DEFINE e == C[n].dis[l]
  <2>1. e \in 1 .. n /\ Entered(C[e]) /\ Len(C[e].dis) = l
    BY <1>2, <1>5, Encloser
  <2>2. p.display[l] = C[e].f
    BY <1>6
  <2> HIDE DEF e
  <2>3. Field(p, C[e].f, BN) = l
    BY <1>2, <2>1, FieldsAre
  <2> QED BY <2>2, <2>3
<1> QED BY <1>1, <1>2, <1>8, <1>9 DEF DisplayCoherent, L

LEMMA CoupledLocals ==
  ASSUME Linkages, Len(stack) < 2^FP_BITS
  PROVE  LocalsReached
<1>1. PICK C, n, p : Runs(C, n, p) /\ p = Now /\ ot = C[n].at
  BY DEF Linkages, Coupled
<1>2. /\ n \in Nat /\ n \in 0 .. n /\ Contexts(C, n) /\ Linked(C, n, p.stack) /\ p \in State
      /\ Shown(C, n, p.display) /\ p.stack \in Seq(Cells) /\ C[n].base <= Len(p.stack)
      /\ stack = p.stack
  BY <1>1, TempsAre
<1> SUFFICES ASSUME C[n].at.part \in UserParts, NEW a \in FormalsInScope(C[n].at.home, "num")
             PROVE  LET s == Resolve(p, a)
                        d == ArgDescriptor(s.p, s.a)
                        f == ArgFrame(s.p, s.a, d.bn)
                    IN d.kind = "stack" =>
                         /\ f \in Frames /\ Field(p, f, BN) = d.bn
                         /\ Get(p, f + d.addr).t = "val"
  BY <1>1 DEF LocalsReached
<1> DEFINE s == Resolve(p, a)
           d == ArgDescriptor(s.p, s.a)
           f == ArgFrame(s.p, s.a, d.bn)
<1>3. Has(C, n, a, "num")
  BY <1>2, HasIs
<1>4. Found(C, n, p, "num", s)
  BY <1>2, <1>3, FoundIs
<1> HIDE DEF s
<1>5. PICK i \in 0 .. n, Y \in [0 .. MaxLevel -> Nat] :
        /\ s.p = Showing(p, Y) /\ C[i].at.part \in UserParts
        /\ d \in Pords(C[i].at.home, "num") /\ d.kind # "formal"
        /\ ArgDisplay(s.p, s.a) = [level |-> Len(C[i].dis), fp |-> C[i].fp]
  BY <1>4 DEF Found
<1> SUFFICES ASSUME d.kind = "stack"
             PROVE  f \in Frames /\ Field(p, f, BN) = d.bn /\ Get(p, f + d.addr).t = "val"
  BY DEF s
<1> DEFINE h == C[i].at.home
           l == d.bn
           e == C[i].dis[l]
           b == Path[h][l]
<1>6. l \in 1 .. Level(h) /\ Locals[b] > 0 /\ d.addr = FirstLocal(b)
  BY <1>5, PordIs
<1>7. /\ Len(C[i].dis) = Level(h) /\ Level(h) \in Nat
      /\ e \in 1 .. n /\ e \in 1 .. i /\ InBlock(C, e) /\ C[e].at.home = b /\ b \in Block
      /\ e = i => C[i].at.part = "body"
  <2>1. /\ Len(C[i].dis) = Level(h) /\ Level(h) \in Nat
        /\ \A m \in 1 .. Level(h) :
             LET x == C[i].dis[m]
             IN /\ x \in 1 .. n /\ x \in 1 .. i /\ InBlock(C, x)
                /\ C[x].at.home = Path[h][m] /\ Path[h][m] \in Block
                /\ x = i => m = Level(h) /\ C[i].at.part = "body"
    BY <1>2, <1>5, UserIs
  <2> HIDE DEF l, h
  <2> QED BY <1>6, <2>1
<1>8. l \in 1 .. Len(C[i].dis)
  BY <1>6, <1>7
<1>9. f = C[e].f
  <2> DEFINE q == s.p
             x == s.a
  <2>1. /\ n \in Nat /\ Contexts(C, n) /\ Linked(C, n, q.stack) /\ i \in 0 .. n /\ Calls(C[i])
        /\ ArgDisplay(q, x) = [level |-> Len(C[i].dis), fp |-> C[i].fp]
        /\ l \in 1 .. Len(C[i].dis)
    <3>1. s.p.stack = p.stack
      BY <1>2, <1>5, ShowingAgain
    <3> QED BY <1>2, <1>5, <1>8, <3>1 DEF Calls
  <2> HIDE DEF q, x, l
  <2>2. ArgFrame(q, x, l) = C[C[i].dis[l]].f
    BY ONLY <2>1, ArgFrameIs
  <2> QED BY <2>2 DEF q, x, l
<1> HIDE DEF d, f, e, b
<1>10. C[e].at.part = "body"
  <2>1. CASE e = i
    BY <1>7, <2>1
  <2>2. CASE e # i
    <3>1. e \in 0 .. n - 1
      BY <1>2, <1>7, <2>2
    <3>2. Calls(C[e])
      BY <1>2, <3>1, Caller
    <3> QED BY <1>7, <3>2 DEF InBlock, Calls, UserParts, ThunkParts
  <2> QED BY <2>1, <2>2
<1>11. f \in Frames
  BY <1>1, <1>2, <1>7, <1>9, FrameIn
<1>12. Field(p, f, BN) = l
  <2>1. Entered(C[e]) /\ Len(C[e].dis) = l
    <3>1. n \in Nat /\ Contexts(C, n) /\ i \in 0 .. n /\ l \in 1 .. Len(C[i].dis)
      BY <1>2, <1>8
    <3> HIDE DEF l
    <3>2. Entered(C[C[i].dis[l]]) /\ Len(C[C[i].dis[l]].dis) = l
      BY ONLY <3>1, Encloser
    <3> QED BY <3>2 DEF e
  <2> QED BY <1>2, <1>7, <1>9, <2>1, FieldsAre
<1>13. Get(p, f + d.addr).t = "val"
  <2> DEFINE w == Len(C[e].pords)
             k == Locals[b]
             top == f + FirstLocal(b) + Steps(b) + k
  <2>1. C[e].base = top
    BY <1>7, <1>9, <1>10 DEF InBlock
  <2>2. w = Len(Formals[b])
    BY <1>7 DEF InBlock, Passes
  <2>3. FirstLocal(b) = 5 + 2 * Len(Formals[b]) /\ Steps(b) \in Nat /\ k \in Nat /\ w \in Nat /\ f \in Nat
    <3>1. e \in 0 .. n
      BY <1>7
    <3>2. f \in Nat
      BY <1>2, <1>9, <3>1, Typed
    <3>3. b \in Block
      BY <1>7
    <3>4. /\ Len(Formals[b]) \in Nat /\ Locals[b] \in Nat /\ Steps(b) \in {0, 1}
          /\ FirstLocal(b) = 5 + 2 * Len(Formals[b])
      BY ONLY <3>3, BlockTypes
    <3> QED BY ONLY <2>2, <3>2, <3>4
  <2>4. \A x \in f + 6 + 2 * w .. top : Number(p.stack[x])
    BY <1>2, <1>7, <1>9, <2>1 DEF Linked, Linkage
  <2>5. (f + FirstLocal(b)) + 1 \in f + 6 + 2 * w .. top
    <3>1. FirstLocal(b) = 5 + 2 * w /\ k >= 1
      BY <1>6, <2>2, <2>3
    <3>2. \A g, u, t, z, y \in Nat : y = 5 + 2 * u /\ z >= 1 => (g + y) + 1 \in g + 6 + 2 * u .. g + y + t + z
      OBVIOUS
    <3> DEFINE y == FirstLocal(b)
               t == Steps(b)
    <3>3. y \in Nat /\ y = 5 + 2 * w /\ t \in Nat
      BY <2>3, <3>1
    <3> HIDE DEF y, t, k, w
    <3>4. (f + y) + 1 \in f + 6 + 2 * w .. f + y + t + k
      BY <2>3, <3>1, <3>2, <3>3
    <3> QED BY <3>4 DEF y, t
  <2>6. Number(p.stack[(f + FirstLocal(b)) + 1])
    BY <2>4, <2>5
  <2> QED BY <1>6, <2>6 DEF Get, Number
<1> QED BY <1>11, <1>12, <1>13


-----------------------------------------------------------------------------
(***************************************************************************)
(* The invariants, at every depth of recursion and for every program.  A   *)
(* PARD has FP_BITS bits for the frame pointer, so that a longer stack     *)
(* than they can name is not spoken of; nor are jumps out of expressions   *)
(* and blocks that leave more than they found (TameGoto), nor procedures   *)
(* that are passed from inside another one.                                *)
(***************************************************************************)
Fits == Len(stack) < 2^FP_BITS

LEMMA SpecKeeps ==
  ASSUME TameGoto = TRUE, \A b \in PassedProcs : Level(b) = 1
  PROVE  Spec /\ []Fits => []Linkages
<1>1. Init => Linkages
  BY InitCoupled
<1>2. Linkages /\ Fits /\ [Next]_vars => Linkages'
  BY NextKeeps DEF Fits
<1> QED BY <1>1, <1>2, PTL DEF Spec

\* The registers and every cell of the stack are of their types: no call, exit,
\* jump or parameter puts stack_base beyond the stack, or the order counter
\* outside the object program (Processor, Virtual_Stack).
THEOREM TypesHold ==
  ASSUME TameGoto = TRUE, \A b \in PassedProcs : Level(b) = 1
  PROVE  Spec /\ [](Len(stack) < 2^FP_BITS) => []TypeOK
<1>1. Linkages => TypeOK
  BY CoupledTypes
<1> QED BY <1>1, SpecKeeps, PTL DEF Fits

\* Every frame leads, by its cell FP, to an older frame or the main program,
\* and the stack base it will restore leaves the linkage of all older frames
\* alone (frame_create and frame_release, processor.cpp).
THEOREM FramesStayLinked ==
  ASSUME TameGoto = TRUE, \A b \in PassedProcs : Level(b) = 1
  PROVE  Spec /\ [](Len(stack) < 2^FP_BITS) => []FramesLinked
<1>1. Linkages => FramesLinked
  BY CoupledFrames
<1> QED BY <1>1, SpecKeeps, PTL DEF Fits

\* Where the statements of a block are run, stack_base is just above its
\* locals, whatever was called, left by a jump or evaluated as a parameter
\* before (SCC, RET, GTA, roll_back).
THEOREM BaseIsOfCurrentBlock ==
  ASSUME TameGoto = TRUE, \A b \in PassedProcs : Level(b) = 1
  PROVE  Spec /\ [](Len(stack) < 2^FP_BITS) => []BaseOfCurrentBlock
<1>1. Linkages => BaseOfCurrentBlock
  BY CoupledBase
<1> QED BY <1>1, SpecKeeps, PTL DEF Fits

\* The display shows the frames of the enclosing blocks, which the cells
\* DISPLAY also lead to, after every call, return, thunk and jump, in any
\* order (update_display, RET, GTA).
THEOREM DisplayIsCoherent ==
  ASSUME TameGoto = TRUE, \A b \in PassedProcs : Level(b) = 1
  PROVE  Spec /\ [](Len(stack) < 2^FP_BITS) => []DisplayCoherent
<1>1. Linkages => DisplayCoherent
  BY CoupledDisplay
<1> QED BY <1>1, SpecKeeps, PTL DEF Fits

\* Every PARD holds the frame and the block number of the context that wrote
\* the procedure statement, as long as its frame lives (frame_create).
THEOREM PardsLeadToCaller ==
  ASSUME TameGoto = TRUE, \A b \in PassedProcs : Level(b) = 1
  PROVE  Spec /\ [](Len(stack) < 2^FP_BITS) => []PardsPointToCaller
<1>1. Linkages /\ Fits => PardsPointToCaller
  BY CoupledPards DEF Fits
<1> QED BY <1>1, SpecKeeps, PTL DEF Fits

\* A formal that stands for a variable leads, through any number of formals
\* passed on, to a number in a frame of the block that declares the variable
\* (the loop over indirections of take_formal, get_display).
THEOREM LocalsAreReached ==
  ASSUME TameGoto = TRUE, \A b \in PassedProcs : Level(b) = 1
  PROVE  Spec /\ [](Len(stack) < 2^FP_BITS) => []LocalsReached
<1>1. Linkages /\ Fits => LocalsReached
  BY CoupledLocals DEF Fits
<1> QED BY <1>1, SpecKeeps, PTL DEF Fits

\* A compiled program does not end with an exception of the run-time system:
\* descriptors are known, operands present and frames found (take_formal,
\* roll_back, the post-operations); unless a formal procedure is passed on, or
\* a standard function called where its block number is one too large.
THEOREM NothingFails ==
  ASSUME TameGoto = TRUE, \A b \in PassedProcs : Level(b) = 1,
         "formal procedure" \notin Actuals,
         StdFun = {} \/ \A b \in Block : Level(b) < MaxLevel
  PROVE  Spec /\ [](Len(stack) < 2^FP_BITS) => []NoError
<1>1. Linkages => NoError
  <2> SUFFICES ASSUME Linkages
               PROVE  error = "none"
    BY DEF NoError
  <2>1. error \in Exceptions
    BY DEF Linkages
  <2>2. ~ (StdFun # {} /\ \E b \in Block : Level(b) = MaxLevel)
    <3> SUFFICES ASSUME StdFun # {}, NEW b \in Block, Level(b) = MaxLevel
                 PROVE  FALSE
      OBVIOUS
    <3>1. Level(b) < MaxLevel
      OBVIOUS
    <3>2. Level(b) \in Nat /\ MaxLevel \in Nat
      BY BlockTypes, RunTimeAssumption
    <3> QED BY ONLY <3>1, <3>2, Level(b) = MaxLevel
  <2> QED BY <2>1, <2>2 DEF Exceptions
<1> QED BY <1>1, SpecKeeps, PTL DEF Fits
=============================================================================
