------------------------------ MODULE X1RunTime ------------------------------
(***************************************************************************)
(* The run-time system of the simulator (processor.cpp, opcodes.cpp): the  *)
(* stack with its frames, the display, and the post-operations, cell by    *)
(* cell, as the object program of ObjectProgram drives them.               *)
(*                                                                         *)
(* A frame, at frame_ptr:                                                  *)
(*     -1  RESULT   null, or the value the caller expects                  *)
(*      0  FP       frame_ptr of the caller                                *)
(*      1  PC       return address                                         *)
(*      2  SP       stack_base of the caller                               *)
(*      3  BN       block number, 0 until the block is entered             *)
(*      4  DISPLAY  frame of the enclosing block                           *)
(*      5  ARG      two cells per parameter, the second one its PARD       *)
(* followed by the locals, then, from stack_base on, intermediate results. *)
(***************************************************************************)
EXTENDS ObjectProgram, FiniteSets

CONSTANTS
  MaxFrames,  \* no more frames than this are made by user text
  MaxLevel,   \* block numbers above it are refused (31 in the code)
  FP_BITS,    \* width of the frame pointer in a PARD (15 in the code)
  TameGoto    \* TRUE: jump only from where Tame holds

ASSUME RunTimeAssumption ==
  /\ MaxFrames \in Nat /\ MaxLevel \in Nat
  /\ FP_BITS \in Nat /\ 2^FP_BITS \in Nat \ {0}
  /\ \A b \in Block : Level(b) <= MaxLevel
  /\ TameGoto \in BOOLEAN

VARIABLES
  stack,            \* the cells of Virtual_Stack
  frame_ptr, last_frame_ptr, stack_base,
  display,          \* frame pointers by block level
  eis_operation,    \* what to do on leaving a subroutine, by its stack base
  ot,               \* OT: the place in the object program
  error             \* the exception that ended the run, or "none"

vars == <<stack, frame_ptr, last_frame_ptr, stack_base, display, eis_operation, ot, error>>

FP == 0
PC == 1
SP == 2
BN == 3
DISPLAY == 4
ARG == 5

-----------------------------------------------------------------------------
(***************************************************************************)
(* Cells.  Numbers are told apart only as far as "the result has been      *)
(* assigned" (1) needs; an address in the object program is larger than    *)
(* any frame pointer or block number.  The words before a return address   *)
(* hold the PORDs of the call.                                             *)
(***************************************************************************)
CodeAddress == 4096

Val(v)  == [t |-> "val", v |-> v]
Addr(v) == [t |-> "addr", v |-> v]
Null    == [t |-> "null", v |-> 0]
Ret(at, pords) == [t |-> "ret", v |-> CodeAddress, at |-> at, pords |-> pords]

(* The steps of a handler work on the processor state p, a record. *)
Now == [stack |-> stack, frame_ptr |-> frame_ptr, last_frame_ptr |-> last_frame_ptr,
        stack_base |-> stack_base, display |-> display, eis_operation |-> eis_operation]

Becomes(p) ==
  /\ stack' = p.stack
  /\ frame_ptr' = p.frame_ptr
  /\ last_frame_ptr' = p.last_frame_ptr
  /\ stack_base' = p.stack_base
  /\ display' = p.display
  /\ eis_operation' = p.eis_operation

Continue(p, at) == Becomes(p) /\ ot' = at /\ UNCHANGED error

(* An exception ends the run; what the stack then holds does not matter. *)
Fail(what) ==
  /\ error' = what
  /\ UNCHANGED <<stack, frame_ptr, last_frame_ptr, stack_base, display, eis_operation, ot>>

Count(p) == Len(p.stack)
Get(p, i) == p.stack[i + 1]
Field(p, fp, offset) == p.stack[fp + offset + 1].v
Push(p, c) == [p EXCEPT !.stack = Append(@, c)]
Pop(p) == [p EXCEPT !.stack = SubSeq(@, 1, Len(@) - 1)]
Put(p, i, c) == [p EXCEPT !.stack[i + 1] = c]
TopCell(p) == p.stack[Len(p.stack)]

SetOperation(p, base, op) ==
  [p EXCEPT !.eis_operation = [b \in DOMAIN @ \cup {base} |-> IF b = base THEN op ELSE @[b]]]

-----------------------------------------------------------------------------
(***************************************************************************)
(* The block number of the frame in use; 0 in the outermost block.         *)
(***************************************************************************)
BlockLevel(p) == IF p.stack_base = 0 THEN 0 ELSE Field(p, p.frame_ptr, BN)

(* display[level .. 1] is read from the DISPLAY cells, starting at fp. *)
UpdateDisplay(p, level, fp) ==
  LET frame[l \in 0 .. level] ==
        IF l = level THEN fp ELSE Field(p, frame[l + 1], DISPLAY)
  IN [p EXCEPT !.display = [l \in DOMAIN @ |-> IF l \in 1 .. level THEN frame[l] ELSE @[l]]]

(* After a formal has been taken, back to the display of the running block. *)
RestoreDisplay(p) == UpdateDisplay(p, BlockLevel(p), p.frame_ptr)

(* a | b *)
Or[a \in Nat, b \in Nat] ==
  IF a = 0 THEN b ELSE IF b = 0 THEN a
  ELSE (IF (a % 2 = 1) \/ (b % 2 = 1) THEN 1 ELSE 0) + (2 * Or[a \div 2, b \div 2])

(* Not the code: a PARD with the level of the procedure called. *)
PardOfCallee(level, fp) == ((level + 1) * 2^FP_BITS) + (fp % 2^FP_BITS)

(* A PARD packs the level and the frame pointer of the caller in a word; *)
(* a frame pointer that is too wide runs into the level.                 *)
Pard(level, fp) ==
  LET over == fp \div 2^FP_BITS
  IN ((IF over = 0 THEN level ELSE Or[level, over]) * 2^FP_BITS) + (fp % 2^FP_BITS)

FrameCreate(p, ret, num_args) ==
  LET fp    == Count(p)
      pard  == Addr(Pard(BlockLevel(p), p.frame_ptr))
      base  == fp + ARG + 2 * num_args
      frame == <<Addr(p.frame_ptr), ret, Addr(p.stack_base), Addr(0), Addr(0)>>
               \o [i \in 1 .. 2 * num_args |-> IF i % 2 = 1 THEN Val(0) ELSE pard]
  IN SetOperation([p EXCEPT !.stack = @ \o frame, !.frame_ptr = fp,
                            !.last_frame_ptr = fp, !.stack_base = base],
                  base, "PUSH_VALUE")

(* Not the code: the frame is left on the stack. *)
FrameReleaseKeepsFrame(p) ==
  LET fp == p.frame_ptr
  IN RestoreDisplay([p EXCEPT !.stack_base = Field(p, fp, SP), !.frame_ptr = Field(p, fp, FP),
                              !.last_frame_ptr = Field(p, fp, FP)])

(* Not the code: the display of the callee is left in place. *)
FrameReleaseKeepsDisplay(p) ==
  LET fp == p.frame_ptr
  IN [p EXCEPT !.stack = SubSeq(@, 1, fp), !.stack_base = Field(p, fp, SP),
               !.frame_ptr = Field(p, fp, FP), !.last_frame_ptr = Field(p, fp, FP)]

FrameRelease(p) ==
  LET fp == p.frame_ptr
      q  == [p EXCEPT !.stack = SubSeq(@, 1, fp),
                      !.stack_base = Field(p, fp, SP),
                      !.frame_ptr = Field(p, fp, FP),
                      !.last_frame_ptr = Field(p, fp, FP)]
  IN RestoreDisplay(q)

ReturnAddress(p) == Get(p, p.frame_ptr + PC).at

(* Not the code: the words are counted but not made. *)
AllocateStackNot(p, n) == p

AllocateStack(p, n) == [p EXCEPT !.stack = @ \o [i \in 1 .. n |-> Val(0)]]

(* Not the code: the locals are left among the intermediate results. *)
IncrementStackBaseNot(p, n) == SetOperation(p, p.stack_base + n, p.eis_operation[p.stack_base])

IncrementStackBase(p, n) ==
  SetOperation([p EXCEPT !.stack_base = @ + n], p.stack_base + n,
               p.eis_operation[p.stack_base])

(* Not the code: the link goes to the caller, not to the enclosing block. *)
SetBlockLevelDynamic(p, level) ==
  LET q == IF Field(p, p.frame_ptr, BN) = 0
           THEN Put(p, p.frame_ptr + BN, Addr(level)) ELSE p
  IN Put(q, q.frame_ptr + DISPLAY, Addr(Field(q, q.frame_ptr, FP)))

SetBlockLevel(p, level) ==
  LET q == IF Field(p, p.frame_ptr, BN) = 0
           THEN Put(p, p.frame_ptr + BN, Addr(level)) ELSE p
  IN IF level > 1 THEN Put(q, q.frame_ptr + DISPLAY, Addr(q.display[level - 1])) ELSE q

(* SCC; a procedure called as an implicit subroutine gets its own frame. *)
ShortCircuit(p, level) ==
  LET q == [p EXCEPT !.frame_ptr = IF BlockLevel(p) # 0 THEN p.stack_base - ARG ELSE @]
  IN UpdateDisplay(SetBlockLevel(q, level), level, q.frame_ptr)

(* Not the code: the search stops at the frame itself, not at its callee. *)
CalledFromSelf(p, goto_frame) ==
  LET frame[n \in 0 .. Count(p)] ==
        IF n = 0 THEN p.frame_ptr
        ELSE LET fp == frame[n - 1]
             IN IF fp \in {0, goto_frame} THEN fp ELSE Field(p, fp, FP)
  IN frame[Count(p)]

(***************************************************************************)
(* roll_back: the frame of the FP chain whose caller is goto_frame, or 0.  *)
(* Every link leads to an older frame: there are fewer than cells.         *)
(***************************************************************************)
CalledFrom(p, goto_frame) ==
  LET frame[n \in 0 .. Count(p)] ==
        IF n = 0 THEN p.frame_ptr
        ELSE LET fp == frame[n - 1]
             IN IF fp = 0 \/ Field(p, fp, FP) = goto_frame THEN fp ELSE Field(p, fp, FP)
  IN frame[Count(p)]

-----------------------------------------------------------------------------
(***************************************************************************)
(* Formal parameters; a = [bn |-> block level, arg |-> number].            *)
(***************************************************************************)
ArgDescriptor(p, a) == Get(p, p.display[a.bn] + PC).pords[a.arg]

ArgDisplay(p, a) ==
  LET pard == Field(p, p.display[a.bn], ARG + 2 * a.arg - 1)
  IN [level |-> pard \div 2^FP_BITS, fp |-> pard % 2^FP_BITS]

(* A formal that was passed on is looked up in the frame of the caller. *)
Indirection(s) ==
  LET d == ArgDescriptor(s.p, s.a)
      c == ArgDisplay(s.p, s.a)
  IN IF d.kind = "formal"
     THEN [p |-> UpdateDisplay(s.p, c.level, c.fp), a |-> [bn |-> d.bn, arg |-> d.arg]]
     ELSE s

(* Every indirection leads to an older frame: there are fewer than cells. *)
Resolve(p, a) ==
  LET after[n \in 0 .. Count(p)] ==
        IF n = 0 THEN [p |-> p, a |-> a]
        ELSE LET s == after[n - 1] IN Indirection(s)
  IN after[Count(p)]

(* Not the code: the chain of callers is followed, not the static chain. *)
ArgFrameDynamic(p, a, bn) ==
  LET c == ArgDisplay(p, a)
      frame[l \in 0 .. c.level] ==
        IF l = c.level THEN c.fp ELSE Field(p, frame[l + 1], FP)
  IN IF bn \in 1 .. c.level THEN frame[bn] ELSE 0

(* The frame of level bn in the display of the caller, 0 if there is none. *)
ArgFrame(p, a, bn) ==
  LET c == ArgDisplay(p, a)
      frame[l \in 0 .. c.level] ==
        IF l = c.level THEN c.fp ELSE Field(p, frame[l + 1], DISPLAY)
  IN IF bn \in 1 .. c.level THEN frame[bn] ELSE 0

(* apply_operation: push the value, or combine it with the top of stack. *)
ApplyValue(p, op) == IF Combines(op) THEN p ELSE Push(p, Val(0))

(* take_formal, continuing at ret *)
Take(p, formal, op, ret) ==
  LET s  == Resolve(p, formal)
      q  == s.p
      d  == ArgDescriptor(q, s.a)
      c  == ArgDisplay(q, s.a)
      q1 == FrameCreate(Push(q, Val(0)), Ret(ret, << >>), 0)
      q2 == IF c.level > 0
            THEN UpdateDisplay([q1 EXCEPT !.frame_ptr = c.fp], c.level, c.fp) ELSE q1
  IN CASE d.kind = "static" ->
            Continue(RestoreDisplay(ApplyValue(q, op)), ret)
       [] d.kind = "stack" ->
            IF ArgFrame(q, s.a, d.bn) = 0 THEN Fail("Cannot find arg address")
            ELSE Continue(RestoreDisplay(ApplyValue(q, op)), ret)
       [] d.kind \in {"sub", "asub"} ->
            Continue(SetOperation(q2, q2.stack_base, IF d.kind = "asub" THEN Deref(op) ELSE op),
                     d.at)

(***************************************************************************)
(* apply_operation on the top of stack, when a subroutine has left.        *)
(***************************************************************************)
CombineTop(p) == Put(Pop(p), Count(p) - 2, Val(0))

ApplyTop(p, op) ==
  CASE op = "ADD" \/ op = "ADD_DEREF" -> CombineTop(p)
    [] op = "PUSH_DEREF"              -> Put(p, Count(p) - 1, Val(0))
    [] OTHER                          -> p

(* load_value wants an address, add wants two numbers. *)
ApplyFits(p, op) ==
  /\ op \in {"PUSH_DEREF", "ADD_DEREF"} => TopCell(p).t = "addr"
  /\ op \in {"ADD"} => TopCell(p).t = "val"
  /\ Combines(op) => Count(p) > 1 /\ Get(p, Count(p) - 2).t = "val"

FinishWith(p, op, at) ==
  IF ApplyFits(p, op) THEN Continue(ApplyTop(p, op), at)
                      ELSE Fail("bad operand for post-operation")

-----------------------------------------------------------------------------
Running == error = "none"
InUserText == ot.part \in UserParts
InBody == ot.part = "body"
Temps == Count(Now) - stack_base

Frames == {f \in 0 .. Len(stack) - 2 : stack[f + 2].t = "ret"}
CanNest == Cardinality(Frames) < MaxFrames

(* A procedure statement stands alone; a function designator is an operand. *)
CallPoint(result) ==
  IF result = Null THEN InBody /\ Temps = 0 ELSE Temps < MaxTemps

CanApply(op) == IF Combines(op) THEN Temps > 0 ELSE Temps < MaxTemps

Init ==
  /\ stack = << >>
  /\ frame_ptr = 0 /\ last_frame_ptr = 0 /\ stack_base = 0
  /\ display = [l \in 0 .. MaxLevel |-> 0]
  /\ eis_operation = [b \in {} |-> "PUSH_VALUE"]
  /\ ot = At(Main, "body")
  /\ error = "none"

(* An operand is loaded, or an instruction consumes one. *)
LoadOperand == Temps < MaxTemps /\ Continue(Push(Now, Val(0)), ot)

Consume == Temps > 0 /\ Continue(Pop(Now), ot)

(* Not the code: no call leaves room for a result. *)
CallForEffect(b, args, result) ==
  /\ CanNest
  /\ Procedure(b) /\ b \in VisibleFrom(ot.home)
  /\ CallPoint(result)
  /\ Continue(FrameCreate(Push(Now, Null), Ret(ot, args), Len(args)), At(b, "entry"))

(* ETMR and ETMP: result is Val(0) or Null. *)
Call(b, args, result) ==
  /\ CanNest
  /\ Procedure(b) /\ b \in VisibleFrom(ot.home)
  /\ CallPoint(result)
  /\ Continue(FrameCreate(Push(Now, result), Ret(ot, args), Len(args)), At(b, "entry"))

EnterFor(b) ==
  /\ CanNest
  /\ b \in ForBlock \cap VisibleFrom(ot.home)
  /\ Level(b) = Level(ot.home) + 1
  /\ CallPoint(Null)
  /\ Continue(FrameCreate(Push(Now, Null), Ret(ot, << >>), 0), At(b, "entry"))

(* FTMR and FTMP *)
CallFormal(a, args, result) ==
  /\ CanNest
  /\ CallPoint(result)
  /\ LET d == ArgDescriptor(Now, a)
     IN IF d.kind # "sub" THEN Fail("Unknown descriptor of formal procedure")
        ELSE /\ d.at.home \in StdFun => result # Null
             /\ Continue(FrameCreate(Push(Now, result), Ret(ot, args), Len(args)), d.at)

(* SCC, and FOR0 before it *)
EnterBlock ==
  /\ ot.home \in Block /\ ot.part = "entry"
  /\ LET isFor   == ot.home \in ForBlock
         prev_fp == Field(Now, frame_ptr, FP)
         B       == IF isFor THEN Field(Now, prev_fp, BN) + 1 ELSE Level(ot.home)
         p       == IF isFor THEN IncrementStackBase(AllocateStack(Now, 1), 1) ELSE Now
     IN IF B > MaxLevel THEN Fail("Bad block level in SCC")
        ELSE Continue(ShortCircuit(p, B),
                      At(ot.home, IF Locals[ot.home] > 0 THEN "locals" ELSE "body"))

(* Local variables: M[061] := + A, and the stack base after them. *)
ReserveLocals ==
  /\ ot.part = "locals"
  /\ LET n == Locals[ot.home]
     IN Continue(IncrementStackBase(AllocateStack(Now, n), n), At(ot.home, "body"))

(* TRF, ADF and their like *)
TakeFormal(a, op) == CanNest /\ CanApply(op) /\ Take(Now, a, op, ot)

(* goto a formal label: its implicit subroutine is called, as for a number. *)
GotoFormal(a) == CanNest /\ InBody /\ Temps = 0 /\ Take(Now, a, "PUSH_VALUE", ot)

(* TFP *)
TakeParameter ==
  /\ ot.home \in StdFun /\ ot.part = "entry"
  /\ LET prev_fp == Field(Now, frame_ptr, FP)
         level   == IF BlockLevel(Now) = 0 THEN Field(Now, prev_fp, BN) + 1 ELSE BlockLevel(Now)
         p       == IF BlockLevel(Now) = 0
                    THEN UpdateDisplay(SetBlockLevel(Now, level), level, frame_ptr) ELSE Now
     IN IF level > MaxLevel THEN Fail("Bad block level")
        ELSE Take(SetOperation(p, stack_base, "REMOVE_ARG"), [bn |-> level, arg |-> 1],
                  "PUSH_VALUE", At(ot.home, "std"))

(* STP *)
AssignResult(l) ==
  /\ InBody /\ Temps = 1
  /\ Procedure(Path[ot.home][l])
  /\ LET p == Pop(Now)
         i == display[l] - 1
     IN Continue(IF Get(p, i) = Null THEN p ELSE Put(p, i, Val(1)), ot)

(* RET *)
LeaveFrame(p) ==
  LET q  == FrameRelease(p)
      at == ReturnAddress(p)
  IN IF TopCell(q) = Null THEN Continue(Pop(q), at)
     ELSE FinishWith(q, p.eis_operation[p.stack_base], at)

Return == InBody /\ Temps = 0 /\ Procedure(ot.home) /\ ot.home # Main /\ LeaveFrame(Now)

(* FOR8: the controlled variable goes, and the result is made null. *)
ExitFor ==
  /\ InBody /\ Temps = 1 /\ ot.home \in ForBlock
  /\ LeaveFrame(Put(Pop(Now), frame_ptr - 1, Null))

(* EIS *)
EndSubroutine ==
  /\ ot.part \in {"value", "address", "std"} /\ Temps = 1
  /\ LET item == IF ot.part = "address" THEN Addr(0) ELSE TopCell(Now)
         op   == eis_operation[stack_base]
         base == IF op = "REMOVE_ARG" THEN stack_base - 2 ELSE stack_base
         p    == [Pop(Now) EXCEPT !.frame_ptr = base - ARG]
         q    == FrameRelease(p)
     IN FinishWith(Put(q, Count(q) - 1, item), op, ReturnAddress(p))

(* Jumps the code carries out as Algol 60 means them: nothing above the    *)
(* target waits for a value, but for the caller of a label thunk, and no   *)
(* thunk has been taken or left in the one that jumps.                     *)
Tame(l) ==
  /\ \A f \in Frames : f <= last_frame_ptr
  /\ \A f \in Frames :
       f > display[l] => \/ Get(Now, f - 1) = Null
                        \/ (f = last_frame_ptr /\ ot.part = "label")

(* Not the code: whatever the target, one block is left. *)
GotoEnclosing(l) ==
  /\ ot.part \in {"body", "label"} /\ Temps = 0 /\ l < Level(ot.home)
  /\ TameGoto => Tame(l)
  /\ LET to == Level(ot.home) - 1
         fp == CalledFrom([Now EXCEPT !.frame_ptr = last_frame_ptr], display[to])
     IN IF fp = 0 THEN Fail("Cannot find goto frame")
        ELSE Continue(Pop(FrameRelease([Now EXCEPT !.frame_ptr = fp])),
                      At(IF to = 0 THEN Main ELSE Path[ot.home][to], "body"))

(* GTA *)
Goto(l) ==
  /\ ot.part \in {"body", "label"} /\ Temps = 0
  /\ InBody => l < Level(ot.home)
  /\ TameGoto => Tame(l)
  /\ LET p  == [Now EXCEPT !.frame_ptr = last_frame_ptr]
         fp == CalledFrom(p, display[l])
     IN IF fp = 0 THEN Fail("Cannot find goto frame")
        ELSE Continue(Pop(FrameRelease([p EXCEPT !.frame_ptr = fp])),
                      At(IF l = 0 THEN Main ELSE Path[ot.home][l], "body"))

Stop ==
  /\ ot = At(Main, "body") /\ Temps = 0
  /\ Continue(Now, At(Main, "stopped"))

Stopped == (ot.part = "stopped" \/ error # "none") /\ UNCHANGED vars

(* The operations user text can ask for at any point. *)
UserStep ==
  \/ LoadOperand \/ Consume
  \/ \E b \in Block : EnterFor(b)
  \/ \E b \in Block, result \in {Null, Val(0)} :
       \E args \in ArgLists(ot.home, Formals[b]) : Call(b, args, result)
  \/ \E a \in FormalsInScope(ot.home, "num"), op \in TakeOps : TakeFormal(a, op)
  \/ \E a \in FormalsInScope(ot.home, "label") : GotoFormal(a)
  \/ \E a \in FormalsInScope(ot.home, "proc"), result \in {Null, Val(0)} :
       \E args \in ArgLists(ot.home, ProcFormals) : CallFormal(a, args, result)
  \/ \E l \in 1 .. Level(ot.home) : AssignResult(l)
  \/ \E l \in 0 .. Level(ot.home) : Goto(l)
  \/ Return \/ ExitFor \/ Stop

Next ==
  \/ /\ Running
     /\ \/ InUserText /\ UserStep
        \/ EnterBlock \/ ReserveLocals
        \/ TakeParameter \/ EndSubroutine
  \/ Stopped

Spec == Init /\ [][Next]_vars

-----------------------------------------------------------------------------
Cells == [t : {"val", "addr"}, v : Nat] \cup {Null}
         \cup [t : {"ret"}, v : {CodeAddress}, at : Code, pords : Seq(PordSet)]

PostOps == FormalOps \cup {"REMOVE_ARG"}

Errors == {"none", "Cannot find arg address", "bad operand for post-operation",
           "Unknown descriptor of formal procedure", "Bad block level in SCC",
           "Bad block level", "Cannot find goto frame"}

TypeOK ==
  /\ stack \in Seq(Cells)
  /\ frame_ptr \in Nat /\ last_frame_ptr \in Nat /\ stack_base \in 0 .. Len(stack)
  /\ display \in [0 .. MaxLevel -> Nat]
  /\ DOMAIN eis_operation \subseteq Nat
  /\ \A b \in DOMAIN eis_operation : eis_operation[b] \in PostOps
  /\ ot \in Code
  /\ error \in Errors

(* No operation of a compiled program ends in an exception: every formal   *)
(* has a descriptor the run-time system knows, the frame a jump leads to   *)
(* is found, and post-operations meet the operands they expect.            *)
NoError == error = "none"

(* The display is the static chain of the frame in use, level by level,    *)
(* after every call, take, return and jump.                                *)
DisplayCoherent ==
  LET n == BlockLevel(Now)
  IN /\ display = RestoreDisplay(Now).display
     /\ \A l \in 1 .. n : Field(Now, display[l], BN) = l

(* "The second word contains the FP value and the block number belonging   *)
(* to the block in which the corresponding procedure statement is given."  *)
PardsPointToCaller ==
  \A f \in Frames : \A i \in DOMAIN Get(Now, f + PC).pords :
    LET pard   == Field(Now, f, ARG + 2 * i - 1)
        caller == Field(Now, f, FP)
    IN /\ pard % 2^FP_BITS = caller
       /\ pard \div 2^FP_BITS = IF caller = 0 THEN 0 ELSE Field(Now, caller, BN)

(* A formal that stands for a variable of a block in execution leads to a  *)
(* local variable of a frame of that level, through all the indirections.  *)
LocalsReached ==
  ot.part \in UserParts =>
    \A a \in FormalsInScope(ot.home, "num") :
      LET s == Resolve(Now, a)
          d == ArgDescriptor(s.p, s.a)
          f == ArgFrame(s.p, s.a, d.bn)
      IN d.kind = "stack" =>
           /\ f \in Frames /\ Field(Now, f, BN) = d.bn
           /\ Get(Now, f + d.addr).t = "val"

(* The frames on the stack are linked: each was made by a context that     *)
(* runs in an older frame, with its operands above that frame's linkage.   *)
FramesLinked ==
  /\ frame_ptr \in Frames \cup {0}
  /\ \A f \in Frames :
       /\ Field(Now, f, FP) \in {g \in Frames : g < f} \cup {0}
       /\ Field(Now, f, SP) < f
       /\ \A g \in Frames : g < f => Field(Now, f, SP) >= g + ARG
  /\ \A g \in Frames : stack_base >= g + ARG

(* "Base of stack in current block." *)
BaseOfCurrentBlock ==
  InBody => stack_base =
    IF ot.home = Main THEN 0
    ELSE frame_ptr + FirstLocal(ot.home) + Locals[ot.home]
         + IF ot.home \in ForBlock THEN 1 ELSE 0

(* "Roll stack back to the 'goto' frame." *)
GotoRollsBack ==
  [][\A l \in 0 .. Level(ot.home) :
       (InUserText /\ Goto(l) /\ error' = "none") => Len(stack') = stack_base']_vars

-----------------------------------------------------------------------------
(***************************************************************************)
(* States are told apart by what a later step can still read: neither the  *)
(* display entries above the running block nor the post-operations of      *)
(* stack bases no frame returns to are read before they are written again. *)
(***************************************************************************)
LevelsInUse ==
  IF ot.home \in StdFun THEN 1 .. MaxLevel
  ELSE IF ot.part = "entry" THEN 1 .. Level(ot.home) - 1 ELSE 1 .. Level(ot.home)

BasesInUse == {stack_base} \cup {Field(Now, f, SP) : f \in Frames}

LiveState ==
  <<stack, frame_ptr, last_frame_ptr, stack_base, ot, error,
    [l \in LevelsInUse |-> display[l]],
    [b \in BasesInUse \cap DOMAIN eis_operation |-> eis_operation[b]]>>
=============================================================================
