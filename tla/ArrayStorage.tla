---------------------------- MODULE ArrayStorage ----------------------------
(***************************************************************************)
(* How arrays are stored: those of the outermost block in the memory, laid *)
(* out by the compiler (x1algc.c, label 1102); those of other blocks and   *)
(* of procedures, and arrays called by value, in the stack, laid out by    *)
(* the orders RSF/ISF, RVA/IVA, LAP and VAP (processor.cpp, opcodes.cpp).  *)
(* Each has a storage function in the memory or the stack: where it is,    *)
(* where its element with all indexes 0 would be, a stride for each index, *)
(* and its length, negated; the order IND computes addresses from it.      *)
(***************************************************************************)
EXTENDS Integers, Sequences, SequencesExt, FiniteSets

CONSTANTS
  StaticLists,   \* the array declarations of the outermost block
  LocalLists,    \* those there are in other blocks
  Calls,         \* array parameters called by value: [actual, elt] each
  Numbers,       \* what is assigned
  ConstantsAt,   \* where the loader puts the constant list
  MaxNames,      \* arrays in scope
  MaxBlocks,     \* blocks within each other
  Margin,        \* how far an index is beyond its bounds,
  Shifts,        \*   how much farther it may be,
  Extra          \*   and how many indexes too many or too few there are

(* An array declaration: [items, elt, bounds].  Numbers are as in Arrays.  *)
VARIABLES
  gvc,           \* the compiler's next free word for static variables
  constants,     \* its constant list
  memory,        \* static variables, by their address
  stack, base,   \* the stack and stack_base, as of machine.cpp
  names,         \* the arrays: [fn, elt, bounds, value]
  blocks,        \* of each block entered: what leaving it restores
  formals, todo, \* value frames still to be made, arrays to be positioned
  halted,        \* an index has been refused
  arrays         \* (history) what the author of the program has in mind

A == INSTANCE Arrays

compiler == <<gvc, constants>>
vars == <<compiler, memory, stack, base, names, blocks, formals, todo, halted, arrays>>

STACK_BASE == 32768
gvc0 == 138

-----------------------------------------------------------------------------
(* Words of 27 bits, integers in ones' complement. *)
BITS(n)  == 2 ^ n
Low27(n) == n % BITS(27)
integer_to_x1(n) == IF n < 0 THEN BITS(27) - 1 + n ELSE n
x1_to_integer(w) == IF w >= BITS(26) THEN w - (BITS(27) - 1) ELSE w

(* Reals have two words; here, of three bits. *)
RealWord(h)  == h % 64
RealValue(r) == IF r >= 32 THEN r - 64 ELSE r
Hi(r) == r \div 8
Lo(r) == r % 8

roundl(h)  == IF h >= 0 THEN (h + 1) \div 2 ELSE -((1 - h) \div 2)
ToZero(n, d) == IF n >= 0 THEN n \div d ELSE -((-n) \div d)

Size(elt) == IF elt = "integer" THEN 1 ELSE 2

IntCell(n)      == [t |-> "integer", v |-> Low27(n)]
Addr(ct, a) == [t |-> ct, v |-> Low27(a)]
Null        == [t |-> "null", v |-> 0]
AddressOf(elt) == IF elt = "integer" THEN "int_addr" ELSE "real_addr"

(* allocate_stack *)
Cells(n) == [i \in 1 .. n |-> IntCell(0)]

(* Of a bound pair list: the strides and, last, the length. *)
RECURSIVE Strides(_, _)
Strides(bounds, s) ==
  IF bounds = << >> THEN <<s>>
  ELSE <<s>> \o Strides(Tail(bounds), s * (bounds[1][2] - bounds[1][1] + 1))

RECURSIVE Offset(_, _)
Offset(bounds, strides) ==
  IF bounds = << >> THEN 0
  ELSE strides[1] * bounds[1][1] + Offset(Tail(bounds), Tail(strides))

Negated(strides) == [strides EXCEPT ![Len(strides)] = -@]

-----------------------------------------------------------------------------
(* get, load_word and load_real; a cell that is not there ends the run. *)
There(a) == a < STACK_BASE + Len(stack)
Cell(i)  == stack[i + 1]

mem_load(a) ==
  IF a \in DOMAIN memory THEN memory[a]
  ELSE IF a - ConstantsAt \in 0 .. Len(constants) - 1 THEN constants[a - ConstantsAt + 1]
  ELSE 0

load_word(a) == IF a < STACK_BASE THEN mem_load(a) ELSE Cell(a - STACK_BASE).v

load_real(a) ==
  IF a < STACK_BASE THEN 8 * mem_load(a) + mem_load(a + 1) ELSE Cell(a - STACK_BASE).v

Init ==
  /\ gvc = gvc0 /\ constants = << >> /\ memory = << >>
  /\ stack = << >> /\ base = 0
  /\ names = << >> /\ blocks = << >> /\ formals = << >> /\ todo = << >>
  /\ halted = FALSE /\ A!Init

-----------------------------------------------------------------------------
(* The compiler: a list of static arrays.  Each name gets a storage        *)
(* function in the constant list, the last one first.                      *)
StaticFunction(d, at) ==
  LET strides == Negated(Strides(d.bounds, Size(d.elt)))
      arrc    == (- Offset(d.bounds, strides)) % BITS(26)
  IN  [i \in 1 .. Len(strides) + 2 |->
         integer_to_x1(CASE i = 1 -> at [] i = 2 -> at + arrc [] OTHER -> strides[i - 2])]

RECURSIVE StaticFunctions(_, _, _)
StaticFunctions(d, n, at) ==
  IF n = 0 THEN << >>
  ELSE StaticFunction(d, at)
         \o StaticFunctions(d, n - 1, at + Last(Strides(d.bounds, Size(d.elt))))

(* The names of a list whose functions follow each other from first on. *)
NamesOf(d, first) ==
  [i \in 1 .. d.items |->
     [fn |-> first + (d.items - i) * (Len(d.bounds) + 3), elt |-> d.elt,
      bounds |-> d.bounds, value |-> FALSE]]

Compiled == Cardinality({k \in DOMAIN names : names[k].fn < STACK_BASE})

RECURSIVE ItemsOf(_)
ItemsOf(ds) == IF ds = << >> THEN 0 ELSE ds[1].items + ItemsOf(Tail(ds))

InOuterBlock == Compiled < ItemsOf(StaticLists)

DeclareStatic ==
  LET d     == CHOOSE e \in Range(StaticLists) : \E i \in DOMAIN StaticLists :
                 e = StaticLists[i] /\ ItemsOf(SubSeq(StaticLists, 1, i - 1)) = Compiled
      words == d.items * Last(Strides(d.bounds, Size(d.elt)))
  IN /\ InOuterBlock
     /\ names' = names \o NamesOf(d, ConstantsAt + Len(constants))
     /\ constants' = constants \o StaticFunctions(d, d.items, gvc)
     /\ memory' = [a \in gvc0 .. gvc + words - 1 |-> mem_load(a)]
     /\ gvc' = gvc + words
     /\ A!Declare(d.items, d.elt, d.bounds)
     /\ UNCHANGED <<stack, base, blocks, formals, todo, halted>>

-----------------------------------------------------------------------------
AtStatement == ~ InOuterBlock /\ formals = << >> /\ todo = << >> /\ ~ halted

(* A procedure is called, with arrays as parameters called by value. *)
Enter ==
  /\ AtStatement /\ Len(blocks) < MaxBlocks
  /\ \E call \in Calls :
       /\ \A i \in DOMAIN call : call[i].actual \in DOMAIN names
       /\ Len(names) + Len(call) <= MaxNames
       /\ blocks' = Append(blocks, [top |-> Len(stack), base |-> base, names |-> Len(names)])
       /\ stack' = stack \o [i \in 1 .. 5 + 2 * Len(call) |-> Null]
       /\ base' = Len(stack')
       /\ formals' = call
  /\ UNCHANGED <<compiler, memory, names, todo, halted, arrays>>

(* RSF, ISF: make_storage_function_frame.  The bounds are on the stack. *)
FrameFor(d) ==
  LET strides == Strides(d.bounds, Size(d.elt))
      fn == <<Addr(AddressOf(d.elt), 0), IntCell(integer_to_x1(Offset(d.bounds, strides)))>>
              \o [i \in 1 .. Len(strides) - 1 |-> IntCell(strides[i])]
              \o <<IntCell(integer_to_x1(- Last(strides)))>>
  IN  [i \in 1 .. d.items * Len(fn) |-> fn[((i - 1) % Len(fn)) + 1]]

Reserve ==
  /\ blocks # << >> /\ ~ halted
  /\ \A k \in Range(todo) : ~ names[k].value
  /\ \A k \in Last(blocks).names + 1 .. Len(names) : k \in Range(todo)
  /\ \E d \in LocalLists :
       /\ Len(names) + d.items + Len(formals) <= MaxNames
       /\ stack' = stack \o FrameFor(d)
       /\ base' = base + d.items * (Len(d.bounds) + 3)
       /\ names' = names \o NamesOf(d, STACK_BASE + base)
       /\ todo' = todo \o [i \in 1 .. d.items |-> Len(names) + i]
       /\ A!Declare(d.items, d.elt, d.bounds)
  /\ UNCHANGED <<compiler, memory, blocks, formals, halted>>

(* RVA, IVA: make_value_array_function_frame.  The last formal parameter   *)
(* comes first.                                                            *)
Marked(w, elt) ==
  IF x1_to_integer(w) # Size(elt) THEN x1_to_integer(w) * 10 + Size(elt) ELSE w

MakeValueFrame ==
  /\ formals # << >> /\ ~ halted
  /\ LET f      == Last(formals)
         actual == names[f.actual].fn
         ct     == AddressOf(f.elt)
     IN /\ \A i \in 0 .. 7 : There(actual + i)
        /\ \E i \in 2 .. 7 : -x1_to_integer(load_word(actual + i)) \in 1 .. 32767
        /\ stack' = stack \o <<Addr(ct, load_word(actual)), Addr(ct, load_word(actual + 1)),
                               IntCell(Marked(load_word(actual + 2), f.elt))>>
                      \o [i \in 1 .. 5 |-> IntCell(load_word(actual + 2 + i))]
        /\ base' = base + 8
        /\ names' = Append(names, [fn |-> STACK_BASE + base, elt |-> f.elt,
                                   bounds |-> names[f.actual].bounds, value |-> TRUE])
        /\ todo' = <<Len(names) + 1>> \o todo
        /\ formals' = Front(formals)
        /\ A!Copy(f.actual, f.elt)
  /\ UNCHANGED <<compiler, memory, blocks, halted>>

(* The first negative number in a storage function. *)
LengthAt(fn) ==
  CHOOSE p \in 2 .. 31 :
    /\ Cell(fn + p).t = "integer" /\ x1_to_integer(Cell(fn + p).v) < 0
    /\ \A q \in 2 .. p - 1 : ~ (Cell(fn + q).t = "integer" /\ x1_to_integer(Cell(fn + q).v) < 0)

NextToPosition == Last(todo)

LAP ==
  LET fn    == names[NextToPosition].fn - STACK_BASE
      words == -x1_to_integer(Cell(fn + LengthAt(fn)).v)
      zero  == base - x1_to_integer(Cell(fn + 1).v) + STACK_BASE
  IN /\ formals = << >> /\ todo # << >> /\ ~ names[NextToPosition].value
     /\ Cell(fn).v = 0
     /\ stack' = [stack EXCEPT ![fn + 1].v = base + STACK_BASE,
                               ![fn + 2] = Addr(Cell(fn).t, zero)]
                   \o Cells(words)
     /\ base' = base + words
     /\ todo' = Front(todo)
     /\ UNCHANGED <<compiler, memory, names, blocks, formals, halted, arrays>>

(* What is added to the top of the stack for word i of the copy. *)
Copied(size, actual, i) ==
  CASE size = 1  -> [t |-> "integer", v |-> load_word(actual + i)]
    [] size = 2  -> [t |-> "real", v |-> load_real(actual + i)]
    [] size = 21 -> IntCell(integer_to_x1(roundl(RealValue(load_real(actual + 2 * i)))))
    [] size = 12 -> [t |-> "real",
                     v |-> RealWord(2 * x1_to_integer(load_word(actual + (i \div 2))))]

(* Not the code: only the length is corrected. *)
CorrectedLast(fn, last, mul, div) ==
  [stack EXCEPT ![fn + last + 1] = IntCell(integer_to_x1(ToZero(x1_to_integer(@.v) * mul, div)))]

(* The strides of an array of another type. *)
Corrected(fn, last, mul, div) ==
  IF mul = div THEN stack
  ELSE [i \in DOMAIN stack |->
          IF i - 1 \in fn + 3 .. fn + last
          THEN IntCell(integer_to_x1(ToZero(x1_to_integer(stack[i].v) * mul, div)))
          ELSE stack[i]]

(* The address is 16 bits wide: bit 26 of a static array is left out. *)
VAP ==
  LET fn     == names[NextToPosition].fn - STACK_BASE
      actual == Cell(fn).v
      size   == Cell(fn + 2).v
      mul    == IF size = 12 THEN 2 ELSE 1
      div    == IF size = 21 THEN 2 ELSE 1
      ct     == IF size % 2 = 1 THEN "int_addr" ELSE "real_addr"
      fitted == Corrected(fn, LengthAt(fn), mul, div)
      words  == -x1_to_integer(fitted[fn + LengthAt(fn) + 1].v)
      offset == ToZero((actual - (Cell(fn + 1).v % BITS(16))) * mul, div)
  IN /\ formals = << >> /\ todo # << >> /\ names[NextToPosition].value
     /\ size \in {1, 2, 12, 21}
     /\ stack' = [fitted EXCEPT ![fn + 1] = Addr(ct, base + STACK_BASE),
                                ![fn + 2] = Addr(ct, base - offset + STACK_BASE),
                                ![fn + 3] = IntCell(size % 10)]
                   \o [i \in 1 .. words |-> Copied(size, actual, i - 1)]
     /\ base' = base + words
     /\ todo' = Front(todo)
     /\ UNCHANGED <<compiler, memory, names, blocks, formals, halted, arrays>>

Leave ==
  /\ AtStatement /\ blocks # << >>
  /\ stack' = SubSeq(stack, 1, Last(blocks).top)
  /\ base' = Last(blocks).base
  /\ names' = SubSeq(names, 1, Last(blocks).names)
  /\ blocks' = Front(blocks)
  /\ A!Leave(Last(blocks).names)
  /\ UNCHANGED <<compiler, memory, formals, todo, halted>>

-----------------------------------------------------------------------------
Refused == -1

(* Not the code: the word after the last may be used. *)
BeyondLoosely(a, location, limit) == a < location \/ a + limit > location

Beyond(a, location, limit) == a < location \/ a + limit >= location

RECURSIVE Sum(_, _, _)
Sum(fn, is, n) ==
  IF n = 0 THEN 0 ELSE Sum(fn, is, n - 1) + is[n] * x1_to_integer(load_word(fn + 1 + n))

(* IND: the address of an element, for indexes that are integers. *)
Ind(fn, is) ==
  IF ~ There(fn + 2 + Len(is)) THEN Refused
  ELSE LET location == x1_to_integer(load_word(fn))
           limit    == x1_to_integer(load_word(fn + 2 + Len(is)))
           elt_addr == (load_word(fn + 1) + Sum(fn, is, Len(is))) % BITS(20)
       IN  IF limit >= 0 \/ -limit >= BITS(20) \/ Beyond(elt_addr, location, limit)
           THEN Refused ELSE elt_addr

(* store_value *)
Stored(elt, a, h) ==
  LET r == RealWord(h)
  IN  IF elt = "integer"
      THEN /\ memory' = IF a < STACK_BASE THEN [memory EXCEPT ![a] = integer_to_x1(roundl(h))]
                        ELSE memory
           /\ stack' = IF a < STACK_BASE THEN stack
                       ELSE [stack EXCEPT ![a - STACK_BASE + 1] = IntCell(integer_to_x1(roundl(h)))]
      ELSE /\ memory' = IF a < STACK_BASE THEN [memory EXCEPT ![a] = Hi(r), ![a + 1] = Lo(r)]
                        ELSE memory
           /\ stack' = IF a < STACK_BASE THEN stack
                       ELSE [stack EXCEPT ![a - STACK_BASE + 1] = [t |-> "real", v |-> r]]

Positioned == {k \in DOMAIN names : k \notin Range(todo)}

(* The indexes there may be: near the bounds, or farther away. *)
Tried(k) ==
  LET bs == names[k].bounds
      near(d) == {i + s : i \in bs[d][1] - Margin .. bs[d][2] + Margin, s \in Shifts}
      all == UNION {near(d) : d \in DOMAIN bs}
  IN  UNION {{is \in [1 .. Len(bs) + e -> all] :
                \A d \in DOMAIN bs \cap DOMAIN is : is[d] \in near(d)} : e \in Extra}

(* IND and ST: an element is assigned to.  The first index may be a real   *)
(* number, half below an integer.  A place in the array that is addressed  *)
(* by indexes beyond their bounds is none the author has in mind.          *)
Assign ==
  /\ AtStatement
  /\ \E k \in DOMAIN names, h \in Numbers, half \in {0, 1} : \E is \in Tried(k) :
       LET rounded == [d \in DOMAIN is |-> IF d = 1 THEN roundl(2 * is[1] - half) ELSE is[d]]
           a == Ind(names[k].fn, rounded)
       IN  \/ a = Refused /\ halted' = TRUE /\ UNCHANGED <<memory, stack, arrays>>
           \/ /\ a # Refused /\ Stored(names[k].elt, a, h) /\ UNCHANGED halted
              /\ A!Assign(k, rounded, h)
  /\ UNCHANGED <<compiler, base, names, blocks, formals, todo>>

Halted == halted /\ UNCHANGED vars

Next ==
  \/ DeclareStatic \/ Enter \/ Reserve \/ MakeValueFrame \/ LAP \/ VAP \/ Leave \/ Assign
  \/ Halted

Spec == Init /\ [][Next]_vars

-----------------------------------------------------------------------------
(* The place of an element in its array. *)
RECURSIVE Place(_, _, _)
Place(bounds, strides, is) ==
  IF bounds = << >> THEN 0
  ELSE (is[1] - bounds[1][1]) * strides[1] + Place(Tail(bounds), Tail(strides), Tail(is))

(* IND refuses what has too many or too few indexes and what lies outside  *)
(* the array, and nothing else: what it gives has the place in the array   *)
(* that the bounds of the declaration say.                                 *)
AddressesElements ==
  \A k \in Positioned : \A is \in Tried(k) :
    LET bs      == names[k].bounds
        strides == Strides(bs, Size(names[k].elt))
        place   == IF Len(is) = Len(bs) THEN Place(bs, strides, is) ELSE Refused
        inside  == place \in 0 .. Last(strides) - 1
    IN  Ind(names[k].fn, is) =
          IF inside THEN x1_to_integer(load_word(names[k].fn)) + place ELSE Refused

(* Seen through IND, the arrays are what the author of the program has in  *)
(* mind: no element is shared with another, a copy has the numbers of the  *)
(* actual array, converted, and stays apart from it, and what is done in a *)
(* block leaves other arrays as they are.                                  *)
Value(k, is) ==
  LET a == Ind(names[k].fn, is)
  IN  IF names[k].elt = "integer" THEN 2 * x1_to_integer(load_word(a))
      ELSE RealValue(load_real(a))

HoldsArrays ==
  \A k \in Positioned : \A is \in A!Indexes(names[k].bounds) :
    Value(k, is) = arrays[k].val[is]
=============================================================================
