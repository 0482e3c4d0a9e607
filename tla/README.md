# A TLA+ model of the X1 ALGOL 60 compiler and run-time system

The repository is a simulator of the Electrologica X1 that runs ALGOL 60
programs the way the Mathematical Centre did in 1962: `compiler/x1algc.c` (a
translation of the historical compiler) turns source text into an object
program of *macro-instructions* (OPCs), and `simulator/` loads that program and
executes the OPCs directly in C++ instead of the historical run-time
*complex*. This directory holds TLA+ modules for the parts of that system where
its difficulty lies, TLC configurations that check them, and TLAPS proofs.

## 1. Inventory

| component | source | state | operations | modules |
|---|---|---|---|---|
| symbol reader and prescan | `compiler/x1algc.c` 160-920 | look-ahead, the words `inw` and `fnw`, prescan list, block number `bn` | `read_until_next_delimiter`, `prescan`, `fill_prescan_list` | `DelimiterReader`, `PrescanList` |
| main scan | 1333-2775 | the flags, the operator stack `t_list`, name list, `bn` | one case per delimiter: calls, `:=`, `if`, `goto`, `[`, `begin`/`end`, parameters | `AlgolText`, `MainScan`, `ScannedProgram`, `ObjectProgram` |
| lists and store | 675-954, 1250-1331, 1496-1600, 1780-1830 | text, result, future, constant and name lists in one array | `fill_...`, `look_for_...`, `bit_string_maker`, `reservation_of_arrays` | `CompilerStore`, `CompilerLists`, `CompilerStoreRefines` |
| object program as a bit stream | 922-1290, 2778-3100 | a word being filled, a stock of bits | `address_coder`, `fill_result_list`, `read_bit_string`, `address_decoding`, `read_mask` | `ObjectStream` |
| program loader | 3100-3399 | list addresses, MCP list, store | `read_list`, `read_crf_item`, `program_loader` | `ProgramLoader` |
| library tape writer | `library/objfile.cc` | stream of bits, heptades | words and tapes of a procedure | `ObjectStream` |
| machine: compile and run | `machine.cpp`, `main.cpp` | memory, entries, object file, child process | `compile_and_run`, `run_program`, `load_object_program` | `CompileRun` |
| console input | `input.cpp` | position on `std::cin`, switches | `input_real`, `input_char`, `read_console_switches` | `ConsoleInput` |
| order decoding | `processor.cpp` 40-308 | registers A, B, S, `OT`, the condition | `step` | `ScannedProgram`, `X1RunTime` (the orders the compiler writes) |
| frames, display, parameters, jumps | `processor.cpp` 310-961, `opcodes.cpp` 19-287, 813-880, 1002-1017 | virtual stack, `frame_ptr`, `last_frame_ptr`, `stack_base`, `display[]`, `eis_operation[]` | ETMR/ETMP, FTMR/FTMP, SCC, RET, EIS, TRF.., TFP, STP, GTA | `X1RunTime`, `AlgolContexts`, `X1RunTimeRefines` |
| for statement | `opcodes.cpp` 63-72, 136-224, 857-867 | five stack words of a for frame | FOR0 to FOR8 | `ForProgram`, `ForList`, `ForStatement`, `ForStatementRefines` |
| arrays | `processor.cpp` 880-953, `opcodes.cpp` 882-993, 501-561; `x1algc.c` 2560-2640 | storage functions, elements, value arrays | RSF, ISF, RVA, IVA, LAP, VAP, IND; static arrays | `Arrays`, `ArrayStorage` |
| virtual stack and arithmetic | `virtual_stack.cpp`, `x1_arch.cpp`, `opcodes.cpp` 288-811 | stack cells with a type | push/pop/get/set; +, -, x, /, div, power, comparisons, conversions | `Arithmetic`, and the stacks of `X1RunTime`, `ArrayStorage`, `ScannedProgram` |
| output layout, tracing, encodings, tape utilities | `machine.cpp`, `trace.cpp`, `encoding.cpp`, `library/`, `scripts/` | - | output and tables | not modelled |

**How they interact.** The machine forks the compiler, waits for it, and reads
the object file it left. Inside the compiler the prescan leaves text and a list of labels
and procedures in the store; the main scan reads that text and writes the object program over it,
as a stream of bits; the loader reads the stream back, with the library procedures it needs, and puts
the orders in place over what it is still reading. The object program then drives the processor: every OPC is
a C++ handler that works on the virtual stack. The compiler and the run-time
system share a protocol that is written down in neither: which words precede a
call (the PORDs of its actual parameters, last one first), how an implicit
subroutine (a thunk, in later words) ends (EIS for an expression, RET for a function
without parameters, GTA for a label), what stands in a frame, and which block
numbers (BN) address it. `doc/pords-and-pards.md` describes one half of it.

**What is hard.** All but the command itself (several commands, each with a child process) is
sequential, so the hazards are long sequences
of legal calls: a formal parameter leads through other formals to a variable
of an activation many frames down; evaluating it runs code with *another*
display while the frame that asked for it waits; the operation to do with the
result (`eis_operation`) is kept apart from the stack, indexed by a stack base;
a jump may leave any number of functions, thunks and for statements at once.
The compiler works in one pass with some ten flags and one stack for everything that is
still open, in one array for everything it keeps. Codes of 1 to 19 bits are split over
words of 27, and read back before it is known how long they are. Numbers are one's complement
words of 27 bits computed with an `int` of 32.
The `hazards` list of `PROJECT.json` names each place.

**What makes each component correct.**
Run-time system: lexical scoping; every value arrives where it was asked for;
jumps restore exactly the target's state. For statement: the elements in the
order and number of the ALGOL report, each control word intact across the
statement. Arrays: an index leads to the element the bounds say or is refused, and no array
disturbs another. Arithmetic: results are exact, or the nearest number, or an error.
Bit stream and loader: what is loaded is what was compiled.
Machine: only a program that was compiled now is run, and failures are reported.
Compiler: its text, output and five lists share one store, grow, move and are
taken from at the same time, and none may disturb another; the name list the
prescan leaves says of each name the block it belongs to; a statement is compiled to orders that
do what its text means; a constant is the number that is written. Input: each READ gives the
next number that is written, whatever is read before it.

## 2. Modules

| module | models | its state and actions |
|---|---|---|
| `ObjectProgram` | what the compiler fixes: the block tree, block numbers, headings, and the PORDs and argument lists it can write at each call | constants, operators |
| `AlgolContexts` | **abstract**: ALGOL 60 contexts with environments and closures | 1 variable, 16 actions |
| `X1RunTime` | **detailed**: `Processor` and `Virtual_Stack`, cell by cell | 8 variables, 17 actions |
| `X1RunTimeRefines` | `X1RunTime` implements `AlgolContexts` | the refinement mapping |
| `ForProgram` | for statements: lists of elements, with expressions, controlled variable and statement left open | constants |
| `ForList` | **abstract**: what the elements of a for list do to the controlled variable | 7 variables, 7 actions |
| `ForStatement` | **detailed**: FOR1 to FOR8 and the compiled orders around them, on the words of the frame | 8 variables, 13 actions |
| `ForStatementRefines` | `ForStatement` implements `ForList` | the refinement mapping |
| `PrescanList` | the prescan: the text it stores and the chain of sublists it makes of labels, switches and procedures | 12 variables, 11 actions |
| `CompilerStore` | **detailed**: the store in the main scan, word by word, with all shifts | 16 more variables, 18 more actions |
| `CompilerLists` | **abstract**: a text, an output, and lists without limits that know nothing of each other | 7 variables, 13 actions |
| `CompilerStoreRefines` | `CompilerStore` implements `CompilerLists` | the refinement mapping |
| `DelimiterReader` | `read_until_next_delimiter`: names, numbers, logical values | 12 variables, 24 actions |
| `ConsoleInput` | `input.cpp`: READ, RESYM, XEEN and STOP on one input | 10 variables, 19 actions |
| `AlgolText` | statements of ALGOL 60: grammar, text, and **meaning** | operators |
| `MainScan` | `main_scan` over one statement, an action per delimiter | a record of the compiler's flags, the T-list, the orders and the future list |
| `ScannedProgram` | the orders that `MainScan` has written, executed on formulas | a stack, registers, calls, conditions met, effects |
| `ObjectStream` | the code of each kind of order and word, in words of 27 bits and in heptades, written and taken up again | operators |
| `ProgramLoader` | `program_loader`, word by word | 16 variables, 13 actions |
| `CompileRun` | commands, compiler processes, files | 11 variables; the steps of `main` and of the child |
| `Arrays` | **abstract**: arrays as functions on their indexes | 1 variable, 4 operations |
| `ArrayStorage` | **detailed**: storage functions and elements in the memory and the stack | 11 variables, 9 actions |
| `Arithmetic` | the words of both types of numbers and every operation on them | a stack of two numbers |
| `AlgolContextsProofs`, `ForStatementProofs` | theorems about `AlgolContexts`, and the refinement of `ForList` | TLAPS |
| `X1RunTimeProofs` | theorems about `X1RunTime`: frames, display, parameters | TLAPS |
| `CompilerStoreProofs`, `NameListProofs`, `PrescanNestProofs` | theorems about `CompilerStore`: its regions, its name list, and the nesting the prescan sees | TLAPS |
| `CompileRunProofs` | theorems about `CompileRun`: files and processes | TLAPS |
| `ReaderProofs` | theorem about `DelimiterReader`: the words of a name | TLAPS |
| `MC...` | block trees, for lists, texts, jobs of the loader, scripts of commands: what TLC runs | constants |

### ObjectProgram
A program is a tree of blocks, `Path[b]` being the blocks around `b`, so that
`Level(b)` is the block number BN which `intro_new_block` gives it; `Formals[b]` and `Locals[b]`
are its heading. Program text is not spelled out: at each step the machines
may execute *any* operation that the compiler could have written at that
place. One choice of constants therefore stands for every program with that
block tree; names outside their scope, and parameters of the wrong kind, are
excluded because the compiler refuses them (`look_for_name`, `main_scan`).
`Pords(h, k)` are the parameter words `main_scan` (2120-2190) may write in
block `h` for a parameter of kind `k`; `static`, `stack`, `formal`, `sub`
and `asub` are the values of the fields *t* and *Q* of `doc/pords-and-pards.md`.

### AlgolContexts
`ctx` is a stack of contexts: a place in the program, an environment (the
activation of each enclosing block), the closures of the parameters, the
operation that waits for its value, whether a result is expected or assigned, and the number
of intermediate results. There is no display, no frame pointer, no PARD: this is
the meaning that the ALGOL 60 report gives to blocks, call by name and goto.

### X1RunTime
The variables are the members of `Processor` (`processor.h`) and the
array of `Virtual_Stack`. A handler is an operator on a record of them
(`Now`), in the order in which the C++ makes its calls: `FrameCreate`,
`FrameRelease`, `UpdateDisplay`, `SetBlockLevel`, `Resolve` (the loop
over indirections of `take_formal`), `CalledFrom` (the search of `roll_back`).
Exceptions are the variable `error`. `Or` and the division by
`2^FP_BITS` keep the packing of PARDs as the code has it.

| action | code |
|---|---|
| `Call`, `EnterFor` | ETMR, ETMP |
| `CallFormal` | FTMR, FTMP with `get_formal_proc` |
| `EnterBlock` | SCC, preceded by FOR0 in a for block |
| `ReserveLocals` | `M[061] := + A` and `M[062] :=`, with `increment_stack_base` |
| `TakeFormal`, `GotoFormal` | TRF, ADF and their like, with `take_formal` |
| `TakeParameter` | TFP of a standard function, called with its own PORD |
| `AssignResult` | STP |
| `Return`, `ExitFor`, `EndSubroutine` | RET, FOR8, EIS |
| `Goto` | GTA with `roll_back` |
| `LoadOperand`, `Consume` | the operand and arithmetic OPCs, as one push or one pop |

Data is abstract: a number is `Val(0)`, and `Val(1)` in a RESULT cell once STP
has stored there; the four arithmetic operations that can wait for a formal are `ADD`.

### X1RunTimeRefines
A history variable `ctx` records, after each step, the contexts that the frames
stand for: context `k + 1` runs in the `k`-th frame; its environment is the chain of
DISPLAY cells; the closure of a parameter is found from PORD and PARD through
all indirections. `ImplementsAlgol` says that this is a behaviour of
`AlgolContexts`, and `OperationByOperation` that each OPC does what the
operation of the same name does (a refinement alone would let one operation
pass for another). `EnterBlock` and `ReserveLocals` are stuttering steps.

### ForStatement
A for statement is a block of its own: ETMP and FOR0 make its frame (actions
`EnterFor` and `EnterBlock` of `X1RunTime`), and three words of it
control the list: the return address `PC`, which FOR1 follows to the element to go
on with; the local word `LINK`, where FOR1 left the address of the controlled
statement; and `RESULT`, null or the direction of the last step. The address of the
controlled variable, and for a step element the value to be assigned, stand on
the stack above. The compiled order of an element (`Orders`) comes from the
delimiters `,` `step` `until` `while` `do` of `main_scan`. Expressions have no
side effects and no jumps here; both are in `X1RunTime`. `MaxInt` is the limit
that FOR6 can exceed.

`ForList` has none of these words. It records two things about the code that
the ALGOL report does not say: step and limit are evaluated before the value is
assigned (so `for i := 1 step i until 3` with `i = -5` executes nothing), and
the address of a subscripted variable is taken once per execution of the statement.

### PrescanList and CompilerStore
The compiler has one array for everything. The prescan stores the source text
upwards from `bim + 8` and, from `plie` downwards, a list of the labels, switches
and procedures of every block, in sublists linked by words that are
moved with every declaration. The main scan reads the text again from the left
and writes the object program into the words it leaves, with the future list,
the constant list and the name list above the text. `store` is that array: each word a tagged
value, so that a word read as something else shows. `rnsb`, `rnsd`, `flib`, `klib`, `nlib`,
`plib` and the lengths `flsc`, `klsc`, `nlsc` have the names of the source.

| action | code |
|---|---|
| `Symbol`, `Begin`, `BeginBlock`, `For`, `Label`, `Switch`, `Procedure`, `Semicolon`, `End`, `Else` | the cases of `prescan`, with `fill_prescan_list`, `block_introduction`, `read_next_symbol` |
| `MainScan` | `main` from the last `end` to `main_scan`: layout of the lists, prefilled names |
| `EnterBlock`, `IntroName`, `IntroSublist` | `new_block_by_declaration`, `intro_new_block2` |
| `BitStringMaker` | `bit_string_maker` when a word is full, with the shift by 8 |
| `ReserveFuture`, `ResolveFuture` | orders with `2T 'flsc'`; `fill_future_list`, with the shift by 16 |
| `LookForConstant`, `FillConstantList` | `look_for_constant`, `fill_constant_list` |
| `FillNameList`, `TestFirstOccurrence`, `LabelDeclaration` | the operations of those names, with `look_for_name` |
| `ReservationOfArrays`, `WalkEntry`, `WalkPass` | `reservation_of_arrays`, one step per entry |
| `ExitBlock` | the block end of `end` and `do_in_t_list` |
| `StoreExhausted`, `StoreTooSmall` | the calls of `stop` for lack of room |

The source is not a text but what it does to the scan: `nest` are the constructs
open in the prescan, `toCome` the kinds of blocks the main scan will enter. Which
bits fill up a word of object program is open, so `BitStringMaker` is a step
that may come between any two operations; in `reservation_of_arrays`, which holds
addresses across it, it is part of `WalkEntry`.

### DelimiterReader and ConsoleInput
A symbol is its number in the compiler; `dl` is the one being looked at. The actions are the
branches of `read_until_next_delimiter`: `NameSymbol` packs a name from its end until the bits
of its first symbol arrive at the low end of `inw`; `Digit`, `Point`, `Ten` and
`ExponentDigit` are the loops with `test1` to `test3` (after a point that no digit or ten follows, `Nothing`
leaves `nflag` 0: there is no number); `Normalise`, `ScaleUp`, `ScaleDown` and
`Round` are one turn each of the loops after label 3. Arithmetic is that of an `int` of
`IntBits` bits; `W` stands for the 26 bits of a word and `X` for the 12 of an exponent. Names
have their real widths.

In `ConsoleInput` the actions from `PassSpace` to `Ends` are what the C++ library does with
`stream >> x` (external: they follow the standard's description of `num_get`); `underflow`,
`ReadEnds` and `ReadFails` are `input.cpp`. The stream READ makes on top of `std::cin` is
`char_buffer`: what it holds is gone when the number ends. With an operator
(`is_interactive`) a bad line is passed over, otherwise the program stops.

### AlgolText, MainScan and ScannedProgram
A *cast* fixes the kinds of the words in a text and the operators between them. `AlgolText` builds
every statement of a cast: assignments, multiple assignments, conditional, compound and
procedure statements, jumps, with expressions of ALGOL's precedences,
conditional expressions, subscripts, switch and function designators in one another. It has three
views of a statement: a tree; a row of symbols, which is all the
compiler sees; and a meaning, told from the tree: the stores, calls and jumps it asks for,
with formulas for values. `MainScan` is one action, `Scanning`, that reads up to the next delimiter
and does what the case of `main_scan` for that delimiter does (operators `L64` to `L105`, named by the labels
of the source), on a record with the compiler's own flags `oflag`, `eflag`, `iflag`, `mflag`, `aflag`,
`sflag`, `fflag`, `jflag`. `ScannedProgram` then executes the orders. A condition
that has not been met before may be true or false. Its actions are the orders of `Processor::step`
and the OPCs that statements are made of; a call evaluates its parameters once each, in order.

### ObjectStream and ProgramLoader
`ObjectStream` has the tables and the code of both sides; all 329 orders and words that the
tables tell apart are used. `BitStringMaker` is `bit_string_maker`, `Take` is
`read_bit_string` with `prepare_read_bit_string1` to `3`. A job of
`ProgramLoader` is what the compiler left: orders, futures, constants, names,
the library in store and on tapes, and at most one bit of a tape that is read wrong. `Prepare`, `PrimaryNeed`,
`SecondaryNeed`, `LoadResultList`, `ReadOrder`, `EndOfList`, `Header`, `OpenTape`, `OutOfTapes`
follow the parts of `program_loader`. The words that `objfile.cc` writes for
`library/prsym.src` are, in this model, those of the shipped `library/prsym.lib`.

### CompileRun
A command is a name, an extension and what may go wrong. `Parent` and `Child` are the steps
of the two processes: fork, exec, opening the files, each buffer the compiler writes, exit or
death by a signal, wait, loading line by line, running. A file is a sequence of characters (a figure stands
for itself), belongs to the disk and outlives its commands. `Flush` writes any number of characters, as standard output
is cut into buffers wherever one is full; on a full disk part of a buffer gets there and the rest is lost. `LoadLine` takes
up whatever line it finds: `LineAt` is `getline`, and `Parsed` the tests with `sscanf` of `load_object_program`, by which a line
that was cut short may be another line.

### Arrays and ArrayStorage
`ArrayStorage` declares static arrays (`DeclareStatic`, the compiler's part), enters blocks
and procedures with arrays of both types (`Enter`, `Reserve`, `MakeValueFrame`), positions copies (`LAP`,
`VAP`) and assigns through `IND`; the history variable `arrays` is the same in terms of `Arrays`.
`STACK_BASE` and the masks of 16, 20 and 27 bits are those of the code.

### Arithmetic
Numbers are words: `W + 1` bits for an integer; sign, `P` bits and an exponent for a real.
`Take` pushes any two numbers, `ApplyDyadic` and `ApplyMonadic` are the OPCs
ADD to QVL and NEG, abs, sign, entier, with the conversions of `x1_arch.cpp`; what `exp`, `ln`
and their like return is left open. A `long double` is a fraction; `Sum`, `Product` and `Quotient` round each
result to `L` bits, to the nearest and of two to the even one (`LongDouble`), as the host does, and `ieee_to_x1` rounds
it again, halves upwards. `RealPower` rounds at each of its multiplications.

Operators under the comment "Not the code" are mutations: each is a plausible
mistake in the definition that follows it, kept to show that the runs would find it. No
specification uses them.

## 3. What is checked

| run | configuration, states | shows |
|---|---|---|
| `contexts` | `MCContexts.cfg`, 75 k | in the abstract machine environments stay lexical, no closure outlives what it names, and waiting operations keep their operands, with every kind of parameter, for statements and jumps |
| `frames` | `MCFrames.cfg`, 47 k | with four frames of recursion: the display is the static chain, parameters reach the local variables they stand for through all indirections, frames stay linked, and the stack base is that of the running block |
| `refines` | `MCRefines.cfg`, 20 k | call by name, formal procedures, standard functions, subroutines that leave values or addresses, label parameters, for blocks and jumps implement the abstract machine, operation by operation, without an exception; PARDs point to the caller |
| `for_statement` | `MCForStatement.cfg`, 47 k | for all lists of one or two out of eight elements: each order finds the operands and links it needs, the control words implement `ForList`, constant lists give the values of the ALGOL report in order, and bounded lists end |
| `store` | `MCCompilerStore.cfg`, 376 k | every program of a few symbols from the first symbol to the end of the main scan, in a store of 19 words (`Bim` to `Plie`) that is soon full: regions stay apart and in order, labels are listed under their innermost block, the walk over arrays sees entries only, and all lists are those of `CompilerLists` |
| `loader` | `MCProgramLoader.cfg`, 30 k | what is loaded, orders, constants and library procedures in their places, is what was compiled; no word is overwritten before it is read; the count of missing procedures is right at each step; no alarm without a fault and none missed where the parity shows one; the loader ends |
| `compile_run` | `MCCompileRun.cfg`, 39 k | a program that is run after a compilation is the whole program of that text, where no compiler is killed and the disk has room; a file that is loaded by name holds characters of one compilation only; every command ends |
| `arrays` | `MCArrayStorage.cfg`, 17 k | IND gives the element that the bounds say or refuses; no assignment, call by value, conversion or block end disturbs another array |
| `arithmetic` | `MCArithmetic.cfg`, 13 k | for every pair of numbers of short words: exact results, or the nearest but for the rounding to a long double that comes before, or an error; the comparisons are one order over both types and both zeros; powers are products, up to the range of the host's `int`; `entier` and assignments round as they should |
| `statements` | `MCScannedProgram.cfg`, 679 k | 21,661 statements in 22 casts: what the compiled orders do is what the text means, no order lacks an operand, and after the scan T-list, flags and future list are closed |
| `numbers` | `MCReaders.cfg`, 1.0 M | a number in a text becomes the nearest constant of its type or is refused, a name keeps its first nine symbols; a running program gets its numbers, symbols and switches as they are written, where code and documents agree on what that means |
| `formal_scope` | `MCFormalScope.cfg` | a violation: section 5, 1 |

Four more configurations are kept beside these runs, to show what they leave out. Each has one property that the code violates:

| configuration | module | violates | section 5 |
|---|---|---|---|
| `MCIntPower.cfg` | `Arithmetic` | `PowerOfIntegers`: a power of integers is their product or an error | 14 |
| `MCNumberTape.cfg` | `MCReaders` | `NumberIsREAD`: a number is the same on the tape and in a program (`doc/library-procedures.md:25`) | 18 |
| `MCOctalSwitches.cfg` | `MCReaders` | `SwitchesAreOctal`: switches are entered in octal (`doc/library-procedures.md:180`) | 18 |
| `MCKilledCompiler.cfg` | `MCCompileRun` | `ThrowsInCaseOfError`: no program is run if its compiler did not end well (`machine.cpp:259`) | 27 |

**Bounds.** `MaxContexts`/`MaxFrames` (3 or 4 nested calls) stops user text
from nesting deeper; two activations of one block, a third that refers
to the older one, and a thunk on top need four. `MaxTemps` is 1 or 2 intermediate
results. `Actuals` selects the kinds of actual parameters so that no run has to combine all; together
the runs have every kind.
A for list of two elements has every element before and after every other, and a third adds
no new pair (three elements were run once, 0.5 M states, with the same result);
`MaxInt = 4` makes a step overflow within the lists used.
`MaxLevel` (31 in the code) is 4: the trees are at most two deep, and
standard functions add a level. `FP_BITS` is the real 15. `TameGoto` is explained in section 5.

In `store` the shifts are by 2 words instead of 8 and 16, the lists start 2 words
apart, and a name is one or two words: operations meet the boundaries often, and
the compiler stops for lack of room in the prescan, at the layout of the lists, in
`intro_new_block2` and in the main scan. A program has an outer block and one more of any kind;
with 4 entries on the T-list the prescan sees nested blocks, procedures and for statements
beyond that (the bound on blocks applies when the main scan begins).
`Slack`, the words the reader wants free above the text, is the real 8: between two looks at it the prescan
list takes up to 6 words more, after the symbol `for` as well, which is followed by a name.
Three switches keep the known faults out of this run: `ElseAfterBlock`,
`LateFutures` and `ShiftedWalk`. Constants
are an integer and a real that begins with it. Deadlock is not checked there: the compiler
ends when the text does, or by `stop`.

In `loader` a job is one of: programs with each of the operations and each kind of
word of the tables (329 in all, a few at a time), references of all kinds between program, constants and
library, five arrangements of three library procedures over store and
tapes - in store, on tapes, twice, on a later tape, missing - and tapes with one bit read wrong,
for every bit. `Klie` is 48 words instead of the real store, so that what is loaded
lands on what is still to be read. Word widths are the real ones.

In `compile_run` a script has up to three commands on two names; everything that can go
wrong with a command goes wrong in some script. Object programs have up to 31 characters, in lines of each kind and
of different lengths, and the buffers they are written in end anywhere; the scripts with a compiler that is killed
or a full disk load what is left of such a file afterwards, by its name.

`arrays` has one and two dimensions, both types, bounds of either sign, two nested blocks
and four arrays in scope; indexes go `Margin = 1` beyond the bounds on all sides.
Memory words other than those of the arrays are 0. A real is 2 words of 3 bits there; addresses have their real widths.

`arithmetic` has integers of 3 bits and reals with a mantissa of 3 bits (`W`, `P`), a long double of 6 (`L`; 64 in
the code, where a word has 40: sums, products and quotients have more bits than that, so both roundings happen) and an `int` of 6
bits. Every pair is tried, with every rounding, overflow and underflow. Powers go up to 7 (`MaxPower`) with integers, so that the
loop of `power` is taken three times and its squares and products leave the range of a word and that of the `int`, and up to
3 and down to -3 (`MaxRealPower`) with reals. What may be expected of real results is stated with the roundings counted
(`Near`, `Deviation`): one before a sum, product or quotient is put in a word, and one for each multiplication but the
first of a power, and for each factor that is a reciprocal.
`PowerIsProduct` leaves out powers of integers beyond the `int`; `PowerOfIntegers` is the same without that condition.

A text of `statements` has up to seven words, of which each cast says the kinds; calls have up to two parameters.
22 casts have each kind of word in each position of an expression, a subscript and a parameter, and each operator beside
operators of lower, equal and higher precedence. Seven words are enough for a conditional
expression in a parameter of a call in a subscript. Names are distinct, and a text has no
declarations, labels or for statements, which the other modules of the compiler have. A minus sign before a product is
taken as the product's, which has the same value; of multiple assignments, the last destination is stored to first.
Left out of the scan are the flags for formal
procedures with too many parameters (`tfpflag`) and undeclared names.

`numbers` has `W = 9`, `X = 5` and an `int` of 15 bits: the room that 26, 12 and 32 bits leave for
carries is about the same. Numbers have up to five digits before
the point and two behind it, and exponents from -5 to 4, 12, -12 and 600, so that digits no longer find room,
scaling goes either way and constants become too large and too small. `NearestConstant` allows half a unit of
the last bit, and for each factor of ten less than four of the 2^X units that make one such bit (`Slack`). Names have up to eleven symbols, chosen so that the bits of each half of a symbol
differ; a point may stand without digits. Input is any three pieces - numbers with separators, symbols, switches, bad lines - in any order, followed by the end.
Where `doc/library-procedures.md` and the code disagree, what to expect is not settled by this run: no number on the tape begins with a ten, and
lines for XEEN are the same number in binary and in octal. `MCNumberTape.cfg` and `MCOctalSwitches.cfg` have those cases, and expect what the
document says.

**Views.** `LiveState` and `LiveContexts` tell states apart by what can still be read: display
entries above the block in use, and post-operations of stack bases to which no frame
returns, are always written before they are read.

**Scheduling, liveness.** Within a program there is one thread and user text may loop, so for
whole programs no fairness is assumed and nothing is claimed to happen eventually.
`Terminates` of the for statement, whose list is bounded, and `Terminates` of the loader
assume weak fairness of the whole next-state relation, that is, that
the one process there is goes on as long as it can. `EveryCommandEnds` assumes weak fairness of each process,
the commands and their compilers: the operating system runs each of them; a compiler
that may be killed need not be. Deadlock is
checked in every run but `store`: the machine can always go on until it stops or raises an exception.

**Mutations.** Every property of a run is violated when one definition, listed under
`mutants` in `PROJECT.json`, is replaced by a plausible mistake.

## 4. What is proved

TLC shows a property for one choice of the constants; each theorem here holds for every choice
that the named assumptions allow. TLC evaluates these assumptions in the runs.

| theorem | property of run | says |
|---|---|---|
| `AlgolContextsProofs`: `TypeCorrect`, `Scoping`, `Operands`, `StdCalls` | `contexts` | the abstract machine is lexically scoped, for every program and depth of recursion |
| `X1RunTimeProofs`: `FramesStayLinked`, `BaseIsOfCurrentBlock`, `DisplayIsCoherent`, `LocalsAreReached` | `frames` | the frames, the stack base, the display and the parameters of the stack machine are right at every depth of recursion |
| `X1RunTimeProofs`: `PardsLeadToCaller`, `NothingFails` | `refines` | PARDs hold the place of call; no program ends with an exception |
| `ForStatementProofs`: `Control`, `Implementation` | `for_statement` | the words of a for frame implement the for list |
| `CompilerStoreProofs`: `RegionsStayApart` | `store` | the regions of the compiler's store stay apart |
| `NameListProofs`: `WalkStaysInStep` | `store` | the walk down the name list meets its entries and nothing else |
| `PrescanNestProofs`: `ListedInInnermostBlock` | `store` | names are listed under their innermost block |
| `CompileRunProofs`: `ProgramIsRun`, `NoCompilationsMixed` | `compile_run` | the program that is run is the one that was compiled, and no file mixes compilations |
| `ReaderProofs`: `NamesKeepNineSymbols` | `numbers` | the two words of a name tell its first nine symbols |

### AlgolContexts
For every block tree, every choice of parameters, all bounds and every depth of recursion:

- `TypeCorrect`: `Spec => []TypeOK`, with the bound on the number of contexts;
- `Scoping`: `Spec => []StaticScoping`: every environment names, level by
  level, a live activation of exactly that block, which itself sees the same outer
  activations, and so does each closure;
- `Operands`: `Spec => []PendingOperands`: the value of a formal
  finds the operand it is to be combined with;
- `StdCalls`: `Spec => []StdContexts`: a standard function takes its parameter once, on
  top of the stack and before anything is stacked.

Assumptions: `ProgramAssumption` (the tree is a tree; formals are of known
kinds) and `MaxContextsAssumption`.

The inductive invariant is `Inv == TypeOK /\ StaticScoping /\
PendingOperands /\ StdContexts /\ Bottom`. `StaticScoping` is not
inductive alone: a standard function takes its parameter in an empty environment, and the
proof needs `StdContexts` for it; a jump to the outermost block needs to know what
stands at the bottom (`Bottom`). The central lemmas say that a scope is stable
when contexts are pushed, when contexts above it go, and when only
temporaries or results change; that an activation of `b` in a scope of its
enclosing block is a scope of `b`; and that following a formal gives a
closure that was made below. There is one step per action.

### X1RunTime
For every block tree, all parameters, every depth of recursion and every order of calls, returns, thunks and jumps, as
long as the stack has fewer than `2^FP_BITS` cells (`[](Len(stack) < 2^FP_BITS)`; 32768 in the code):

- `TypesHold`: `Spec => []TypeOK`, the types of the registers and of every cell;
- `FramesStayLinked`, `BaseIsOfCurrentBlock`, `DisplayIsCoherent`: frames are linked downwards, `stack_base` is just above
  the locals of the block in execution, `display` shows the frames of the enclosing blocks;
- `PardsLeadToCaller`, `LocalsAreReached`: a PARD holds the frame and block number of the place of call, and a formal that stands
  for a variable leads to a number in a frame of the block that declares it, through any number of formals;
- `NothingFails`: no exception is raised.

The hypotheses are findings of section 5, without which the theorems are false of the code: `TameGoto = TRUE` (3, 4 and 5: jumps that
leave operands, or the wrong base), passed procedures of level 1 (1: procedures passed from inside another get a wrong display), and the
width of the frame pointer (6). `NothingFails` also needs `"formal procedure" \notin Actuals` (2), and, where there are standard
functions, that no block has the largest number: a standard function called there gets one more and is refused. The
runs satisfy all of them. The assumptions are `ProgramAssumption` and `RunTimeAssumption`.

The inductive invariant is `Linkages`, that is, `Coupled`: *there are contexts that the stack is the picture of*. A stack of cells does not say
where its frames begin, which PORDs a frame was called with, or what a cell is for, so that no useful invariant can be stated on it alone. `Coupled`
supplies a sequence `C` of contexts, each with its frame, place in the program, frame pointer, base, static
chain and PORDs, and says:

- `Contexts`: each one is of one of four kinds (`AtEntry`, `InBlock`, `InThunk`, `InStd`), with the base that kind has, a static chain
  that leads level by level through the blocks around it (`Nested`, `Encloses`), and PORDs its caller may write (`Passes`);
- `Laid`: each cell from the bottom to the top of the stack is what its context wrote there: the waiting result, FP, PC, SP, BN,
  DISPLAY, parameters with their PARDs, locals, operands (`Linkage`, `Operands`);
- `Ops`, `Shown`: what is to be done on leaving each context, and the display of the newest one.

Then the proof is by the operators of the model. `FrameCreate` adds a context and `FrameRelease` takes one away or, after a jump, several
(`Grown`, `Cut`, `Rolled`). `UpdateDisplay` follows the cells DISPLAY down to the level where it meets what the display shows already
(`Spine`); that what lies below that point is right too is why the static chains of two contexts that share a frame are the same below it. `Resolve`
goes through the indirections of formals; after each, it is at a parameter of an older context, with the same kind of formal
(`Following`), so that it ends. The search of `roll_back` for the frame that was called from a given
frame is `CalledFromIs`, and `Tame` says which it is. There is one lemma for each of the 17 operations (`...Keeps`), and one for each
invariant (`Coupled...`).

### ForStatement
For every for list and whatever expressions, controlled variable and statement are:

- `Control`: `Spec => []ControlWords`;
- `Implementation`: `Spec => ImplementsForList`, the refinement.

The only assumption is `ForAssumption`: lists are not empty and elements are of the
three kinds. The inductive invariant `Inv` says place by place (18 places: two,
four and six orders for the kinds, the latter twice before the step is known,
and the loop) how many operands are stacked, which values they are, and where the return
address leads. One lemma per operation takes each place to the next; the
refinement then follows by the value of the mapping at each place (`Mapped`).

### CompilerStore
`RegionsStayApart`: from the first symbol to the end of the main scan, object program, text,
future, constant and name list and prescan list stand in this order and do not overlap
(`RegionsApart`), for every store, every `Room`, all shifts and every order of operations.
The inductive invariant is `StoreInv == ScanInv /\ PrescanRoom`:

- `ListInPlace`: the prescan list is a chain of links at rising addresses, one or two sublists for each block still
  to be entered, that ends at `Plie`; between the links stand names, and none runs into a link.
  It is needed because `block_introduction` writes a sublist's names into the name list by following links:
  that `plib` comes to the next sublist, and not beyond the list, depends on words written
  in the prescan and moved with every later declaration. All that the main scan writes lies below
  the chain (`Agrees`).
- `PrescanRoom`: the prescan compares `rnsb` and `plib` only when the reader stores text; in between
  the list comes down by up to 4 words, or 6 where a word of text holds three symbols (`Unchecked`). With
  `Slack` of 6 or less the list would reach the text unseen, hence `Slack > 6` (8 in the code) in `StoreAssumption`.
- `BlocksInside`, `WalkBelowEnd`: the name list that a block end goes back to, and the entry that
  `reservation_of_arrays` stands at, lie within the name list.

The hypothesis `LateFutures = FALSE` is finding 21 of section 5: `fill_future_list` makes room once, so that
without it the theorem is false of the code. The other assumptions are `ShiftAssumption` (a shift of the lists is at least 2),
`ConstantAssumption` (a constant has one or two words) and `PrefilledAssumption` (the names known before the scan are a
sequence of names).

`WalkStaysInStep`: `reservation_of_arrays`, which goes down the name list from its end to where the block began, stands at
the end of an entry at every step, and so never takes the second word of a long name, or an id, for a name (`WalkInStep`).
How long an entry is can only be told from its end, by the word before the last; nothing but the words themselves marks the
ends. The inductive invariant `NamesListed` says that a set `E` of lengths divides the list into entries of two or three words
(`Entries`), that each length an open block returns to at its end is in `E`, and that the walk is at one of `E`, above
where its block began. One lemma for each operation says what it leaves of the list: shifts move all of it (`StreamNames`,
`FutureNames`, `ConstantNames`), new names make it one entry longer (`NamesLonger`), a block end cuts it at a member of `E`,
ids change in place. That the names known before the scan are such a list is `PrefillEntries`, by induction over their number.
The theorem needs both hypotheses: `LateFutures = FALSE` (finding 21, by which a future may be written over the first name) and
`ShiftedWalk = FALSE` (finding 19, by which the walk itself is left behind).

`ListedInInnermostBlock`: wherever a statement may begin, the block number under which the prescan lists a label,
switch or procedure is that of the innermost block of the source. The prescan has only its T-list, in
which a `begin` is one word and a block, a procedure or a for statement is a marker
(which keeps the number of the block around it), and a `begin` that turns out to be a block gets its marker below.
The inductive invariant `NestInv` says that each word of the T-list belongs to one construct of the source
(the function `own` of `Owns`): none is left out, constructs that have ended are gone, but for the marker of
a block just left, and the numbers kept are the right ones. Its hypothesis `ElseAfterBlock = FALSE` is finding 20:
at `else`, the code does not take that last marker away.

### CompileRun
For every number of commands, one after another or at the same time, on any files and texts, with any of the mishaps:

- `ProgramIsRun`: `Spec => []RunsItsProgram`;
- `NoCompilationsMixed`: `Spec => []NothingStale`.

The first is about commands whose compiler is not killed and finds room on the disk. The second has no such condition: what stands in
the file is what its last compiler printed up to some character, and what has been loaded is what the lines of that file give, the
last of which may be cut in its middle (finding 27).

Assumptions: `TextsAreKnown` (what the compiler prints and what files hold are characters) and `ScriptsAreShort`. The
inductive invariant says which processes are alive at each place of a command (`Phase`), that no two commands of one name
are in a compilation at the same time (`Exclusive`), whose compiler opened a file last (`Owner`), that a file holds the characters
this compiler has printed so far, without those lost to a full disk (`Written`), and that the memory and the entries of a command
are what the lines before its place in the file give (`Loading`). The lines of a file are told apart by the
places where they begin, so that equal lines do no harm.

### DelimiterReader
`NamesKeepNineSymbols`: `Spec => []FirstNineSymbols`, for names of every length and of any letters and digits: in a name of up to
four symbols one word, in a longer one two words hold each symbol in its place, 63 where there is none, and the reader stands at the
delimiter. The run tries some 2800 names; the words have their real width, so what could go wrong is arithmetic.

The inductive invariant `Reading` gives both words for each symbol that has been packed (`Packed`, `Second`). A `Word` is three bits and
four symbols; one symbol more pushes six bits out (`Pushed`, `PushedOut`), and the groups of bits can be read off it (`Groups`). That the loop
`while ((inw & (d3 - 1)) <= 0 && dl <= 62)` goes on after four symbols and not after five is that the first symbol is a letter, 8 or
more (`LowEnd`); that the loop of the second word fills it with 63s up to nine symbols and no more is that the mark comes out of `fnw` just
with the fourth symbol (`SecondPushed`).

The assumptions are `ReaderAssumption` and `NameAssumption` (a letter, letters and digits, a delimiter). The hypothesis
`NoLateZ` is finding 17: there must be no `Z` behind the ninth symbol, where `dl < 62` would take it for the end.

### What is model-checked only
- That `X1RunTime` implements `AlgolContexts` (`ImplementsAlgol`, `OperationByOperation`): the coupling of section
  X1RunTime above gives its frames the shape of contexts, but the simulation, operation by operation, is not proved. Within
  the bounds of the run `refines`, what is proved of the scoping of the abstract machine carries over to the frames.
- `GotoRollsBack` of `X1RunTime` is a definition no run lists; the effect of a jump is part of `OperationByOperation`.
- The refinement `ImplementsLists` of the store; loader, arrays, arithmetic, console input, and the
  constants of the reader (`NearestConstant`, whose error grows with each factor of ten).
- Liveness (`Terminates`, `EveryCommandEnds`) is beyond the prover, and so are the recursive operators of
  `ObjectStream`, `AlgolText`, `MainScan`, `Arithmetic` and `ArrayStorage`, with the modules that use them.
  `LinkAddress` and `LookForName`, which follow a list, are functions on numbers: there the least number
  principle (`Least`, from the well-foundedness of `<`) does for the induction.

## 5. Where the code departs

These were found while modelling, and confirmed with the simulator itself. The passing runs
leave them out by a named constant or condition; where a configuration or a constant is
named, TLC finds the violation with it.

Run-time system:

1. **Formal procedures do not get their environment** (`opcodes.cpp:40-62`, run
   `formal_scope`). FTMR/FTMP enter the procedure with the display of the place of call;
   a procedure nested in a block that is not the newest activation at its level
   sees the wrong one. The run `refines` passes only procedures of the
   outermost level and standard functions, for which this does not matter.
2. **A formal procedure that is passed on cannot be called**
   (`processor.cpp:587-597`; with `"formal procedure"` among the `Actuals` of `MCRefines.cfg`,
   `NoError` is violated).
3. **A jump out of a function called in a thunk** takes its stack base from
   the thunk (`roll_back`; with `TameGoto = FALSE` TLC finds `BaseOfCurrentBlock` violated).
4. **A jump out of an expression leaves its operands** on the stack (`roll_back`; with
   `TameGoto = FALSE` and `MaxTemps = 2` in `MCRefines.cfg`, `GotoRollsBack` is violated).
5. A jump from a label thunk in which a function was called does not find its
   frame ("Cannot find goto frame"), because `last_frame_ptr` was set back by the return.
6. A PARD holds the frame pointer in 15 bits (`processor.cpp:372-379`) while the
   stack may grow to 0x100000 cells: recursion about 10000 deep
   corrupts the level. With `FP_BITS = 4`, `PardsPointToCaller` is violated.

`Tame` in `X1RunTime` is the condition under which jumps are carried out
as ALGOL 60 means them; it excludes exactly 3, 4 and 5. With `TameGoto = TRUE`
the runs show that nothing else is wrong with jumps.

Arrays:

7. IND cuts an element's address off to 20 bits (`opcodes.cpp:545`; `Shifts <- Far` in
   `MCArrayStorage.cfg` violates `AddressesElements`): `A[1048577]` is `A[1]`; arrays that reach past 2^20 refuse indexes within their bounds.
8. A wrong number of indexes is accepted if the word after the storage function is negative
   (`opcodes.cpp:535`; `Extra <- TooMany` in `MCArrayStorage.cfg` violates `AddressesElements`).
9. VAP keeps 16 bits of the zero element (`opcodes.cpp:931`): value arrays whose zero element lies below address
   0 or beyond 2^16 are refused at each index, with wrong bounds in the message.
10. Value arrays of more than 32767 words are refused with "Too many dimensions" (`processor.cpp:945`).
11. Static arrays have no limit (`x1algc.c:2597`): `A[1:12000]` overwrites the object program.
12. The zero element of a static array with a positive lower bound is a negative word, of
    which the error message for an index shows the complement.

Arithmetic and numbers:

13. Storing a real of 2^31 or more in an integer variable gives -0 (`processor.cpp:535`); 10.0 to the power
    5000 gives 9.1e-13; `-0` is printed with its sign.
14. An integer power is computed in `int` before its size is tested (`virtual_stack.cpp:277-313`):
    `2` to the power `32` is 0, and `-2` to the power `31` minus 0 (`MCIntPower.cfg`).
15. **Constants with an exponent may lose a carry** (`x1algc.c:631` and 657-659): multiplication by ten may leave more
    than 26 bits in `inw`, which rounding then drops. 776897 with exponent 17 is compiled to
    7.768969890453e22. `EveryConstant` in place of `NearestConstant` in `MCReaders.cfg` is violated.
16. Constants that are too small are not refused, as `bexp` is tested against 4095 only: 7 with exponent -700 is 7.3e533.
17. A name with a `Z` behind its ninth symbol is not read to its end (`while (dl < 62)`, `x1algc.c:547`; 62 is `Z`):
    the program is refused with "Fatal error". `LateZ = TRUE` in `MCReaders.cfg`.
18. READ takes the symbol after a number with it: of "1-2" a second READ gives 2, and RESYM after "5a" does not see the `a`.
    A number that begins with a ten is accepted in a program and refused by READ, although `doc/library-procedures.md:25`
    says that the same decimal representation is the same number (`MCNumberTape.cfg`); 15 is another exception to that line. XEEN takes binary digits, where
    the document has octal (`doc/library-procedures.md:180`, `MCOctalSwitches.cfg`). `XEEN(0)` is 0 there, and the document says 27 ones.

Compiler:

19. **Arrays are reserved at addresses that move** (`x1algc.c:1535`,
    `ShiftedWalk = TRUE` in `MCCompilerStore.cfg`): `reservation_of_arrays` holds two addresses in the name list
    while the orders it writes may push that list up. Twenty local arrays
    after many small blocks give "Fatal error in Algol compiler".
20. **A label after `end else` is not found** (`x1algc.c:825-838`,
    `ElseAfterBlock = TRUE` in `MCCompilerStore.cfg`): if the statement before `else` was a block with declarations, the
    prescan lists the label under that block; the main scan says "Identifier not declared".
21. **The future list runs over constants** (`x1algc.c:1295-1310`; `LateFutures = TRUE`, `Plie = 24`,
    `MaxFutures = 5`, `MaxText = 2` and no blocks or object program in `MCCompilerStore.cfg` violate `ConstantsStay`): room is made once, by 16 words, but places are filled in any
    order. 36 nested conditional statements after 20 constants print a wrong number.
22. A real whose two words are equal, and equal to the integer constant last
    added, is "found" there but not kept (`look_for_constant`, 1796-1829);
    `MCConstant` has no such pair.
23. The T-list has no limit (`fill_t_list`, 675-679): 81 open parentheses overwrite the
    words before the object program.
24. **A sign after a logical operator is compiled as a subtraction** (`x1algc.c:2004-2012`, `SignAfterLogical = TRUE` in
    `MCScannedProgram.cfg`): the operators and, or, implies and same do not set `oflag`, so that in `p` and `-a > 3` the minus finds no operand.

Loader and machine:

25. With more constants than there are words above the name list, `program_loader` moves them
    over that list before it has counted the library procedures named in it (`x1algc.c:3256`).
26. An empty first tape stops the loader; a wrongly read code may index `opc_table` with 113, one
    beyond its end.
27. **A compiler that is killed is taken for one that succeeded** (`machine.cpp:312`, `MCKilledCompiler.cfg`): `WEXITSTATUS` is
    taken without a test that the process exited, although the comment says "Throw exception in case of
    error"; the part of an object file it left is run, or, if it has no entry, ends the simulator. Standard output is
    written in buffers, so the last line may be cut anywhere - on a full disk too, which nobody notices - and
    `load_object_program` takes it for what it looks like: of a word `1 45` only `1 4` may be left.

Arithmetic, beside 13 and 14:

28. **Real results are rounded twice**, to a long double and then to a word (`virtual_stack.cpp:248`, `x1_arch.cpp:48-61`), halves to
    even and then upwards: 1.0 plus 2^-40 - 2^-80 is 1 + 2^-39, though 1.0 is nearer. With `Near(..., 0, add(a, b))` for a
    sum of reals, `NearestResult` is violated.

## 6. What is not modelled, and the plan

- *Console output*, tracing, encodings and the tape utilities keep no state; layout is left out for good.
- *Order decoding*: the orders that library procedures use beside those of the compiler (shifts, masks, the loop of
  PRINTTEXT in M[0], the type test of EVEN) are not modelled; RANDOM and TIMEOFDAY as words of memory neither.
- *Symbol reader*: characters, underlined words, comments and strings. Their results are the symbols `DelimiterReader` reads.
- *Main scan*: declarations of arrays and switches as orders (their lists and storage are in `CompilerStore` and `ArrayStorage`),
  for statements within `MainScan` (their orders are those of `ForProgram`), labels.
- *Run-time system*: switches in `X1RunTime`; the stores after TFA are in `ScannedProgram`, without frames.
- *Virtual stack*: its limit of 0x100000 cells (`push(type, value)` does not test it).
- *Several commands on files of the same stem in different directories* write one object file; nothing orders them.

Next:

1. Proofs: the simulation of `AlgolContexts` by `X1RunTime`, step by step, from `Linkages`.
2. Proofs: `ImplementsLists`, step by step, from `StoreInv` and `NamesListed`; the
   operators of `Arithmetic` (`OrderAgrees`, `IntegerOf`) and the loader (`CountMatches`) once their recursive
   operators are functions.
3. The orders of library procedures, with a string from the text to PRINTTEXT.
4. Switches and array declarations in `MainScan`.
