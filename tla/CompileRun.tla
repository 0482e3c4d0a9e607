------------------------------ MODULE CompileRun ------------------------------
(***************************************************************************)
(* The simulator as a command (main.cpp, machine.cpp): x1sim p.a60 starts  *)
(* the compiler as a child whose standard output is the file p.x1, waits   *)
(* for it, loads the file and runs the program; x1sim p.x1 loads and runs. *)
(* Several commands may be under way.  The compiler may fail, be killed,   *)
(* or find the disk full; its files are those of the disk.                 *)
(***************************************************************************)
EXTENDS Integers, Sequences, SequencesExt, FiniteSets

CONSTANTS
  Scripts,      \* what may be done: a sequence of commands each
  Output,       \* what the compiler makes of a text: what it prints, its exit status
  OnDisk,       \* the object files there are at first
  MaxCommands,  \* the longest script
  Absent        \* no file

(* A command: [stem, ext, text, own, lib, readable, writable, faults] -    *)
(* the name of its file, what stands in it, its library, whether the       *)
(* source can be read and the object file written, and what may go wrong:  *)
(* "fork" and "exec" fail, "kill" the compiler, "full" disk.  Commands on  *)
(* one name are given one after the other.                                 *)
(*                                                                         *)
(* The library is on the command line (own), or found by                   *)
(* find_default_library - "readable", "unreadable" if X1ALGOL_LIB names a  *)
(* file that cannot be read, "none" if no place has one.  A text that      *)
(* needs a procedure from a tape that cannot be read is not compiled: the  *)
(* compiler has written one entry by then.                                 *)

(* A file is a sequence of characters; a figure stands for itself. *)
Space   == 10
Letter  == 11
NewLine == 12
Char    == 0 .. 12

ASSUME TextsAreKnown ==
  /\ \A t \in DOMAIN Output : Output[t].prints \in Seq(Char) /\ Output[t].status \in 0 .. 255
  /\ OnDisk \in [DOMAIN OnDisk -> Seq(Char) \cup {Absent}]
  /\ Absent \notin Seq(Char)

ASSUME ScriptsAreShort ==
  \A s \in Scripts :
    /\ Len(s) \in 1 .. MaxCommands /\ DOMAIN s = 1 .. Len(s)
    /\ \A p \in DOMAIN s : s[p].stem \in DOMAIN OnDisk /\ s[p].text \in DOMAIN Output

VARIABLES
  args,         \* the commands
  pc,           \* of each command: where main is
  child,        \* its compiler process: "none", where it is, or "gone"
  unwritten,    \* what the compiler has still to write
  status,       \* what waitpid gives: an exit status, or a signal
  place,        \* where the next line begins in the object file
  entries,      \* entry_table
  memory,       \* the words loaded, by their address
  exit,         \* exit status of the command
  disk,         \* the object file of each stem: characters, or absent
  openedBy      \* (history) the command whose child opened it last, or 0

run  == <<pc, place, entries, memory, exit>>
comp == <<child, unwritten, status>>
vars == <<args, run, comp, disk, openedBy>>

Command == DOMAIN args

Init ==
  /\ args \in Scripts
  /\ pc = [p \in Command |-> "main"] /\ child = [p \in Command |-> "none"]
  /\ unwritten = [p \in Command |-> << >>] /\ status = [p \in Command |-> 0]
  /\ place = [p \in Command |-> 1] /\ entries = [p \in Command |-> << >>]
  /\ memory = [p \in Command |-> << >>] /\ exit = [p \in Command |-> "none"]
  /\ disk = OnDisk /\ openedBy = [f \in DOMAIN OnDisk |-> 0]

Object(p) == args[p].stem
Ended(p)  == pc[p] = "ended"
Before(p) == {q \in Command : q < p /\ Object(q) = Object(p)}

(* catch in main: a message and EXIT_FAILURE *)
Fail(p) ==
  /\ pc' = [pc EXCEPT ![p] = "ended"] /\ exit' = [exit EXCEPT ![p] = "failure"]
  /\ UNCHANGED <<comp, disk, place, entries, memory>>

Goes(p, to) ==
  /\ pc' = [pc EXCEPT ![p] = to]
  /\ UNCHANGED <<place, entries, memory, exit>>

-----------------------------------------------------------------------------
(* main, and what find_default_library and compile_and_run decide *)
NoLibrary(p) == ~ args[p].own /\ args[p].lib = "none"

Main(p) ==
  /\ pc[p] = "main" /\ \A q \in Before(p) : Ended(q)
  /\ \/ NoLibrary(p) /\ Fail(p)
     \/ /\ ~ NoLibrary(p) /\ args[p].ext = ".a60"
        /\ Goes(p, "fork") /\ UNCHANGED <<comp, disk>>
     \/ ~ NoLibrary(p) /\ args[p].ext = ".x1" /\ args[p].own /\ Fail(p)
     \/ /\ ~ NoLibrary(p) /\ args[p].ext = ".x1" /\ ~ args[p].own
        /\ Goes(p, "open") /\ UNCHANGED <<comp, disk>>
     \/ ~ NoLibrary(p) /\ args[p].ext \notin {".a60", ".x1"} /\ Fail(p)

Fork(p) ==
  /\ pc[p] = "fork"
  /\ \/ Goes(p, "wait") /\ child' = [child EXCEPT ![p] = "open"]
        /\ UNCHANGED <<unwritten, status, disk>>
     \/ "fork" \in args[p].faults /\ Fail(p)

-----------------------------------------------------------------------------
(* The child, with the exit status it has for each failure. *)
ChildExits(p, s) ==
  /\ child' = [child EXCEPT ![p] = "gone"] /\ status' = [status EXCEPT ![p] = s]
  /\ UNCHANGED <<run, unwritten>>

(* waitpid reports a process that was killed apart from any exit status. *)
Signalled == -1

STATUS_OK == 0
STATUS_COMPILER_FAILED == 1
STATUS_CANNOT_READ_INPUT == 2
STATUS_CANNOT_WRITE_OUTPUT == 3
STATUS_CANNOT_RUN_PROGRAM == 4

OpenSource(p) ==
  /\ child[p] = "open"
  /\ \/ /\ ~ args[p].readable
        /\ ChildExits(p, STATUS_CANNOT_READ_INPUT) /\ UNCHANGED disk
     \/ /\ args[p].readable
        /\ child' = [child EXCEPT ![p] = "create"]
        /\ UNCHANGED <<run, unwritten, status, disk>>

(* Not the code: the file is made when there is something to write. *)
TruncatedLater(old) == IF old = Absent THEN << >> ELSE old

(* O_CREAT and O_TRUNC *)
Truncated(old) == << >>

CreateObject(p) ==
  /\ child[p] = "create"
  /\ \/ /\ ~ args[p].writable
        /\ ChildExits(p, STATUS_CANNOT_WRITE_OUTPUT) /\ UNCHANGED <<disk, openedBy>>
     \/ /\ args[p].writable
        /\ disk' = [disk EXCEPT ![Object(p)] = Truncated(@)]
        /\ openedBy' = [openedBy EXCEPT ![Object(p)] = p]
        /\ child' = [child EXCEPT ![p] = "exec"]
        /\ UNCHANGED <<run, unwritten, status>>

(* What the compiler prints, and its exit status. *)
TapeNeeded(p) == Output[args[p].text].tape /\ ~ args[p].own /\ args[p].lib = "unreadable"

FirstEntry == <<NewLine, 0, Space, 0, Space, 0>>

Printed(p) == IF TapeNeeded(p) THEN FirstEntry ELSE Output[args[p].text].prints

ExitStatus(p) ==
  IF TapeNeeded(p) THEN STATUS_COMPILER_FAILED ELSE Output[args[p].text].status

(* Not the code: execvp is tried for ever. *)
ExecFailedAgain(p) == UNCHANGED <<run, comp>>

ExecFailed(p) == ChildExits(p, STATUS_CANNOT_RUN_PROGRAM)

Exec(p) ==
  /\ child[p] = "exec"
  /\ \/ "exec" \in args[p].faults /\ ExecFailed(p)
     \/ /\ "exec" \notin args[p].faults
        /\ child' = [child EXCEPT ![p] = "compile"]
        /\ unwritten' = [unwritten EXCEPT ![p] = Printed(p)]
        /\ UNCHANGED <<run, status>>
  /\ UNCHANGED disk

(* The buffer of standard output goes to the file when it is full, at a    *)
(* place no one has chosen, and at exit.  On a full disk a part of it may  *)
(* get there, and the rest is lost: nobody looks whether it was written.   *)
Flush(p) ==
  /\ child[p] = "compile" /\ unwritten[p] # << >>
  /\ \E n \in 1 .. Len(unwritten[p]) : \E k \in 0 .. n :
       /\ k = n \/ "full" \in args[p].faults
       /\ unwritten' = [unwritten EXCEPT ![p] = SubSeq(@, n + 1, Len(@))]
       /\ disk' = [disk EXCEPT ![Object(p)] = @ \o SubSeq(unwritten[p], 1, k)]
  /\ UNCHANGED <<run, child, status>>

CompilerExits(p) ==
  /\ child[p] = "compile" /\ unwritten[p] = << >>
  /\ ChildExits(p, ExitStatus(p)) /\ UNCHANGED disk

Killed(p) ==
  /\ "kill" \in args[p].faults /\ child[p] \notin {"none", "gone"}
  /\ child' = [child EXCEPT ![p] = "gone"] /\ status' = [status EXCEPT ![p] = Signalled]
  /\ UNCHANGED <<run, unwritten, disk>>

-----------------------------------------------------------------------------
(* Not the code: an error of the compiler is left to the loader. *)
ExitCodeLenient(s) == IF s \in {Signalled, STATUS_COMPILER_FAILED} THEN 0 ELSE s

(* WEXITSTATUS of a process that did not exit: its upper bits are zero.    *)
ExitCode(s) == IF s = Signalled THEN 0 ELSE s

WaitPid(p) ==
  /\ pc[p] = "wait" /\ child[p] = "gone"
  /\ \/ ExitCode(status[p]) = STATUS_OK /\ Goes(p, "open") /\ UNCHANGED <<comp, disk>>
     \/ ExitCode(status[p]) # STATUS_OK /\ Fail(p)

OpenObject(p) ==
  /\ pc[p] = "open"
  /\ \/ disk[Object(p)] = Absent /\ Fail(p)
     \/ disk[Object(p)] # Absent /\ Goes(p, "load") /\ UNCHANGED <<comp, disk>>

(* From place i on, the first character of C, or the end of the text *)
First(s, i, C) ==
  CHOOSE e \in i .. Len(s) + 1 :
    /\ e = Len(s) + 1 \/ s[e] \in C
    /\ \A j \in i .. e - 1 : s[j] \notin C

(* std::getline *)
LineEnd(s, i) == First(s, i, {NewLine})
LineAt(s, i)  == SubSeq(s, i, LineEnd(s, i) - 1)

(* sscanf: the numbers that one %u after the other takes from a line, and  *)
(* the line behind the field that %9s has taken.                           *)
Numbers[l \in Seq(Char)] ==
  LET begins == {i \in DOMAIN l : /\ l[i] \in 0 .. 9 /\ (i = 1 \/ l[i - 1] = Space)
                                  /\ \A j \in 1 .. i : l[j] # Letter}
      Value(i) == FoldLeft(LAMBDA n, c : 10 * n + c, 0,
                           SubSeq(l, i, First(l, i, {Space, Letter}) - 1))
      in_order == SetToSortSeq(begins, <)
  IN [k \in DOMAIN in_order |-> Value(in_order[k])]

BehindName(l) == SubSeq(l, First(l, First(l, 1, Char \ {Space}), {Space}), Len(l))

(* What load_object_program takes a line for; mem_store cuts an address to *)
(* 15 bits.                                                                *)
Parsed[l \in Seq(Char)] ==
  LET n == Numbers[l]
  IN IF l = << >> THEN [kind |-> "blank"]
     ELSE IF Len(Numbers[BehindName(l)]) >= 3 THEN [kind |-> "symbol"]
     ELSE IF Len(n) >= 3 THEN [kind |-> "entry", addr |-> (n[1] * 32 + n[2]) * 32 + n[3]]
     ELSE IF Len(n) = 2 THEN [kind |-> "word", addr |-> n[1] % 2 ^ 15, value |-> n[2]]
     ELSE [kind |-> "bad"]

(* mem_store *)
Stored(words, l) ==
  [a \in DOMAIN words \cup {l.addr} |-> IF a = l.addr THEN l.value ELSE words[a]]

(* load_object_program, one line *)
LoadLine(p) ==
  LET d == disk[Object(p)]
      l == Parsed[LineAt(d, place[p])]
  IN /\ pc[p] = "load" /\ place[p] <= Len(d)
     /\ \/ l.kind = "bad" /\ Fail(p)
        \/ /\ l.kind # "bad"
           /\ place' = [place EXCEPT ![p] = LineEnd(d, @) + 1]
           /\ entries' = IF l.kind = "entry" THEN [entries EXCEPT ![p] = Append(@, l.addr)]
                                             ELSE entries
           /\ memory' = IF l.kind = "word"
                        THEN [memory EXCEPT ![p] = Stored(@, l)]
                        ELSE memory
           /\ UNCHANGED <<comp, disk, pc, exit>>

(* get_entry(0) of an empty table is undefined: what there is depends on   *)
(* the machine, and here the command has crashed.                          *)
Run(p) ==
  /\ pc[p] = "load" /\ place[p] > Len(disk[Object(p)])
  /\ \/ /\ entries[p] # << >> /\ Goes(p, "run")
     \/ /\ entries[p] = << >>
        /\ pc' = [pc EXCEPT ![p] = "ended"] /\ exit' = [exit EXCEPT ![p] = "crash"]
        /\ UNCHANGED <<place, entries, memory>>
  /\ UNCHANGED <<comp, disk>>

(* STOP, or an error of the program. *)
Ends(p) ==
  /\ pc[p] = "run"
  /\ \/ Fail(p)
     \/ /\ pc' = [pc EXCEPT ![p] = "ended"] /\ exit' = [exit EXCEPT ![p] = "success"]
        /\ UNCHANGED <<comp, disk, place, entries, memory>>

Parent(p) ==
  /\ Main(p) \/ Fork(p) \/ WaitPid(p) \/ OpenObject(p) \/ LoadLine(p) \/ Run(p) \/ Ends(p)
  /\ UNCHANGED <<args, openedBy>>

Child(p) ==
  /\ \/ CreateObject(p)
     \/ OpenSource(p) /\ UNCHANGED openedBy
     \/ Exec(p) /\ UNCHANGED openedBy
     \/ Flush(p) /\ UNCHANGED openedBy
     \/ CompilerExits(p) /\ UNCHANGED openedBy
     \/ Killed(p) /\ UNCHANGED openedBy
  /\ UNCHANGED args

AllEnded == (\A p \in Command : Ended(p)) /\ UNCHANGED vars

Next ==
  \/ \E p \in Command : (Parent(p) \/ Child(p))
  \/ AllEnded

(* The system runs every process; a child that could be killed may also    *)
(* come to its end.                                                        *)
Spec ==
  /\ Init /\ [][Next]_vars
  /\ \A p \in 1 .. MaxCommands :
       WF_vars(p \in Command /\ Parent(p)) /\ WF_vars(p \in Command /\ Child(p))

-----------------------------------------------------------------------------
(* The lines of a file, by the places where they begin. *)
Starts(s) == {i \in DOMAIN s : i = 1 \/ s[i - 1] = NewLine}

Lines(s) == [i \in Starts(s) |-> Parsed[LineAt(s, i)]]

(* The entry table and the words in store are those that the lines of ls   *)
(* at the places in kept give: the entries in their order, and for each    *)
(* address the last word.                                                  *)
Tables(es, words, ls, kept) ==
  LET entry == {i \in kept : ls[i].kind = "entry"}
      word  == {i \in kept : ls[i].kind = "word"}
  IN /\ Len(es) = Cardinality(entry)
     /\ \A i \in entry : es[Cardinality({j \in entry : j <= i})] = ls[i].addr
     /\ DOMAIN words = {ls[i].addr : i \in word}
     /\ \A i \in word :
          (\A j \in word : ls[j].addr = ls[i].addr => j <= i)
            => words[ls[i].addr] = ls[i].value

HasLoaded(p, s, kept) == Tables(entries[p], memory[p], Lines(s), kept)

Executes(p) == args[p].ext = ".a60" /\ (pc[p] = "run" \/ exit[p] = "success")

(* The compiler had no error to report, and the command has loaded the     *)
(* object program of its text, all of it.                                  *)
RunsItsText(p) ==
  LET s == Output[args[p].text].prints
  IN ExitStatus(p) = STATUS_OK /\ HasLoaded(p, s, Starts(s))

(* A command that compiles a text and comes to executing it has loaded the *)
(* whole object program of this text, where no compiler is killed and the  *)
(* disk has room: run_program has thrown for every other end.              *)
RunsItsProgram ==
  \A p \in Command :
    Executes(p) /\ {"kill", "full"} \cap args[p].faults = {} => RunsItsText(p)

(* run_program: "Throw exception in case of error." - so that a program is *)
(* run only as the compiler has left it when it came to its own end.       *)
ThrowsInCaseOfError ==
  \A p \in Command : Executes(p) /\ "full" \notin args[p].faults => RunsItsText(p)

(* d is what is left of s where some characters have been lost. *)
IsPart(d, s) ==
  \E kept \in SUBSET DOMAIN s :
    /\ Cardinality(kept) = Len(d)
    /\ \A i \in kept : s[i] = d[Cardinality({j \in kept : j <= i})]

(* A command that loads an object file never mixes compilations: what it   *)
(* has loaded is what stands in the lines before its place, all of them    *)
(* when it comes to running; and the file holds what the last compiler to  *)
(* open it printed, whether this failed or not, and nothing else - all of  *)
(* it if nothing went wrong, up to some character, in a line or at its     *)
(* end, if the compiler was stopped, and with characters missing anywhere  *)
(* only if the disk was full - or else what was there before any.          *)
NothingStale ==
  \A p \in Command :
    args[p].ext = ".x1" /\ pc[p] \in {"load", "run"}
      => LET f == Object(p)
             d == disk[f]
             q == openedBy[f]
         IN /\ HasLoaded(p, d, {i \in Starts(d) : i < place[p]})
            /\ pc[p] = "run" => place[p] > Len(d)
            /\ IF q = 0 THEN d = OnDisk[f]
               ELSE /\ \/ \E n \in 0 .. Len(Printed(q)) : d = SubSeq(Printed(q), 1, n)
                       \/ "full" \in args[q].faults /\ IsPart(d, Printed(q))
                    /\ args[q].faults = {} => d = Printed(q)

(* Every command ends, whatever becomes of its compiler. *)
EveryCommandEnds == <>(\A p \in Command : Ended(p))
=============================================================================
