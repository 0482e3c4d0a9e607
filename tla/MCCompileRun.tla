---------------------------- MODULE MCCompileRun ----------------------------
(***************************************************************************)
(* Commands in a directory where programs are compiled, changed, compiled  *)
(* again and run: one after the other for one name, at the same time for   *)
(* different names.                                                        *)
(***************************************************************************)
EXTENDS CompileRun, TLC

(* A command in a directory where all is well. *)
Cmd(stem, ext, text) ==
  [stem |-> stem, ext |-> ext, text |-> text, own |-> FALSE, lib |-> "readable",
   readable |-> TRUE, writable |-> TRUE, faults |-> {}]

(* What the compiler prints: the name of a procedure, the entries of the   *)
(* program and of its last procedure, and the words; or its last words.    *)
(* Some begin and some end with a new line.                                *)
SymbolLine  == <<Letter, Space, 0, Space, 0, Space, 1, NewLine>>
Entry(a)    == <<NewLine, 0, Space, 0, Space, a>>
WordLine(a, v) == <<a, Space>> \o v \o <<NewLine>>
NewLines    == <<NewLine, NewLine>>
BadLine     == <<NewLine, Letter, NewLine>>

Makes(prints, s, tape) == [prints |-> prints, status |-> s, tape |-> tape]

MCOutput ==
  [long   |-> Makes(SymbolLine \o Entry(1) \o Entry(0) \o NewLines
                      \o WordLine(0, <<3>>) \o WordLine(1, <<4, 5>>), 0, FALSE),
   short  |-> Makes(Entry(1) \o NewLines \o WordLine(1, <<2, 6>>), 0, FALSE),
   sum    |-> Makes(Entry(1) \o <<NewLine>> \o WordLine(1, <<7>>), 0, TRUE),
   broken |-> Makes(Entry(1) \o BadLine, 1, FALSE)]

Texts == DOMAIN MCOutput

(* A text is compiled, changed, compiled again, and the object file run;   *)
(* a file is run, replaced and run again.                                  *)
Again ==
  {<<Cmd("p", ".a60", t), Cmd("p", ".a60", u), Cmd("p", ".x1", u)>> : t, u \in Texts}
    \cup {<<Cmd("q", ".x1", t), Cmd("q", ".a60", t), Cmd("q", ".x1", t)>> : t \in Texts}

(* The second compilation has no library, cannot read its source, cannot   *)
(* write its object, cannot read the tape it needs, or has its own.        *)
Mishaps(c) ==
  {[c EXCEPT !.lib = l] : l \in {"none", "unreadable"}}
    \cup {[c EXCEPT !.readable = FALSE], [c EXCEPT !.writable = FALSE]}
    \cup {[c EXCEPT !.own = TRUE, !.lib = l] : l \in {"none", "readable"}}

Mishap ==
  {<<Cmd("p", ".a60", "long"), c, Cmd("p", ".x1", t)>> :
     c \in Mishaps(Cmd("p", ".a60", "short")) \cup Mishaps(Cmd("p", ".a60", "sum")),
     t \in {"sum"}}
    \cup {<<c, Cmd("q", ".txt", "long")>> : c \in Mishaps(Cmd("q", ".x1", "long"))}

(* Two programs at the same time, and what is done with one meanwhile. *)
Together ==
  {<<Cmd("p", ".a60", t), Cmd("q", e, u), Cmd("p", ".x1", t)>> :
     t \in {"short", "broken"}, u \in {"short", "sum"}, e \in {".a60", ".x1"}}

(* The second compilation has no process, no compiler, a full disk, or is  *)
(* killed.                                                                 *)
FaultyScript(t, f) ==
  <<Cmd("p", ".a60", "long"), [Cmd("p", ".a60", t) EXCEPT !.faults = {f}], Cmd("p", ".x1", t)>>

Faulty == {FaultyScript("short", f) : f \in {"fork", "exec", "kill"}}
            \cup {FaultyScript("sum", "full")}

(* There is no object file. *)
Missing == {<<Cmd("p", ".x1", "long"), Cmd("p", ".a60", "long")>>}

MCScripts == Again \cup Mishap \cup Together \cup Faulty \cup Missing

MCOnDisk == [p |-> Absent, q |-> MCOutput["long"].prints]

(* The compiler of a single command may be killed. *)
OneCommand == {<<[Cmd("p", ".a60", "long") EXCEPT !.faults = {"kill"}]>>}
=============================================================================
