---------------------------- MODULE ProgramLoader ----------------------------
(***************************************************************************)
(* The program loader of the compiler (x1algc.c): program_loader and what  *)
(* it calls, on the words of the store.  The compiler leaves behind        *)
(*                                                                         *)
(*   Mcpb          Bim            flib      klib      nlib          Klie   *)
(*    |77|MCPs ... 77|object program|FLI ... |KLI ... |NLI ...        |    *)
(*                                                                         *)
(* and the loader puts the program, its orders in place, at rlib and the   *)
(* constants above it, the library procedures (MCPs) it needs below it, on *)
(* top of what it is still reading: the lists are read backwards, and each *)
(* word goes to a place above the words that are still needed.  MCPs that  *)
(* are not in the store come from library tapes.                           *)
(*                                                                         *)
(* What the compiler has left, the library, and at most one bit of a tape  *)
(* that is read wrong, are a job.                                          *)
(***************************************************************************)
EXTENDS ObjectStream, FiniteSetsExt

CONSTANTS
  Mcpb,         \* first word of the MCPs in the store, less one
  Klie,         \* end of the constants of the loaded program
  Align,        \* the program begins at a multiple of this (32)
  LastOnTape,   \* the highest number of an MCP on a tape (50)
  LongestMcp,   \* the longest MCP on a tape (1024)
  Crf,          \* the cross-reference list: <<length, number, needed by>>
  Jobs          \* what there may be to load

EndMarker == 7680
START == OpcTable[90]

(* A job: [orders, futures, constants, names, gap, inStore, tapes, flip].  *)
(* A future is <<"label", its place in the program>> or <<"mcp", number>>; *)
(* a name of the name list is [long, used, index]: the index is that of a  *)
(* future if the name is used, else the number of the MCP.                 *)
Mcp == {c[2] : c \in Range(Crf)}

VARIABLES
  job,
  left,         \* what the compiler has left: see Layout
  store,        \* from the word below the MCPs to Klie
  flib, flsc,   \* the future list
  klib,         \* the constants; Crfb when MCPs are being loaded
  mli,          \* the MCP list: 0, minus an address in the FLI, or a place
  need,         \* its copy: 0 as soon as the MCP is there
  mcpe,         \* the lowest word of the loaded program
  count,        \* MCPs still to be loaded (mcp_count)
  item,         \* where the walk over the names or the Crf is
  reader,       \* see ObjectStream
  list,         \* the list being read: which, its place, orders to come
  tapes,        \* the tapes that have not been opened
  phase,
  alarm         \* why the loader has stopped

lists == <<flib, flsc, klib, mli, need, mcpe, count, item, list, tapes>>
vars  == <<job, left, store, lists, reader, phase, alarm>>

(* The list that is no MCP, and the address of the Crf, below the MCPs. *)
Rli  == -1
Crfb == Mcpb - 2

-----------------------------------------------------------------------------
(* What the compiler and the prefilled store give.                         *)
Rlsc == Len(job.orders)
Klsc == Len(job.constants)

McpArea(j) == FlattenSeq([i \in DOMAIN j.inStore |-> McpWords(j.inStore[i])])

Bim(j) == Mcpb + Len(McpArea(j)) + 2

(* fill_future_list: the address in the program, or the number of the MCP. *)
FutureWord(f) == f[2]

(* prefill_lib_proc, and test_first_occurrence when the name is used *)
NameWords(n) ==
  (IF n.long THEN <<8 * n.index, 1>> ELSE <<0>>)
  \o <<2^18 + (IF n.used THEN 0 ELSE 2^15) + n.index>>

Nli(j) == FlattenSeq([i \in DOMAIN j.names |-> NameWords(j.names[i])])

Layout(j) ==
  LET words == Written(j.orders).words
      f == Bim(j) + Len(words) + 1 + j.gap
      k == f + Len(j.futures)
  IN [words |-> words, rnsb |-> Bim(j) + Len(words), flib |-> f, klib |-> k,
      nlib |-> k + Len(j.constants), nli |-> Nli(j), mcps |-> McpArea(j)]

Placed(at, words) == [a \in at .. at + Len(words) - 1 |-> words[a - at + 1]]

Prefilled(j, l) ==
  Placed(Mcpb, <<Terminator>> \o l.mcps \o <<Terminator>> \o l.words)
  @@ Placed(l.flib, [i \in DOMAIN j.futures |-> FutureWord(j.futures[i])])
  @@ Placed(l.klib, j.constants)
  @@ Placed(l.nlib, l.nli)
  @@ [a \in Mcpb - 1 .. Klie |-> 0]

(* A tape as the punch reader gives it, with the bit that is read wrong.   *)
Flipped(b, bit) == IF (b \div 2^bit) % 2 = 1 THEN b - 2^bit ELSE b + 2^bit

Tape(j, t) ==
  LET bytes == <<0, 0>> \o FlattenSeq([i \in DOMAIN j.tapes[t] |-> McpTape(j.tapes[t][i])])
  IN IF j.flip = << >> \/ j.flip[1] # t \/ j.flip[2] \notin DOMAIN bytes THEN bytes
     ELSE [bytes EXCEPT ![j.flip[2]] = Flipped(@, j.flip[3])]

Init ==
  /\ job \in Jobs
  /\ left = Layout(job)
  /\ store = Prefilled(job, left)
  /\ flib = left.flib /\ flsc = Len(job.futures) /\ klib = left.klib
  /\ mli = [m \in Mcp |-> 0] /\ need = mli
  /\ mcpe = Klie /\ count = 0 /\ item = 0
  /\ reader = NewReader(0, 0, left.rnsb, "store", << >>)
  /\ list = [mcp |-> Rli, at |-> 0, left |-> 0]
  /\ tapes = [t \in DOMAIN job.tapes |-> Tape(job, t)]
  /\ phase = "prepare" /\ alarm = "none"

-----------------------------------------------------------------------------
rlib == ((Klie - Rlsc - Klsc) \div Align) * Align

Stop(a) ==
  /\ phase' = "stopped" /\ alarm' = a
  /\ UNCHANGED <<job, left, store, reader, lists>>

Runs == UNCHANGED <<job, left, alarm>>

(* The entries of the FLI become addresses; the KLI goes to its place.     *)
Prepare ==
  /\ phase = "prepare"
  /\ store' = [a \in DOMAIN store |->
       CASE a \in flib .. flib + flsc - 1 -> store[a] + rlib
         [] a \in rlib + Rlsc .. rlib + Rlsc + Klsc - 1 -> store[a - rlib - Rlsc + klib]
         [] OTHER -> store[a]]
  /\ klib' = rlib + Rlsc /\ mcpe' = rlib
  /\ item' = Len(left.nli) /\ phase' = "primary"
  /\ Runs /\ UNCHANGED <<flib, flsc, mli, need, count, reader, list, tapes>>

(* The MCPs whose names the program uses, from the last name on: the MLI   *)
(* gets the place in the FLI where the program looks for the MCP.          *)
PrimaryNeed ==
  LET nlib  == left.nlib
      id    == store[nlib + item - 1]
      at    == flib + (id % 2^15)
      used  == (id \div 2^15) % 2 = 0
  IN /\ phase = "primary" /\ item > 0
     /\ item' = item - (IF store[nlib + item - 2] % 8 = 0 THEN 2 ELSE 3)
     /\ mli' = IF used THEN [mli EXCEPT ![(store[at] - rlib) % 2^15] = -at] ELSE mli
     /\ count' = IF used THEN count + 1 ELSE count
     /\ Runs /\ UNCHANGED <<store, flib, flsc, klib, need, mcpe, reader, list, tapes, phase>>

EndOfNames ==
  /\ phase = "primary" /\ item = 0
  /\ phase' = "secondary" /\ item' = 1
  /\ Runs /\ UNCHANGED <<store, flib, flsc, klib, mli, need, mcpe, count, reader, list, tapes>>

(* An entry of the Crf: is the MCP used, or needed by one that is?  Each   *)
(* MCP comes after those that need it.                                     *)
InNeed(c) == mli[c[2]] # 0 \/ \E m \in c[3] : mli[m] # 0

(* Not the code: MCPs that only others need are not counted. *)
CountedPrimary(m) == count

Counted(m) == IF mli[m] < 0 THEN count ELSE count + 1

SecondaryNeed ==
  LET c == Crf[item]
      m == c[2]
      e == mcpe - c[1]
  IN /\ phase = "secondary" /\ item <= Len(Crf)
     /\ \/ /\ InNeed(c) /\ e <= Mcpb
           /\ Stop("stop 25")
        \/ /\ InNeed(c) /\ e > Mcpb
           /\ mcpe' = e /\ item' = item + 1
           /\ store' = IF mli[m] < 0 THEN [store EXCEPT ![-mli[m]] = e] ELSE store
           /\ count' = Counted(m)
           /\ mli' = [mli EXCEPT ![m] = e]
           /\ Runs /\ UNCHANGED <<flib, flsc, klib, need, reader, list, tapes, phase>>
        \/ /\ ~ InNeed(c)
           /\ item' = item + 1
           /\ Runs
           /\ UNCHANGED <<store, flib, flsc, klib, mli, need, mcpe, count, reader, list, tapes, phase>>

LoadResultList ==
  /\ phase = "secondary" /\ item > Len(Crf)
  /\ reader' = PrepareResult(Written(job.orders), reader.at, store)
  /\ list' = [mcp |-> Rli, at |-> rlib, left |-> Rlsc]
  /\ phase' = "list"
  /\ Runs /\ UNCHANGED <<store, flib, flsc, klib, mli, need, mcpe, count, item, tapes>>

-----------------------------------------------------------------------------
(* Rstore: a word that is not in the store. *)
Runaway(o) == o.opc = 2 /\ flib + Address(o.word) \notin DOMAIN store

(* read_binary_word: what is added to an order. *)
Listed(f, m) == IF m \in Mcp THEN f[m] ELSE 0

(* Bit 17 of an order with a future goes; if it is not there, bit 19 comes. *)
Variant(w) == IF (Mask(w) \div 4) % 2 = 1 THEN w - 2^17 ELSE w + 2^19

Relocated(o) ==
  LET w == o.word
      a == Address(w)
  IN CASE o.opc = 0 -> w
       [] o.opc = 1 -> w + list.at
       [] o.opc = 2 -> Variant(w) + store[flib + a] - a
       [] o.opc = 3 /\ klib = Crfb -> w + Listed(mli, a) - a
       [] o.opc = 3 /\ klib # Crfb -> w + klib
       [] OTHER     -> o.opc

(* Not the code: the list is looked for one word too high. *)
InTheWayLate(a) == a < flib

(* The FLI is where the next order has to go.                              *)
InTheWay(a) == a <= flib + flsc

(* The FLI goes down to the words that have been read. *)
Shifted(to) ==
  [a \in DOMAIN store |-> IF a \in to .. to + flsc - 1 THEN store[a - to + flib] ELSE store[a]]

ReadOrder ==
  LET x == NextOrder(reader, store)
      a == list.at + list.left - 1
      r == x.reader
  IN /\ phase = "list" /\ list.left > 0
     /\ \/ r.fault # "none" /\ Stop(r.fault)
        \/ r.fault = "none" /\ Runaway(x.order) /\ Stop("runaway read")
        \/ /\ r.fault = "none" /\ ~ Runaway(x.order)
           /\ InTheWay(a) /\ flib <= r.at /\ Stop("stop 98")
        \/ /\ r.fault = "none" /\ ~ Runaway(x.order)
           /\ \/ /\ InTheWay(a) /\ flib > r.at
                 /\ store' = [Shifted(r.at) EXCEPT ![a] = Relocated(x.order)]
                 /\ flib' = r.at
              \/ /\ ~ InTheWay(a)
                 /\ store' = [store EXCEPT ![a] = Relocated(x.order)]
                 /\ UNCHANGED flib
           /\ reader' = r
           /\ list' = [list EXCEPT !.left = @ - 1]
           /\ Runs /\ UNCHANGED <<flsc, klib, mli, need, mcpe, count, item, tapes, phase>>

(* The reader goes on behind a list; at the end of a tape it is closed.    *)
GoOn(r) ==
  /\ reader' = IF r.from = "store" THEN PrepareStore(r, store) ELSE PrepareTape(r, store)
  /\ phase' = IF r.from = "tape" /\ SkipBlank(r.tape) = << >> THEN "tapes" ELSE "header"

EndOfProgram ==
  /\ list.mcp = Rli
  /\ \/ store[rlib] # START /\ Stop("stop 101")
     \/ /\ store[rlib] = START
        /\ need' = mli /\ klib' = Crfb /\ flsc' = 0
        /\ GoOn(reader)
        /\ Runs /\ UNCHANGED <<store, flib, mli, mcpe, count, item, list, tapes>>

EndOfMcp ==
  /\ list.mcp # Rli
  /\ count' = count - 1 /\ need' = [need EXCEPT ![list.mcp] = 0]
  /\ GoOn(reader)
  /\ Runs /\ UNCHANGED <<store, flib, flsc, klib, mli, mcpe, item, list, tapes>>

EndOfList ==
  /\ phase = "list" /\ list.left = 0
  /\ \/ ~ AtTerminator(reader) /\ Stop("stop 107")
     \/ AtTerminator(reader) /\ (EndOfProgram \/ EndOfMcp)

-----------------------------------------------------------------------------
(* The word, or the two bytes, that end the list that is skipped.          *)
PastStoreList(r) ==
  [r EXCEPT !.at = CHOOSE a \in DOMAIN store :
     a < r.at /\ store[a] = Terminator /\ \A b \in a + 1 .. r.at - 1 : store[b] # Terminator]

PastTapeList(r) ==
  LET z == {k \in DOMAIN r.tape : k < Len(r.tape) /\ r.tape[k] = 0 /\ r.tape[k + 1] = 0}
  IN [r EXCEPT !.tape = IF z = {} THEN << >> ELSE SubSeq(r.tape, Min(z) + 2, Len(r.tape))]

Past(r) == IF r.from = "store" THEN PastStoreList(r) ELSE PastTapeList(r)

Refused(m, ll) ==
  reader.from = "tape" /\ (m > LastOnTape \/ ll = 0 \/ ll > LongestMcp)

Skip(r) ==
  /\ GoOn(Past(r))
  /\ Runs /\ UNCHANGED <<store, flib, flsc, klib, mli, need, mcpe, count, item, list, tapes>>

ToLoad(m, ll, r) ==
  /\ list' = [mcp |-> m, at |-> need[m], left |-> ll]
  /\ reader' = r /\ phase' = "list"
  /\ Runs /\ UNCHANGED <<store, flib, flsc, klib, mli, need, mcpe, count, item, tapes>>

(* Length and number of an MCP, or the end marker. *)
Header ==
  LET ll == Top(reader.stock, 13)
      q  == Take(reader, 13, store)
      m  == Top(q.stock, 13)
      r  == Take(q, 13, store)
  IN /\ phase = "header"
     /\ \/ q.fault # "none" /\ Stop(q.fault)
        \/ /\ q.fault = "none" /\ ll >= EndMarker
           /\ phase' = "tapes"
           /\ Runs /\ UNCHANGED <<store, lists, reader>>
        \/ /\ q.fault = "none" /\ ll < EndMarker
           /\ \/ r.fault # "none" /\ Stop(r.fault)
              \/ r.fault = "none" /\ Refused(m, ll) /\ Stop("bad header")
              \/ /\ r.fault = "none" /\ ~ Refused(m, ll)
                 /\ IF Listed(need, m) # 0 THEN ToLoad(m, ll, r) ELSE Skip(r)

(* Not the code: the tape that has been read is opened again. *)
OpenTapeAgain ==
  /\ phase = "tapes" /\ count # 0 /\ tapes # << >>
  /\ reader' = PrepareTape(NewReader(21, 0, reader.at, "tape", Head(tapes)), store)
  /\ phase' = "header"
  /\ Runs /\ UNCHANGED <<store, flib, flsc, klib, mli, need, mcpe, count, item, list, tapes>>

OpenTape ==
  /\ phase = "tapes" /\ count # 0 /\ tapes # << >>
  /\ reader' = PrepareTape(NewReader(21, 0, reader.at, "tape", Head(tapes)), store)
  /\ tapes' = Tail(tapes) /\ phase' = "header"
  /\ Runs /\ UNCHANGED <<store, flib, flsc, klib, mli, need, mcpe, count, item, list>>

(* list_undefined_references, or whatever P_eof makes of a closed file *)
OutOfTapes ==
  /\ phase = "tapes" /\ count # 0 /\ tapes = << >>
  /\ Stop("undefined references")

Done ==
  /\ phase = "tapes" /\ count = 0
  /\ phase' = "done"
  /\ Runs /\ UNCHANGED <<store, lists, reader>>

Finished == phase \in {"done", "stopped"}

Ended == Finished /\ UNCHANGED vars

Next ==
  \/ Prepare \/ PrimaryNeed \/ EndOfNames \/ SecondaryNeed \/ LoadResultList
  \/ ReadOrder \/ EndOfList \/ Header \/ OpenTape \/ OutOfTapes \/ Done
  \/ Ended

(* Nothing but the loader runs, and it runs on until it has finished: weak *)
(* fairness of Next, which can always do a step before that.               *)
RunsOn == []<>Finished \/ []<><<Next>>_vars

Spec == Init /\ [][Next]_vars /\ RunsOn
=============================================================================
