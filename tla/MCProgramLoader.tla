--------------------------- MODULE MCProgramLoader ---------------------------
(***************************************************************************)
(* ProgramLoader for programs with every operation and every kind of word  *)
(* the code tells apart, for libraries in store and on tape in several     *)
(* arrangements, and for every bit of a tape that may be read wrong.       *)
(***************************************************************************)
EXTENDS ProgramLoader

Opc(n)        == Order(n, 0)
Word(n, m, a) == Order(n, m * 2^15 + a)

(* The library: PRSYM as in library/prsym.src, a procedure that calls      *)
(* another, and the one it calls.                                          *)
Prsym   == [number |-> 8,
            orders |-> <<Word(0, 2192, 1), Opc(89), Word(0, 2192, 32763), Opc(17),
                         Word(0, 656, 161), Opc(35), Opc(85), Opc(12)>>]
Calling == [number |-> 1,
            orders |-> <<Word(0, 2192, 1), Opc(89), Word(1, 2704, 1), Word(3, 2192, 2), Opc(12)>>]
Called  == [number |-> 2,
            orders |-> <<Word(1, 2192, 3), Word(0, 4095, 33), Word(1, 640, 2), Opc(33)>>]

MCCrf == <<<<5, 1, {}>>, <<4, 2, {1}>>, <<8, 8, {}>>>>

Library(here, punched) == [store |-> here, tapes |-> punched]

(* In store as now, on tape as they were, and with procedures twice, on a  *)
(* tape behind the one looked for, and missing.                            *)
InStore == Library(<<Prsym, Called, Calling>>, << >>)
OneTape == Library(<<Calling, Prsym>>, <<<<Prsym, Called>>>>)

Libraries ==
  {InStore, OneTape,
   Library(<<Prsym>>, <<<<Called, Prsym>>, <<Calling, Called>>>>),
   Library(<<Called>>, <<<<Prsym>>, <<Calling>>>>),
   Library(<<Prsym>>, <<<<Called>>>>)}

-----------------------------------------------------------------------------
Name(long, used, index) == [long |-> long, used |-> used, index |-> index]

(* A program with references of all kinds, with x among them. *)
Job(prefix, x, long, gap, lib, flip) ==
  [orders    |-> <<Opc(96)>> \o prefix \o x
                 \o <<Word(2, 2688, 0), Word(3, 2192, 1), Word(2, 2176, 1), Opc(97)>>,
   futures   |-> <<<<"label", 3>>, <<"mcp", 1>>, <<"mcp", 8>>>>,
   constants |-> <<100000000, 3>>,
   names     |-> <<Name(long, FALSE, 2), Name(TRUE, long, IF long THEN 2 ELSE 8),
                   Name(FALSE, TRUE, 1)>>,
   gap |-> gap, inStore |-> lib.store, tapes |-> lib.tapes, flip |-> flip]

(* Operations of 11 and of 10 bits in front of it, to have it elsewhere in  *)
(* the words.                                                              *)
Before == {<<Opc(16), Opc(9)>>, <<Opc(8)>>}

(* The groups of 5 bits of an address that the code tells apart. *)
Groups == {l + 32 * m + 1024 * h : l \in {0, 1, 2, 3}, m \in 0 .. 6, h \in {0, 31}}

OwnMask == {<<q, k>> \in (0 .. 1) \X (1 .. 19) : FrequentWords[k] % 8 = q}

AllWords ==
  {Word(0, 656, a) : a \in Groups}
  \cup {Word(q[1], FrequentWords[q[2]] \div 2^15, 5) : q \in OwnMask}
  \cup {Word(0, m, 2) : m \in {1, 3, 32, 128, 160, 1024, 2193, 4095}}
  \cup {Word(1, m, 2) : m \in {0, 1, 4095}}
  \cup {Word(2, m, 0) : m \in {2691, 640, 20, 4}}
  \cup {Word(3, m, 1) : m \in {16, 2192, 3}}

SomeWords == {Opc(33), Opc(85), Word(0, 0, 0), Word(2, 2691, 0)}

LongProgram == <<Opc(33), Opc(34), Opc(56), Opc(9), Word(1, 16, 2), Word(2, 640, 0)>>

MCJobs ==
  {Job(p, <<x>>, FALSE, 1, InStore, << >>) : p \in Before, x \in AllWords}
  \cup {Job(<<Opc(16)>>, <<Opc(n)>>, FALSE, 1, InStore, << >>) : n \in 8 .. 112}
  \cup {Job(<<Opc(13)>>, <<x>>, long, gap, b, << >>) :
          x \in SomeWords, long \in BOOLEAN, gap \in {0, 6}, b \in Libraries}
  \cup {Job(LongProgram, <<x>>, TRUE, gap, InStore, << >>) : x \in SomeWords, gap \in 0 .. 9}
  \cup {Job(<< >>, << >>, TRUE, 2, OneTape, <<1, k, bit>>) : k \in 1 .. 55, bit \in 0 .. 6}

-----------------------------------------------------------------------------
(* What the loader has to do, from the job alone.                          *)
Procedures == Range(job.inStore) \cup UNION {Range(job.tapes[t]) : t \in DOMAIN job.tapes}

Procedure(m) == CHOOSE p \in Procedures : p.number = m

Available == {p.number : p \in Procedures}

CallsOf(m) ==
  IF m \notin Available THEN {}
  ELSE {Address(o.word) : o \in {q \in Range(Procedure(m).orders) : q.opc = 3}}

Used == {job.futures[n.index + 1][2] : n \in {k \in Range(job.names) : k.used}}

Needed ==
  LET more[n \in Nat] ==
        IF n = 0 THEN Used ELSE more[n - 1] \cup UNION {CallsOf(m) : m \in more[n - 1]}
  IN more[Cardinality(Mcp)]

(* Where the futures and the MCPs are in the end. *)
FutureAddress(i) ==
  LET f == job.futures[i + 1] IN IF f[1] = "label" THEN rlib + f[2] ELSE mli[f[2]]

Meaning(o, at, constants) ==
  LET a == Address(o.word)
      m == Mask(o.word)
  IN CASE o.opc = 0 -> o.word
       [] o.opc = 1 -> m * 2^15 + a + at
       [] o.opc = 2 -> (IF (m \div 4) % 2 = 1 THEN m - 4 ELSE m + 16) * 2^15 + FutureAddress(a)
       [] o.opc = 3 -> m * 2^15 + constants[a]
       [] OTHER     -> o.opc

ConstantAddress == [i \in 0 .. Klsc - 1 |-> rlib + Rlsc + i]

InPlace(orders, at, constants) ==
  \A i \in DOMAIN orders : store[at + i - 1] = Meaning(orders[i], at, constants)

Length(m) == Len(Procedure(m).orders)

(* When the loader has finished, the program is in the store as it was     *)
(* compiled, with its constants and with exactly the procedures it needs,  *)
(* directly or through others, each reference leading to its place: even   *)
(* when a bit of the tape has been read wrong.                             *)
Loaded ==
  phase = "done" =>
    /\ InPlace(job.orders, rlib, ConstantAddress)
    /\ \A i \in 1 .. Klsc : store[rlib + Rlsc + i - 1] = job.constants[i]
    /\ {m \in Mcp : mli[m] # 0} = Needed
    /\ \A m \in Needed :
         /\ InPlace(Procedure(m).orders, mli[m], mli)
         /\ mli[m] >= mcpe /\ mli[m] + Length(m) <= rlib
         /\ \A n \in Needed \ {m} : mli[m] + Length(m) <= mli[n] \/ mli[n] + Length(n) <= mli[m]

(* Whatever has been put in place, the words that are still to be read are *)
(* as the compiler left them: the procedures in the store, the object      *)
(* program, the future list and the constants.                             *)
UnreadIntact ==
  LET bim == left.rnsb - Len(left.words)
  IN /\ phase # "done" =>
          /\ \A i \in DOMAIN left.mcps :
               Mcpb + i < reader.at => store[Mcpb + i] = left.mcps[i]
          /\ \A i \in DOMAIN left.words :
               bim + i - 1 < reader.at => store[bim + i - 1] = left.words[i]
     /\ phase = "list" /\ list.mcp = Rli =>
          \A i \in 0 .. flsc - 1 :
            LET f == job.futures[i + 1]
            IN store[flib + i] = CASE f[1] = "label"   -> rlib + f[2]
                                   [] f[2] \in Used    -> mli[f[2]]
                                   [] OTHER            -> rlib + f[2]

(* The number of MCPs to come is that of the entries to be filled: the     *)
(* loader neither ends before the last nor asks for a tape after it.       *)
CountMatches ==
  phase \in {"header", "tapes"} => count = Cardinality({m \in Mcp : need[m] # 0})

(* Nothing stops a program whose procedures are there and whose tapes are  *)
(* read right: no code is taken for another, no list ends early or late.   *)
NoAlarm == alarm # "none" => job.flip # << >> \/ ~ (Needed \subseteq Available)

(* The loader comes to an end, whatever it reads. *)
Terminates == <>Finished
=============================================================================
