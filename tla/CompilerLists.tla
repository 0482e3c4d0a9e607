--------------------------- MODULE CompilerLists ---------------------------
(***************************************************************************)
(* What the compiler's store is for: a text that is written and then taken *)
(* word by word, an object program that grows, and lists without limits    *)
(* that know nothing of each other.  CompilerStore keeps them all in one   *)
(* store; that it implements this module says that no operation on one of  *)
(* them, and no shift that makes room, disturbs another.                   *)
(***************************************************************************)
EXTENDS Integers, Sequences

CONSTANTS
  Name,         \* identifiers
  Constant,     \* constants, sequences of one or two words
  Prefilled,    \* names known before the scan, a sequence
  Place         \* places of the future list

VARIABLES
  text,         \* words of text, to be taken from the front
  blocks,       \* names of the blocks to come: two sequences for each block
  stream,       \* words of object program
  future,       \* values of the places of the future list that have one
  constants,    \* the constant list
  place,        \* where the last constant was found
  names         \* the name list: records of a name and an id

vars == <<text, blocks, stream, future, constants, place, names>>

Init ==
  /\ text = <<<<"text", 0>>>> /\ blocks = << << >>, << >> >> /\ stream = << >>
  /\ future = << >> /\ constants = << >> /\ place = 0 /\ names = << >>

-----------------------------------------------------------------------------
(* The prescan.  A sublist has its last name first. *)
AddText(n) == text' = text \o [k \in 1 .. n |-> <<"text", Len(text) + k - 1>>]

Listed(s, nm) == [blocks EXCEPT ![s] = <<nm>> \o @]

WithBlock(bs) == bs \o << << >>, << >> >>

Prescan ==
  /\ \E n \in 0 .. 3 : AddText(n)
  /\ \/ UNCHANGED blocks
     \/ \E s \in DOMAIN blocks, nm \in Name :
          \/ blocks' = Listed(s, nm)
          \/ blocks' = WithBlock(Listed(s, nm))
     \/ blocks' = WithBlock(blocks)
  /\ UNCHANGED <<stream, future, constants, place, names>>

(* The first block is entered when the main scan begins. *)
Known ==
  [i \in DOMAIN Prefilled |-> [name |-> Prefilled[i], id |-> <<"id", "label", 0>>]]

MainScan ==
  /\ \E n \in 0 .. 1 : AddText(n)
  /\ names' = Known
  /\ UNCHANGED <<blocks, stream, future, constants, place>>

-----------------------------------------------------------------------------
(* The main scan. *)
TakeText ==
  /\ text # << >> /\ text' = Tail(text)
  /\ UNCHANGED <<blocks, stream, future, constants, place, names>>

WriteStream ==
  /\ stream' = Append(stream, <<"stream", Len(stream)>>)
  /\ UNCHANGED <<text, blocks, future, constants, place, names>>

(* A place gets its value once. *)
Filled(p) ==
  /\ p \notin DOMAIN future
  /\ future' = [q \in DOMAIN future \cup {p} |->
                  IF q = p THEN <<"future", p>> ELSE future[q]]

Fill ==
  /\ \E p \in Place : Filled(p)
  /\ UNCHANGED <<text, blocks, stream, constants, place, names>>

(* The constant is in the list, now if not before, where place says.       *)
AddConstant ==
  /\ \E c \in Constant :
       /\ constants' = constants \/ constants' = constants \o c
       /\ place' + Len(c) <= Len(constants')
       /\ SubSeq(constants', place' + 1, place' + Len(c)) = c
  /\ UNCHANGED <<text, blocks, stream, future, names>>

AddWord ==
  /\ \E c \in Constant : constants' = Append(constants, c[1])
  /\ UNCHANGED <<text, blocks, stream, future, place, names>>

AddName ==
  /\ \E nm \in Name, kind \in {"simple", "array", "value array"} :
       names' = Append(names, [name |-> nm, id |-> <<"id", kind, 0>>])
  /\ UNCHANGED <<text, blocks, stream, future, constants, place>>

(* An occurrence of a name means its latest declaration. *)
Latest(i) == \A j \in i + 1 .. Len(names) : names[j].name # names[i].name

Occurrence ==
  /\ \E i \in DOMAIN names, p \in Place :
       /\ Latest(i)
       /\ \/ /\ names[i].id = <<"id", "label", 0>>
             /\ names' = [names EXCEPT ![i].id = <<"id", "future", p>>]
             /\ IF i \in DOMAIN Prefilled THEN Filled(p)
                ELSE p \notin DOMAIN future /\ UNCHANGED future
          \/ /\ names[i].id = <<"id", "label", 0>>
             /\ names' = [names EXCEPT ![i].id = <<"id", "address", 0>>]
             /\ UNCHANGED future
          \/ /\ names[i].id = <<"id", "future", p>>
             /\ UNCHANGED names /\ Filled(p)
  /\ UNCHANGED <<text, blocks, stream, constants, place>>

(* Entering a block: its names, first the labels, then the procedures. *)
TakeName ==
  /\ blocks # << >> /\ blocks[1] # << >>
  /\ names' = Append(names, [name |-> blocks[1][1], id |-> <<"id", "label", 0>>])
  /\ blocks' = [blocks EXCEPT ![1] = Tail(@)]
  /\ UNCHANGED <<text, stream, future, constants, place>>

TakeSublist ==
  /\ blocks # << >> /\ blocks[1] = << >>
  /\ blocks' = Tail(blocks)
  /\ UNCHANGED <<text, stream, future, constants, place, names>>

LeaveBlock ==
  /\ \E n \in 0 .. Len(names) : n >= Len(Prefilled) /\ names' = SubSeq(names, 1, n)
  /\ \E p \in Place : Filled(p)
  /\ UNCHANGED <<text, blocks, stream, constants, place>>

(* Room is reserved for a value array; object program may be written.      *)
Reserve ==
  /\ \/ UNCHANGED names
     \/ \E i \in DOMAIN names :
          /\ names[i].id[2] = "value array"
          /\ names' = [names EXCEPT ![i].id = <<"id", "value array", 1>>]
  /\ stream' = stream \/ stream' = Append(stream, <<"stream", Len(stream)>>)
  /\ UNCHANGED <<text, blocks, future, constants, place>>

Next ==
  \/ Prescan \/ MainScan \/ TakeText \/ WriteStream \/ Fill \/ AddConstant \/ AddWord
  \/ AddName \/ Occurrence \/ TakeName \/ TakeSublist \/ LeaveBlock \/ Reserve

Spec == Init /\ [][Next]_vars
=============================================================================
