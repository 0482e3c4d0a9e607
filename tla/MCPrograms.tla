----------------------------- MODULE MCPrograms -----------------------------
(***************************************************************************)
(* The block trees on which TLC runs the models of the run-time system.    *)
(***************************************************************************)
EXTENDS Sequences

(* Scopes: procedure p with an inner procedure q(x), and r(g) beside it.   *)
ScopeBlock   == {"p", "q", "r"}
ScopePath    == [b \in ScopeBlock \cup {"main"} |->
                   CASE b = "main" -> << >> [] b = "p" -> <<"p">>
                     [] b = "q" -> <<"p", "q">> [] b = "r" -> <<"r">>]
ScopeFormals == [b \in ScopeBlock |->
                   CASE b = "p" -> << >> [] b = "q" -> <<"num">> [] b = "r" -> <<"proc">>]
ScopeLocals  == [b \in ScopeBlock |-> 0]

(* Frames: procedure p(x) with an inner function f and a for statement. *)
FrameBlock   == {"p", "f", "for"}
FramePath    == [b \in FrameBlock \cup {"main"} |->
                   CASE b = "main" -> << >> [] b = "p" -> <<"p">>
                     [] b = "f" -> <<"p", "f">> [] b = "for" -> <<"p", "for">>]
FrameFormals == [b \in FrameBlock |-> IF b = "p" THEN <<"num">> ELSE << >>]
FrameLocals  == [b \in FrameBlock |-> IF b = "p" THEN 1 ELSE 0]

(* Calls and jumps: procedure p(x) with an inner function f, and, beside   *)
(* it, r(g, l) with a for statement.                                       *)
AllBlock   == {"p", "f", "r", "for"}
AllPath    == [b \in AllBlock \cup {"main"} |->
                  CASE b = "main" -> << >> [] b = "p" -> <<"p">> [] b = "r" -> <<"r">>
                    [] b = "f" -> <<"p", "f">> [] b = "for" -> <<"r", "for">>]
AllFormals == [b \in AllBlock |-> CASE b = "p" -> <<"num">> [] b = "r" -> <<"proc", "label">>
                                     [] b \in {"f", "for"} -> << >>]
AllLocals  == [b \in AllBlock |-> IF b = "p" THEN 1 ELSE 0]

(* Everything together: procedure p(x) with an inner procedure q(x) and a  *)
(* for statement, and procedure r(g, l) beside it.                         *)
MixedBlock   == {"p", "q", "r", "for"}
MixedPath    == [b \in MixedBlock \cup {"main"} |->
                   CASE b = "main" -> << >> [] b = "p" -> <<"p">> [] b = "r" -> <<"r">>
                     [] b = "q" -> <<"p", "q">> [] b = "for" -> <<"p", "for">>]
MixedFormals == [b \in MixedBlock |->
                   CASE b = "p" -> <<"num">> [] b = "q" -> <<"num">>
                     [] b = "r" -> <<"proc", "label">> [] b = "for" -> << >>]
MixedLocals  == [b \in MixedBlock |-> IF b = "p" THEN 1 ELSE 0]
=============================================================================
