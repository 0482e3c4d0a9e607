------------------------------- MODULE Arrays -------------------------------
(***************************************************************************)
(* What the arrays of an Algol program are to its author: for each array   *)
(* in scope a type, bounds, and a value for each tuple of indexes.         *)
(* Assignments convert between integer and real; an array called by value  *)
(* is a converted copy with the indexes of the actual one.                 *)
(***************************************************************************)
EXTENDS Integers, Sequences, FiniteSets

VARIABLE arrays        \* of each array in scope: [elt, bounds, val]

(* Numbers are counted in halves; a half is rounded away from 0.           *)
Round(h) == 2 * (IF h >= 0 THEN (h + 1) \div 2 ELSE -((1 - h) \div 2))

AsType(elt, h) == IF elt = "integer" THEN Round(h) ELSE h

(* A bound pair list has any number of pairs; an element has an index      *)
(* between each pair.                                                      *)
Indexes(bounds) ==
  {is \in [DOMAIN bounds -> UNION {b[1] .. b[2] : b \in {bounds[d] : d \in DOMAIN bounds}}] :
     \A d \in DOMAIN bounds : is[d] \in bounds[d][1] .. bounds[d][2]}

Zero(bounds) == [is \in Indexes(bounds) |-> 0]

(* The arrays of a program are numbered as they come into scope. *)
Init == arrays = << >>

New(elt, bounds, val) == [elt |-> elt, bounds |-> bounds, val |-> val]

(* New arrays are all zero. *)
Declare(items, elt, bounds) ==
  arrays' = arrays \o [i \in 1 .. items |-> New(elt, bounds, [is \in Indexes(bounds) |-> 0])]

(* A number assigned to an element takes its type. *)
Assign(k, is, h) ==
  /\ k \in DOMAIN arrays /\ is \in DOMAIN arrays[k].val
  /\ arrays' = [arrays EXCEPT ![k].val[is] = AsType(arrays[k].elt, h)]

(* A call by value: a new array is a copy of one that is there. *)
Copy(k, elt) ==
  arrays' = Append(arrays, New(elt, arrays[k].bounds,
                     [is \in DOMAIN arrays[k].val |-> AsType(elt, arrays[k].val[is])]))

(* A block is left, and its arrays with it. *)
Leave(n) == arrays' = SubSeq(arrays, 1, n)
=============================================================================
