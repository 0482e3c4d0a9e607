--------------------------- MODULE MCArrayStorage ---------------------------
(***************************************************************************)
(* Arrays of one and two dimensions, integer and real, static and local,   *)
(* with bounds of either sign; calls by value with and without conversion, *)
(* of static, local and value arrays.                                      *)
(***************************************************************************)
EXTENDS ArrayStorage

List(items, elt, bounds) == [items |-> items, elt |-> elt, bounds |-> bounds]
By(actual, elt) == [actual |-> actual, elt |-> elt]

MCStatic == <<List(1, "integer", << <<1, 2>> >>), List(1, "real", << <<-1, 0>> >>)>>

MCLocal == {List(1, "real", << <<1, 1>>, <<-1, 0>> >>), List(2, "integer", << <<-1, -1>> >>)}

MCCalls == {<< >>, <<By(1, "real")>>, <<By(2, "real"), By(1, "integer")>>, <<By(3, "integer")>>}

MCNumbers == {-3}

TooFew  == {-1, 0}
TooMany == {0, 1}

Near == {0}
Far  == {0, 1048576}
=============================================================================
