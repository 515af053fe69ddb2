--------------------------- MODULE MCSaymonClient ---------------------------
(***************************************************************************)
(* Instances of SaymonClient for TLC: two coroutines, and a list of three  *)
(* incidents to which a fourth may come.                                   *)
(***************************************************************************)
EXTENDS SaymonClient

CONSTANTS c1, c2, a, b, c, d

ThreeListed == {<<a, b, c>>}

(* No limit, limits below, at and above the list, and pages of any size. *)
SomeAsks ==
  {[limit |-> 0, page |-> 2], [limit |-> 2, page |-> 5],
   [limit |-> 3, page |-> 2], [limit |-> 4, page |-> 0]}
=============================================================================
