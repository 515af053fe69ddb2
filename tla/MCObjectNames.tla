--------------------------- MODULE MCObjectNames ---------------------------
(***************************************************************************)
(* Instances of ObjectNames for TLC: four coroutines, so that one may make *)
(* a task, two wait for it, and one come when it has ended.  There is one  *)
(* object, as what is done about one says nothing of another.              *)
(***************************************************************************)
EXTENDS ObjectNames

CONSTANTS c1, c2, c3, c4, host
=============================================================================
