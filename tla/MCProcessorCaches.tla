-------------------------- MODULE MCProcessorCaches --------------------------
(***************************************************************************)
(* Instances of ProcessorCaches for TLC: two requests.                     *)
(***************************************************************************)
EXTENDS ProcessorCaches

CONSTANTS r1, r2
=============================================================================
