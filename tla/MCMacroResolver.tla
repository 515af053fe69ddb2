-------------------------- MODULE MCMacroResolver --------------------------
(***************************************************************************)
(* Instances of MacroResolver for TLC: two requests, and incidents on an   *)
(* object, on the one above it, or on both; the chain of the first reaches *)
(* beyond the depth, or is cut short.                                      *)
(***************************************************************************)
EXTENDS MacroResolver, TLC

CONSTANTS r1, r2, svc, mid, host, v

MCChains ==
  (svc :> {<<svc, mid, host>>, <<svc, mid>>}) @@ (mid :> {<<mid, host>>}) @@ (host :> {<<>>})

MCReports == {<<svc, mid>>, <<mid>>}

Symmetry == Permutations(Request)
=============================================================================
