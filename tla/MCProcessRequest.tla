-------------------------- MODULE MCProcessRequest --------------------------
(***************************************************************************)
(* Instances of ProcessRequest for TLC: two requests that read an endpoint *)
(* in one page, or one that reads several pages up to a limit; and two     *)
(* incidents on svc, two on mid above it, and one on host above mid.       *)
(***************************************************************************)
EXTENDS ProcessRequest

CONSTANTS a, b, c, d, e, svc, mid, host, r1, r2

MCEntityOf ==
  [i \in Incident |-> CASE i \in {a, d} -> svc [] i \in {b, e} -> mid [] i = c -> host]

MCTopology ==
  [o \in {svc, mid, host} |->
     CASE o = svc  -> [class |-> "service", parents |-> <<mid>>]
       [] o = mid  -> [class |-> "router", parents |-> <<host>>]
       [] o = host -> [class |-> "host", parents |-> <<>>]]

OrderBACE == <<b, a, c, e>>
OrderABD  == <<a, b, d>>

Requests == Permutations(Request)
=============================================================================
