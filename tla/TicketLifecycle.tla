-------------------------- MODULE TicketLifecycle --------------------------
(***************************************************************************)
(* What the tickets file promises its readers, without how sync_tickets    *)
(* brings it about: a pass takes effect at once or not at all; after it    *)
(* there is exactly one open ticket for every active group of the report,  *)
(* with that group's content; a group keeps a ticket that was open or gets *)
(* a new number; and a ticket that is retired stays retired, its number is *)
(* never given out again.  Content is what a reader can rely on being that *)
(* of the last pass: it leaves out what sync_tickets does not keep up.     *)
(***************************************************************************)
EXTENDS Naturals

CONSTANT Reports   \* functions from the keys of active groups to contents

VARIABLES
  open,      \* key of a tracked group -> [ticket, content]
  retired    \* the numbers of the closed tickets

Numbers(tracked) == {tracked[k].ticket : k \in DOMAIN tracked}

Issued == Numbers(open) \cup retired

Init ==
  /\ DOMAIN open = {}
  /\ retired = {}

(***************************************************************************)
(* The result of a pass over a report with the active groups r.            *)
(***************************************************************************)
Tracks(r) ==
  /\ DOMAIN open' = DOMAIN r
  /\ \A k \in DOMAIN r : open'[k].content = r[k]
  /\ \A k, l \in DOMAIN r : open'[k].ticket = open'[l].ticket => k = l

KeepsOrNumbers ==
  \A n \in Numbers(open') :
    \/ n \in Numbers(open)
    \/ \A m \in Issued : m < n

Retires == retired' = retired \cup (Numbers(open) \ Numbers(open'))

Pass(r) == Tracks(r) /\ KeepsOrNumbers /\ Retires

Next == \E r \in Reports : Pass(r)

Spec == Init /\ [][Next]_<<open, retired>>
=============================================================================
