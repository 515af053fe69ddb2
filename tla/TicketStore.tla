---------------------------- MODULE TicketStore ----------------------------
(***************************************************************************)
(* The tickets file of worker/tickets.py as a value: what one group of a   *)
(* report is, what one ticket record is, and what every method of the      *)
(* class TicketStore computes from a store.  Tickets are numbered by the   *)
(* sequence number their id T-%06d prints.                                 *)
(*                                                                         *)
(* Of a member, the state stands for its status, label, closing time,      *)
(* text, object and responsible party, and started for its opening time; a *)
(* Title stands for the rendered heading of the group.  The statistics and *)
(* responsible lines of a snapshot are functions of the members and are    *)
(* not stored here; the order of member_ids, which no code here reads, is  *)
(* left out.                                                               *)
(***************************************************************************)
EXTENDS Naturals, FiniteSets, FiniteSetsExt

CONSTANTS
  Incident,       \* ids of SAYMON incidents
  MemberState,    \* what is recorded of one incident beside its opening time
  ClearedState,   \* the member states is_cleared_incident accepts
  GroupKey,       \* identities compute_group_key can return
  GroupHead,      \* ids of the rows that can head a group
  Title,          \* rendered headings of groups
  Instant,        \* opening times, as numbers
  Minute          \* what of an opening time its rendering does not show

ASSUME StoreAssumption ==
  /\ IsFiniteSet(Incident)
  /\ ClearedState \subseteq MemberState
  /\ Instant \subseteq Nat
  /\ Minute \in Nat \ {0}

TicketId == Nat \ {0}

(***************************************************************************)
(* A snapshot maps the ids of a group's members, of which there is at      *)
(* least one, to what is recorded of each.                                 *)
(***************************************************************************)
Member == [state : MemberState, started : Instant]

Snapshot == UNION {[ids -> Member] : ids \in (SUBSET Incident) \ {{}}}

Group == [group_key : GroupKey, head : GroupHead, title : Title, members : Snapshot]

CloseReasons == {"all_cleared", "removed", "group_changed"}

Ticket ==
  [group_key    : GroupKey,
   status       : {"open", "closed"},
   close_reason : CloseReasons \cup {"none"},
   head         : GroupHead,
   title        : Title,
   members      : Snapshot]

IsCleared(state) == state \in ClearedState

AllCleared(members) == \A i \in DOMAIN members : IsCleared(members[i].state)

(***************************************************************************)
(* The statistics line: how many members there are, and when the first and *)
(* the last of them were opened, to the minute.                            *)
(***************************************************************************)
StatsLine(members) ==
  LET opened == {members[i].started : i \in DOMAIN members}
  IN  [first |-> Min(opened) \div Minute,
       last  |-> Max(opened) \div Minute,
       count |-> Cardinality(DOMAIN members)]

-----------------------------------------------------------------------------
(***************************************************************************)
(* Dictionaries.                                                           *)
(***************************************************************************)
Put(f, k, v) == [x \in DOMAIN f \cup {k} |-> IF x = k THEN v ELSE f[x]]

Without(f, k) == [x \in DOMAIN f \ {k} |-> f[x]]

EmptyDict == [x \in {} |-> x]

(***************************************************************************)
(* A store is the JSON object TicketStore._data holds.                     *)
(***************************************************************************)
Store(next_seq, tickets, open_by_group_key) ==
  [next_seq          |-> next_seq,
   tickets           |-> tickets,
   open_by_group_key |-> open_by_group_key]

EmptyStore == Store(1, EmptyDict, EmptyDict)

IsStore(s) ==
  /\ s = Store(s.next_seq, s.tickets, s.open_by_group_key)
  /\ s.next_seq \in TicketId
  /\ DOMAIN s.tickets \subseteq TicketId
  /\ s.tickets \in [DOMAIN s.tickets -> Ticket]
  /\ DOMAIN s.open_by_group_key \subseteq GroupKey
  /\ s.open_by_group_key \in [DOMAIN s.open_by_group_key -> TicketId]

-----------------------------------------------------------------------------
(* As it would be if closed tickets were still matched. *)
EveryTicket(s) == DOMAIN s.tickets

(***************************************************************************)
(* Looking a group up.  Both lookups return the set of the tickets they    *)
(* select, which has at most one element: None is the empty set.           *)
(***************************************************************************)
OpenTickets(s) == {t \in DOMAIN s.tickets : s.tickets[t].status = "open"}

GetOpenByKey(s, key) ==
  {t \in OpenTickets(s) : /\ key \in DOMAIN s.open_by_group_key
                          /\ s.open_by_group_key[key] = t}

Shared(s, t, ids) == ids \cap DOMAIN s.tickets[t].members
Joint(s, t, ids)  == ids \cup DOMAIN s.tickets[t].members

(***************************************************************************)
(* The overlap score |a & b| / |a | b| of ticket t is compared without     *)
(* division.  The loop over open_tickets replaces its best candidate only  *)
(* by a strictly better one, so of two equal scores the ticket that comes  *)
(* first in the file, the older one, wins.                                 *)
(***************************************************************************)
ScoreLess(s, t, u, ids) ==
  Cardinality(Shared(s, t, ids)) * Cardinality(Joint(s, u, ids))
    < Cardinality(Shared(s, u, ids)) * Cardinality(Joint(s, t, ids))

FindOpenByOverlap(s, ids) ==
  {t \in OpenTickets(s) :
     /\ Shared(s, t, ids) # {}
     /\ 2 * Cardinality(Shared(s, t, ids)) >= Cardinality(Joint(s, t, ids))
     /\ \A u \in OpenTickets(s) \ {t} :
          \/ ScoreLess(s, u, t, ids)
          \/ t < u /\ ~ ScoreLess(s, t, u, ids)}

(***************************************************************************)
(* The ticket sync_tickets takes for a group: the open one with its key,   *)
(* else the open one that shares most members with it.                     *)
(***************************************************************************)
Match(s, g) ==
  IF GetOpenByKey(s, g.group_key) # {}
  THEN GetOpenByKey(s, g.group_key)
  ELSE FindOpenByOverlap(s, DOMAIN g.members)

-----------------------------------------------------------------------------
(***************************************************************************)
(* Changing the store.                                                     *)
(***************************************************************************)
OpenTicket(g) ==
  [group_key    |-> g.group_key,
   status       |-> "open",
   close_reason |-> "none",
   head         |-> g.head,
   title        |-> g.title,
   members      |-> g.members]

(* As it would be if a number were not used up. *)
CreateSameNumber(s, g) ==
  Store(s.next_seq,
        Put(s.tickets, s.next_seq, OpenTicket(g)),
        Put(s.open_by_group_key, g.group_key, s.next_seq))

Create(s, g) ==
  Store(s.next_seq + 1,
        Put(s.tickets, s.next_seq, OpenTicket(g)),
        Put(s.open_by_group_key, g.group_key, s.next_seq))

(* As it would be if the entry were forgotten there. *)
KeepIndexed(s, key, t) == s.open_by_group_key

(***************************************************************************)
(* The index entry of key, when it is t's, is popped.                      *)
(***************************************************************************)
Unindex(s, key, t) ==
  IF key \in DOMAIN s.open_by_group_key /\ s.open_by_group_key[key] = t
  THEN Without(s.open_by_group_key, key)
  ELSE s.open_by_group_key

Update(s, t, g) ==
  LET old_key == s.tickets[t].group_key
      index   == IF old_key # g.group_key
                 THEN Unindex(s, old_key, t)
                 ELSE s.open_by_group_key
  IN  Store(s.next_seq,
            [s.tickets EXCEPT ![t] = [@ EXCEPT !.group_key = g.group_key,
                                               !.head      = g.head,
                                               !.title     = g.title,
                                               !.members   = g.members]],
            Put(index, g.group_key, t))

Close(s, t, reason) ==
  Store(s.next_seq,
        [s.tickets EXCEPT ![t] = [@ EXCEPT !.status       = "closed",
                                           !.close_reason = reason]],
        Unindex(s, s.tickets[t].group_key, t))

(***************************************************************************)
(* diff_snapshots compares who the members are, what is recorded of each   *)
(* beside its opening time, the heading and the statistics line; the       *)
(* responsible line differs only if a member's responsible party does.  It *)
(* compares neither head_id nor started_at: opening times show only as the *)
(* first and the last minute of the statistics.  A new group_key counts as *)
(* a change too.                                                           *)
(***************************************************************************)
StateDiffers(old, new) ==
  \E i \in DOMAIN old \cap DOMAIN new : old[i].state # new[i].state

(* As it would be if the statistics were not compared. *)
DiffersButStats(ticket, g) ==
  \/ DOMAIN ticket.members # DOMAIN g.members
  \/ StateDiffers(ticket.members, g.members)
  \/ ticket.title # g.title
  \/ ticket.group_key # g.group_key

(* As it would be if every matched ticket were rewritten. *)
AlwaysDiffers(ticket, g) == TRUE

Differs(ticket, g) ==
  \/ DOMAIN ticket.members # DOMAIN g.members
  \/ StateDiffers(ticket.members, g.members)
  \/ StatsLine(ticket.members) # StatsLine(g.members)
  \/ ticket.title # g.title
  \/ ticket.group_key # g.group_key
=============================================================================
