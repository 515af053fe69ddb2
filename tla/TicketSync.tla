---------------------------- MODULE TicketSync ----------------------------
(***************************************************************************)
(* The passes of the worker over the tickets file: TicketStore.load at the *)
(* start of a pass, sync_tickets over the groups of one report, and        *)
(* TicketStore.save at its end (worker/tickets.py, worker/run.py).         *)
(*                                                                         *)
(* A pass reads the file into memory, matches every group of the report,   *)
(* in the order of the report, to an open ticket, sweeps the open tickets  *)
(* no group took, and replaces the file.  The process may die or an        *)
(* exception may end the pass at any point before the file is replaced.    *)
(***************************************************************************)
EXTENDS TicketStore, Sequences

CONSTANTS
  Polls,        \* the reports a pass may receive: sequences of groups
  MaxSeq,       \* bound: no ticket is numbered above it
  ReadMayFail   \* whether load may meet an OSError or a JSON error

ASSUME SyncAssumption ==
  /\ Polls \subseteq Seq(Group)
  /\ MaxSeq \in Nat
  /\ ReadMayFail \in BOOLEAN

VARIABLES
  file,      \* the tickets file
  data,      \* TicketStore._data of the pass
  poll,      \* all_groups, the report of the pass
  next,      \* position of the for loop over all_groups
  matched,   \* matched_ticket_ids
  events,    \* the ticket events of the pass, in order
  pc,        \* "idle", or "sync" while sync_tickets runs
  saved      \* history: the report of the last pass that was saved

vars == <<file, data, poll, next, matched, events, pc, saved>>

Event ==
  [action       : {"created", "updated", "closed"},
   ticket_id    : TicketId,
   close_reason : CloseReasons \cup {"none"}]

(***************************************************************************)
(* Every incident a report returned is a member of one of its groups, so   *)
(* incidents_by_id is the union of their members.                          *)
(***************************************************************************)
Groups(p) == {p[j] : j \in DOMAIN p}

Reported(p) == UNION {DOMAIN g.members : g \in Groups(p)}

ClearedIn(p, i) ==
  \A g \in Groups(p) : i \in DOMAIN g.members => IsCleared(g.members[i].state)

ActiveGroups(p) == {g \in Groups(p) : ~ AllCleared(g.members)}

(***************************************************************************)
(* _close_reason for a ticket no group of the report took.                 *)
(***************************************************************************)
CloseReason(ticket, p) ==
  LET ids == DOMAIN ticket.members
  IN  IF ~ (ids \subseteq Reported(p))        THEN "removed"
      ELSE IF \A i \in ids : ClearedIn(p, i)  THEN "all_cleared"
      ELSE "group_changed"

-----------------------------------------------------------------------------
Idle ==
  /\ data = EmptyStore
  /\ poll = <<>>
  /\ next = 1
  /\ matched = {}
  /\ events = <<>>
  /\ pc = "idle"

Init ==
  /\ file = EmptyStore
  /\ saved = <<>>
  /\ Idle

(***************************************************************************)
(* What load leaves in memory.  A file that cannot be read or parsed is    *)
(* logged and taken for an empty one.                                      *)
(***************************************************************************)
Loaded == {file} \cup (IF ReadMayFail THEN {EmptyStore} ELSE {})

BeginPass(p) ==
  /\ pc = "idle"
  /\ data' \in Loaded
  /\ poll' = p
  /\ pc' = "sync"
  /\ UNCHANGED <<file, next, matched, events, saved>>

Matching == pc = "sync" /\ next <= Len(poll)

Emit(action, t, reason) ==
  events' = Append(events, [action       |-> action,
                            ticket_id    |-> t,
                            close_reason |-> reason])

TakeGroup ==
  /\ next' = next + 1
  /\ UNCHANGED <<file, poll, pc, saved>>

(***************************************************************************)
(* A group whose members are all cleared closes the ticket it matches.     *)
(***************************************************************************)
CloseCleared ==
  /\ Matching
  /\ AllCleared(poll[next].members)
  /\ \E t \in Match(data, poll[next]) :
       /\ data' = Close(data, t, "all_cleared")
       /\ matched' = matched \cup {t}
       /\ Emit("closed", t, "all_cleared")
  /\ TakeGroup

SkipCleared ==
  /\ Matching
  /\ AllCleared(poll[next].members)
  /\ Match(data, poll[next]) = {}
  /\ TakeGroup
  /\ UNCHANGED <<data, matched, events>>

(* As it would be if a new ticket were not counted as matched. *)
CreateUnmatched ==
  /\ Matching
  /\ ~ AllCleared(poll[next].members)
  /\ Match(data, poll[next]) = {}
  /\ data.next_seq <= MaxSeq
  /\ data' = Create(data, poll[next])
  /\ Emit("created", data.next_seq, "none")
  /\ TakeGroup
  /\ UNCHANGED matched

CreateTicket ==
  /\ Matching
  /\ ~ AllCleared(poll[next].members)
  /\ Match(data, poll[next]) = {}
  /\ data.next_seq <= MaxSeq
  /\ data' = Create(data, poll[next])
  /\ matched' = matched \cup {data.next_seq}
  /\ Emit("created", data.next_seq, "none")
  /\ TakeGroup

UpdateTicket ==
  /\ Matching
  /\ ~ AllCleared(poll[next].members)
  /\ \E t \in Match(data, poll[next]) :
       /\ Differs(data.tickets[t], poll[next])
       /\ data' = Update(data, t, poll[next])
       /\ matched' = matched \cup {t}
       /\ Emit("updated", t, "none")
  /\ TakeGroup

KeepTicket ==
  /\ Matching
  /\ ~ AllCleared(poll[next].members)
  /\ \E t \in Match(data, poll[next]) :
       /\ ~ Differs(data.tickets[t], poll[next])
       /\ matched' = matched \cup {t}
  /\ TakeGroup
  /\ UNCHANGED <<data, events>>

-----------------------------------------------------------------------------
(***************************************************************************)
(* The open tickets no group took are closed in the order of the file.     *)
(***************************************************************************)
Unmatched == OpenTickets(data) \ matched

Sweeping == pc = "sync" /\ next > Len(poll)

SweepTicket ==
  /\ Sweeping
  /\ \E t \in Unmatched :
       /\ \A u \in Unmatched : t <= u
       /\ LET reason == CloseReason(data.tickets[t], poll)
          IN  /\ data' = Close(data, t, reason)
              /\ Emit("closed", t, reason)
  /\ UNCHANGED <<file, poll, next, matched, pc, saved>>

(***************************************************************************)
(* save writes a temporary file and renames it over the tickets file.      *)
(***************************************************************************)
ReadyToSave == Sweeping /\ Unmatched = {}

(* As it would be if the position in the report were kept. *)
ResetButNext ==
  /\ data' = EmptyStore
  /\ poll' = <<>>
  /\ matched' = {}
  /\ events' = <<>>
  /\ pc' = "idle"
  /\ UNCHANGED next

Reset ==
  /\ data' = EmptyStore
  /\ poll' = <<>>
  /\ next' = 1
  /\ matched' = {}
  /\ events' = <<>>
  /\ pc' = "idle"

Save ==
  /\ ReadyToSave
  /\ file' = data
  /\ saved' = poll
  /\ Reset

(***************************************************************************)
(* The process is killed, or an exception (save's included) leaves the     *)
(* pass: run_loop logs it and the next pass builds a new TicketStore.      *)
(***************************************************************************)
AbortPass ==
  /\ pc = "sync"
  /\ Reset
  /\ UNCHANGED <<file, saved>>

Next ==
  \/ \E p \in Polls : BeginPass(p)
  \/ CloseCleared
  \/ SkipCleared
  \/ CreateTicket
  \/ UpdateTicket
  \/ KeepTicket
  \/ SweepTicket
  \/ Save
  \/ AbortPass

Spec == Init /\ [][Next]_vars

-----------------------------------------------------------------------------
(***************************************************************************)
(* Properties.                                                             *)
(***************************************************************************)

(* The variables hold what the code's objects can hold. *)
TypeOK ==
  /\ IsStore(file)
  /\ IsStore(data)
  /\ poll \in Seq(Group)
  /\ next \in 1..(Len(poll) + 1)
  /\ matched \subseteq TicketId
  /\ events \in Seq(Event)
  /\ pc \in {"idle", "sync"}
  /\ saved \in Seq(Group)

(***************************************************************************)
(* The reports group_keys and members tell apart.  Grouping gives each     *)
(* incident one group; that no two groups have one key is up to the keys   *)
(* (see TrackedGroups).                                                    *)
(***************************************************************************)
WellFormed(p) ==
  \A j, k \in DOMAIN p : j # k =>
    /\ p[j].group_key # p[k].group_key
    /\ DOMAIN p[j].members \cap DOMAIN p[k].members = {}

(* The index of a store maps the key of every open ticket to it, and only these. *)
IndexExact(s) ==
  /\ \A t \in OpenTickets(s) :
       /\ s.tickets[t].group_key \in DOMAIN s.open_by_group_key
       /\ s.open_by_group_key[s.tickets[t].group_key] = t
  /\ \A k \in DOMAIN s.open_by_group_key :
       /\ s.open_by_group_key[k] \in OpenTickets(s)
       /\ s.tickets[s.open_by_group_key[k]].group_key = k

(***************************************************************************)
(* open_by_group_key is exactly the index of the open tickets by their     *)
(* key, in the file and in memory at every step of a pass: so no two open  *)
(* tickets ever have one key, and get_open_by_key never meets a stale      *)
(* entry, whatever the reports are.                                        *)
(***************************************************************************)
OpenIndexExact == IndexExact(file) /\ IndexExact(data)

(***************************************************************************)
(* What a ticket, or a group of a report, shows of its content: all that   *)
(* diff_snapshots compares.  The head and the opening times between the    *)
(* first and the last are not part of it: a ticket may go on showing those *)
(* of an earlier pass.                                                     *)
(***************************************************************************)
StatesOf(members) == [i \in DOMAIN members |-> members[i].state]

Content(x) ==
  [title  |-> x.title,
   states |-> StatesOf(x.members),
   stats  |-> StatsLine(x.members)]

Shows(x) == [group_key |-> x.group_key, content |-> Content(x)]

TrackedIn(s) == {Shows(s.tickets[t]) : t \in OpenTickets(s)}

ToTrack(p) == {Shows(g) : g \in ActiveGroups(p)}

(***************************************************************************)
(* After every pass the open tickets of the file are the active groups of  *)
(* its report, with the key, the title, the members with their states and  *)
(* the first and last opening minute of each: no active group is lost,     *)
(* none is tracked twice, nothing else stays open.                         *)
(***************************************************************************)
FileReflectsReport == TrackedIn(file) = ToTrack(saved)

EventsOn(t) == {j \in DOMAIN events : events[j].ticket_id = t}

Difference(t) ==
  IF t \notin DOMAIN file.tickets                  THEN "created"
  ELSE IF data.tickets[t] = file.tickets[t]        THEN "none"
  ELSE IF data.tickets[t].status = "closed"        THEN "closed"
  ELSE                                                  "updated"

ToldOf(t) ==
  IF Difference(t) = "none" THEN EventsOn(t) = {}
  ELSE \E j \in DOMAIN events : EventsOn(t) = {j} /\ events[j].action = Difference(t)

(***************************************************************************)
(* The events a pass hands to the handlers are the difference between the  *)
(* file it read and the file it is about to write: one event, of the right *)
(* kind, for every ticket that is new, changed or closed, none for others. *)
(***************************************************************************)
EventsTellTheDifference ==
  ReadyToSave => /\ DOMAIN file.tickets \subseteq DOMAIN data.tickets
                 /\ \A t \in DOMAIN data.tickets : ToldOf(t)

(***************************************************************************)
(* A pass over the report the file already reflects has nothing to say:    *)
(* the second poll of test_ticket_create_update_close, for every report.   *)
(***************************************************************************)
Quiescent == ReadyToSave /\ poll = saved => events = <<>> /\ data = file

(***************************************************************************)
(* A closed ticket is never changed or reopened and no ticket record is    *)
(* ever lost, so no number is given out twice.                             *)
(***************************************************************************)
ClosedForever ==
  [][\A t \in DOMAIN file.tickets :
       /\ t \in DOMAIN file'.tickets
       /\ file.tickets[t].status = "closed" => file'.tickets[t] = file.tickets[t]]_vars

(***************************************************************************)
(* The README promises one open record for one logical group: whatever the *)
(* report of the last saved pass, each of its active groups has its ticket *)
(* in the file.                                                            *)
(***************************************************************************)
ActiveGroupsTracked == ToTrack(saved) \subseteq TrackedIn(file)

-----------------------------------------------------------------------------
(***************************************************************************)
(* The file implements TicketLifecycle.                                    *)
(***************************************************************************)
Tracked(p) ==
  [k \in {g.group_key : g \in ActiveGroups(p)} |->
     Content(CHOOSE g \in ActiveGroups(p) : g.group_key = k)]

TrackedReports == {Tracked(p) : p \in Polls}

OpenByKey(s) ==
  [k \in DOMAIN s.open_by_group_key |->
     [ticket  |-> s.open_by_group_key[k],
      content |-> Content(s.tickets[s.open_by_group_key[k]])]]

Retired(s) == DOMAIN s.tickets \ OpenTickets(s)

Lifecycle ==
  INSTANCE TicketLifecycle WITH
    Reports <- TrackedReports,
    open    <- OpenByKey(file),
    retired <- Retired(file)

(***************************************************************************)
(* Every pass that is saved is one step of the lifecycle, every other step *)
(* of the worker none.                                                     *)
(***************************************************************************)
ImplementsLifecycle == Lifecycle!Spec
=============================================================================
