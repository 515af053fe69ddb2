--------------------------- MODULE MCTicketSync ---------------------------
(***************************************************************************)
(* Reports for TLC, made by the grouping of the server and the worker from *)
(* small sets of incidents on one object, host, and on svc, an object      *)
(* below it.  An incident is missing, active in one of the active states,  *)
(* or historical and cleared; active records carry their owner, historical *)
(* ones do not.  What the object store holds of svc varies between passes, *)
(* so the incidents on svc are grouped with those of the host or not.      *)
(* Where all are active SAYMON may change the opening time of b, from the  *)
(* minute of c's to that of a's, just after it: then b is the newest, and  *)
(* the statistics change of a and b but not of all three.                  *)
(***************************************************************************)
EXTENDS TicketSync, TrackedGroups

CONSTANTS
  a, b, c, d, host, svc,
  MovedIn,    \* the reports in which b has another opening time, if all are active
  OnHost,     \* those on the host; the others are on svc
  MayClear,   \* those that may be historical
  MayWorsen   \* those that may be critical

OpenedAt(i) == CASE i = a -> 9 [] i = b -> 7 [] i = c -> 5 [] i = d -> 1

MovedTo(i) == IF i = b THEN 10 ELSE OpenedAt(i)

Record(i, state, opened) ==
  LET entity == IF i \in OnHost THEN host ELSE svc
      owned  == ~ IsCleared(state)
  IN  [entity  |-> entity,
       owner   |-> IF owned THEN entity ELSE None,
       history |-> IsCleared(state),
       state   |-> state,
       opened  |-> opened,
       title   |-> IF entity = svc /\ owned THEN <<svc, host>> ELSE <<entity>>]

MCInstants == {OpenedAt(i) : i \in Incident} \cup {MovedTo(b)}

MCReports ==
  {[i \in ids |-> Record(i, state[i], OpenedAt(i))] :
     ids \in SUBSET Incident,
     state \in {st \in [Incident -> MemberState] :
                  \A i \in Incident : /\ IsCleared(st[i]) => i \in MayClear
                                      /\ st[i] = "critical" => i \in MayWorsen}}
  \cup {[i \in ids |-> Record(i, "warning", MovedTo(i))] : ids \in MovedIn}

HostNode == [class |-> "host", parents |-> <<>>]
SvcNode  == [class |-> "svc", parents |-> <<host>>]

MCNodes ==
  {[o \in {host} |-> HostNode],
   [o \in {host, svc} |-> IF o = host THEN HostNode ELSE SvcNode]}

PollOf(inc, nodes) ==
  LET order == NewestFirst(inc)
  IN  BuildTrackedGroups(ProcessedRows(order, inc, nodes), inc,
                         ComputeGrouping(order, inc, nodes))

MCPolls == {PollOf(inc, nodes) : inc \in MCReports, nodes \in MCNodes}

MCGroupKeys ==
  {<<"inc", i>> : i \in Incident} \cup
  {<<k, o>> : k \in {"owner", "synth"}, o \in {host, svc}}

MCHeads == Incident \cup {<<"synth", host>>}

MCTitles == {<<host>>, <<svc>>, <<svc, host>>}
=============================================================================
