--------------------------- MODULE TrackedGroups ---------------------------
(***************************************************************************)
(* The groups the worker makes of one report (worker/formatter.py): which  *)
(* rows are group heads, who their members are, and under which key the    *)
(* tickets know a group.                                                   *)
(*                                                                         *)
(* The rows of a report are the ids of the synthetic containers, then      *)
(* those of its incidents, newest first.  /process computes the containers *)
(* and the grouping separately, with awaits in between that may change     *)
(* what the object store holds, so the one need not fit the other.         *)
(*                                                                         *)
(* A group's heading is that of its head: for an incident the name of its  *)
(* object and, if the record carries its owner, of what is above it; for a *)
(* container the name of its object.                                       *)
(***************************************************************************)
EXTENDS Grouping

IsIncident(inc, row) == row \in DOMAIN inc

(***************************************************************************)
(* What a head shows: itself and its children, a container its children    *)
(* only; rows the report does not have are left out.                       *)
(***************************************************************************)
MemberRows(inc, grouping, head) ==
  Those(<<head>> \o Children(grouping, head), DOMAIN inc)

(* As it would be if the incidents no group shows were left out. *)
HeadSpecs(rows, inc, grouping) ==
  LET spec(row) == [head |-> row, members |-> MemberRows(inc, grouping, row)]
      heads == Those(rows, {row \in ToSet(rows) \ DOMAIN grouping.parent_of :
                              spec(row).members # <<>>})
  IN  [j \in DOMAIN heads |-> spec(heads[j])]

(***************************************************************************)
(* iter_group_specs: the rows without a parent head the groups, and every  *)
(* incident no group shows makes a group of its own.                       *)
(***************************************************************************)
IterGroupSpecs(rows, inc, grouping) ==
  LET spec(row) == [head |-> row, members |-> MemberRows(inc, grouping, row)]
      heads == Those(rows, {row \in ToSet(rows) \ DOMAIN grouping.parent_of :
                              spec(row).members # <<>>})
      shown == UNION {ToSet(spec(heads[j]).members) : j \in DOMAIN heads}
      rest  == Those(rows, DOMAIN inc \ shown)
  IN  [j \in DOMAIN heads |-> spec(heads[j])] \o
      [j \in DOMAIN rest |-> [head |-> rest[j], members |-> <<rest[j]>>]]

(***************************************************************************)
(* compute_group_key.                                                      *)
(***************************************************************************)
ComputeGroupKey(inc, spec) ==
  IF ~ IsIncident(inc, spec.head) THEN spec.head
  ELSE IF Len(spec.members) > 1 /\ ObjectId(inc[spec.head]) # None
       THEN <<"owner", ObjectId(inc[spec.head])>>
  ELSE <<"inc", spec.head>>

(***************************************************************************)
(* build_tracked_groups, without its active_only filter: the groups        *)
(* sync_tickets receives.                                                  *)
(***************************************************************************)
GroupTitle(inc, head) ==
  IF IsIncident(inc, head) THEN inc[head].title ELSE <<head[2]>>

TrackedGroup(inc, spec) ==
  [group_key |-> ComputeGroupKey(inc, spec),
   head      |-> spec.head,
   title     |-> GroupTitle(inc, spec.head),
   members   |-> [i \in ToSet(spec.members) |->
                    [state |-> inc[i].state, started |-> inc[i].opened]]]

BuildTrackedGroups(rows, inc, grouping) ==
  LET specs == IterGroupSpecs(rows, inc, grouping)
  IN  [j \in DOMAIN specs |-> TrackedGroup(inc, specs[j])]

(***************************************************************************)
(* The rows /process returns: the containers it finds, then the report.    *)
(***************************************************************************)
ProcessedRows(order, inc, nodes) ==
  LET containers == BuildSynthetic(order, inc, nodes)
  IN  [j \in DOMAIN containers |-> containers[j].head] \o order
=============================================================================
