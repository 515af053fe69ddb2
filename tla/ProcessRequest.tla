--------------------------- MODULE ProcessRequest ---------------------------
(***************************************************************************)
(* POST /process (api/app.py, services/processor.py): requests that share  *)
(* one processor, and with it one object store, run as coroutines of one   *)
(* event loop.  A request reads the active incidents and then the history, *)
(* page by page, seeds the store with the owners of what it read, computes *)
(* the grouping, computes the synthetic containers once more for its rows, *)
(* and completes the store with what the macros and the titles need.       *)
(* Other requests run, and SAYMON's lists change, wherever it waits for an *)
(* answer.                                                                 *)
(*                                                                         *)
(* The incidents are not cached (CACHE_TTL_INCIDENTS_SEC = 0).             *)
(***************************************************************************)
EXTENDS TrackedGroups, ObjectStore

CONSTANTS
  Request,     \* requests that may be under way at once
  Incident,    \* ids of incidents
  EntityOf,    \* the object of each incident
  NewestOrder, \* the incidents, newest first
  FetchLimit,  \* FETCH_LIMIT
  HistoryLimit,\* HISTORY_LIMIT
  PageSize     \* FETCH_PAGE_SIZE

ASSUME NewestOrderAssumption ==
  /\ NewestOrder \in Seq(Incident)
  /\ IsInjective(NewestOrder)
  /\ ToSet(NewestOrder) = Incident

ASSUME EntityAssumption == EntityOf \in [Incident -> DOMAIN Topology]

ASSUME LimitAssumption ==
  FetchLimit \in Nat \ {0} /\ HistoryLimit \in Nat \ {0} /\ PageSize \in Nat \ {0}

VARIABLES
  listed,    \* SAYMON: the incidents as /incidents and /incident-history list them
  objects,   \* ObjectStore._objects
  loop,      \* the request whose coroutine is running on, or None
  req        \* what each request holds

vars == <<listed, objects, loop, req>>

Endpoints == {"active", "history"}

(***************************************************************************)
(* The two endpoints.  Only /incidents is asked for owner data.            *)
(***************************************************************************)
Present == ToSet(listed["active"]) \cup ToSet(listed["history"])

Record(i, endpoint) ==
  [entity  |-> EntityOf[i],
   owner   |-> IF endpoint = "active" THEN EntityOf[i] ELSE None,
   history |-> endpoint = "history",
   state   |-> endpoint]

Records(ids, endpoint) == [i \in ToSet(ids) |-> Record(i, endpoint)]

(* As it would be if the history were read first. *)
HistoryFirst == <<"history", "active">>

FetchOrder == <<"active", "history">>

(***************************************************************************)
(* What a request asks of an endpoint when it has got some records of it   *)
(* (SaymonClient tells the paging in detail): the next page by offset, of  *)
(* what the list is then, and no more than the limit leaves.  A short page *)
(* is the last.                                                            *)
(***************************************************************************)
Lesser(m, n) == IF m <= n THEN m ELSE n

Limit(endpoint) == IF endpoint = "active" THEN FetchLimit ELSE HistoryLimit

BatchLimit(endpoint, got) == Lesser(PageSize, Limit(endpoint) - Len(got))

Page(endpoint, got) ==
  SubSeq(listed[endpoint], Len(got) + 1,
         Lesser(Len(got) + BatchLimit(endpoint, got), Len(listed[endpoint])))

WithPage(endpoint, got) == got \o Page(endpoint, got)

IsLast(endpoint, got) ==
  \/ Len(Page(endpoint, got)) < BatchLimit(endpoint, got)
  \/ Len(WithPage(endpoint, got)) >= Limit(endpoint)

IdleRequest ==
  [pc       |-> "idle",
   due      |-> {},          \* history: the incidents the report has to show
   shifted  |-> {},          \* history: those a clearing has moved forward
   got      |-> <<>>,        \* the pages of the endpoint that is being read
   first    |-> <<>>,        \* what the first endpoint returned
   inc      |-> NoEntries,   \* the report
   grouping |-> NoGrouping,
   naming   |-> {},          \* the containers whose names it waits for
   rows     |-> <<>>]

(* SAYMON's first incidents are those raised before the first request. *)
Init ==
  /\ listed = [endpoint \in Endpoints |-> <<>>]
  /\ objects = NoEntries
  /\ loop = None
  /\ req = [r \in Request |-> IdleRequest]

-----------------------------------------------------------------------------
(***************************************************************************)
(* SAYMON: an incident is raised, or is cleared and moves to the history.  *)
(* At which place of a list a new entry comes is not known.                *)
(***************************************************************************)
Raise(i) ==
  /\ i \notin Present
  /\ \E p \in 1..(Len(listed["active"]) + 1) :
       listed' = [listed EXCEPT !["active"] = InsertAt(@, p, i)]
  /\ UNCHANGED <<objects, loop, req>>

(* Those behind it move forward under the offset of a read under way. *)
Clear(p) ==
  LET active == listed["active"]
  IN  /\ p \in DOMAIN active
      /\ \E q \in 1..(Len(listed["history"]) + 1) :
           listed' = [listed EXCEPT !["active"]  = RemoveAt(@, p),
                                    !["history"] = InsertAt(@, q, active[p])]
      /\ req' = [r \in Request |->
                   IF req[r].pc = "first"
                   THEN [req[r] EXCEPT !.shifted =
                           @ \cup {active[m] : m \in {n \in DOMAIN active : n > p}}]
                   ELSE req[r]]
      /\ UNCHANGED <<objects, loop>>

-----------------------------------------------------------------------------
(***************************************************************************)
(* A coroutine runs on until it waits; then any other may run.             *)
(***************************************************************************)
Runs(r, pc) == loop \in {None, r} /\ req[r].pc = pc

Order(r) == Those(NewestOrder, DOMAIN req[r].inc)

Containers(r) == BuildSynthetic(Order(r), req[r].inc, PeekNodes(objects))

(* As it would be if the rows of the containers were taken for objects. *)
ContainerRows(r) == {group.head : group \in ToSet(Containers(r))}

ContainerObjects(r) ==
  LET heads == {group.head : group \in ToSet(Containers(r))}
  IN  {o \in DOMAIN Topology : SyntheticId(o) \in heads}

(***************************************************************************)
(* What the report has to show: all there was at the first page, but for   *)
(* incidents in /incidents that were moved forward or stand beyond the     *)
(* limit when the last page of it is read, and for those in the history    *)
(* that stand beyond the limit of that.                                    *)
(***************************************************************************)
Beyond(endpoint) ==
  {listed[endpoint][p] : p \in {n \in DOMAIN listed[endpoint] : n > Limit(endpoint)}}

DueAfterFirst(due, shifted) ==
  due \ ((shifted \cup Beyond("active")) \ ToSet(listed["history"]))

(* A page of the first endpoint. *)
ReadFirst(r) ==
  LET x        == req[r]
      endpoint == FetchOrder[1]
      got      == WithPage(endpoint, x.got)
      due      == IF x.pc = "idle" THEN Present ELSE x.due
  IN  /\ Runs(r, "idle") \/ Runs(r, "first")
      /\ req' = [req EXCEPT ![r] =
                   IF IsLast(endpoint, x.got)
                   THEN [x EXCEPT !.pc      = "second",
                                  !.due     = DueAfterFirst(due, x.shifted),
                                  !.shifted = {},
                                  !.got     = <<>>,
                                  !.first   = got]
                   ELSE [x EXCEPT !.pc = "first", !.due = due, !.got = got]]
      /\ loop' = None
      /\ UNCHANGED <<listed, objects>>

(***************************************************************************)
(* A page of the second.  With the last one both reads are merged and the  *)
(* store is seeded, in the order of the records.  compute_grouping waits   *)
(* first if the class ids are not known yet.                               *)
(***************************************************************************)
ReadSecond(r) ==
  /\ Runs(r, "second")
  /\ ~ IsLast(FetchOrder[2], req[r].got)
  /\ req' = [req EXCEPT ![r].got = WithPage(FetchOrder[2], @)]
  /\ loop' = None
  /\ UNCHANGED <<listed, objects>>

FinishReading(r) ==
  LET second == WithPage(FetchOrder[2], req[r].got)
      active == IF FetchOrder[1] = "active" THEN req[r].first ELSE second
      past   == IF FetchOrder[1] = "active" THEN second ELSE req[r].first
  IN  /\ Runs(r, "second")
      /\ IsLast(FetchOrder[2], req[r].got)
      /\ req' = [req EXCEPT ![r].pc    = "fetched",
                            ![r].due   = @ \ Beyond("history"),
                            ![r].got   = <<>>,
                            ![r].first = <<>>,
                            ![r].inc   = MergeActiveAndHistory(Records(active, "active"),
                                                               Records(past, "history"))]
      /\ objects' = SeedOwners(objects, Records(active, "active"), active)
      /\ loop' \in {r, None}
      /\ UNCHANGED listed

(***************************************************************************)
(* compute_grouping.  It waits for names only if there are containers.     *)
(***************************************************************************)
GroupReport(r) ==
  /\ Runs(r, "fetched")
  /\ req' = [req EXCEPT ![r].pc       = "grouped",
                        ![r].due      = {},
                        ![r].grouping = ComputeGrouping(Order(r), req[r].inc,
                                                        PeekNodes(objects)),
                        ![r].naming   = ContainerObjects(r)]
  /\ loop' = IF Containers(r) = <<>> THEN r ELSE None
  /\ UNCHANGED <<listed, objects>>

FindContainers(r) ==
  /\ Runs(r, "grouped")
  /\ Unnamed(objects, req[r].naming) = {}
  /\ req' = [req EXCEPT ![r].pc     = "found",
                        ![r].naming = ContainerObjects(r),
                        ![r].rows   = ProcessedRows(Order(r), req[r].inc,
                                                    PeekNodes(objects))]
  /\ loop' = None
  /\ UNCHANGED <<listed, objects>>

(***************************************************************************)
(* The objects a request fetches: those the macros need the parents of,    *)
(* and those that are shown, with the only parent of an owner.             *)
(***************************************************************************)
OnlyParent(o) == IF Len(Topology[o].parents) = 1 THEN ToSet(Topology[o].parents) ELSE {}

Shown(r) ==
  LET inc == req[r].inc
  IN  {ObjectId(inc[i]) : i \in DOMAIN inc}
        \cup UNION {OnlyParent(inc[i].owner) : i \in {x \in DOMAIN inc : inc[x].owner # None}}

Wanted(r) ==
  Unnamed(objects, req[r].naming) \cup
  IF req[r].pc # "found" THEN {}
  ELSE Unnamed(objects, Shown(r)) \cup
       UNION {MissingAbove(objects, ObjectId(req[r].inc[i])) : i \in DOMAIN req[r].inc}

FetchObject(r) ==
  /\ loop \in {None, r}
  /\ \E o \in Wanted(r) : objects' = UpsertFromApi(objects, o)
  /\ loop' = None
  /\ UNCHANGED <<listed, req>>

(***************************************************************************)
(* The response is sent, that of POST /grouping without looking for the    *)
(* containers again; or an exception ends the request.                     *)
(***************************************************************************)
Respond(r) ==
  /\ Runs(r, "grouped") \/ Runs(r, "found")
  /\ Wanted(r) = {}
  /\ req' = [req EXCEPT ![r] = IdleRequest]
  /\ loop' = None
  /\ UNCHANGED <<listed, objects>>

Fail(r) ==
  /\ loop = None
  /\ req[r].pc # "idle"
  /\ req' = [req EXCEPT ![r] = IdleRequest]
  /\ UNCHANGED <<listed, objects, loop>>

Next ==
  \/ \E i \in Incident : Raise(i)
  \/ \E p \in DOMAIN listed["active"] : Clear(p)
  \/ \E r \in Request :
       \/ ReadFirst(r)
       \/ ReadSecond(r)
       \/ FinishReading(r)
       \/ GroupReport(r)
       \/ FindContainers(r)
       \/ FetchObject(r)
       \/ Respond(r)
       \/ Fail(r)

Spec == Init /\ [][Next]_vars

-----------------------------------------------------------------------------
(***************************************************************************)
(* Properties.                                                             *)
(***************************************************************************)

Grouped(r) == req[r].pc \in {"grouped", "found"}

Specs(r) == IterGroupSpecs(req[r].rows, req[r].inc, req[r].grouping)

(* The variables hold what the code's objects can hold. *)
TypeOK ==
  /\ listed \in [Endpoints -> Seq(Incident)]
  /\ DOMAIN objects \subseteq DOMAIN Topology
  /\ loop \in Request \cup {None}
  /\ \A r \in Request :
       /\ req[r].pc \in {"idle", "first", "second", "fetched", "grouped", "found"}
       /\ DOMAIN req[r].inc \cup req[r].due \cup req[r].shifted \subseteq Incident
       /\ req[r].got \in Seq(Incident) /\ req[r].first \in Seq(Incident)
       /\ req[r].naming \subseteq DOMAIN Topology

(***************************************************************************)
(* An incident that is cleared while the endpoints are being read is not   *)
(* missed, nor is one that stays where it is.  The report shows every      *)
(* incident there was at the first page, but for those an endpoint lists   *)
(* beyond its limit, and those of /incidents that came forward, under the  *)
(* offset of the next page, because one before them was cleared.           *)
(***************************************************************************)
NoIncidentMissed ==
  \A r \in Request : req[r].pc = "fetched" => req[r].due \subseteq DOMAIN req[r].inc

(***************************************************************************)
(* The groups the worker makes of a response show every incident of it     *)
(* exactly once, also when the containers among the rows and those of the  *)
(* grouping were computed from different contents of the store.            *)
(***************************************************************************)
EachIncidentOnce ==
  \A r \in Request : req[r].pc = "found" =>
    LET specs    == Specs(r)
        places   == UNION {{j} \X DOMAIN specs[j].members : j \in DOMAIN specs}
        shown(p) == specs[p[1]].members[p[2]]
    IN  /\ {shown(p) : p \in places} = DOMAIN req[r].inc
        /\ \A p, q \in places : shown(p) = shown(q) => p = q

(***************************************************************************)
(* parent_of and children_of are inverse to each other, and no chain of    *)
(* parents runs in a circle.                                               *)
(***************************************************************************)
GroupingIsForest ==
  \A r \in Request : Grouped(r) =>
    LET g == req[r].grouping
    IN  /\ \A k \in DOMAIN g.parent_of : Contains(Children(g, g.parent_of[k]), k)
        /\ \A h \in DOMAIN g.children_of :
             /\ g.children_of[h] # <<>>
             /\ IsInjective(g.children_of[h])
             /\ \A k \in ToSet(g.children_of[h]) :
                  k \in DOMAIN g.parent_of /\ g.parent_of[k] = h
        /\ ~ \E S \in (SUBSET DOMAIN g.parent_of) \ {{}} :
               \A k \in S : g.parent_of[k] \in S

(***************************************************************************)
(* No grouping, and no merge of groupings, puts an active incident under a *)
(* historical one.                                                         *)
(***************************************************************************)
ActiveNotUnderHistory ==
  \A r \in Request : Grouped(r) =>
    LET inc    == req[r].inc
        parent == req[r].grouping.parent_of
    IN  \A k \in DOMAIN parent :
          Active(inc[k]) /\ IsIncident(inc, parent[k]) => Active(inc[parent[k]])

(***************************************************************************)
(* README: owner groups take priority over class groups.  Whatever is      *)
(* merged with them, an incident stays under the head of its owner group.  *)
(***************************************************************************)
OwnerFirst ==
  \A r \in Request : Grouped(r) =>
    LET owner == GroupByOwner(Order(r), req[r].inc).parent_of
    IN  \A k \in DOMAIN owner :
          /\ k \in DOMAIN req[r].grouping.parent_of
          /\ req[r].grouping.parent_of[k] = owner[k]

(***************************************************************************)
(* README: incidents are grouped by the class of an ancestor.  One with an *)
(* incident at its ancestor comes under that, unless its owner's group has *)
(* it or it heads a group itself; of two below an ancestor without an      *)
(* incident one at least is in a group.                                    *)
(***************************************************************************)
ClassGroupsAreKept ==
  [][\A r \in Request : req[r].pc = "fetched" /\ req'[r].pc = "grouped" =>
       LET inc         == req[r].inc
           nodes       == PeekNodes(objects)
           ancestor(i) == ClassAncestor(nodes, inc[i])
           parent(i)   == ClassParent(Order(r), inc, nodes, i)
           owner       == GroupByOwner(Order(r), inc)
           g           == req'[r].grouping
       IN  /\ \A i \in DOMAIN inc : parent(i) # None =>
                \/ i \in DOMAIN g.children_of \cup DOMAIN owner.parent_of
                \/ i \in DOMAIN g.parent_of /\ g.parent_of[i] = parent(i)
           /\ \A i, j \in DOMAIN inc :
                /\ i # j
                /\ ancestor(i) = ancestor(j)
                /\ ancestor(i) # None
                /\ IncidentByEntity(Order(r), inc, ancestor(i)) = None
                => {i, j} \cap (DOMAIN g.parent_of \cup DOMAIN g.children_of) # {}]_vars

(***************************************************************************)
(* README: a container has at least two children, also after the merge has *)
(* taken those away that have a group of their own.                        *)
(***************************************************************************)
ContainersHoldTwo ==
  \A r \in Request : Grouped(r) =>
    \A h \in DOMAIN req[r].grouping.children_of \ DOMAIN req[r].inc :
      Len(req[r].grouping.children_of[h]) >= 2

(***************************************************************************)
(* README: the grouping by class walks up the hierarchy.  Where the store  *)
(* knows that the object is of a grouping class, an incident that brought  *)
(* its owner's paths is grouped by its nearest such ancestor.              *)
(***************************************************************************)
HierarchyIsWalked ==
  \A r \in Request : req[r].pc = "fetched" =>
    \A i \in DOMAIN req[r].inc :
      LET nearest == ClassAncestor(Topology, req[r].inc[i])
      IN  /\ Active(req[r].inc[i])
          /\ nearest # None
          /\ InGroupClass(PeekNodes(objects), nearest)
          => ClassAncestor(PeekNodes(objects), req[r].inc[i]) = nearest
=============================================================================
