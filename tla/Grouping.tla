----------------------------- MODULE Grouping -----------------------------
(***************************************************************************)
(* The grouping of one report (services/grouping, services/processor.py):  *)
(* incidents of one owner are folded under the newest active of them,      *)
(* incidents below an object of a grouping class are folded under the      *)
(* incident of that object or under a synthetic container, and the two     *)
(* groupings are merged.                                                   *)
(*                                                                         *)
(* A report is a sequence of incident ids, newest first, and a function    *)
(* inc that gives for each id a record                                     *)
(*   [owner, entity, history, state]                                       *)
(* with owner = None for a record without owner data; where the times and  *)
(* the headings matter, also opened and title.  What the object            *)
(* store holds is a partial function nodes from objects to records         *)
(*   [class, parents],                                                     *)
(* parents being the sequence of the parent objects' ids.  An Incident's   *)
(* owner always carries an id, so the key of last resort, the owner's      *)
(* name, does not arise.                                                   *)
(***************************************************************************)
EXTENDS Naturals, SequencesExt

CONSTANTS
  None,           \* no owner, no entity, no class
  GroupClasses,   \* the class ids incidents are grouped by
  Depth           \* generations of ancestors that are searched

SetEntry(f, k, v) == [x \in DOMAIN f \cup {k} |-> IF x = k THEN v ELSE f[x]]

NoEntries == [x \in {} |-> x]

Active(r) == ~ r.history

(* incident_object_id: the entity, else the owner *)
ObjectId(r) == IF r.entity # None THEN r.entity ELSE r.owner

(***************************************************************************)
(* A GroupingResult: children_of maps a head to the sequence of its        *)
(* children, parent_of maps each child to its head.                        *)
(***************************************************************************)
GroupingResult(children_of, parent_of) ==
  [children_of |-> children_of, parent_of |-> parent_of]

NoGrouping == GroupingResult(NoEntries, NoEntries)

(* The elements of seq that are in S, in their order. *)
Those(seq, S) ==
  LET those[n \in 0..Len(seq)] ==
        IF n = 0 THEN <<>>
        ELSE IF seq[n] \in S THEN Append(those[n - 1], seq[n]) ELSE those[n - 1]
  IN  those[Len(seq)]

(* The elements of seq, each where it comes first. *)
Distinct(seq) ==
  LET firsts == Those([j \in DOMAIN seq |-> j],
                      {j \in DOMAIN seq : \A m \in 1..(j - 1) : seq[m] # seq[j]})
  IN  [k \in DOMAIN firsts |-> seq[firsts[k]]]

(* The first active incident of a sequence, else the first one. *)
FirstActive(seq, inc) ==
  LET active == Those(seq, {i \in DOMAIN inc : Active(inc[i])})
  IN  IF active = <<>> THEN Head(seq) ELSE Head(active)

-----------------------------------------------------------------------------
(***************************************************************************)
(* Deduplication by id: the record from /incidents wins over the one from  *)
(* /incident-history, and the report is sorted newest first.               *)
(***************************************************************************)
MergeActiveAndHistory(active, history) ==
  [i \in DOMAIN active \cup DOMAIN history |->
     IF i \in DOMAIN active THEN active[i] ELSE history[i]]

NewestFirst(inc) ==
  SetToSortSeq(DOMAIN inc, LAMBDA i, j : inc[i].opened > inc[j].opened)

-----------------------------------------------------------------------------
OwnerKey(r) ==
  IF r.owner # None THEN <<"id", r.owner>>
  ELSE IF r.entity # None THEN <<"eid", r.entity>>
  ELSE <<"none">>

(***************************************************************************)
(* group_by_owner.  The head of a bucket is its newest active incident,    *)
(* else its newest one.                                                    *)
(***************************************************************************)
OwnerBucket(order, inc, key) ==
  Those(order, {i \in DOMAIN inc : OwnerKey(inc[i]) = key})

OwnerHead(bucket, inc) == FirstActive(bucket, inc)

OwnerChildren(bucket, inc) ==
  LET head == OwnerHead(bucket, inc)
  IN  Those(bucket, {i \in DOMAIN inc : /\ i # head
                                        /\ Active(inc[head]) \/ ~ Active(inc[i])})

(* A bucket of one has no children. *)
GroupByOwner(order, inc) ==
  LET keyed     == {i \in ToSet(order) : OwnerKey(inc[i]) # <<"none">>}
      bucket(i) == OwnerBucket(order, inc, OwnerKey(inc[i]))
      head(i)   == OwnerHead(bucket(i), inc)
      kids(i)   == OwnerChildren(bucket(i), inc)
  IN  GroupingResult(
        [h \in {head(i) : i \in {x \in keyed : kids(x) # <<>>}} |-> kids(h)],
        [k \in UNION {ToSet(kids(i)) : i \in keyed} |-> head(k)])

-----------------------------------------------------------------------------
(***************************************************************************)
(* peek_node sees nothing of an object the store does not hold.            *)
(***************************************************************************)
Parents(nodes, o) == IF o \in DOMAIN nodes THEN nodes[o].parents ELSE <<>>

InGroupClass(nodes, o) == o \in DOMAIN nodes /\ nodes[o].class \in GroupClasses

(***************************************************************************)
(* generation[n] is the list of the n-th ancestors of an object, without   *)
(* those met in earlier generations or earlier in this one.                *)
(***************************************************************************)
Generations(nodes, entity) ==
  LET seen(gens) == {entity} \cup UNION {ToSet(gens[m]) : m \in DOMAIN gens}
      grow(gens) ==
        LET above == FlattenSeq([j \in DOMAIN Last(gens) |->
                                   Parents(nodes, Last(gens)[j])])
        IN  Append(gens, Distinct(Those(above, ToSet(above) \ seen(gens))))
      gens[n \in 0..Depth] ==
        IF n = 0 THEN << <<entity>> >> ELSE grow(gens[n - 1])
  IN  Tail(gens[Depth])

(***************************************************************************)
(* The object an incident is grouped by: the first ancestor of a grouping  *)
(* class, the nearest generation first; None if there is none.             *)
(***************************************************************************)
ClassAncestor(nodes, r) ==
  IF ObjectId(r) = None \/ GroupClasses = {} THEN None
  ELSE LET found == Those(FlattenSeq(Generations(nodes, ObjectId(r))),
                          {o \in DOMAIN nodes : InGroupClass(nodes, o)})
       IN  IF found = <<>> THEN None ELSE Head(found)

(***************************************************************************)
(* The incident that stands for an object: the first active one of the     *)
(* report, else the first one.                                             *)
(***************************************************************************)
IncidentByEntity(order, inc, o) ==
  LET on == Those(order, {i \in DOMAIN inc : ObjectId(inc[i]) = o})
  IN  IF on = <<>> THEN None ELSE FirstActive(on, inc)

(* As it would be if the states of child and parent were not compared. *)
AnyClassParent(order, inc, nodes, i) ==
  LET ancestor == ClassAncestor(nodes, inc[i])
      parent   == IF ancestor = None THEN None
                  ELSE IncidentByEntity(order, inc, ancestor)
  IN  IF parent = i THEN None ELSE parent

(***************************************************************************)
(* group_by_class.  An active incident is not put under a historical one.  *)
(***************************************************************************)
ClassParent(order, inc, nodes, i) ==
  LET ancestor == ClassAncestor(nodes, inc[i])
      parent   == IF ancestor = None THEN None
                  ELSE IncidentByEntity(order, inc, ancestor)
  IN  IF parent = None \/ parent = i THEN None
      ELSE IF Active(inc[i]) /\ ~ Active(inc[parent]) THEN None
      ELSE parent

(***************************************************************************)
(* children_of of the class grouping in the order of its insertions: a     *)
(* sequence of heads with their children.                                  *)
(***************************************************************************)
GroupByClass(order, inc, nodes) ==
  LET parent  == [i \in ToSet(order) |-> ClassParent(order, inc, nodes, i)]
      nested  == Those(order, {i \in ToSet(order) : parent[i] # None})
      parents == Distinct([j \in DOMAIN nested |-> parent[nested[j]]])
  IN  [j \in DOMAIN parents |->
         [head |-> parents[j],
          kids |-> Those(nested, {i \in ToSet(order) : parent[i] = parents[j]})]]

(***************************************************************************)
(* The synthetic containers: objects of a grouping class that have no      *)
(* incident and at least two incidents below them.  The code collects the  *)
(* children of a container in a set; here they come in report order.       *)
(***************************************************************************)
SyntheticId(o) == <<"synth", o>>

BuildSynthetic(order, inc, nodes) ==
  LET ancestor == [i \in ToSet(order) |-> ClassAncestor(nodes, inc[i])]
      below(o) == Those(order, {i \in ToSet(order) : ancestor[i] = o})
      seeded   == Those(order, {i \in ToSet(order) :
                    /\ ancestor[i] # None
                    /\ IncidentByEntity(order, inc, ancestor[i]) = None
                    /\ Len(below(ancestor[i])) >= 2})
      objects  == Distinct([j \in DOMAIN seeded |-> ancestor[seeded[j]]])
  IN  [j \in DOMAIN objects |-> [head |-> SyntheticId(objects[j]),
                                 kids |-> below(objects[j])]]

-----------------------------------------------------------------------------
(***************************************************************************)
(* merge_groupings.  A head adopts the kids that have no parent yet and    *)
(* are not heads themselves; a container needs two of them.                *)
(***************************************************************************)
Adoptable(grouping, kids) ==
  Those(kids, ToSet(kids) \ (DOMAIN grouping.parent_of \cup DOMAIN grouping.children_of))

Children(grouping, i) ==
  IF i \in DOMAIN grouping.children_of THEN grouping.children_of[i] ELSE <<>>

(* As it would be if the children a head has were forgotten. *)
AdoptAnew(grouping, head, kids) ==
  IF kids = <<>> THEN grouping
  ELSE GroupingResult(
         SetEntry(grouping.children_of, head, kids),
         [k \in DOMAIN grouping.parent_of \cup ToSet(kids) |->
            IF k \in ToSet(kids) THEN head ELSE grouping.parent_of[k]])

Adopt(grouping, head, kids) ==
  IF kids = <<>> THEN grouping
  ELSE GroupingResult(
         SetEntry(grouping.children_of, head, Children(grouping, head) \o kids),
         [k \in DOMAIN grouping.parent_of \cup ToSet(kids) |->
            IF k \in ToSet(kids) THEN head ELSE grouping.parent_of[k]])

(* As it would be if the owner groups had no priority. *)
AdoptAll(grouping, g) == Adopt(grouping, g.head, g.kids)

(* As it would be if a head that has a parent took no children. *)
AdoptAtTop(grouping, g) ==
  IF g.head \in DOMAIN grouping.parent_of THEN grouping
  ELSE Adopt(grouping, g.head, Adoptable(grouping, g.kids))

AdoptClass(grouping, g) == Adopt(grouping, g.head, Adoptable(grouping, g.kids))

(* As it would be if a container could have one child. *)
AdoptOne(grouping, g) == Adopt(grouping, g.head, Adoptable(grouping, g.kids))

AdoptSynthetic(grouping, g) ==
  IF Len(Adoptable(grouping, g.kids)) >= 2
  THEN Adopt(grouping, g.head, Adoptable(grouping, g.kids))
  ELSE grouping

MergeGroupings(owner, class_groups, synthetic_groups) ==
  LET nested[n \in 0..Len(class_groups)] ==
        IF n = 0 THEN owner ELSE AdoptClass(nested[n - 1], class_groups[n])
      merged[n \in 0..Len(synthetic_groups)] ==
        IF n = 0 THEN nested[Len(class_groups)]
        ELSE AdoptSynthetic(merged[n - 1], synthetic_groups[n])
  IN  merged[Len(synthetic_groups)]

ComputeGrouping(order, inc, nodes) ==
  MergeGroupings(GroupByOwner(order, inc),
                 GroupByClass(order, inc, nodes),
                 BuildSynthetic(order, inc, nodes))
=============================================================================
