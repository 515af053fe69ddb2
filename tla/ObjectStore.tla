---------------------------- MODULE ObjectStore ----------------------------
(***************************************************************************)
(* What the processor remembers of the monitored objects                   *)
(* (saymon/object_store.py): a partial function from object ids to records *)
(*   [class, parents, named]                                               *)
(* with None for a class or a list of parents it has not been told.  Names *)
(* matter only in that an object with a name is not fetched again.         *)
(*                                                                         *)
(* Topology is the truth SAYMON answers from: the class and the direct     *)
(* parents of every object.  Every object of it exists, so the requests    *)
(* for /paths, made only for an object whose parents cannot be learned     *)
(* from the object itself, do not arise.                                   *)
(***************************************************************************)
EXTENDS Grouping

CONSTANT Topology   \* object -> [class, parents]

ASSUME TopologyAssumption ==
  /\ IsFiniteSet(DOMAIN Topology)
  /\ \A o \in DOMAIN Topology : Topology[o].parents \in Seq(DOMAIN Topology)

Unknown == [class |-> None, parents |-> None, named |-> FALSE]

Entry(objects, o) == IF o \in DOMAIN objects THEN objects[o] ELSE Unknown

HasParents(objects, o) == Entry(objects, o).parents # None

(***************************************************************************)
(* upsert_object, with a class and a list of parents, and upsert_parents.  *)
(***************************************************************************)
UpsertObject(objects, o, node) ==
  SetEntry(objects, o, [class |-> node.class, parents |-> node.parents, named |-> TRUE])

UpsertParents(objects, o, parents) ==
  SetEntry(objects, o, [Entry(objects, o) EXCEPT !.parents = parents])

(***************************************************************************)
(* peek_node: objects of which neither class nor parents are known are     *)
(* not seen, and unknown parents are none.                                 *)
(***************************************************************************)
PeekNodes(objects) ==
  [o \in {x \in DOMAIN objects : objects[x].parents # None \/ objects[x].class # None} |->
     [class   |-> objects[o].class,
      parents |-> IF objects[o].parents = None THEN <<>> ELSE objects[o].parents]]

(***************************************************************************)
(* The objects at and above o, as far as the lists of parents tell.        *)
(***************************************************************************)
Above(nodes, o) ==
  LET grow(S) == S \cup UNION {ToSet(Parents(nodes, x)) : x \in S}
      up[n \in 0..Cardinality(DOMAIN Topology)] ==
        IF n = 0 THEN {o} ELSE grow(up[n - 1])
  IN  up[Cardinality(DOMAIN Topology)]

(***************************************************************************)
(* seed_from_incident_owner, with the owner data of object o: the object   *)
(* itself, every step of the paths above it, and then its list of parents  *)
(* once more, taken for a chain in which each is the parent of the one     *)
(* before and the last has none.                                           *)
(***************************************************************************)
SeedPaths(objects, o) ==
  LET steps == {x \in Above(Topology, o) : Topology[x].parents # <<>>}
  IN  [x \in DOMAIN objects \cup steps |->
         IF x \in steps THEN [Entry(objects, x) EXCEPT !.parents = Topology[x].parents]
         ELSE objects[x]]

SeedChain(objects, o) ==
  LET chain   == <<o>> \o Topology[o].parents
      next(j) == IF j = Len(chain) THEN <<>> ELSE <<chain[j + 1]>>
      linked[n \in 0..Len(chain)] ==
        IF n = 0 THEN objects ELSE UpsertParents(linked[n - 1], chain[n], next(n))
  IN  IF Topology[o].parents = <<>> THEN objects ELSE linked[Len(chain)]

Seed(objects, o) ==
  SeedChain(SeedPaths(UpsertObject(objects, o, Topology[o]), o), o)

(* The owners of the incidents that /incidents returned, in its order. *)
SeedOwners(objects, inc, list) ==
  LET seeded[n \in 0..Len(list)] ==
        IF n = 0 THEN objects ELSE Seed(seeded[n - 1], inc[list[n]].owner)
  IN  seeded[Len(list)]

(***************************************************************************)
(* What a request for one object makes of the answer.                      *)
(***************************************************************************)
UpsertFromApi(objects, o) == UpsertObject(objects, o, Topology[o])

Unnamed(objects, ids) == {o \in ids : ~ Entry(objects, o).named}

(***************************************************************************)
(* The objects get_ancestor_chain must fetch to go on from entity.         *)
(***************************************************************************)
MissingAbove(objects, entity) ==
  {o \in Above(PeekNodes(objects), entity) : ~ HasParents(objects, o)}
=============================================================================
