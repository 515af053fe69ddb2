---------------------------- MODULE MacroResolver ----------------------------
(***************************************************************************)
(* The responsible party of each incident (services/macros/resolver.py):   *)
(* requests look for a property of the nearest object above the incident's *)
(* that a macro selects.  All requests share one resolver, whose results   *)
(* each of them clears when it begins, while others are half way.          *)
(*                                                                         *)
(* There is one macro: its text is part of every key of the results.  A    *)
(* request may be interrupted at every await, though not each suspends.    *)
(* Which objects the selector matches is fixed, so that _selector_match    *)
(* remembers nothing that could change.                                    *)
(***************************************************************************)
EXTENDS Naturals, Sequences, FiniteSets

CONSTANTS
  Request,   \* requests that may be under way at once
  Object,    \* ids of objects
  Value,     \* values of the property
  None,      \* no value
  Unread,    \* properties that have not been read, or an empty list of them
  Chains,    \* what get_ancestor_chain may return for each object
  Depth,     \* macro_depth
  Matching,  \* the objects the macro's selector matches
  Reports,   \* the objects of a report's incidents, in its order
  MaxNews    \* bound: seedings and answers that change the store

Known == Value \cup {None}

ASSUME ResolverAssumption ==
  /\ Chains \in [Object -> SUBSET Seq(Object)]
  /\ Depth \in Nat
  /\ Matching \subseteq Object
  /\ Reports \subseteq Seq(Object)
  /\ Unread \notin Known
  /\ None \notin Value

VARIABLES
  store,         \* ObjectStore._objects: whether the class is known, and the property
  nodeProp,      \* MacroResolver._node_prop
  entityResult,  \* MacroResolver._entity_result
  req,           \* the locals of each request
  news,          \* changes of the store so far, for the bound
  since,         \* history: what the store held of each object since a request seeded it
  lately         \* history: the same since a request last began alone

caches  == <<nodeProp, entityResult>>
history == <<since, lately>>
vars    == <<store, caches, req, news, history>>

Nothing == [k \in {} |-> None]

With(f, k, v) == [x \in DOMAIN f \cup {k} |-> IF x = k THEN v ELSE f[x]]

NoRequest == [pc |-> "idle", todo |-> <<>>, answers |-> Nothing, chain |-> <<>>, at |-> 1]

Unseen == [classed |-> FALSE, prop |-> Unread]

(* What the macro finds at an object that has the entry n: a set of at most one. *)
Holds(o, n) ==
  IF o \notin Matching THEN {None}
  ELSE IF n.classed /\ n.prop # Unread THEN {n.prop} ELSE {}

Others(r) == {x \in Request \ {r} : req[x].pc # "idle"}

NothingHeld == [o \in Object |-> {}]

(***************************************************************************)
(* The store becomes new; of the objects of told it is known that they     *)
(* have no value.                                                          *)
(***************************************************************************)
Becomes(new) ==
  /\ new # store => news < MaxNews
  /\ news' = IF new = store THEN news ELSE news + 1
  /\ store' = new

Remember(new, told) ==
  LET held(o) == Holds(o, new[o]) \cup (IF o \in told THEN {None} ELSE {})
  IN  /\ Becomes(new)
      /\ since'  = [r \in Request |-> IF req[r].pc = "idle" THEN since[r]
                                     ELSE [o \in Object |-> since[r][o] \cup held(o)]]
      /\ lately' = [o \in Object |-> lately[o] \cup held(o)]

Init ==
  /\ store = [o \in Object |-> Unseen]
  /\ nodeProp = Nothing
  /\ entityResult = Nothing
  /\ req = [r \in Request |-> NoRequest]
  /\ news = 0
  /\ since = [r \in Request |-> NothingHeld]
  /\ lately = NothingHeld

-----------------------------------------------------------------------------
(***************************************************************************)
(* A request has read the incidents and seeds the store with the owners of *)
(* the active ones, which come with their properties.                      *)
(***************************************************************************)
Seeded(report) ==
  {new \in [Object -> [classed : BOOLEAN, prop : Known \cup {Unread}]] :
     \A o \in Object :
       new[o] # store[o] => new[o].classed /\ \E j \in DOMAIN report : report[j] = o}

Begin(r) ==
  /\ req[r].pc = "idle"
  /\ \E report \in Reports : \E new \in Seeded(report) :
       /\ Becomes(new)
       /\ since'  = [x \in Request |->
                       IF x # r /\ req[x].pc = "idle" THEN since[x]
                       ELSE [o \in Object |->
                               (IF x = r THEN {} ELSE since[x][o]) \cup Holds(o, new[o])]]
       /\ lately' = [o \in Object |->
                       (IF Others(r) = {} THEN {} ELSE lately[o]) \cup Holds(o, new[o])]
       /\ req' = [req EXCEPT ![r] = [NoRequest EXCEPT !.pc = "seeded", !.todo = report]]
  /\ UNCHANGED caches

(***************************************************************************)
(* Objects, paths and names that a request asks for, before it resolves    *)
(* the macro, while it looks for a chain, and afterwards for the titles.   *)
(***************************************************************************)
Learn(r) ==
  /\ req[r].pc \in {"seeded", "chain", "done"}
  /\ \E o \in Object, prop \in Known \cup {Unread} :
       Remember([store EXCEPT ![o] = [classed |-> TRUE, prop |-> prop]], {})
  /\ UNCHANGED <<caches, req>>

-----------------------------------------------------------------------------
(***************************************************************************)
(* resolve_for_incidents clears what the resolver remembers.               *)
(***************************************************************************)
(* As it would be if it did so only when no other request needs it. *)
ResetIfAlone(r) ==
  /\ req[r].pc = "seeded"
  /\ req' = [req EXCEPT ![r].pc = "entity"]
  /\ IF \A x \in Request \ {r} : req[x].pc \in {"idle", "seeded", "done"}
     THEN nodeProp' = Nothing /\ entityResult' = Nothing
     ELSE UNCHANGED caches
  /\ UNCHANGED <<store, news, history>>

(* As it would be if the results of whole chains were kept. *)
ResetNodes(r) ==
  /\ req[r].pc = "seeded"
  /\ req' = [req EXCEPT ![r].pc = "entity"]
  /\ nodeProp' = Nothing
  /\ UNCHANGED <<store, entityResult, news, history>>

Reset(r) ==
  /\ req[r].pc = "seeded"
  /\ req' = [req EXCEPT ![r].pc = "entity"]
  /\ nodeProp' = Nothing
  /\ entityResult' = Nothing
  /\ UNCHANGED <<store, news, history>>

(* What is left of a request once the object it is at has this answer. *)
Answered(q, value) ==
  [q EXCEPT !.pc      = "entity",
            !.todo    = Tail(@),
            !.answers = With(@, Head(q.todo), value),
            !.chain   = <<>>,
            !.at      = 1]

(***************************************************************************)
(* The next object: by_entity and _entity_result may have it already.      *)
(***************************************************************************)
Entity(r) ==
  LET q == req[r]
      e == Head(q.todo)
  IN  /\ q.pc = "entity"
      /\ req' = [req EXCEPT ![r] =
                   IF q.todo = <<>> THEN [q EXCEPT !.pc = "done"]
                   ELSE IF e \in DOMAIN q.answers THEN [q EXCEPT !.todo = Tail(@)]
                   ELSE IF e \in DOMAIN entityResult THEN Answered(q, entityResult[e])
                   ELSE [q EXCEPT !.pc = "chain"]]
      /\ UNCHANGED <<store, caches, news, history>>

Limited(chain) == SubSeq(chain, 1, IF Len(chain) < Depth + 1 THEN Len(chain) ELSE Depth + 1)

Chain(r) ==
  /\ req[r].pc = "chain"
  /\ \E chain \in Chains[Head(req[r].todo)] :
       req' = [req EXCEPT ![r] = IF chain = <<>> THEN Answered(@, None)
                                 ELSE [@ EXCEPT !.pc = "probe", !.chain = Limited(chain)]]
  /\ UNCHANGED <<store, caches, news, history>>

-----------------------------------------------------------------------------
(***************************************************************************)
(* _probe_node, of the object the request is at in the chain.              *)
(***************************************************************************)
Node(r) == req[r].chain[req[r].at]

(***************************************************************************)
(* The loop over the chain goes on with what was found at the node: a      *)
(* value is the answer and is kept, no value leads to the next node.       *)
(***************************************************************************)
(* As it would be if it were kept too that there is none. *)
FindOrNot(r, value) ==
  LET q == req[r]
      e == Head(q.todo)
      last == q.at = Len(q.chain)
  IN  /\ req' = [req EXCEPT ![r] = IF value # None \/ last THEN Answered(q, value)
                                   ELSE [q EXCEPT !.pc = "probe", !.at = @ + 1]]
      /\ entityResult' = IF value # None \/ last THEN With(entityResult, e, value)
                         ELSE entityResult

Find(r, value) ==
  LET q == req[r]
      e == Head(q.todo)
  IN  /\ req' = [req EXCEPT ![r] = IF value # None \/ q.at = Len(q.chain)
                                   THEN Answered(q, value)
                                   ELSE [q EXCEPT !.pc = "probe", !.at = @ + 1]]
      /\ entityResult' = IF value # None THEN With(entityResult, e, value) ELSE entityResult

FindAndKeep(r, value) ==
  /\ Find(r, value)
  /\ nodeProp' = With(nodeProp, Node(r), value)

Ask(r, pc) ==
  /\ req' = [req EXCEPT ![r].pc = pc]
  /\ UNCHANGED caches

(* From where the class of node n is known. *)
Look(r, n) ==
  IF Node(r) \notin Matching THEN FindAndKeep(r, None)
  ELSE IF n.prop = Unread THEN Ask(r, "props")
  ELSE FindAndKeep(r, n.prop)

Probe(r) ==
  /\ req[r].pc = "probe"
  /\ IF Node(r) \in DOMAIN nodeProp
     THEN Find(r, nodeProp[Node(r)]) /\ UNCHANGED nodeProp
     ELSE IF store[Node(r)].classed THEN Look(r, store[Node(r)])
     ELSE Ask(r, "full")
  /\ UNCHANGED <<store, news, history>>

(***************************************************************************)
(* fetch_object_full: what SAYMON answers, if it knows the object, is      *)
(* stored; another request may have stored more meanwhile.  Of an object   *)
(* that get_object does not find, before that, nothing is kept.            *)
(***************************************************************************)
Answers(o) ==
  {store[o]} \cup
  {[classed |-> c \/ store[o].classed, prop |-> p] : c \in BOOLEAN, p \in Known \cup {Unread}}

Full(r) ==
  /\ req[r].pc = "full"
  /\ \E n \in Answers(Node(r)) :
       /\ Remember([store EXCEPT ![Node(r)] = n], IF n.classed THEN {} ELSE {Node(r)})
       /\ IF n.classed THEN Look(r, n)
          ELSE Find(r, None) /\ nodeProp' \in {nodeProp, With(nodeProp, Node(r), None)}

Props(r) ==
  /\ req[r].pc = "props"
  /\ \E n \in Answers(Node(r)) :
       /\ Remember([store EXCEPT ![Node(r)] = n], IF n.prop = Unread THEN {Node(r)} ELSE {})
       /\ FindAndKeep(r, IF n.prop = Unread THEN None ELSE n.prop)

(***************************************************************************)
(* The response is sent, or an exception ends the request.                 *)
(***************************************************************************)
End(r) ==
  /\ req[r].pc # "idle"
  /\ req' = [req EXCEPT ![r] = NoRequest]
  /\ since'  = [since EXCEPT ![r] = NothingHeld]
  /\ lately' = IF Others(r) = {} THEN NothingHeld ELSE lately
  /\ UNCHANGED <<store, caches, news>>

Next ==
  \E r \in Request :
    \/ Begin(r)
    \/ Learn(r)
    \/ Reset(r)
    \/ Entity(r)
    \/ Chain(r)
    \/ Probe(r)
    \/ Full(r)
    \/ Props(r)
    \/ End(r)

Spec == Init /\ [][Next]_vars

-----------------------------------------------------------------------------
(***************************************************************************)
(* Properties.                                                             *)
(***************************************************************************)

States == {"idle", "seeded", "entity", "chain", "probe", "full", "props", "done"}

Cache(values) == UNION {[S -> values] : S \in SUBSET Object}

Requests == [pc : States, todo : Seq(Object), answers : Cache(Known), chain : Seq(Object), at : Nat]

(* A request that looks for an answer has an object, and while it probes a node. *)
Placed(q) ==
  /\ q.pc = "idle" => q = NoRequest
  /\ q.pc \in {"chain", "probe", "full", "props"} => q.todo # <<>>
  /\ q.pc \in {"probe", "full", "props"} => q.at \in DOMAIN q.chain

Entries == [classed : BOOLEAN, prop : Known \cup {Unread}]

(***************************************************************************)
(* The variables hold what the program's can hold; only values, never that *)
(* there is none, are kept for a whole chain.                              *)
(***************************************************************************)
TypeOK ==
  /\ store \in [Object -> Entries]
  /\ nodeProp \in Cache(Known)
  /\ entityResult \in Cache(Value)
  /\ req \in [Request -> Requests] /\ \A r \in Request : Placed(req[r])
  /\ news \in Nat
  /\ since \in [Request -> [Object -> SUBSET Known]]
  /\ lately \in [Object -> SUBSET Known]

Within(chain) == {j \in DOMAIN chain : j <= Depth + 1}

Above(e) == UNION {{chain[j] : j \in Within(chain)} : chain \in Chains[e]}

(***************************************************************************)
(* However requests interleave: what a request answers for an object is    *)
(* what the store held, since that request seeded it, of an object above   *)
(* it; that there is no answer, what it held of all within the depth.      *)
(***************************************************************************)
AnswersAreCurrent ==
  \A r \in Request : \A e \in DOMAIN req[r].answers :
    LET value == req[r].answers[e]
    IN  IF value # None THEN \E o \in Above(e) \cap Matching : value \in since[r][o]
        ELSE \E chain \in Chains[e] : \A j \in Within(chain) : None \in since[r][chain[j]]

(***************************************************************************)
(* It is the nearest one's, by a chain of that object, as the store was at *)
(* some moment since a request last began with no other under way: what    *)
(* requests leave to each other never outlasts them.                       *)
(***************************************************************************)
NearestLately ==
  \A r \in Request : \A e \in DOMAIN req[r].answers :
    req[r].answers[e] # None =>
      \E chain \in Chains[e] : \E j \in Within(chain) :
        /\ chain[j] \in Matching
        /\ req[r].answers[e] \in lately[chain[j]]
        /\ \A i \in 1..(j - 1) : None \in lately[chain[i]]
=============================================================================
