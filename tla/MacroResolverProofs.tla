------------------------- MODULE MacroResolverProofs -------------------------
(***************************************************************************)
(* Proofs about MacroResolver, for any number of requests and objects, all *)
(* chains and any depth, selector and reports: its types, that an answer   *)
(* is what the store held since the request that gives it was seeded, and  *)
(* that it is the nearest one's since a request last began alone.          *)
(***************************************************************************)
EXTENDS MacroResolver, SequenceTheorems, TLAPS

-----------------------------------------------------------------------------
(***************************************************************************)
(* Lookup tables and chains.                                               *)
(***************************************************************************)
LEMMA CacheElements ==
  ASSUME NEW V, NEW f \in Cache(V)
  PROVE  DOMAIN f \subseteq Object /\ \A k \in DOMAIN f : f[k] \in V
BY DEF Cache

LEMMA NothingCached == ASSUME NEW V  PROVE Nothing \in Cache(V) /\ DOMAIN Nothing = {}
<1>1. Nothing \in [{} -> V] /\ {} \in SUBSET Object
  BY DEF Nothing
<1> QED  BY <1>1 DEF Cache, Nothing

LEMMA WithElement ==
  ASSUME NEW V, NEW f \in Cache(V), NEW k \in Object, NEW v \in V
  PROVE  With(f, k, v) \in Cache(V)
<1>1. DOMAIN f \subseteq Object /\ \A x \in DOMAIN f : f[x] \in V
  BY CacheElements
<1>2. With(f, k, v) \in [DOMAIN f \cup {k} -> V] /\ DOMAIN f \cup {k} \in SUBSET Object
  BY <1>1 DEF With
<1> QED  BY <1>2 DEF Cache

LEMMA ChainsOf ==
  ASSUME NEW e \in Object, NEW chain \in Chains[e]
  PROVE  chain \in Seq(Object) /\ \A j \in Within(chain) : chain[j] \in Object /\ chain[j] \in Above(e)
<1>1. chain \in Seq(Object)
  BY ResolverAssumption
<1>2. \A j \in DOMAIN chain : chain[j] \in Object
  BY <1>1
<1> QED  BY <1>1, <1>2 DEF Within, Above

(* What is left of a chain is its beginning, as far as the depth. *)
LEMMA LimitedChain ==
  ASSUME NEW chain \in Seq(Object)
  PROVE  /\ Limited(chain) \in Seq(Object)
         /\ DOMAIN Limited(chain) = Within(chain)
         /\ DOMAIN Limited(chain) = 1..Len(Limited(chain))
         /\ \A j \in Within(chain) : Limited(chain)[j] = chain[j]
         /\ chain # <<>> => 1 \in DOMAIN Limited(chain)
<1>1. Len(chain) \in Nat /\ Depth \in Nat /\ DOMAIN chain = 1..Len(chain)
  BY ResolverAssumption
<1>2. PICK n \in Nat :
        /\ n <= Len(chain) /\ n <= Depth + 1 /\ (n >= Len(chain) \/ n >= Depth + 1)
        /\ Limited(chain) = SubSeq(chain, 1, n)
  <2>1. CASE Len(chain) < Depth + 1
    <3>1. Limited(chain) = SubSeq(chain, 1, Len(chain))
      BY <2>1 DEF Limited
    <3>2. Len(chain) <= Len(chain) /\ Len(chain) <= Depth + 1 /\ Len(chain) >= Len(chain)
      BY <1>1, <2>1
    <3> QED  BY <1>1, <3>1, <3>2
  <2>2. CASE ~ (Len(chain) < Depth + 1)
    BY <1>1, <2>2 DEF Limited
  <2> QED  BY <2>1, <2>2
<1>3. \A i \in 1..n : i \in 1..Len(chain) /\ chain[i] \in Object
  BY <1>1, <1>2
<1>4. /\ SubSeq(chain, 1, n) \in Seq(Object)
      /\ Len(SubSeq(chain, 1, n)) = n
      /\ \A i \in 1..n : SubSeq(chain, 1, n)[i] = chain[i]
  <2>1. n - 1 + 1 = n /\ 1 \in Int /\ n \in Int /\ (1 <= n \/ n = 0)
    OBVIOUS
  <2> QED  BY <1>3, <2>1, SubSeqProperties
<1>5. Within(chain) = 1..n
  BY <1>1, <1>2 DEF Within
<1>6. chain # <<>> => n >= 1
  <2>1. chain # <<>> => Len(chain) # 0
    BY EmptySeq
  <2>2. Depth + 1 >= 1
    BY ResolverAssumption
  <2> QED  BY <1>1, <1>2, <2>1, <2>2
<1> QED  BY <1>2, <1>4, <1>5, <1>6

-----------------------------------------------------------------------------
(***************************************************************************)
(* What a request relies on, s and l being what the store has held since   *)
(* the request was seeded, and since one last began alone.                 *)
(***************************************************************************)
Live(r) == req[r].pc # "idle"

Found(e, value, s) == \E o \in Above(e) \cap Matching : value \in s[o]

Nearest(e, value, l) ==
  \E chain \in Chains[e] : \E j \in Within(chain) :
    /\ chain[j] \in Matching
    /\ value \in l[chain[j]]
    /\ \A i \in 1..(j - 1) : None \in l[chain[i]]

StoreIn(st, s, l) == \A o \in Object : Holds(o, st[o]) \subseteq s[o] /\ Holds(o, st[o]) \subseteq l[o]

NodesIn(np, s, l) ==
  \A o \in DOMAIN np : np[o] \in s[o] /\ np[o] \in l[o] /\ (np[o] # None => o \in Matching)

EntitiesIn(er, s, l) == \A e \in DOMAIN er : Found(e, er[e], s) /\ Nearest(e, er[e], l)

AnswersIn(q, s, l) ==
  \A e \in DOMAIN q.answers :
    IF q.answers[e] # None THEN Found(e, q.answers[e], s) /\ Nearest(e, q.answers[e], l)
    ELSE \E chain \in Chains[e] : \A j \in Within(chain) : None \in s[chain[j]]

(* A request half way along a chain has found nothing at the nodes before. *)
WalkIn(q, s, l, st) ==
  /\ q.pc \in {"probe", "full", "props"} =>
       \E chain \in Chains[Head(q.todo)] :
         /\ q.chain = Limited(chain)
         /\ \A i \in 1..(q.at - 1) : None \in s[chain[i]] /\ None \in l[chain[i]]
  /\ q.pc = "props" => q.chain[q.at] \in Matching /\ st[q.chain[q.at]].classed
  /\ q.pc \in {"seeded", "entity", "chain"} => q.at = 1

(* Once a request has reset the results, they are all from within its time. *)
RequestIn(q, s, l, st, np, er) ==
  /\ StoreIn(st, s, l)
  /\ WalkIn(q, s, l, st)
  /\ AnswersIn(q, s, l)
  /\ q.pc # "seeded" => NodesIn(np, s, l) /\ EntitiesIn(er, s, l)

HistoryInv ==
  \A r \in Request : Live(r) =>
    RequestIn(req[r], since[r], lately, store, nodeProp, entityResult)

Inv == TypeOK /\ HistoryInv

-----------------------------------------------------------------------------
(***************************************************************************)
(* All of it stays true while s and l grow.                                *)
(***************************************************************************)
Grows(h, g) == \A o \in Object : h[o] \subseteq g[o]

LEMMA FoundGrows ==
  ASSUME NEW e \in Object, NEW value, NEW s, NEW s2, Grows(s, s2), Found(e, value, s)
  PROVE  Found(e, value, s2)
<1>1. Above(e) \subseteq Object
  BY ChainsOf DEF Above
<1> QED  BY <1>1 DEF Found, Grows

LEMMA BeforeGrows ==
  ASSUME NEW e \in Object, NEW chain \in Chains[e], NEW j \in Within(chain), NEW l, NEW l2,
         Grows(l, l2), \A i \in 1..(j - 1) : None \in l[chain[i]]
  PROVE  \A i \in 1..(j - 1) : i \in Within(chain) /\ None \in l2[chain[i]]
<1>1. chain \in Seq(Object) /\ Depth \in Nat
  BY ChainsOf, ResolverAssumption
<1>2. \A i \in 1..(j - 1) : i \in Within(chain)
  BY <1>1 DEF Within
<1> QED  BY <1>2, ChainsOf DEF Grows

LEMMA NearestGrows ==
  ASSUME NEW e \in Object, NEW value, NEW l, NEW l2, Grows(l, l2), Nearest(e, value, l)
  PROVE  Nearest(e, value, l2)
<1>1. PICK chain \in Chains[e] : \E j \in Within(chain) :
        /\ chain[j] \in Matching
        /\ value \in l[chain[j]]
        /\ \A i \in 1..(j - 1) : None \in l[chain[i]]
  BY DEF Nearest
<1>2. PICK j \in Within(chain) :
        /\ chain[j] \in Matching
        /\ value \in l[chain[j]]
        /\ \A i \in 1..(j - 1) : None \in l[chain[i]]
  BY <1>1
<1>3. \A i \in 1..(j - 1) : None \in l2[chain[i]]
  BY <1>2, BeforeGrows
<1>4. value \in l2[chain[j]]
  BY <1>2, ChainsOf DEF Grows
<1> QED  BY <1>2, <1>3, <1>4 DEF Nearest

LEMMA CachesGrow ==
  ASSUME nodeProp \in Cache(Known), entityResult \in Cache(Value),
         NEW s, NEW s2, NEW l, NEW l2, Grows(s, s2), Grows(l, l2),
         NodesIn(nodeProp, s, l), EntitiesIn(entityResult, s, l)
  PROVE  NodesIn(nodeProp, s2, l2) /\ EntitiesIn(entityResult, s2, l2)
<1>1. DOMAIN nodeProp \subseteq Object /\ DOMAIN entityResult \subseteq Object
  BY CacheElements
<1> QED  BY <1>1, FoundGrows, NearestGrows DEF NodesIn, EntitiesIn, Grows

LEMMA AnswersGrow ==
  ASSUME NEW q \in Requests, NEW s, NEW s2, NEW l, NEW l2, Grows(s, s2), Grows(l, l2),
         AnswersIn(q, s, l)
  PROVE  AnswersIn(q, s2, l2)
<1>1. q.answers \in Cache(Known)
  BY DEF Requests
<1> SUFFICES ASSUME NEW e \in DOMAIN q.answers
             PROVE  IF q.answers[e] # None
                    THEN Found(e, q.answers[e], s2) /\ Nearest(e, q.answers[e], l2)
                    ELSE \E chain \in Chains[e] : \A j \in Within(chain) : None \in s2[chain[j]]
  BY DEF AnswersIn
<1>2. e \in Object
  BY <1>1, CacheElements
<1>3. CASE q.answers[e] # None
  BY <1>2, <1>3, FoundGrows, NearestGrows DEF AnswersIn
<1>4. CASE q.answers[e] = None
  BY <1>2, <1>4, ChainsOf DEF AnswersIn, Grows
<1> QED  BY <1>3, <1>4

LEMMA WalkGrows ==
  ASSUME NEW q \in Requests, Placed(q), NEW s, NEW s2, NEW l, NEW l2, NEW st, NEW st2,
         Grows(s, s2), Grows(l, l2), \A o \in Object : st[o].classed => st2[o].classed,
         WalkIn(q, s, l, st)
  PROVE  WalkIn(q, s2, l2, st2)
<1> SUFFICES ASSUME q.pc \in {"probe", "full", "props"}
             PROVE  WalkIn(q, s2, l2, st2)
  BY DEF WalkIn
<1>1. q.todo \in Seq(Object) /\ q.todo # <<>> /\ q.at \in DOMAIN q.chain
  BY DEF Requests, Placed
<1>2. Head(q.todo) \in Object
  BY <1>1
<1>3. PICK chain \in Chains[Head(q.todo)] :
        /\ q.chain = Limited(chain)
        /\ \A i \in 1..(q.at - 1) : None \in s[chain[i]] /\ None \in l[chain[i]]
  BY DEF WalkIn
<1>4. q.at \in Within(chain) /\ q.chain[q.at] \in Object
  BY <1>1, <1>2, <1>3, ChainsOf, LimitedChain
<1>5. \A i \in 1..(q.at - 1) : None \in s2[chain[i]]
  BY <1>2, <1>3, <1>4, BeforeGrows
<1>6. \A i \in 1..(q.at - 1) : None \in l2[chain[i]]
  BY <1>2, <1>3, <1>4, BeforeGrows
<1> QED  BY <1>3, <1>4, <1>5, <1>6 DEF WalkIn

-----------------------------------------------------------------------------
(***************************************************************************)
(* What a step does to the store and its history.                          *)
(***************************************************************************)
HistoryStep ==
  /\ store' \in [Object -> Entries]
  /\ news' \in Nat
  /\ since' \in [Request -> [Object -> SUBSET Known]]
  /\ lately' \in [Object -> SUBSET Known]
  /\ Grows(lately, lately')
  /\ \A x \in Request : Live(x) => /\ Grows(since[x], since'[x])
                                   /\ StoreIn(store', since'[x], lately')
  /\ \A o \in Object : store[o].classed => store'[o].classed

LEMMA NoHistoryStep ==
  ASSUME Inv, UNCHANGED <<store, news, history>>
  PROVE  HistoryStep
BY DEF Inv, TypeOK, HistoryInv, RequestIn, HistoryStep, history, Grows

LEMMA HoldsType ==
  ASSUME NEW o \in Object, NEW n \in Entries
  PROVE  Holds(o, n) \subseteq Known
BY DEF Holds, Entries, Known

LEMMA RememberStep ==
  ASSUME Inv, NEW new \in [Object -> Entries], NEW told \in SUBSET Object, Remember(new, told),
         \A o \in Object : store[o].classed => new[o].classed
  PROVE  /\ HistoryStep
         /\ store' = new
         /\ \A o \in told : None \in lately'[o] /\ \A x \in Request : Live(x) => None \in since'[x][o]
<1> DEFINE held(o) == Holds(o, new[o]) \cup (IF o \in told THEN {None} ELSE {})
<1>1. /\ store' = new /\ news' \in Nat
  BY DEF Remember, Becomes, Inv, TypeOK
<1>2. /\ since'  = [r \in Request |-> IF req[r].pc = "idle" THEN since[r]
                                      ELSE [o \in Object |-> since[r][o] \cup held(o)]]
      /\ lately' = [o \in Object |-> lately[o] \cup held(o)]
  BY DEF Remember
<1>3. \A o \in Object : held(o) \subseteq Known /\ Holds(o, new[o]) \subseteq held(o)
  BY HoldsType DEF Known
<1>4. \A o \in told : None \in held(o)
  OBVIOUS
<1> HIDE DEF held
<1>5. /\ since \in [Request -> [Object -> SUBSET Known]]
      /\ lately \in [Object -> SUBSET Known]
  BY DEF Inv, TypeOK
<1>6. lately' \in [Object -> SUBSET Known] /\ since' \in [Request -> [Object -> SUBSET Known]]
  BY <1>2, <1>3, <1>5
<1>7. /\ \A o \in Object : lately'[o] = lately[o] \cup held(o)
      /\ \A x \in Request, o \in Object : Live(x) => since'[x][o] = since[x][o] \cup held(o)
  BY <1>2 DEF Live
<1> HIDE DEF Live
<1> QED  BY <1>1, <1>3, <1>4, <1>6, <1>7 DEF HistoryStep, Grows, StoreIn

-----------------------------------------------------------------------------
(***************************************************************************)
(* A request's step, as far as all have it in common.                      *)
(***************************************************************************)
LEMMA Carried ==
  ASSUME Inv, HistoryStep, NEW x \in Request, Live(x)
  PROVE  /\ req[x] \in Requests /\ Placed(req[x])
         /\ WalkIn(req[x], since'[x], lately', store')
         /\ AnswersIn(req[x], since'[x], lately')
         /\ req[x].pc # "seeded" => /\ NodesIn(nodeProp, since'[x], lately')
                                    /\ EntitiesIn(entityResult, since'[x], lately')
<1>1. /\ req[x] \in Requests /\ Placed(req[x])
      /\ nodeProp \in Cache(Known) /\ entityResult \in Cache(Value)
  BY DEF Inv, TypeOK
<1>2. RequestIn(req[x], since[x], lately, store, nodeProp, entityResult)
  BY DEF Inv, HistoryInv
<1>3. /\ Grows(since[x], since'[x]) /\ Grows(lately, lately')
      /\ \A o \in Object : store[o].classed => store'[o].classed
  BY DEF HistoryStep
<1>4. WalkIn(req[x], since'[x], lately', store')
  BY <1>1, <1>2, <1>3, WalkGrows DEF RequestIn
<1>5. AnswersIn(req[x], since'[x], lately')
  BY <1>1, <1>2, <1>3, AnswersGrow DEF RequestIn
<1>6. req[x].pc # "seeded" => /\ NodesIn(nodeProp, since'[x], lately')
                              /\ EntitiesIn(entityResult, since'[x], lately')
  BY <1>1, <1>2, <1>3, CachesGrow DEF RequestIn
<1> QED  BY <1>1, <1>4, <1>5, <1>6

LEMMA StepInv ==
  ASSUME Inv, HistoryStep, NEW r \in Request, Live(r), NEW q \in Requests, Placed(q),
         q.pc # "idle", req' = [req EXCEPT ![r] = q],
         WalkIn(q, since'[r], lately', store'), AnswersIn(q, since'[r], lately'),
         nodeProp' \in Cache(Known), entityResult' \in Cache(Value),
         \A x \in Request : Live(x) /\ (IF x = r THEN q.pc # "seeded" ELSE req[x].pc # "seeded") =>
           NodesIn(nodeProp', since'[x], lately') /\ EntitiesIn(entityResult', since'[x], lately')
  PROVE  Inv'
<1>1. req \in [Request -> Requests] /\ \A x \in Request : Placed(req[x])
  BY DEF Inv, TypeOK
<1>2. /\ req' \in [Request -> Requests]
      /\ req'[r] = q
      /\ \A x \in Request \ {r} : req'[x] = req[x]
  BY <1>1
<1>3. TypeOK'
  BY <1>1, <1>2 DEF TypeOK, HistoryStep
<1>4. ASSUME NEW x \in Request, Live(x)'
      PROVE  RequestIn(req'[x], since'[x], lately', store', nodeProp', entityResult')
  <2>1. CASE x = r
    BY <1>2, <2>1 DEF RequestIn, HistoryStep
  <2>2. CASE x # r
    <3>1. req'[x] = req[x] /\ Live(x)
      BY <1>2, <1>4, <2>2 DEF Live
    <3> QED  BY <2>2, <3>1, Carried DEF RequestIn, HistoryStep
  <2> QED  BY <2>1, <2>2
<1> QED  BY <1>3, <1>4 DEF Inv, HistoryInv, Live

(* A step that leaves the results alone. *)
LEMMA LocalStep ==
  ASSUME Inv, HistoryStep, NEW r \in Request, Live(r), NEW q \in Requests, Placed(q),
         q.pc # "idle", req' = [req EXCEPT ![r] = q], req[r].pc = "seeded" => q.pc = "seeded",
         WalkIn(q, since'[r], lately', store'), AnswersIn(q, since'[r], lately'),
         UNCHANGED caches
  PROVE  Inv'
<1>1. nodeProp' = nodeProp /\ entityResult' = entityResult
  BY DEF caches
<1>2. nodeProp \in Cache(Known) /\ entityResult \in Cache(Value)
  BY DEF Inv, TypeOK
<1>3. \A x \in Request : Live(x) /\ (IF x = r THEN q.pc # "seeded" ELSE req[x].pc # "seeded") =>
        NodesIn(nodeProp, since'[x], lately') /\ EntitiesIn(entityResult, since'[x], lately')
  BY Carried
<1> QED  BY <1>1, <1>2, <1>3, StepInv

(* The object that a request is at gets its answer. *)
LEMMA AnsweredIn ==
  ASSUME NEW q \in Requests, q.todo # <<>>, NEW value \in Known, NEW s, NEW l, NEW st,
         AnswersIn(q, s, l),
         IF value # None THEN Found(Head(q.todo), value, s) /\ Nearest(Head(q.todo), value, l)
         ELSE \E chain \in Chains[Head(q.todo)] : \A j \in Within(chain) : None \in s[chain[j]]
  PROVE  /\ Answered(q, value) \in Requests
         /\ Placed(Answered(q, value))
         /\ Answered(q, value).pc = "entity"
         /\ WalkIn(Answered(q, value), s, l, st)
         /\ AnswersIn(Answered(q, value), s, l)
<1> DEFINE e == Head(q.todo)
           a == Answered(q, value)
           new == With(q.answers, e, value)
<1>1. e \in Object /\ Tail(q.todo) \in Seq(Object) /\ q.answers \in Cache(Known)
  BY DEF Requests
<1> HIDE DEF e
<1>2. /\ new \in Cache(Known) /\ DOMAIN new = DOMAIN q.answers \cup {e} /\ new[e] = value
      /\ \A x \in DOMAIN q.answers : x # e => new[x] = q.answers[x]
  <2>1. new \in Cache(Known)
    BY <1>1, WithElement
  <2> QED  BY <2>1 DEF With
<1>3. a = [q EXCEPT !.pc = "entity", !.todo = Tail(q.todo), !.answers = new,
                    !.chain = <<>>, !.at = 1]
  BY DEF Answered, e
<1> HIDE DEF new
<1>4. <<>> \in Seq(Object) /\ 1 \in Nat /\ "entity" \in States
  BY DEF States
<1>5. a \in Requests /\ a.pc = "entity" /\ a.answers = new /\ a.at = 1
  BY <1>1, <1>2, <1>3, <1>4 DEF Requests
<1> HIDE DEF a
<1>6. Placed(a) /\ WalkIn(a, s, l, st)
  BY <1>5 DEF Placed, WalkIn
<1>7. AnswersIn(a, s, l)
  BY <1>2, <1>5 DEF AnswersIn, e
<1> QED  BY <1>5, <1>6, <1>7 DEF a

-----------------------------------------------------------------------------
(***************************************************************************)
(* A node of a chain has its result.                                       *)
(***************************************************************************)
Probing(q) == q.pc \in {"probe", "full", "props"}

(* Where a request that probes stands in a chain of its object. *)
LEMMA Standing ==
  ASSUME NEW q \in Requests, Placed(q), Probing(q), NEW s, NEW l, NEW st, WalkIn(q, s, l, st)
  PROVE  /\ q.todo # <<>> /\ Head(q.todo) \in Object
         /\ q.chain[q.at] \in Object /\ q.chain[q.at] \in Above(Head(q.todo))
         /\ q.at \in Nat /\ q.at >= 1 /\ q.at <= Len(q.chain)
         /\ DOMAIN q.chain = 1..Len(q.chain) /\ Len(q.chain) \in Nat
         /\ \E chain \in Chains[Head(q.todo)] :
              /\ chain \in Seq(Object)
              /\ q.chain = Limited(chain)
              /\ Within(chain) = DOMAIN q.chain
              /\ \A j \in Within(chain) : chain[j] = q.chain[j]
              /\ \A i \in 1..(q.at - 1) : None \in s[chain[i]] /\ None \in l[chain[i]]
<1>1. /\ q.todo \in Seq(Object) /\ q.todo # <<>> /\ q.at \in DOMAIN q.chain
      /\ q.chain \in Seq(Object)
  BY DEF Requests, Placed, Probing
<1>2. Head(q.todo) \in Object
  BY <1>1
<1>3. /\ DOMAIN q.chain = 1..Len(q.chain) /\ Len(q.chain) \in Nat
  BY <1>1
<1>4. q.at \in Nat /\ q.at >= 1 /\ q.at <= Len(q.chain)
  BY <1>1, <1>3
<1>5. PICK chain \in Chains[Head(q.todo)] :
        /\ q.chain = Limited(chain)
        /\ \A i \in 1..(q.at - 1) : None \in s[chain[i]] /\ None \in l[chain[i]]
  BY DEF WalkIn, Probing
<1>6. /\ chain \in Seq(Object)
      /\ Within(chain) = DOMAIN q.chain
      /\ \A j \in Within(chain) : chain[j] = q.chain[j]
  BY <1>2, <1>5, ChainsOf, LimitedChain
<1>7. q.chain[q.at] \in Object /\ q.chain[q.at] \in Above(Head(q.todo))
  BY <1>1, <1>2, <1>6, ChainsOf
<1> QED  BY <1>1, <1>2, <1>3, <1>4, <1>5, <1>6, <1>7

(* What is found at the node is the answer, or the walk goes on, or it has ended. *)
LEMMA FoundAt ==
  ASSUME NEW q \in Requests, Placed(q), Probing(q), NEW s, NEW l, NEW st, WalkIn(q, s, l, st),
         NEW value \in Known, value # None => q.chain[q.at] \in Matching,
         value \in s[q.chain[q.at]], value \in l[q.chain[q.at]]
  PROVE  /\ value # None => /\ Found(Head(q.todo), value, s)
                            /\ Nearest(Head(q.todo), value, l)
         /\ value = None /\ q.at = Len(q.chain) =>
              \E chain \in Chains[Head(q.todo)] : \A j \in Within(chain) : None \in s[chain[j]]
         /\ value = None /\ q.at # Len(q.chain) =>
              LET n == [q EXCEPT !.pc = "probe", !.at = @ + 1]
              IN  n \in Requests /\ Placed(n) /\ n.pc = "probe" /\ n.answers = q.answers
                  /\ WalkIn(n, s, l, st)
<1>1. PICK chain \in Chains[Head(q.todo)] :
        /\ chain \in Seq(Object)
        /\ q.chain = Limited(chain)
        /\ Within(chain) = DOMAIN q.chain
        /\ \A j \in Within(chain) : chain[j] = q.chain[j]
        /\ \A i \in 1..(q.at - 1) : None \in s[chain[i]] /\ None \in l[chain[i]]
  BY Standing
<1>2. /\ Head(q.todo) \in Object /\ q.todo # <<>>
      /\ q.at \in Nat /\ q.at >= 1 /\ q.at <= Len(q.chain)
      /\ DOMAIN q.chain = 1..Len(q.chain) /\ Len(q.chain) \in Nat
      /\ q.chain[q.at] \in Above(Head(q.todo))
  BY Standing
<1>3. q.at \in Within(chain) /\ chain[q.at] = q.chain[q.at]
  BY <1>1, <1>2
<1>4. ASSUME value # None
      PROVE  Found(Head(q.todo), value, s) /\ Nearest(Head(q.todo), value, l)
  BY <1>1, <1>2, <1>3, <1>4 DEF Found, Nearest
<1>5. ASSUME value = None, q.at = Len(q.chain)
      PROVE  \A j \in Within(chain) : None \in s[chain[j]]
  <2> TAKE j \in Within(chain)
  <2>1. j = q.at \/ j \in 1..(q.at - 1)
    BY <1>1, <1>2, <1>5
  <2> QED  BY <1>1, <1>3, <1>5, <2>1
<1>6. ASSUME value = None, q.at # Len(q.chain)
      PROVE  LET n == [q EXCEPT !.pc = "probe", !.at = @ + 1]
             IN  n \in Requests /\ Placed(n) /\ n.pc = "probe" /\ n.answers = q.answers
                 /\ WalkIn(n, s, l, st)
  <2> DEFINE n == [q EXCEPT !.pc = "probe", !.at = @ + 1]
  <2>1. q.at + 1 \in Nat /\ q.at + 1 \in 1..Len(q.chain)
    BY <1>2, <1>6
  <2>2. /\ n \in Requests /\ n.pc = "probe" /\ n.answers = q.answers
        /\ n.todo = q.todo /\ n.chain = q.chain /\ n.at = q.at + 1
    BY <2>1 DEF Requests, States
  <2> HIDE DEF n
  <2>3. Placed(n)
    BY <1>2, <2>1, <2>2 DEF Placed
  <2>4. \A i \in 1..(n.at - 1) : None \in s[chain[i]] /\ None \in l[chain[i]]
    <3> TAKE i \in 1..(n.at - 1)
    <3>1. i = q.at \/ i \in 1..(q.at - 1)
      BY <1>2, <2>2
    <3> QED  BY <1>1, <1>3, <1>6, <3>1
  <2>5. WalkIn(n, s, l, st)
    BY <1>1, <2>2, <2>4 DEF WalkIn
  <2> QED  BY <2>2, <2>3, <2>5 DEF n
<1> QED  BY <1>4, <1>5, <1>6

LEMMA FindStep ==
  ASSUME Inv, HistoryStep, NEW r \in Request, Probing(req[r]), NEW value \in Known,
         value # None => Node(r) \in Matching,
         value \in lately'[Node(r)],
         \A x \in Request : Live(x) /\ req[x].pc # "seeded" => value \in since'[x][Node(r)],
         Find(r, value), nodeProp' \in {nodeProp, With(nodeProp, Node(r), value)}
  PROVE  Inv'
<1> DEFINE q == req[r]
           e == Head(q.todo)
<1>1. Live(r) /\ q.pc # "seeded"
  BY DEF Live, Probing
<1>2. /\ q \in Requests /\ Placed(q)
      /\ WalkIn(q, since'[r], lately', store') /\ AnswersIn(q, since'[r], lately')
      /\ nodeProp \in Cache(Known) /\ entityResult \in Cache(Value)
  BY <1>1, Carried DEF Inv, TypeOK
<1>3. /\ q.todo # <<>> /\ e \in Object /\ Node(r) \in Object /\ Node(r) \in Above(e)
  BY <1>2, Standing DEF Node
<1>4. /\ value # None => Found(e, value, since'[r]) /\ Nearest(e, value, lately')
      /\ value = None /\ q.at = Len(q.chain) =>
           \E chain \in Chains[e] : \A j \in Within(chain) : None \in since'[r][chain[j]]
      /\ value = None /\ q.at # Len(q.chain) =>
           LET n == [q EXCEPT !.pc = "probe", !.at = @ + 1]
           IN  n \in Requests /\ Placed(n) /\ n.pc = "probe" /\ n.answers = q.answers
               /\ WalkIn(n, since'[r], lately', store')
  BY <1>1, <1>2, FoundAt DEF Node
<1>5. \E n \in Requests :
        /\ Placed(n) /\ n.pc # "idle" /\ req' = [req EXCEPT ![r] = n]
        /\ WalkIn(n, since'[r], lately', store') /\ AnswersIn(n, since'[r], lately')
  <2>1. CASE value # None \/ q.at = Len(q.chain)
    <3>1. req' = [req EXCEPT ![r] = Answered(q, value)]
      BY <2>1 DEF Find
    <3>2. IF value # None THEN Found(e, value, since'[r]) /\ Nearest(e, value, lately')
          ELSE \E chain \in Chains[e] : \A j \in Within(chain) : None \in since'[r][chain[j]]
      BY <1>4, <2>1
    <3>3. /\ Answered(q, value) \in Requests /\ Placed(Answered(q, value))
          /\ Answered(q, value).pc = "entity"
          /\ WalkIn(Answered(q, value), since'[r], lately', store')
          /\ AnswersIn(Answered(q, value), since'[r], lately')
      BY <1>2, <1>3, <3>2, AnsweredIn
    <3> QED  BY <3>1, <3>3
  <2>2. CASE value = None /\ q.at # Len(q.chain)
    <3> DEFINE n == [q EXCEPT !.pc = "probe", !.at = @ + 1]
    <3>1. req' = [req EXCEPT ![r] = n]
      BY <2>2 DEF Find
    <3>2. /\ n \in Requests /\ Placed(n) /\ n.pc = "probe" /\ n.answers = q.answers
          /\ WalkIn(n, since'[r], lately', store')
      BY <1>4, <2>2
    <3> HIDE DEF n
    <3>3. AnswersIn(n, since'[r], lately')
      BY <1>2, <3>2 DEF AnswersIn
    <3> QED  BY <3>1, <3>2, <3>3
  <2> QED  BY <2>1, <2>2
<1>6. nodeProp' \in Cache(Known)
  BY <1>2, <1>3, WithElement
<1>7. entityResult' \in Cache(Value)
  <2>1. value # None => value \in Value
    BY DEF Known
  <2> QED  BY <1>2, <1>3, <2>1, WithElement DEF Find
<1>8. ASSUME NEW x \in Request, Live(x), req[x].pc # "seeded"
      PROVE  NodesIn(nodeProp', since'[x], lately') /\ EntitiesIn(entityResult', since'[x], lately')
  <2>1. NodesIn(nodeProp, since'[x], lately') /\ EntitiesIn(entityResult, since'[x], lately')
    BY <1>8, Carried
  <2>2. value \in since'[x][Node(r)]
    BY <1>8
  <2>3. NodesIn(nodeProp', since'[x], lately')
    BY <2>1, <2>2 DEF NodesIn, With
  <2>4. EntitiesIn(entityResult', since'[x], lately')
    <3>1. CASE value = None
      BY <2>1, <3>1 DEF Find
    <3>2. CASE value # None
      <4>1. entityResult' = With(entityResult, e, value)
        BY <3>2 DEF Find
      <4>2. Found(e, value, since'[x])
        BY <1>3, <2>2, <3>2 DEF Found
      <4>3. Nearest(e, value, lately')
        BY <1>4, <3>2
      <4> HIDE DEF e
      <4> QED  BY <2>1, <4>1, <4>2, <4>3 DEF EntitiesIn, With
    <3> QED  BY <3>1, <3>2
  <2> QED  BY <2>3, <2>4
<1> QED  BY <1>1, <1>5, <1>6, <1>7, <1>8, StepInv

-----------------------------------------------------------------------------
(***************************************************************************)
(* The steps of _probe_node.                                               *)
(***************************************************************************)
LEMMA ProbingNode ==
  ASSUME Inv, NEW r \in Request, Probing(req[r])
  PROVE  /\ Live(r) /\ req[r].pc # "seeded"
         /\ req[r] \in Requests /\ Placed(req[r])
         /\ Node(r) \in Object
         /\ req[r].pc = "props" => Node(r) \in Matching /\ store[Node(r)].classed
<1>1. Live(r) /\ req[r].pc # "seeded"
  BY DEF Live, Probing
<1>2. /\ req[r] \in Requests /\ Placed(req[r])
      /\ WalkIn(req[r], since[r], lately, store)
  BY <1>1 DEF Inv, TypeOK, HistoryInv, RequestIn
<1>3. req[r].chain[req[r].at] \in Object
  BY <1>2, Standing
<1>4. req[r].pc = "props" => Node(r) \in Matching /\ store[Node(r)].classed
  BY <1>2 DEF Node, WalkIn
<1> QED  BY <1>1, <1>2, <1>3, <1>4 DEF Node

(* What the store holds of the node counts for every request. *)
LEMMA NodeHeld ==
  ASSUME Inv, HistoryStep, NEW r \in Request, Probing(req[r]),
         NEW value \in Holds(Node(r), store'[Node(r)])
  PROVE  /\ value \in Known /\ value \in lately'[Node(r)]
         /\ \A x \in Request : Live(x) => value \in since'[x][Node(r)]
<1>1. Node(r) \in Object /\ Live(r)
  BY ProbingNode
<1>2. store'[Node(r)] \in Entries
  BY <1>1 DEF HistoryStep
<1>3. value \in Known
  BY <1>1, <1>2, HoldsType
<1>4. \A x \in Request : Live(x) => value \in since'[x][Node(r)] /\ value \in lately'[Node(r)]
  BY <1>1 DEF HistoryStep, StoreIn
<1> QED  BY <1>1, <1>3, <1>4

(* A request that asks for more of the node. *)
LEMMA AskStep ==
  ASSUME Inv, HistoryStep, NEW r \in Request, Probing(req[r]), NEW pc \in {"full", "props"},
         Ask(r, pc), pc = "props" => Node(r) \in Matching /\ store'[Node(r)].classed
  PROVE  Inv'
<1> DEFINE q == [req[r] EXCEPT !.pc = pc]
<1>1. /\ Live(r) /\ req[r].pc # "seeded" /\ req[r] \in Requests /\ Placed(req[r])
  BY ProbingNode
<1>2. WalkIn(req[r], since'[r], lately', store') /\ AnswersIn(req[r], since'[r], lately')
  BY <1>1, Carried
<1>3. /\ q \in Requests /\ q.pc = pc /\ q.todo = req[r].todo /\ q.answers = req[r].answers
      /\ q.chain = req[r].chain /\ q.at = req[r].at
  BY <1>1 DEF Requests, States
<1>4. req' = [req EXCEPT ![r] = q] /\ UNCHANGED caches
  BY DEF Ask
<1> HIDE DEF q
<1>5. Placed(q)
  BY <1>1, <1>3 DEF Placed, Probing
<1>6. WalkIn(q, since'[r], lately', store')
  BY <1>2, <1>3 DEF WalkIn, Probing, Node
<1>7. AnswersIn(q, since'[r], lately')
  BY <1>2, <1>3 DEF AnswersIn
<1> QED  BY <1>1, <1>3, <1>4, <1>5, <1>6, <1>7, LocalStep

LEMMA LookStep ==
  ASSUME Inv, HistoryStep, NEW r \in Request, Probing(req[r]),
         store'[Node(r)].classed, Look(r, store'[Node(r)])
  PROVE  Inv'
<1> DEFINE n == store'[Node(r)]
<1>1. Node(r) \in Object
  BY ProbingNode
<1>2. n \in Entries
  BY <1>1 DEF HistoryStep
<1>3. CASE Node(r) \notin Matching
  <2>1. FindAndKeep(r, None) /\ None \in Holds(Node(r), n)
    BY <1>3 DEF Look, Holds
  <2> QED  BY <2>1, NodeHeld, FindStep DEF FindAndKeep
<1>4. CASE Node(r) \in Matching /\ n.prop = Unread
  <2>1. Ask(r, "props")
    BY <1>4 DEF Look
  <2> QED  BY <1>4, <2>1, AskStep
<1>5. CASE Node(r) \in Matching /\ n.prop # Unread
  <2>1. FindAndKeep(r, n.prop) /\ n.prop \in Holds(Node(r), n)
    BY <1>5 DEF Look, Holds
  <2> HIDE DEF n
  <2>2. /\ n.prop \in Known /\ n.prop \in lately'[Node(r)]
        /\ \A x \in Request : Live(x) => n.prop \in since'[x][Node(r)]
    BY <2>1, NodeHeld DEF n
  <2> QED  BY <1>5, <2>1, <2>2, FindStep DEF FindAndKeep
<1> QED  BY <1>3, <1>4, <1>5

LEMMA ProbeInv ==
  ASSUME Inv, NEW r \in Request, Probe(r)
  PROVE  Inv'
<1>1. Probing(req[r]) /\ store' = store /\ HistoryStep
  BY NoHistoryStep DEF Probe, Probing
<1>2. Node(r) \in Object /\ Live(r) /\ req[r].pc # "seeded"
  BY <1>1, ProbingNode
<1>3. CASE Node(r) \in DOMAIN nodeProp
  <2> DEFINE value == nodeProp[Node(r)]
  <2>1. Find(r, value) /\ nodeProp' = nodeProp
    BY <1>3 DEF Probe
  <2>2. value \in Known
    BY <1>3, CacheElements DEF Inv, TypeOK
  <2>3. ASSUME NEW x \in Request, Live(x), req[x].pc # "seeded"
        PROVE  /\ value \in since'[x][Node(r)] /\ value \in lately'[Node(r)]
               /\ value # None => Node(r) \in Matching
    <3>1. NodesIn(nodeProp, since'[x], lately')
      BY <1>1, <2>3, Carried
    <3> QED  BY <1>3, <3>1 DEF NodesIn
  <2> HIDE DEF value
  <2> QED  BY <1>1, <1>2, <2>1, <2>2, <2>3, FindStep
<1>4. CASE Node(r) \notin DOMAIN nodeProp /\ store[Node(r)].classed
  <2>1. Look(r, store'[Node(r)])
    BY <1>1, <1>4 DEF Probe
  <2> QED  BY <1>1, <1>4, <2>1, LookStep
<1>5. CASE Node(r) \notin DOMAIN nodeProp /\ ~ store[Node(r)].classed
  <2>1. Ask(r, "full")
    BY <1>5 DEF Probe
  <2> QED  BY <1>1, <2>1, AskStep
<1> QED  BY <1>3, <1>4, <1>5

(* What SAYMON answers of a node leaves the rest of the store, and no class is lost. *)
LEMMA AnswerStep ==
  ASSUME Inv, NEW r \in Request, Probing(req[r]), NEW n \in Answers(Node(r)),
         NEW told \in SUBSET {Node(r)}, Remember([store EXCEPT ![Node(r)] = n], told)
  PROVE  /\ HistoryStep
         /\ n \in Entries /\ store'[Node(r)] = n
         /\ store[Node(r)].classed => n.classed
         /\ \A o \in told : None \in lately'[o] /\ \A x \in Request : Live(x) => None \in since'[x][o]
<1> DEFINE o == Node(r)
           new == [store EXCEPT ![o] = n]
<1>1. o \in Object /\ store \in [Object -> Entries]
  BY ProbingNode DEF Inv, TypeOK
<1>2. store[o] \in Entries /\ store[o].classed \in BOOLEAN
  BY <1>1 DEF Entries
<1>3. n \in Entries /\ (store[o].classed => n.classed)
  <2>1. CASE n = store[o]
    BY <1>2, <2>1
  <2>2. CASE \E c \in BOOLEAN, p \in Known \cup {Unread} :
               n = [classed |-> c \/ store[o].classed, prop |-> p]
    BY <1>2, <2>2 DEF Entries
  <2> QED  BY <2>1, <2>2 DEF Answers
<1>4. /\ new \in [Object -> Entries] /\ new[o] = n
      /\ \A x \in Object : store[x].classed => new[x].classed
  BY <1>1, <1>3
<1>5. told \in SUBSET Object /\ Remember(new, told)
  BY <1>1
<1> HIDE DEF o, new
<1>6. HistoryStep /\ store' = new
  BY <1>4, <1>5, RememberStep
<1>7. \A x \in told : None \in lately'[x] /\ \A y \in Request : Live(y) => None \in since'[y][x]
  BY <1>4, <1>5, RememberStep
<1> QED  BY <1>3, <1>4, <1>6, <1>7 DEF o

LEMMA FullInv ==
  ASSUME Inv, NEW r \in Request, Full(r)
  PROVE  Inv'
<1>1. Probing(req[r])
  BY DEF Full, Probing
<1>2. PICK n \in Answers(Node(r)) :
        /\ Remember([store EXCEPT ![Node(r)] = n], IF n.classed THEN {} ELSE {Node(r)})
        /\ IF n.classed THEN Look(r, n)
           ELSE Find(r, None) /\ nodeProp' \in {nodeProp, With(nodeProp, Node(r), None)}
  BY DEF Full
<1>3. CASE n.classed
  <2>1. Remember([store EXCEPT ![Node(r)] = n], {}) /\ Look(r, n)
    BY <1>2, <1>3
  <2>2. HistoryStep /\ store'[Node(r)] = n
    BY <1>1, <2>1, AnswerStep
  <2> QED  BY <1>1, <1>3, <2>1, <2>2, LookStep
<1>4. CASE ~ n.classed
  <2>1. /\ Remember([store EXCEPT ![Node(r)] = n], {Node(r)})
        /\ Find(r, None) /\ nodeProp' \in {nodeProp, With(nodeProp, Node(r), None)}
    BY <1>2, <1>4
  <2>2. /\ HistoryStep
        /\ None \in lately'[Node(r)] /\ \A x \in Request : Live(x) => None \in since'[x][Node(r)]
    BY <1>1, <2>1, AnswerStep
  <2>3. None \in Known
    BY DEF Known
  <2> QED  BY <1>1, <2>1, <2>2, <2>3, FindStep
<1> QED  BY <1>3, <1>4

LEMMA PropsInv ==
  ASSUME Inv, NEW r \in Request, Props(r)
  PROVE  Inv'
<1>1. Probing(req[r]) /\ req[r].pc = "props"
  BY DEF Props, Probing
<1>2. PICK n \in Answers(Node(r)) :
        /\ Remember([store EXCEPT ![Node(r)] = n], IF n.prop = Unread THEN {Node(r)} ELSE {})
        /\ FindAndKeep(r, IF n.prop = Unread THEN None ELSE n.prop)
  BY DEF Props
<1>3. Node(r) \in Matching /\ store[Node(r)].classed
  BY <1>1, ProbingNode
<1>4. CASE n.prop = Unread
  <2>1. Remember([store EXCEPT ![Node(r)] = n], {Node(r)}) /\ FindAndKeep(r, None)
    BY <1>2, <1>4
  <2>2. /\ HistoryStep
        /\ None \in lately'[Node(r)] /\ \A x \in Request : Live(x) => None \in since'[x][Node(r)]
    BY <1>1, <2>1, AnswerStep
  <2>3. None \in Known
    BY DEF Known
  <2> QED  BY <1>1, <2>1, <2>2, <2>3, FindStep DEF FindAndKeep
<1>5. CASE n.prop # Unread
  <2>1. Remember([store EXCEPT ![Node(r)] = n], {}) /\ FindAndKeep(r, n.prop)
    BY <1>2, <1>5
  <2>2. HistoryStep /\ store'[Node(r)] = n /\ n.classed
    BY <1>1, <1>3, <2>1, AnswerStep
  <2>3. n.prop \in Holds(Node(r), store'[Node(r)])
    BY <1>3, <1>5, <2>2 DEF Holds
  <2> DEFINE value == n.prop
  <2>4. /\ value \in Known /\ value \in lately'[Node(r)]
        /\ \A x \in Request : Live(x) => value \in since'[x][Node(r)]
    BY <1>1, <2>2, <2>3, NodeHeld
  <2>5. Find(r, value) /\ nodeProp' \in {nodeProp, With(nodeProp, Node(r), value)}
    BY <2>1 DEF FindAndKeep
  <2> HIDE DEF value
  <2> QED  BY <1>1, <1>3, <2>2, <2>4, <2>5, FindStep
<1> QED  BY <1>4, <1>5

-----------------------------------------------------------------------------
(***************************************************************************)
(* The other steps.                                                        *)
(***************************************************************************)
LEMMA InitInv == Init => Inv
<1> SUFFICES ASSUME Init  PROVE Inv
  OBVIOUS
<1>1. /\ Unseen \in Entries
      /\ \A V : Nothing \in Cache(V)
  BY NothingCached DEF Unseen, Entries
<1>2. NoRequest \in Requests /\ Placed(NoRequest) /\ NoRequest.pc = "idle"
  <2>1. <<>> \in Seq(Object) /\ Nothing \in Cache(Known) /\ "idle" \in States
    BY <1>1 DEF States
  <2> QED  BY <2>1 DEF NoRequest, Requests, Placed
<1>3. NothingHeld \in [Object -> SUBSET Known]
  BY DEF NothingHeld
<1>4. /\ store = [o \in Object |-> Unseen] /\ nodeProp = Nothing /\ entityResult = Nothing
      /\ req = [r \in Request |-> NoRequest] /\ news = 0
      /\ since = [r \in Request |-> NothingHeld] /\ lately = NothingHeld
  BY DEF Init
<1>5. TypeOK
  BY <1>1, <1>2, <1>3, <1>4 DEF TypeOK
<1>6. \A r \in Request : ~ Live(r)
  BY <1>2, <1>4 DEF Live
<1> QED  BY <1>5, <1>6 DEF Inv, HistoryInv

LEMMA BeginInv ==
  ASSUME Inv, NEW r \in Request, Begin(r)
  PROVE  Inv'
<1> USE DEF Live
<1> DEFINE Seeding(report, new) ==
             /\ Becomes(new)
             /\ since'  = [x \in Request |->
                             IF x # r /\ req[x].pc = "idle" THEN since[x]
                             ELSE [o \in Object |->
                                     (IF x = r THEN {} ELSE since[x][o]) \cup Holds(o, new[o])]]
             /\ lately' = [o \in Object |->
                             (IF Others(r) = {} THEN {} ELSE lately[o]) \cup Holds(o, new[o])]
             /\ req' = [req EXCEPT ![r] = [NoRequest EXCEPT !.pc = "seeded", !.todo = report]]
<1>0. PICK report \in Reports : \E n \in Seeded(report) : Seeding(report, n)
  BY DEF Begin
<1>1. PICK new \in Seeded(report) : Seeding(report, new)
  BY <1>0
<1>2. /\ new \in [Object -> Entries] /\ report \in Seq(Object)
      /\ store' = new /\ news' \in Nat /\ nodeProp' = nodeProp /\ entityResult' = entityResult
      /\ \A o \in Object : store[o].classed => new[o].classed
  BY <1>1, ResolverAssumption DEF Seeded, Becomes, Begin, caches, Inv, TypeOK, Entries
<1>3. \A o \in Object : Holds(o, new[o]) \subseteq Known
  BY <1>2, HoldsType
<1> DEFINE q == [NoRequest EXCEPT !.pc = "seeded", !.todo = report]
<1>4. /\ q \in Requests /\ Placed(q) /\ q.pc = "seeded" /\ q.at = 1
      /\ q.answers = Nothing
  <2>1. <<>> \in Seq(Object) /\ Nothing \in Cache(Known) /\ "seeded" \in States
    BY NothingCached DEF States
  <2> QED  BY <1>2, <2>1 DEF NoRequest, Requests, Placed
<1>5. req' = [req EXCEPT ![r] = q]
  BY <1>1
<1> HIDE DEF q
<1>6. /\ req \in [Request -> Requests] /\ \A x \in Request : Placed(req[x])
      /\ since \in [Request -> [Object -> SUBSET Known]]
      /\ lately \in [Object -> SUBSET Known]
      /\ nodeProp \in Cache(Known) /\ entityResult \in Cache(Value)
  BY DEF Inv, TypeOK
<1>7. /\ req' \in [Request -> Requests] /\ req'[r] = q
      /\ \A x \in Request \ {r} : req'[x] = req[x]
  BY <1>4, <1>5, <1>6
<1>8. /\ since' \in [Request -> [Object -> SUBSET Known]]
      /\ lately' \in [Object -> SUBSET Known]
  BY <1>1, <1>3, <1>6
<1>9. TypeOK'
  BY <1>2, <1>4, <1>6, <1>7, <1>8 DEF TypeOK
<1>10. RequestIn(q, since'[r], lately', store', nodeProp', entityResult')
  <2>1. StoreIn(store', since'[r], lately')
    BY <1>1, <1>2 DEF StoreIn
  <2>2. WalkIn(q, since'[r], lately', store')
    BY <1>4 DEF WalkIn
  <2>3. AnswersIn(q, since'[r], lately')
    BY <1>4, NothingCached DEF AnswersIn
  <2> QED  BY <1>4, <2>1, <2>2, <2>3 DEF RequestIn
<1>11. ASSUME NEW x \in Request \ {r}, req[x].pc # "idle"
       PROVE  RequestIn(req[x], since'[x], lately', store', nodeProp', entityResult')
  <2>1. Others(r) # {}
    BY <1>11 DEF Others
  <2>2. Grows(lately, lately') /\ Grows(since[x], since'[x])
    BY <1>1, <1>11, <2>1 DEF Grows
  <2>3. StoreIn(store', since'[x], lately')
    BY <1>1, <1>2, <1>11 DEF StoreIn
  <2>4. RequestIn(req[x], since[x], lately, store, nodeProp, entityResult)
    BY <1>11 DEF Inv, HistoryInv
  <2>5. WalkIn(req[x], since'[x], lately', store')
    BY <1>2, <1>6, <2>2, <2>4, WalkGrows DEF RequestIn
  <2>6. AnswersIn(req[x], since'[x], lately')
    BY <1>6, <2>2, <2>4, AnswersGrow DEF RequestIn
  <2>7. req[x].pc # "seeded" => /\ NodesIn(nodeProp, since'[x], lately')
                                /\ EntitiesIn(entityResult, since'[x], lately')
    BY <1>6, <2>2, <2>4, CachesGrow DEF RequestIn
  <2> QED  BY <1>2, <2>3, <2>5, <2>6, <2>7 DEF RequestIn
<1>12. ASSUME NEW x \in Request, req'[x].pc # "idle"
       PROVE  RequestIn(req'[x], since'[x], lately', store', nodeProp', entityResult')
  BY <1>7, <1>10, <1>11, <1>12
<1> QED  BY <1>9, <1>12 DEF Inv, HistoryInv

LEMMA LearnInv ==
  ASSUME Inv, NEW r \in Request, Learn(r)
  PROVE  Inv'
<1>1. PICK o \in Object, prop \in Known \cup {Unread} :
        Remember([store EXCEPT ![o] = [classed |-> TRUE, prop |-> prop]], {})
  BY DEF Learn
<1> DEFINE new == [store EXCEPT ![o] = [classed |-> TRUE, prop |-> prop]]
<1>2. store \in [Object -> Entries] /\ [classed |-> TRUE, prop |-> prop] \in Entries
  BY DEF Inv, TypeOK, Entries
<1>3. new \in [Object -> Entries] /\ \A x \in Object : store[x].classed => new[x].classed
  BY <1>2
<1>4. HistoryStep
  <2> HIDE DEF new
  <2>1. Remember(new, {}) /\ {} \in SUBSET Object
    BY <1>1 DEF new
  <2> QED  BY <1>3, <2>1, RememberStep
<1>5. /\ Live(r) /\ req' = req /\ UNCHANGED caches
      /\ req = [req EXCEPT ![r] = req[r]]
  BY DEF Learn, Live, Inv, TypeOK
<1>6. /\ req[r] \in Requests /\ Placed(req[r])
      /\ WalkIn(req[r], since'[r], lately', store') /\ AnswersIn(req[r], since'[r], lately')
  BY <1>4, <1>5, Carried
<1> QED  BY <1>4, <1>5, <1>6, LocalStep DEF Live

LEMMA ResetInv ==
  ASSUME Inv, NEW r \in Request, Reset(r)
  PROVE  Inv'
<1> DEFINE q == [req[r] EXCEPT !.pc = "entity"]
<1>1. HistoryStep /\ Live(r)
  BY NoHistoryStep DEF Reset, Live
<1>2. /\ req[r] \in Requests /\ req[r].pc = "seeded" /\ req[r].at = 1
      /\ AnswersIn(req[r], since'[r], lately')
  BY <1>1, Carried DEF Reset, WalkIn
<1>3. /\ q \in Requests /\ q.pc = "entity" /\ q.answers = req[r].answers /\ q.at = req[r].at
  BY <1>2 DEF Requests, States
<1>4. /\ req' = [req EXCEPT ![r] = q] /\ nodeProp' = Nothing /\ entityResult' = Nothing
  BY DEF Reset
<1> HIDE DEF q
<1>5. Placed(q) /\ WalkIn(q, since'[r], lately', store') /\ AnswersIn(q, since'[r], lately')
  BY <1>2, <1>3 DEF Placed, WalkIn, AnswersIn
<1>6. /\ Nothing \in Cache(Known) /\ Nothing \in Cache(Value)
      /\ \A s, l : NodesIn(Nothing, s, l) /\ EntitiesIn(Nothing, s, l)
  BY NothingCached DEF NodesIn, EntitiesIn
<1> QED  BY <1>1, <1>3, <1>4, <1>5, <1>6, StepInv

LEMMA EntityInv ==
  ASSUME Inv, NEW r \in Request, Entity(r)
  PROVE  Inv'
<1> DEFINE q == req[r]
           e == Head(q.todo)
<1>1. HistoryStep /\ Live(r) /\ UNCHANGED caches /\ q.pc = "entity"
  BY NoHistoryStep DEF Entity, Live
<1>2. /\ q \in Requests /\ q.at = 1
      /\ AnswersIn(q, since'[r], lately') /\ EntitiesIn(entityResult, since'[r], lately')
  BY <1>1, Carried DEF WalkIn
<1>3. /\ q.todo = <<>> => req' = [req EXCEPT ![r] = [q EXCEPT !.pc = "done"]]
      /\ q.todo # <<>> /\ e \in DOMAIN q.answers =>
           req' = [req EXCEPT ![r] = [q EXCEPT !.todo = Tail(q.todo)]]
      /\ q.todo # <<>> /\ e \notin DOMAIN q.answers /\ e \in DOMAIN entityResult =>
           req' = [req EXCEPT ![r] = Answered(q, entityResult[e])]
      /\ q.todo # <<>> /\ e \notin DOMAIN q.answers /\ e \notin DOMAIN entityResult =>
           req' = [req EXCEPT ![r] = [q EXCEPT !.pc = "chain"]]
  BY DEF Entity
<1>4. ASSUME NEW n \in Requests, req' = [req EXCEPT ![r] = n], n.pc \in {"entity", "chain", "done"},
             n.pc = "chain" => n.todo # <<>>, n.at = 1, n.answers = q.answers
      PROVE  Inv'
  <2>1. Placed(n) /\ WalkIn(n, since'[r], lately', store') /\ AnswersIn(n, since'[r], lately')
    BY <1>2, <1>4 DEF Placed, WalkIn, AnswersIn
  <2> QED  BY <1>1, <1>4, <2>1, LocalStep
<1>5. CASE q.todo = <<>>
  <2> DEFINE n == [q EXCEPT !.pc = "done"]
  <2>1. n \in Requests /\ n.pc = "done" /\ n.at = q.at /\ n.answers = q.answers
    BY <1>2 DEF Requests, States
  <2> QED  BY <1>2, <1>3, <1>4, <1>5, <2>1
<1>6. CASE q.todo # <<>> /\ e \in DOMAIN q.answers
  <2> DEFINE n == [q EXCEPT !.todo = Tail(q.todo)]
  <2>1. Tail(q.todo) \in Seq(Object)
    BY <1>2, <1>6 DEF Requests
  <2>2. n \in Requests /\ n.pc = q.pc /\ n.at = q.at /\ n.answers = q.answers
    BY <1>2, <2>1 DEF Requests
  <2> HIDE DEF n
  <2>3. req' = [req EXCEPT ![r] = n]
    BY <1>3, <1>6 DEF n
  <2> QED  BY <1>1, <1>2, <1>4, <2>2, <2>3
<1>7. CASE q.todo # <<>> /\ e \notin DOMAIN q.answers /\ e \in DOMAIN entityResult
  <2> DEFINE value == entityResult[e]
             n == Answered(q, value)
  <2>1. value \in Known /\ value # None
    BY <1>7, CacheElements, ResolverAssumption DEF Inv, TypeOK, Known
  <2>2. Found(e, value, since'[r]) /\ Nearest(e, value, lately')
    BY <1>2, <1>7 DEF EntitiesIn
  <2>3. req' = [req EXCEPT ![r] = n]
    BY <1>3, <1>7
  <2> HIDE DEF value
  <2>4. /\ n \in Requests /\ Placed(n) /\ n.pc = "entity"
        /\ WalkIn(n, since'[r], lately', store') /\ AnswersIn(n, since'[r], lately')
    BY <1>2, <1>7, <2>1, <2>2, AnsweredIn
  <2> QED  BY <1>1, <2>3, <2>4, LocalStep
<1>8. CASE q.todo # <<>> /\ e \notin DOMAIN q.answers /\ e \notin DOMAIN entityResult
  <2> DEFINE n == [q EXCEPT !.pc = "chain"]
  <2>1. n \in Requests /\ n.pc = "chain" /\ n.at = q.at /\ n.answers = q.answers /\ n.todo = q.todo
    BY <1>2 DEF Requests, States
  <2> HIDE DEF n
  <2>2. req' = [req EXCEPT ![r] = n]
    BY <1>3, <1>8 DEF n
  <2> QED  BY <1>2, <1>4, <1>8, <2>1, <2>2
<1> QED  BY <1>5, <1>6, <1>7, <1>8

LEMMA ChainInv ==
  ASSUME Inv, NEW r \in Request, Chain(r)
  PROVE  Inv'
<1> DEFINE q == req[r]
           e == Head(q.todo)
<1>1. HistoryStep /\ Live(r) /\ UNCHANGED caches /\ q.pc = "chain"
  BY NoHistoryStep DEF Chain, Live
<1>2. /\ q \in Requests /\ Placed(q) /\ q.at = 1 /\ q.todo # <<>> /\ AnswersIn(q, since'[r], lately')
  BY <1>1, Carried DEF WalkIn, Placed
<1>3. e \in Object
  BY <1>2 DEF Requests
<1>4. PICK chain \in Chains[e] :
        req' = [req EXCEPT ![r] = IF chain = <<>> THEN Answered(q, None)
                                  ELSE [q EXCEPT !.pc = "probe", !.chain = Limited(chain)]]
  BY DEF Chain
<1>5. chain \in Seq(Object)
  BY <1>3, ChainsOf
<1>6. CASE chain = <<>>
  <2>1. \A j \in Within(chain) : None \in since'[r][chain[j]]
    BY <1>6 DEF Within
  <2>2. None \in Known
    BY DEF Known
  <2>3. /\ Answered(q, None) \in Requests /\ Placed(Answered(q, None))
        /\ Answered(q, None).pc = "entity"
        /\ WalkIn(Answered(q, None), since'[r], lately', store')
        /\ AnswersIn(Answered(q, None), since'[r], lately')
    BY <1>2, <2>1, <2>2, AnsweredIn
  <2> QED  BY <1>1, <1>4, <1>6, <2>3, LocalStep
<1>7. CASE chain # <<>>
  <2> DEFINE n == [q EXCEPT !.pc = "probe", !.chain = Limited(chain)]
  <2>1. Limited(chain) \in Seq(Object) /\ 1 \in DOMAIN Limited(chain)
    BY <1>5, <1>7, LimitedChain
  <2>2. /\ n \in Requests /\ n.pc = "probe" /\ n.chain = Limited(chain) /\ n.at = 1
        /\ n.todo = q.todo /\ n.answers = q.answers
    BY <1>2, <2>1 DEF Requests, States
  <2>3. req' = [req EXCEPT ![r] = n]
    BY <1>4, <1>7
  <2> HIDE DEF n
  <2>4. Placed(n)
    BY <1>2, <2>1, <2>2 DEF Placed
  <2>5. WalkIn(n, since'[r], lately', store')
    <3>1. \A i \in 1..(n.at - 1) : FALSE
      BY <2>2
    <3> QED  BY <2>2, <3>1 DEF WalkIn
  <2>6. AnswersIn(n, since'[r], lately')
    BY <1>2, <2>2 DEF AnswersIn
  <2> QED  BY <1>1, <2>2, <2>3, <2>4, <2>5, <2>6, LocalStep
<1> QED  BY <1>6, <1>7

LEMMA EndInv ==
  ASSUME Inv, NEW r \in Request, End(r)
  PROVE  Inv'
<1>1. /\ req' = [req EXCEPT ![r] = NoRequest]
      /\ since' = [since EXCEPT ![r] = NothingHeld]
      /\ lately' = IF Others(r) = {} THEN NothingHeld ELSE lately
      /\ store' = store /\ nodeProp' = nodeProp /\ entityResult' = entityResult /\ news' = news
  BY DEF End, caches
<1>2. NoRequest \in Requests /\ Placed(NoRequest) /\ NoRequest.pc = "idle"
  <2>1. <<>> \in Seq(Object) /\ Nothing \in Cache(Known) /\ "idle" \in States
    BY NothingCached DEF States
  <2> QED  BY <2>1 DEF NoRequest, Requests, Placed
<1>3. NothingHeld \in [Object -> SUBSET Known]
  BY DEF NothingHeld
<1>4. TypeOK'
  BY <1>1, <1>2, <1>3 DEF Inv, TypeOK
<1>5. ASSUME NEW x \in Request, Live(x)'
      PROVE  RequestIn(req'[x], since'[x], lately', store', nodeProp', entityResult')
  <2>1. x # r /\ req'[x] = req[x] /\ since'[x] = since[x] /\ req[x].pc # "idle"
    BY <1>1, <1>2, <1>5 DEF Live, Inv, TypeOK
  <2>2. lately' = lately
    BY <1>1, <2>1 DEF Others
  <2> QED  BY <1>1, <2>1, <2>2 DEF Inv, HistoryInv, Live
<1> QED  BY <1>4, <1>5 DEF Inv, HistoryInv

LEMMA NextInv ==
  ASSUME Inv, [Next]_vars
  PROVE  Inv'
<1>1. ASSUME NEW r \in Request,
             \/ Begin(r) \/ Learn(r) \/ Reset(r) \/ Entity(r) \/ Chain(r)
             \/ Probe(r) \/ Full(r) \/ Props(r) \/ End(r)
      PROVE  Inv'
  BY <1>1, BeginInv, LearnInv, ResetInv, EntityInv, ChainInv, ProbeInv, FullInv, PropsInv, EndInv
<1>2. CASE UNCHANGED vars
  <2>1. TypeOK'
    BY <1>2 DEF vars, caches, history, Inv, TypeOK
  <2>2. HistoryInv'
    BY <1>2 DEF vars, caches, history, Inv, HistoryInv, Live
  <2> QED  BY <2>1, <2>2 DEF Inv
<1> QED  BY <1>1, <1>2 DEF Next

LEMMA AlwaysInv == Spec => []Inv
BY InitInv, NextInv, PTL DEF Spec

-----------------------------------------------------------------------------
(* The store, the resolver's results and the requests hold what they can hold. *)
THEOREM ResolverTypeCorrect == Spec => []TypeOK
<1>1. Inv => TypeOK
  BY DEF Inv
<1> QED  BY <1>1, AlwaysInv, PTL

(* Only a request under way has answers, those of the invariant. *)
LEMMA AnswersHeld ==
  ASSUME Inv, NEW r \in Request, NEW e \in DOMAIN req[r].answers
  PROVE  IF req[r].answers[e] # None
         THEN Found(e, req[r].answers[e], since[r]) /\ Nearest(e, req[r].answers[e], lately)
         ELSE \E chain \in Chains[e] : \A j \in Within(chain) : None \in since[r][chain[j]]
<1>1. Live(r)
  <2>1. req[r].pc = "idle" => req[r] = NoRequest
    BY DEF Inv, TypeOK, Placed
  <2>2. DOMAIN NoRequest.answers = {}
    BY NothingCached DEF NoRequest
  <2> QED  BY <2>1, <2>2 DEF Live
<1> QED  BY <1>1 DEF Inv, HistoryInv, RequestIn, AnswersIn

(***************************************************************************)
(* Whatever other requests do to the shared results, what a request shows  *)
(* as responsible party is what the store held since the request itself    *)
(* was seeded; for that reset_cache has to clear all of them.              *)
(***************************************************************************)
THEOREM AnswersAreOfTheirTime == Spec => []AnswersAreCurrent
<1>1. Inv => AnswersAreCurrent
  BY AnswersHeld DEF AnswersAreCurrent, Found
<1> QED  BY <1>1, AlwaysInv, PTL

(***************************************************************************)
(* The party shown is that of the nearest object the selector matches, as  *)
(* the store was since a request last began with no other under way.       *)
(***************************************************************************)
THEOREM NearestIsShown == Spec => []NearestLately
<1>1. Inv => NearestLately
  BY AnswersHeld DEF NearestLately, Nearest
<1> QED  BY <1>1, AlwaysInv, PTL
=============================================================================
