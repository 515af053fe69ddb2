-------------------------- MODULE DeliveryProofs --------------------------
(***************************************************************************)
(* Proofs about Delivery, for all plugins in any order, all tickets and    *)
(* their incidents, all failures and bounds: its types, that what the      *)
(* worker says of Oracle is what Oracle has committed, once per ticket,    *)
(* and that comments are kept until they are posted, and posted once.      *)
(***************************************************************************)
EXTENDS Delivery, FiniteSetTheorems, TLAPS

-----------------------------------------------------------------------------
(***************************************************************************)
(* References: what the operators of PluginRefs return.                    *)
(***************************************************************************)
LEMMA RefToType ==
  ASSUME NEW p \in Systems, NEW n \in Nat \ {0}, NEW form \in Forms
  PROVE  RefTo(p, n, form) \in Ref
BY DEF RefTo, Ref

LEMMA FirstOfType ==
  ASSUME NEW r \in MaybeRef, NEW s \in MaybeRef
  PROVE  FirstOf(r, s) \in MaybeRef
BY DEF FirstOf

LEMMA StripHashType ==
  ASSUME NEW r \in MaybeRef
  PROVE  StripHash(r) \in MaybeRef
BY DEF StripHash, MaybeRef, Ref, Forms

LEMMA ExternalFields ==
  ASSUME NEW x \in External
  PROVE  /\ x.ref \in MaybeRef
         /\ \A p \in Systems : x.refs[p] \in MaybeRef
         /\ \A k \in IdKeys : x.ids[k] \in MaybeRef
         /\ x.recorded \in BOOLEAN
         /\ x.comments \in Seq(CommentItem)
BY DEF External

LEMMA FromMetaType ==
  ASSUME NEW x \in External, NEW p, NEW key \in IdKeys
  PROVE  FromMeta(p, key, x) \in MaybeRef
BY ExternalFields DEF FromMeta, MaybeRef

LEMMA FromRefType ==
  ASSUME NEW x \in External
  PROVE  FromDigits(x) \in MaybeRef /\ FromText(x) \in MaybeRef
BY ExternalFields, StripHashType DEF FromDigits, FromText, MaybeRef

(* A plugin addresses a reference or none. *)
LEMMA AddressType ==
  ASSUME NEW x \in External, NEW p \in RestSystems
  PROVE  Address(p, x) \in MaybeRef
<1>1. JiraIssueKey(x) \in MaybeRef
  BY ExternalFields, FromMetaType, FromRefType, FirstOfType DEF JiraIssueKey, Systems, IdKeys
<1>2. RedmineIssueId(x) \in MaybeRef
  BY ExternalFields, FromMetaType, FromRefType, FirstOfType, StripHashType
  DEF RedmineIssueId, Systems, IdKeys
<1>3. FreshdeskTicketId(x) \in MaybeRef
  BY ExternalFields, FromMetaType, FromRefType, FirstOfType, StripHashType
  DEF FreshdeskTicketId, Systems, IdKeys
<1>4. \A q \in Systems, key \in IdKeys, last \in MaybeRef : ExternalId(q, key, x, last) \in MaybeRef
  BY ExternalFields, FromMetaType, FirstOfType DEF ExternalId
<1>5. /\ ServiceNowSysId(x) \in MaybeRef
      /\ SimpleOneSysId(x) \in MaybeRef
      /\ NaumenUuid(x) \in MaybeRef
      /\ ZammadTicketId(x) \in MaybeRef
  BY ExternalFields DEF ServiceNowSysId, SimpleOneSysId, NaumenUuid, ZammadTicketId, IdKeys
<1>6. /\ ExternalId("elma", "item_id", x, FromText(x)) \in MaybeRef
      /\ ExternalId("bitrix24", "task_id", x, FromDigits(x)) \in MaybeRef
      /\ ExternalId("hpsm", "incident_id", x, FromText(x)) \in MaybeRef
  BY <1>4, FromRefType DEF Systems, IdKeys
<1> QED
  BY <1>1, <1>2, <1>3, <1>5, <1>6 DEF Address, RestSystems, Systems

LEMMA OracleRefType ==
  ASSUME NEW x \in External
  PROVE  OracleRef(x) \in MaybeRef /\ IdMonit(x) \in MaybeRef
<1>1. OracleRef(x) \in MaybeRef
  BY ExternalFields, FirstOfType DEF OracleRef, Systems
<1> QED
  BY <1>1 DEF IdMonit, MaybeRef

-----------------------------------------------------------------------------
(***************************************************************************)
(* What a pass makes of a ticket is a ticket.                              *)
(***************************************************************************)
LEMMA NewTicketType == NewTicket \in External
BY DEF NewTicket, External, MaybeRef

LEMMA ResultType ==
  ASSUME NEW p \in Systems, NEW n \in Nat \ {0}, NEW form \in Forms, NEW key \in IdKeys
  PROVE  Result(p, n, form, key) \in [system : Systems, ref : Ref, key : IdKeys, id : Ref]
BY RefToType DEF Result, Forms

LEMMA CreatedType ==
  ASSUME NEW p \in RestSystems, NEW n \in Nat \ {0}
  PROVE  Created(p, n) \in [system : Systems, ref : Ref, key : IdKeys, id : Ref]
<1> DEFINE R == [system : Systems, ref : Ref, key : IdKeys, id : Ref]
<1>1. /\ JiraCreated(n) \in R /\ RedmineCreated(n) \in R /\ FreshdeskCreated(n) \in R
      /\ ServiceNowCreated(n) \in R /\ SimpleOneCreated(n) \in R
  BY ResultType DEF JiraCreated, RedmineCreated, FreshdeskCreated, ServiceNowCreated,
                    SimpleOneCreated, Systems, Forms, IdKeys
<1>2. /\ NaumenCreated(n) \in R /\ ElmaCreated(n) \in R /\ Bitrix24Created(n) \in R
      /\ HpsmCreated(n) \in R /\ ZammadCreated(n) \in R
  BY ResultType DEF NaumenCreated, ElmaCreated, Bitrix24Created, HpsmCreated, ZammadCreated,
                    Systems, Forms, IdKeys
<1> QED
  BY <1>1, <1>2 DEF Created, RestSystems, Systems

LEMMA RegisteredType ==
  ASSUME NEW x \in External,
         NEW r \in [system : Systems, ref : Ref, key : IdKeys, id : Ref]
  PROVE  Registered(x, r) \in External /\ Registered(x, r).recorded = x.recorded
BY DEF Registered, External, MaybeRef

(* A function on 1..n is a sequence. *)
LEMMA FunIsSeq ==
  ASSUME NEW S, NEW n \in Nat, NEW f \in [1..n -> S]
  PROVE  f \in Seq(S) /\ Len(f) = n
OBVIOUS

LEMMA SeqType ==
  ASSUME NEW S, NEW s \in Seq(S)
  PROVE  DOMAIN s = 1..Len(s) /\ Len(s) \in Nat /\ \A n \in DOMAIN s : s[n] \in S
OBVIOUS

LEMMA AppendType ==
  ASSUME NEW S, NEW s \in Seq(S), NEW e \in S
  PROVE  /\ Append(s, e) \in Seq(S)
         /\ DOMAIN s = 1..Len(s) /\ Len(s) \in Nat
         /\ DOMAIN Append(s, e) = 1..(Len(s) + 1)
         /\ \A n \in DOMAIN s : Append(s, e)[n] = s[n]
         /\ Append(s, e)[Len(s) + 1] = e
OBVIOUS

(* Taking an incident off a comment that may not be there. *)
TakenOff(x, k, i) == [x EXCEPT !.comments[k].pending = @ \ {i}]

LEMMA TakenOffType ==
  ASSUME NEW x \in External, NEW k, NEW i
  PROVE  TakenOff(x, k, i) \in External /\ TakenOff(x, k, i).recorded = x.recorded
<1> DEFINE less  == [x.comments[k] EXCEPT !.pending = x.comments[k].pending \ {i}]
             items == [x.comments EXCEPT ![k] = less]
<1>1. x.comments \in Seq(CommentItem)
  BY ExternalFields
<1>2. items \in Seq(CommentItem)
  <2>1. CASE k \in DOMAIN x.comments
    <3>1. x.comments[k] \in CommentItem
      BY <1>1, <2>1
    <3>2. less \in CommentItem
      BY <3>1 DEF CommentItem
    <3> QED
      BY <1>1, <2>1, <3>2
  <2>2. CASE k \notin DOMAIN x.comments
    <3>1. items = x.comments
      BY <1>1, <2>2
    <3> QED
      BY <1>1, <3>1
  <2> QED
    BY <2>1, <2>2
<1>3. TakenOff(x, k, i) = [x EXCEPT !.comments = items]
  BY DEF TakenOff
<1> QED
  BY <1>2, <1>3 DEF External

LEMMA RemovedType ==
  ASSUME TypeOK, NEW w \in Triples
  PROVE  /\ Removed(w) \in [Tickets -> External]
         /\ \A t \in Tickets : Removed(w)[t].recorded = mem[t].recorded
<1>1. w[1] \in Tickets
  BY DEF Triples
<1>2. mem \in [Tickets -> External]
  BY DEF TypeOK
<1>3. Removed(w) = [mem EXCEPT ![w[1]] = TakenOff(mem[w[1]], w[2], w[3])]
  BY DEF Removed, TakenOff
<1> QED
  BY <1>1, <1>2, <1>3, TakenOffType

-----------------------------------------------------------------------------
(***************************************************************************)
(* Type correctness.  An idle worker stands at the first event of the next *)
(* pass.                                                                   *)
(***************************************************************************)
TypeInv == TypeOK /\ (phase = "idle" => ev = 1)

LEMMA IncidentsOf ==
  ASSUME NEW t \in Tickets
  PROVE  Members[t] \subseteq Incidents
BY DEF Incidents

LEMMA InUseType ==
  /\ InUse \subseteq Systems
  /\ \A j \in DOMAIN Plugins : Plugins[j] \in InUse
  /\ 1 \in DOMAIN Plugins
  /\ DOMAIN Plugins = 1..Len(Plugins) /\ Len(Plugins) \in Nat
BY DeliveryAssumption DEF InUse

LEMMA ElementOf ==
  ASSUME NEW S, NEW s \in Seq(S), NEW n \in 1..Len(s)
  PROVE  s[n] \in S /\ n \in DOMAIN s
OBVIOUS

(* Where dispatch stands. *)
LEMMA HandlingType ==
  ASSUME TypeOK, Handling
  PROVE  /\ Handler \in InUse /\ Handler \in Systems
         /\ Action \in Actions
         /\ Ticket \in Tickets
         /\ Known \in External
         /\ ev \in DOMAIN events /\ ev \in 1..Len(events)
         /\ Len(events) \in Nat
<1> DEFINE E == [action : Actions, ticket : Tickets]
<1>1. events \in Seq(E) /\ ev \in 1..(Len(events) + 1)
  BY DEF TypeOK
<1>2. Len(events) \in Nat /\ ev \in 1..Len(events)
  BY <1>1 DEF Handling
<1> HIDE DEF E
<1>3. events[ev] \in E /\ ev \in DOMAIN events
  BY <1>1, <1>2, ElementOf
<1>4. Action \in Actions /\ Ticket \in Tickets
  BY <1>3 DEF E, Action, Ticket
<1>5. Known \in External
  BY <1>4 DEF Known, TypeOK
<1>6. Handler \in InUse /\ Handler \in Systems
  BY InUseType DEF Handler, TypeOK
<1> QED
  BY <1>2, <1>3, <1>4, <1>5, <1>6

LEMMA NextHandlerType ==
  ASSUME TypeOK, Handling, NextHandler
  PROVE  ev' \in 1..(Len(events) + 1) /\ turn' \in DOMAIN Plugins
<1>1. turn \in 1..Len(Plugins) /\ Len(Plugins) \in Nat
  BY InUseType DEF TypeOK
<1>2. ev \in 1..Len(events) /\ Len(events) \in Nat
  BY HandlingType
<1>3. turn' \in DOMAIN Plugins
  BY <1>1, InUseType DEF NextHandler
<1>4. ev' \in 1..(Len(events) + 1)
  BY <1>2 DEF NextHandler
<1> QED
  BY <1>3, <1>4

(* What dispatch leaves alone. *)
LEMMA NextHandlerKeeps ==
  ASSUME TypeOK, Handling, NextHandler
  PROVE  /\ local' \in [Tickets -> [status  : {"none", "open", "closed"},
                                    content : {0, 1},
                                    updates : 0..MaxUpdates]]
         /\ file' \in [Tickets -> External]
         /\ history' \subseteq MayExpire
         /\ phase' = "dispatch"
         /\ events' \in Seq([action : Actions, ticket : Tickets])
         /\ ev' \in 1..(Len(events') + 1)
         /\ turn' \in DOMAIN Plugins
         /\ work' \subseteq Triples
         /\ sending' \in Triples \cup {None}
<1>1. UNCHANGED <<local, file, history, phase, events, work, sending>>
  BY DEF NextHandler
<1> QED
  BY <1>1, NextHandlerType DEF TypeOK, Handling

LEMMA CommentType ==
  ASSUME TypeOK, Handling, NEW kind \in Kinds
  PROVE  /\ Comment(kind) \in CommentItem
         /\ Queued(Known, kind) \in External
         /\ Queued(Known, kind).recorded = Known.recorded
         /\ \A i \in Members[Ticket] : Key(Ticket, Comment(kind), i) \in Keys
<1>1. About(Ticket, Action) \in Abouts
  BY HandlingType DEF TypeOK, About, Abouts
<1>2. Members[Ticket] \subseteq Incidents
  BY HandlingType, IncidentsOf
<1>3. Comment(kind) \in CommentItem
  BY <1>1, <1>2 DEF Comment, CommentItem
<1>4. Append(Known.comments, Comment(kind)) \in Seq(CommentItem)
  BY <1>3, HandlingType, ExternalFields, AppendType
<1>5. Queued(Known, kind) \in External /\ Queued(Known, kind).recorded = Known.recorded
  BY <1>4, HandlingType DEF Queued, External
<1>6. \A i \in Members[Ticket] : Key(Ticket, Comment(kind), i) \in Keys
  BY <1>1, <1>2, HandlingType DEF Key, Keys, Comment
<1> QED
  BY <1>3, <1>5, <1>6

LEMMA QueuesType ==
  ASSUME TypeOK, Handling, NEW kind \in Kinds, QueuesComment(kind)
  PROVE  /\ DOMAIN posted' \subseteq Keys
         /\ posted' \in [DOMAIN posted' -> 0..2]
<1> DEFINE new == {Key(Ticket, Comment(kind), i) : i \in Members[Ticket]}
<1>1. new \subseteq Keys
  BY CommentType
<1>2. posted' = [c \in DOMAIN posted \cup new |-> IF c \in DOMAIN posted THEN posted[c] ELSE 0]
  BY DEF QueuesComment
<1> QED
  BY <1>1, <1>2 DEF TypeOK

LEMMA FingerprintType ==
  ASSUME TypeOK, Handling
  PROVE  Fingerprint \in Fingerprints
BY HandlingType, OracleRefType DEF TypeOK, Fingerprint, Fingerprints

LEMMA OracleResultType ==
  ASSUME TypeOK, OracleHandling, NEW x \in External
  PROVE  OracleResult(x) \in External /\ OracleResult(x).recorded = TRUE
<1>1. Len(desk["oracle"]) \in Nat
  BY HandlingType DEF OracleHandling, TypeOK
<1>2. CursorRef \in MaybeRef
  BY <1>1, RefToType, HandlingType, OracleRefType
  DEF CursorRef, MaybeRef, Systems, Forms, OracleHandling
<1>3. FirstOf(CursorRef, OracleRef(x)) \in MaybeRef
  BY <1>2, OracleRefType, FirstOfType
<1>4. Fingerprint \in Fingerprints
  BY FingerprintType DEF OracleHandling
<1> QED
  BY <1>3, <1>4 DEF OracleResult, External, Systems

(* The events of a pass and what they make of the tickets. *)
LEMMA BeginPassType ==
  ASSUME TypeInv, BeginPass
  PROVE  TypeInv'
<1> DEFINE L == [status : {"none", "open", "closed"}, content : {0, 1}, updates : 0..MaxUpdates]
           E == [action : Actions, ticket : Tickets]
<1>1. PICK S \in SUBSET Tickets : \E act \in [S -> Actions], changed \in SUBSET S, q \in Orders(S) :
        /\ \A t \in S : MayHappen(t, act[t])
        /\ events' = [j \in DOMAIN q |-> [action |-> act[q[j]], ticket |-> q[j]]]
        /\ local' = [t \in Tickets |->
                       IF t \in S THEN Happened(t, act[t], t \in changed) ELSE local[t]]
  BY DEF BeginPass
<1>2. PICK act \in [S -> Actions], changed \in SUBSET S, q \in Orders(S) :
        /\ \A t \in S : MayHappen(t, act[t])
        /\ events' = [j \in DOMAIN q |-> [action |-> act[q[j]], ticket |-> q[j]]]
        /\ local' = [t \in Tickets |->
                       IF t \in S THEN Happened(t, act[t], t \in changed) ELSE local[t]]
  BY <1>1
<1>3. events' \in Seq(E)
  <2>1. Cardinality(S) \in Nat
    BY DeliveryAssumption, FS_Subset, FS_CardinalityType
  <2>2. q \in [1..Cardinality(S) -> S]
    BY DEF Orders
  <2>3. events' \in [1..Cardinality(S) -> E]
    BY <1>2, <2>2
  <2> HIDE DEF E
  <2> QED
    BY <2>1, <2>3, FunIsSeq
<1>4. local' \in [Tickets -> L]
  <2>1. ASSUME NEW t \in S
        PROVE  Happened(t, act[t], t \in changed) \in L
    <3>1. local[t] \in L /\ MayHappen(t, act[t]) /\ MaxUpdates \in Nat /\ act[t] \in Actions
      BY <1>2, DeliveryAssumption DEF TypeInv, TypeOK
    <3>2. (IF act[t] = "closed" THEN "closed" ELSE "open") \in {"none", "open", "closed"}
      OBVIOUS
    <3>3. (IF t \in changed THEN 1 - local[t].content ELSE local[t].content) \in {0, 1}
      BY <3>1
    <3>4. (IF act[t] = "updated" THEN local[t].updates + 1 ELSE local[t].updates) \in 0..MaxUpdates
      <4>1. local[t].updates \in 0..MaxUpdates /\ MaxUpdates \in Nat
        BY <3>1
      <4>2. act[t] = "updated" => local[t].updates < MaxUpdates
        BY <3>1 DEF MayHappen
      <4> QED
        BY <4>1, <4>2
    <3> QED
      BY <3>2, <3>3, <3>4 DEF Happened
  <2> QED
    BY <1>2, <2>1 DEF TypeInv, TypeOK
<1>5. history' \subseteq MayExpire /\ mem' \in [Tickets -> External]
  BY DEF BeginPass, TypeInv, TypeOK
<1>6. ev' \in 1..(Len(events') + 1)
  <2>1. ev' = 1 /\ Len(events') \in Nat
    BY <1>3 DEF BeginPass, TypeInv
  <2> QED
    BY <2>1
<1>7. phase' = "dispatch" /\ UNCHANGED <<file, turn, dirty, work, sending, desk, call, missed, posted>>
  BY DEF BeginPass
<1> QED
  BY <1>3, <1>4, <1>5, <1>6, <1>7 DEF TypeInv, TypeOK

(* A call to a service desk other than Oracle's. *)
LEMMA RestHandlingType ==
  ASSUME TypeOK, Handling, Handler # "oracle"
  PROVE  /\ Handler \in RestSystems
         /\ Address(Handler, Known) \in MaybeRef
         /\ Calls /\ Address(Handler, Known) # NoRef =>
              call' \in [plugin : InUse, ticket : Tickets, ref : Ref]
<1>1. Handler \in RestSystems
  BY HandlingType DEF RestSystems
<1>2. Address(Handler, Known) \in MaybeRef
  BY <1>1, HandlingType, AddressType
<1> QED
  BY <1>1, <1>2, HandlingType DEF Calls, MaybeRef

LEMMA RegisterRequestType ==
  ASSUME TypeInv, RegisterRequest
  PROVE  TypeInv'
<1> DEFINE R == [ticket : Tickets, open : BOOLEAN]
<1>1. TypeOK /\ Handling /\ Handler # "oracle" /\ NextHandler
  BY DEF TypeInv, RegisterRequest
<1>2. Handler \in InUse /\ Handler \in RestSystems /\ Ticket \in Tickets /\ Known \in External
  BY <1>1, HandlingType, RestHandlingType
<1>3. desk \in [InUse -> Seq(R)] /\ mem \in [Tickets -> External]
  BY <1>1 DEF TypeOK
<1>4. desk[Handler] \in Seq(R) /\ Len(desk[Handler]) \in Nat
  <2> HIDE DEF R
  <2>1. desk[Handler] \in Seq(R)
    BY <1>2, <1>3
  <2> QED
    BY <2>1, SeqType
<1>5. Append(desk[Handler], Request(Ticket)) \in Seq(R)
  <2>1. Request(Ticket) \in R
    BY <1>2 DEF Request
  <2> HIDE DEF R
  <2> QED
    BY <1>4, <2>1, AppendType
<1>6. Registered(mem[Ticket], Created(Handler, Len(desk[Handler]) + 1)) \in External
  BY <1>2, <1>4, CreatedType, RegisteredType DEF Known
<1>7. desk' \in [InUse -> Seq(R)]
  BY <1>2, <1>3, <1>5 DEF RegisterRequest
<1>8. mem' \in [Tickets -> External]
  BY <1>2, <1>3, <1>6 DEF RegisterRequest
<1>9. dirty' = TRUE /\ call' = NoCall /\ UNCHANGED <<missed, posted>>
  BY DEF RegisterRequest
<1> QED
  BY <1>1, <1>7, <1>8, <1>9, NextHandlerKeeps DEF TypeInv, TypeOK

LEMMA UpdateRequestType ==
  ASSUME TypeInv, UpdateRequest
  PROVE  TypeInv'
<1>1. /\ TypeOK /\ Handling /\ Handler # "oracle" /\ NextHandler
      /\ Calls /\ Address(Handler, Known) # NoRef
  BY DEF TypeInv, UpdateRequest
<1>2. call' \in [plugin : InUse, ticket : Tickets, ref : Ref]
  BY <1>1, RestHandlingType
<1>3. dirty' \in BOOLEAN /\ UNCHANGED <<mem, desk, missed, posted>>
  BY DEF UpdateRequest
<1> QED
  BY <1>1, <1>2, <1>3, NextHandlerKeeps DEF TypeInv, TypeOK

LEMMA CloseRequestType ==
  ASSUME TypeInv, CloseRequest
  PROVE  TypeInv'
<1> DEFINE R == [ticket : Tickets, open : BOOLEAN]
           D == desk[Handler]
           closed == [n \in DOMAIN D |->
                        IF n \in Addressed(Handler, Address(Handler, Known))
                          THEN [D[n] EXCEPT !.open = FALSE] ELSE D[n]]
<1>1. /\ TypeOK /\ Handling /\ Handler # "oracle" /\ NextHandler
      /\ Calls /\ Address(Handler, Known) # NoRef
  BY DEF TypeInv, CloseRequest
<1>2. call' \in [plugin : InUse, ticket : Tickets, ref : Ref]
  BY <1>1, RestHandlingType
<1>3. Handler \in InUse /\ Ticket \in Tickets
  BY <1>1, HandlingType
<1>4. desk \in [InUse -> Seq(R)]
  BY <1>1 DEF TypeOK
<1>5. D \in Seq(R)
  BY <1>3, <1>4
<1>6. DOMAIN D = 1..Len(D) /\ Len(D) \in Nat /\ \A n \in DOMAIN D : D[n] \in R
  <2> HIDE DEF R, D
  <2> QED
    BY <1>5, SeqType
<1>7. closed \in [1..Len(D) -> R]
  BY <1>6
<1>8. closed \in Seq(R)
  <2> HIDE DEF R, closed
  <2> QED
    BY <1>6, <1>7, FunIsSeq
<1>9. desk' = desk \/ desk' = [desk EXCEPT ![Handler] = closed]
  BY DEF CloseRequest
<1>10. desk' \in [InUse -> Seq(R)]
  <2> HIDE DEF R, closed
  <2> QED
    BY <1>3, <1>4, <1>8, <1>9
<1>11. missed' \subseteq InUse \X Tickets \X (Failures \cup {"unheeded"})
  <2>1. PICK outcome \in ClosingOutcomes :
          missed' = IF outcome = "ok" THEN missed ELSE missed \cup {<<Handler, Ticket, outcome>>}
    BY DEF CloseRequest
  <2>2. outcome = "ok" \/ outcome \in Failures \cup {"unheeded"}
    BY DeliveryAssumption DEF ClosingOutcomes, DeskOutcomes
  <2> QED
    BY <1>1, <1>3, <2>1, <2>2 DEF TypeOK
<1>12. dirty' \in BOOLEAN /\ UNCHANGED <<mem, posted>>
  BY DEF CloseRequest
<1> QED
  BY <1>1, <1>2, <1>10, <1>11, <1>12, NextHandlerKeeps DEF TypeInv, TypeOK

LEMMA NoCallType ==
  ASSUME TypeInv, NothingToClose \/ OracleUnchanged
  PROVE  TypeInv'
<1>1. /\ TypeOK /\ Handling /\ NextHandler
      /\ call' = NoCall /\ UNCHANGED <<mem, dirty, desk, missed, posted>>
  BY DEF TypeInv, NothingToClose, OracleUnchanged, OracleHandling
<1> QED
  BY <1>1, NextHandlerKeeps DEF TypeInv, TypeOK

LEMMA OracleRequestType ==
  ASSUME TypeInv, OracleRequest
  PROVE  TypeInv'
<1> DEFINE R == [ticket : Tickets, open : BOOLEAN]
<1>1. TypeOK /\ Handling /\ OracleHandling /\ Handler = "oracle" /\ NextHandler
  BY DEF TypeInv, OracleRequest, OracleHandling
<1>2. "oracle" \in InUse /\ Ticket \in Tickets /\ Known \in External
  BY <1>1, HandlingType
<1>3. desk' \in [InUse -> Seq(R)]
  <2>1. desk \in [InUse -> Seq(R)] /\ desk["oracle"] \in Seq(R) /\ Request(Ticket) \in R
    BY <1>1, <1>2 DEF TypeOK, Request
  <2> HIDE DEF R
  <2>2. Append(desk["oracle"], Request(Ticket)) \in Seq(R)
    BY <2>1, AppendType
  <2>3. desk' = desk \/ desk' = [desk EXCEPT !["oracle"] = Append(desk["oracle"], Request(Ticket))]
    BY DEF OracleRequest
  <2> QED
    BY <1>2, <2>1, <2>2, <2>3
<1>4. /\ mem' \in [Tickets -> External]
      /\ DOMAIN posted' \subseteq Keys
      /\ posted' \in [DOMAIN posted' -> 0..2]
  <2>1. PICK kind \in Kinds :
          \/ mem' = [mem EXCEPT ![Ticket] = OracleResult(Queued(mem[Ticket], kind))] /\ QueuesComment(kind)
          \/ UNCHANGED <<mem, posted>>
    BY DEF OracleRequest, Kinds
  <2>2. OracleResult(Queued(Known, kind)) \in External
    BY <1>1, CommentType, OracleResultType
  <2>3. mem' \in [Tickets -> External]
    BY <1>1, <1>2, <2>1, <2>2 DEF TypeOK, Known
  <2>4. CASE QueuesComment(kind)
    BY <1>1, <2>3, <2>4, QueuesType
  <2>5. CASE UNCHANGED posted
    BY <1>1, <2>3, <2>5 DEF TypeOK
  <2> QED
    BY <2>1, <2>4, <2>5
<1>5. call' \in [plugin : InUse, ticket : Tickets, ref : Ref] \cup {NoCall}
  <2>1. IdMonit(Known) \in MaybeRef
    BY <1>2, OracleRefType
  <2> QED
    BY <1>2, <2>1 DEF OracleRequest, MaybeRef
<1>6. dirty' = TRUE /\ UNCHANGED missed
  BY DEF OracleRequest
<1> QED
  BY <1>1, <1>3, <1>4, <1>5, <1>6, NextHandlerKeeps DEF TypeInv, TypeOK

LEMMA OracleLifecycleType ==
  ASSUME TypeInv, OracleLifecycle
  PROVE  TypeInv'
<1>1. /\ TypeOK /\ Handling /\ NextHandler
      /\ mem' = [mem EXCEPT ![Ticket] = Queued(mem[Ticket], "lifecycle")]
      /\ QueuesComment("lifecycle")
      /\ call' = NoCall /\ UNCHANGED <<dirty, desk, missed>>
  BY DEF TypeInv, OracleLifecycle, OracleHandling
<1>2. Queued(Known, "lifecycle") \in External
  BY <1>1, CommentType DEF Kinds
<1>3. mem' \in [Tickets -> External]
  BY <1>1, <1>2 DEF TypeOK, Known
<1>4. DOMAIN posted' \subseteq Keys /\ posted' \in [DOMAIN posted' -> 0..2]
  BY <1>1, QueuesType DEF Kinds
<1> QED
  BY <1>1, <1>3, <1>4, NextHandlerKeeps DEF TypeInv, TypeOK

LEMMA ToAnnotateType ==
  ASSUME TypeOK
  PROVE  ToAnnotate \subseteq Triples
<1>1. ASSUME NEW w \in ToAnnotate
      PROVE  w \in Triples
  <2>1. PICK t \in Fresh : \E i \in Members[t] : w = <<t, 0, i>>
    BY <1>1 DEF ToAnnotate
  <2>2. PICK j \in DOMAIN events : t = events[j].ticket
    BY DEF Fresh
  <2>3. events[j] \in [action : Actions, ticket : Tickets]
    <3> DEFINE E == [action : Actions, ticket : Tickets]
    <3>1. events \in Seq(E)
      BY DEF TypeOK
    <3> HIDE DEF E
    <3>2. events[j] \in E
      BY <3>1, SeqType
    <3> QED
      BY <3>2 DEF E
  <2>4. t \in Tickets /\ Members[t] \subseteq Incidents
    BY <2>2, <2>3, IncidentsOf
  <2> QED
    BY <2>1, <2>4 DEF Triples
<1> QED
  BY <1>1

LEMMA AllPendingType ==
  ASSUME TypeOK
  PROVE  AllPending \subseteq Triples
<1>1. ASSUME NEW w \in AllPending
      PROVE  w \in Triples
  <2>1. PICK t \in Tickets : w \in Pending(mem[t], t)
    BY <1>1 DEF AllPending
  <2>2. PICK k \in DOMAIN mem[t].comments : \E i \in mem[t].comments[k].pending : w = <<t, k, i>>
    BY <2>1 DEF Pending
  <2>3. mem[t].comments \in Seq(CommentItem)
    BY ExternalFields DEF TypeOK
  <2>4. k \in Nat /\ mem[t].comments[k] \in CommentItem
    BY <2>3, SeqType
  <2>5. mem[t].comments[k].pending \subseteq Incidents
    BY <2>4 DEF CommentItem
  <2> QED
    BY <2>2, <2>4, <2>5 DEF Triples
<1> QED
  BY <1>1

(* The end of dispatch and of annotate. *)
LEMMA FinishType ==
  ASSUME TypeInv, FinishDispatch \/ FinishAnnotate
  PROVE  TypeInv'
<1>1. /\ TypeOK
      /\ dirty' = FALSE /\ phase' \in {"annotate", "flush"}
      /\ UNCHANGED <<local, mem, history, events, ev, turn, sending, desk, call, missed, posted>>
  BY DEF TypeInv, FinishDispatch, FinishAnnotate
<1>2. file' = mem \/ file' = file
  BY DEF FinishDispatch, FinishAnnotate, Saved
<1>3. work' = ToAnnotate \/ work' = AllPending
  BY DEF FinishDispatch, FinishAnnotate
<1>4. work' \subseteq Triples
  BY <1>1, <1>3, ToAnnotateType, AllPendingType
<1> QED
  BY <1>1, <1>2, <1>4 DEF TypeInv, TypeOK

LEMMA AnnotateType ==
  ASSUME TypeInv, AnnotateIncident \/ AnnotateFails
  PROVE  TypeInv'
<1>1. /\ TypeOK /\ phase = "annotate"
      /\ UNCHANGED <<local, file, history, phase, events, ev, turn, sending, desk, call, missed, posted>>
  BY DEF TypeInv, AnnotateIncident, AnnotateFails, Trying
<1>2. PICK w \in work :
        /\ work' = work \ {w}
        /\ dirty' \in {TRUE, dirty}
        /\ \/ mem' = [mem EXCEPT ![w[1]].commented = mem[w[1]].commented \cup {w[3]}]
           \/ mem' = mem
  BY DEF AnnotateIncident, AnnotateFails
<1>3. w[1] \in Tickets /\ w[3] \in Incidents
  BY <1>1 DEF TypeOK, Triples
<1>4. mem[w[1]] \in External
  BY <1>1, <1>3 DEF TypeOK
<1>5. [mem[w[1]] EXCEPT !.commented = mem[w[1]].commented \cup {w[3]}] \in External
  BY <1>3, <1>4 DEF External
<1>6. mem' \in [Tickets -> External]
  BY <1>1, <1>2, <1>3, <1>5 DEF TypeOK
<1>7. work' \subseteq Triples /\ dirty' \in BOOLEAN
  BY <1>1, <1>2 DEF TypeOK
<1> QED
  BY <1>1, <1>6, <1>7 DEF TypeInv, TypeOK

LEMMA RemovesType ==
  ASSUME TypeInv, SkipHistorical \/ SaveFlushed
  PROVE  TypeInv'
<1>1. /\ TypeOK /\ phase = "flush"
      /\ UNCHANGED <<local, history, phase, events, ev, turn, dirty, desk, call, missed, posted>>
      /\ sending' \in {sending, None}
      /\ file' = mem'
  BY DEF TypeInv, SkipHistorical, SaveFlushed, Trying
<1>2. PICK w \in Triples : mem' = Removed(w) /\ work' = work \ {w}
  BY <1>1 DEF SkipHistorical, SaveFlushed, TypeOK
<1>3. mem' \in [Tickets -> External]
  BY <1>1, <1>2, RemovedType
<1>4. work' \subseteq Triples /\ sending' \in Triples \cup {None}
  BY <1>1, <1>2 DEF TypeOK
<1> QED
  BY <1>1, <1>3, <1>4 DEF TypeInv, TypeOK

LEMMA PostType ==
  ASSUME TypeInv, PostComment \/ PostFails
  PROVE  TypeInv'
<1>1. /\ TypeOK /\ phase = "flush"
      /\ UNCHANGED <<local, file, mem, history, phase, events, ev, turn, dirty, desk, call, missed>>
  BY DEF TypeInv, PostComment, PostFails, Trying
<1>2. PICK w \in work : /\ Posts(w) \/ UNCHANGED posted
                        /\ work' \subseteq work /\ sending' \in {w, sending}
  BY DEF PostComment, PostFails
<1>3. /\ DOMAIN posted' \subseteq Keys
      /\ posted' \in [DOMAIN posted' -> 0..2]
  <2>1. DOMAIN posted \subseteq Keys /\ posted \in [DOMAIN posted -> 0..2]
    BY <1>1 DEF TypeOK
  <2>2. CASE Posts(w)
    <3>1. posted' = [posted EXCEPT ![KeyOf(w)] = IF posted[KeyOf(w)] = 0 THEN 1 ELSE 2]
      BY <2>2 DEF Posts
    <3>2. DOMAIN posted' = DOMAIN posted
      BY <2>1, <3>1
    <3>3. \A c \in DOMAIN posted : posted'[c] \in 0..2
      BY <2>1, <3>1
    <3>4. posted' = [c \in DOMAIN posted |-> posted'[c]]
      BY <2>1, <3>1
    <3> QED
      BY <2>1, <3>2, <3>3, <3>4
  <2> QED
    BY <1>2, <2>1, <2>2
<1>4. work' \subseteq Triples /\ sending' \in Triples \cup {None}
  BY <1>1, <1>2 DEF TypeOK
<1> QED
  BY <1>1, <1>3, <1>4 DEF TypeInv, TypeOK

LEMMA EndPassType ==
  ASSUME TypeInv, EndPass
  PROVE  TypeInv'
<1>1. /\ TypeOK
      /\ phase' = "idle" /\ mem' = file /\ events' = <<>> /\ ev' = 1 /\ turn' = 1
      /\ dirty' = FALSE /\ work' = {} /\ sending' = None /\ call' = NoCall
      /\ UNCHANGED <<local, file, history, desk, missed, posted>>
  BY DEF TypeInv, EndPass
<1>2. events' \in Seq([action : Actions, ticket : Tickets]) /\ ev' \in 1..(Len(events') + 1)
  BY <1>1
<1>3. turn' \in DOMAIN Plugins
  BY <1>1, InUseType
<1> QED
  BY <1>1, <1>2, <1>3 DEF TypeInv, TypeOK

LEMMA TypeInit == Init => TypeInv
<1> SUFFICES ASSUME Init
             PROVE  TypeInv
  OBVIOUS
<1>1. local \in [Tickets -> [status  : {"none", "open", "closed"},
                            content : {0, 1},
                            updates : 0..MaxUpdates]]
  BY DeliveryAssumption DEF Init
<1>2. file \in [Tickets -> External] /\ mem \in [Tickets -> External]
  BY NewTicketType DEF Init
<1>3. events \in Seq([action : Actions, ticket : Tickets]) /\ ev \in 1..(Len(events) + 1)
  BY DEF Init
<1>4. turn \in DOMAIN Plugins
  BY InUseType DEF Init
<1>5. desk \in [InUse -> Seq([ticket : Tickets, open : BOOLEAN])]
  BY DEF Init
<1>6. DOMAIN posted \subseteq Keys /\ posted \in [DOMAIN posted -> 0..2]
  BY DEF Init
<1> QED
  BY <1>1, <1>2, <1>3, <1>4, <1>5, <1>6 DEF Init, TypeInv, TypeOK

LEMMA TypeStep == TypeInv /\ [Next]_vars => TypeInv'
<1> SUFFICES ASSUME TypeInv, [Next]_vars
             PROVE  TypeInv'
  OBVIOUS
<1>1. CASE BeginPass
  BY <1>1, BeginPassType
<1>2. CASE RegisterRequest
  BY <1>2, RegisterRequestType
<1>3. CASE UpdateRequest
  BY <1>3, UpdateRequestType
<1>4. CASE CloseRequest
  BY <1>4, CloseRequestType
<1>5. CASE NothingToClose \/ OracleUnchanged
  BY <1>5, NoCallType
<1>6. CASE OracleRequest
  BY <1>6, OracleRequestType
<1>7. CASE OracleLifecycle
  BY <1>7, OracleLifecycleType
<1>8. CASE FinishDispatch \/ FinishAnnotate
  BY <1>8, FinishType
<1>9. CASE AnnotateIncident \/ AnnotateFails
  BY <1>9, AnnotateType
<1>10. CASE SkipHistorical \/ SaveFlushed
  BY <1>10, RemovesType
<1>11. CASE PostComment \/ PostFails
  BY <1>11, PostType
<1>12. CASE FinishPass \/ AbortPass
  BY <1>12, EndPassType DEF FinishPass, AbortPass
<1>13. CASE UNCHANGED vars
  BY <1>13 DEF vars, pass, TypeInv, TypeOK
<1> QED
  BY <1>1, <1>2, <1>3, <1>4, <1>5, <1>6, <1>7, <1>8, <1>9, <1>10, <1>11, <1>12, <1>13 DEF Next

(***************************************************************************)
(* The variables hold what the code's objects can hold, for all plugins,   *)
(* tickets, incidents and failures.                                        *)
(***************************************************************************)
THEOREM DeliveryTypeCorrect == Spec => []TypeOK
<1>1. TypeInv => TypeOK
  BY DEF TypeInv
<1> QED
  BY <1>1, TypeInit, TypeStep, PTL DEF Spec

-----------------------------------------------------------------------------
(***************************************************************************)
(* What Oracle has committed.  Its desk changes with OracleRequest only,   *)
(* and so does what the tickets and the comments say of it.                *)
(***************************************************************************)
LEMMA OracleDeskKept ==
  ASSUME TypeInv, [Next]_vars, ~ OracleRequest, "oracle" \in InUse
  PROVE  \A t : RequestsOf("oracle", t)' = RequestsOf("oracle", t)
<1> DEFINE R == [ticket : Tickets, open : BOOLEAN]
<1>1. desk \in [InUse -> Seq(R)]
  BY DEF TypeInv, TypeOK
<1>2. desk'["oracle"] = desk["oracle"]
  <2>1. CASE RegisterRequest \/ CloseRequest
    <3>1. \E new : Handler # "oracle" /\ (desk' = desk \/ desk' = [desk EXCEPT ![Handler] = new])
      BY <2>1 DEF RegisterRequest, CloseRequest
    <3> HIDE DEF R
    <3> QED
      BY <1>1, <3>1
  <2>2. CASE UNCHANGED desk
    BY <2>2
  <2>3. RegisterRequest \/ CloseRequest \/ UNCHANGED desk
    BY DEF Next, vars, BeginPass, UpdateRequest, NothingToClose, OracleUnchanged, OracleLifecycle,
           FinishDispatch, AnnotateIncident, AnnotateFails, FinishAnnotate, SkipHistorical,
           PostComment, SaveFlushed, PostFails, FinishPass, AbortPass, EndPass
  <2> QED
    BY <2>1, <2>2, <2>3
<1> QED
  BY <1>2 DEF RequestsOf

LEMMA OracleDeskGrows ==
  ASSUME TypeInv, OracleRequest
  PROVE  /\ "oracle" \in InUse
         /\ \/ /\ ~ Known.recorded /\ Action = OracleEvent
               /\ \A t : RequestsOf("oracle", t)' =
                          IF t = Ticket THEN RequestsOf("oracle", t) \cup {Len(desk["oracle"]) + 1}
                                        ELSE RequestsOf("oracle", t)
            \/ /\ mem' = mem \/ Known.recorded
               /\ \A t : RequestsOf("oracle", t)' = RequestsOf("oracle", t)
<1> DEFINE R == [ticket : Tickets, open : BOOLEAN]
<1>1. TypeOK /\ Handling /\ Handler = "oracle"
  BY DEF TypeInv, OracleRequest, OracleHandling
<1>2. "oracle" \in InUse /\ Ticket \in Tickets
  BY <1>1, HandlingType
<1>3. desk \in [InUse -> Seq(R)] /\ desk["oracle"] \in Seq(R) /\ Request(Ticket) \in R
  BY <1>1, <1>2 DEF TypeOK, Request
<1>4. CASE desk' = desk
  <2>1. mem' = mem \/ Known.recorded
    <3>1. ASSUME ~ Known.recorded, NEW outcome \in DeskOutcomes, TakesEffect(outcome)
          PROVE  desk' # [desk EXCEPT !["oracle"] = Append(@, Request(Ticket))]
      <4> HIDE DEF R
      <4>1. Len(Append(desk["oracle"], Request(Ticket))) # Len(desk["oracle"])
        BY <1>3
      <4> QED
        BY <1>2, <1>3, <1>4, <4>1
    <3> QED
      BY <3>1 DEF OracleRequest, Confirmed, TakesEffect
  <2> QED
    BY <1>2, <1>4, <2>1 DEF RequestsOf
<1>5. CASE desk' # desk
  <2>1. ~ Known.recorded /\ desk' = [desk EXCEPT !["oracle"] = Append(desk["oracle"], Request(Ticket))]
    BY <1>5 DEF OracleRequest
  <2>2. Action = OracleEvent
    BY <2>1 DEF OracleRequest, OracleSends
  <2>3. desk'["oracle"] = Append(desk["oracle"], Request(Ticket))
    <3> HIDE DEF R
    <3> QED
      BY <1>2, <1>3, <2>1
  <2> DEFINE d == desk["oracle"]
             n == Len(d) + 1
  <2>4. /\ DOMAIN desk'["oracle"] = DOMAIN d \cup {n}
        /\ \A k \in DOMAIN d : desk'["oracle"][k] = d[k]
        /\ desk'["oracle"][n] = Request(Ticket)
    <3> HIDE DEF R
    <3>1. /\ DOMAIN d = 1..Len(d) /\ Len(d) \in Nat
          /\ DOMAIN Append(d, Request(Ticket)) = 1..(Len(d) + 1)
          /\ \A k \in DOMAIN d : Append(d, Request(Ticket))[k] = d[k]
          /\ Append(d, Request(Ticket))[Len(d) + 1] = Request(Ticket)
      BY <1>3, AppendType
    <3>2. 1..(Len(d) + 1) = (1..Len(d)) \cup {Len(d) + 1}
      BY <3>1
    <3> QED
      BY <2>3, <3>1, <3>2
  <2>5. Request(Ticket).ticket = Ticket
    BY DEF Request
  <2>6. ASSUME NEW t
        PROVE  RequestsOf("oracle", t)' =
                 IF t = Ticket THEN RequestsOf("oracle", t) \cup {n} ELSE RequestsOf("oracle", t)
    <3> HIDE DEF d, n
    <3>1. RequestsOf("oracle", t) = {k \in DOMAIN d : d[k].ticket = t}
      BY DEF RequestsOf, d
    <3>2. RequestsOf("oracle", t)' = {k \in DOMAIN desk'["oracle"] : desk'["oracle"][k].ticket = t}
      BY DEF RequestsOf
    <3> QED
      BY <2>4, <2>5, <3>1, <3>2
  <2> QED
    BY <1>2, <2>1, <2>2, <2>6
<1> QED
  BY <1>4, <1>5

(* A ticket is not taken for recorded but by OracleRequest. *)
LEMMA RecordedKept ==
  ASSUME TypeInv, [Next]_vars, ~ OracleRequest, NEW t \in Tickets, mem'[t].recorded \/ file'[t].recorded
  PROVE  mem[t].recorded \/ file[t].recorded
<1>1. TypeOK /\ mem \in [Tickets -> External] /\ mem[t] \in External
  BY DEF TypeInv, TypeOK
<1>2. CASE UNCHANGED mem /\ file' \in {file, mem}
  BY <1>2
<1>3. CASE mem' = file /\ file' = file
  BY <1>3
<1>4. CASE RegisterRequest
  <2>1. Handling /\ Handler # "oracle" /\ NextHandler
    BY <1>4 DEF RegisterRequest
  <2>2. Ticket \in Tickets /\ Handler \in InUse /\ Handler \in RestSystems
    BY <1>1, <2>1, HandlingType, RestHandlingType
  <2>3. Len(desk[Handler]) \in Nat
    <3> DEFINE R == [ticket : Tickets, open : BOOLEAN]
    <3>1. desk[Handler] \in Seq(R)
      BY <1>1, <2>2 DEF TypeOK
    <3> HIDE DEF R
    <3> QED
      BY <3>1, SeqType
  <2>4. Registered(mem[Ticket], Created(Handler, Len(desk[Handler]) + 1)).recorded = mem[Ticket].recorded
    BY <1>1, <2>2, <2>3, CreatedType, RegisteredType
  <2>5. mem'[t].recorded = mem[t].recorded
    BY <1>1, <1>4, <2>2, <2>4 DEF RegisterRequest
  <2>6. file' = file
    BY <2>1 DEF NextHandler
  <2> QED
    BY <2>5, <2>6
<1>5. CASE OracleLifecycle
  <2>1. Handling /\ NextHandler /\ mem' = [mem EXCEPT ![Ticket] = Queued(mem[Ticket], "lifecycle")]
    BY <1>5 DEF OracleLifecycle, OracleHandling
  <2>2. Queued(Known, "lifecycle").recorded = Known.recorded
    BY <1>1, <2>1, CommentType DEF Kinds
  <2>3. mem'[t].recorded = mem[t].recorded
    BY <1>1, <2>1, <2>2 DEF Known
  <2> QED
    BY <2>1, <2>3 DEF NextHandler
<1>6. CASE AnnotateIncident
  <2>1. PICK w \in work : mem' = [mem EXCEPT ![w[1]].commented = mem[w[1]].commented \cup {w[3]}]
    BY <1>6 DEF AnnotateIncident
  <2>2. mem'[t].recorded = mem[t].recorded
    BY <1>1, <2>1 DEF External
  <2> QED
    BY <1>6, <2>2 DEF AnnotateIncident
<1>7. CASE SkipHistorical \/ SaveFlushed
  <2>1. PICK w \in Triples : mem' = Removed(w)
    BY <1>1, <1>7 DEF SkipHistorical, SaveFlushed, TypeOK
  <2>2. mem'[t].recorded = mem[t].recorded
    BY <1>1, <2>1, RemovedType
  <2>3. file' = mem'
    BY <1>7 DEF SkipHistorical, SaveFlushed
  <2> QED
    BY <2>2, <2>3
<1>8. \/ UNCHANGED mem /\ file' \in {file, mem}
      \/ mem' = file /\ file' = file
      \/ RegisterRequest \/ OracleLifecycle \/ AnnotateIncident \/ SkipHistorical \/ SaveFlushed
  BY DEF Next, vars, BeginPass, UpdateRequest, CloseRequest, NothingToClose, OracleUnchanged,
         NextHandler, FinishDispatch, Saved, AnnotateFails, FinishAnnotate,
         PostComment, PostFails, FinishPass, AbortPass, EndPass
<1> QED
  BY <1>2, <1>3, <1>4, <1>5, <1>6, <1>7, <1>8

(* Nor is a comment on a confirmed request queued. *)
LEMMA ConfirmationsFrom ==
  ASSUME TypeInv, [Next]_vars, ~ OracleRequest, NEW c \in DOMAIN posted', c.kind \in {"success", "update"}
  PROVE  c \in DOMAIN posted
<1>1. CASE OracleLifecycle
  <2>1. posted' = [d \in DOMAIN posted \cup {Key(Ticket, Comment("lifecycle"), i) : i \in Members[Ticket]} |->
                     IF d \in DOMAIN posted THEN posted[d] ELSE 0]
    BY <1>1 DEF OracleLifecycle, QueuesComment
  <2>2. \A i : Key(Ticket, Comment("lifecycle"), i).kind = "lifecycle"
    BY DEF Key, Comment
  <2> QED
    BY <2>1, <2>2
<1>2. CASE PostComment \/ PostFails
  <2>1. DOMAIN posted' = DOMAIN posted
    BY <1>2 DEF PostComment, PostFails, Posts
  <2> QED
    BY <2>1
<1>3. OracleLifecycle \/ PostComment \/ PostFails \/ UNCHANGED posted
  BY DEF Next, vars, BeginPass, RegisterRequest, UpdateRequest, CloseRequest, NothingToClose,
         OracleUnchanged, FinishDispatch, AnnotateIncident, AnnotateFails, FinishAnnotate,
         SkipHistorical, SaveFlushed, FinishPass, AbortPass, EndPass
<1> QED
  BY <1>1, <1>2, <1>3

CommitInv == TypeInv /\ RecordedIsCommitted /\ ConfirmedIsCommitted

(* A request committed for a ticket stays. *)
LEMMA OracleRequestsStay ==
  ASSUME TypeInv, [Next]_vars, "oracle" \in InUse, NEW t, RequestsOf("oracle", t) # {}
  PROVE  RequestsOf("oracle", t)' # {}
<1>1. CASE OracleRequest
  BY <1>1, OracleDeskGrows
<1>2. CASE ~ OracleRequest
  BY <1>2, OracleDeskKept
<1> QED
  BY <1>1, <1>2

LEMMA CommitByRequest ==
  ASSUME CommitInv, OracleRequest
  PROVE  RecordedIsCommitted' /\ ConfirmedIsCommitted'
<1>1. /\ TypeOK /\ TypeInv /\ Handling /\ OracleHandling /\ NextHandler
      /\ RecordedIsCommitted /\ ConfirmedIsCommitted
  BY DEF CommitInv, TypeInv, OracleRequest, OracleHandling
<1>2. Ticket \in Tickets /\ "oracle" \in InUse
  BY <1>1, HandlingType, OracleDeskGrows
<1>3. ASSUME NEW t, RequestsOf("oracle", t) # {}
      PROVE  RequestsOf("oracle", t)' # {}
  BY <1>1, <1>3, OracleDeskGrows
<1>4. ASSUME NEW t, t = Ticket, mem' # mem
      PROVE  RequestsOf("oracle", t)' # {}
  <2>1. CASE Known.recorded
    <3>1. RequestsOf("oracle", t) # {}
      BY <1>1, <1>2, <1>4, <2>1 DEF RecordedIsCommitted, Known
    <3> QED
      BY <1>3, <3>1
  <2>2. CASE ~ Known.recorded
    BY <1>1, <1>4, <2>2, OracleDeskGrows
  <2> QED
    BY <2>1, <2>2
<1>5. PICK kind \in {"success", "update"} :
        \/ mem' = [mem EXCEPT ![Ticket] = OracleResult(Queued(mem[Ticket], kind))] /\ QueuesComment(kind)
        \/ UNCHANGED <<mem, posted>>
  BY DEF OracleRequest
<1>6. file' = file
  BY <1>1 DEF NextHandler
<1>7. ASSUME NEW t \in Tickets, mem'[t].recorded \/ file'[t].recorded
      PROVE  RequestsOf("oracle", t)' # {}
  <2>1. CASE mem[t].recorded \/ file[t].recorded
    BY <1>1, <1>3, <2>1 DEF RecordedIsCommitted
  <2>2. CASE ~ (mem[t].recorded \/ file[t].recorded)
    <3>1. mem' # mem
      BY <1>6, <1>7, <2>2
    <3>2. t = Ticket
      BY <1>1, <1>5, <1>6, <1>7, <2>2 DEF TypeOK
    <3> QED
      BY <1>4, <3>1, <3>2
  <2> QED
    BY <2>1, <2>2
<1>8. ASSUME NEW c \in DOMAIN posted', c.kind \in {"success", "update"}
      PROVE  RequestsOf("oracle", c.ticket)' # {}
  <2>1. CASE c \in DOMAIN posted
    BY <1>1, <1>3, <1>8, <2>1 DEF ConfirmedIsCommitted
  <2>2. CASE c \notin DOMAIN posted
    <3>1. QueuesComment(kind) /\ mem' = [mem EXCEPT ![Ticket] = OracleResult(Queued(mem[Ticket], kind))]
      BY <1>5, <1>8, <2>2
    <3>2. PICK i \in Members[Ticket] : c = Key(Ticket, Comment(kind), i)
      BY <1>8, <2>2, <3>1 DEF QueuesComment
    <3>3. c.ticket = Ticket
      BY <3>2 DEF Key
    <3>4. mem' # mem
      <4> DEFINE old == mem[Ticket].comments
      <4>1. mem \in [Tickets -> External] /\ old \in Seq(CommentItem) /\ Comment(kind) \in CommentItem
        BY <1>1, <1>2, CommentType, ExternalFields DEF TypeOK, Kinds
      <4>2. Append(old, Comment(kind)) # old
        <5>1. Len(Append(old, Comment(kind))) # Len(old)
          BY <4>1
        <5> QED
          BY <5>1
      <4>3. Queued(mem[Ticket], kind).comments = Append(old, Comment(kind))
        BY <1>2, <4>1 DEF Queued, External
      <4>4. Queued(mem[Ticket], kind) \in External
        BY <1>1, CommentType DEF Known, Kinds
      <4>5. mem'[Ticket].comments = Append(old, Comment(kind))
        BY <1>2, <3>1, <4>1, <4>3, <4>4 DEF OracleResult, External
      <4> QED
        BY <4>2, <4>5
    <3> QED
      BY <1>4, <3>3, <3>4
  <2> QED
    BY <2>1, <2>2
<1> QED
  BY <1>2, <1>7, <1>8 DEF RecordedIsCommitted, ConfirmedIsCommitted

LEMMA CommitStep == CommitInv /\ [Next]_vars => CommitInv'
<1> SUFFICES ASSUME CommitInv, [Next]_vars
             PROVE  CommitInv'
  OBVIOUS
<1>1. TypeInv /\ TypeInv' /\ RecordedIsCommitted /\ ConfirmedIsCommitted
  BY TypeStep DEF CommitInv
<1>2. CASE OracleRequest
  BY <1>1, <1>2, CommitByRequest DEF CommitInv
<1>3. CASE ~ OracleRequest
  <2>1. RecordedIsCommitted'
    <3> SUFFICES ASSUME NEW t \in Tickets, mem'[t].recorded \/ file'[t].recorded
                 PROVE  "oracle" \in InUse /\ RequestsOf("oracle", t)' # {}
      BY DEF RecordedIsCommitted
    <3>1. "oracle" \in InUse /\ RequestsOf("oracle", t) # {}
      BY <1>1, <1>3, RecordedKept DEF RecordedIsCommitted
    <3> QED
      BY <1>1, <3>1, OracleRequestsStay
  <2>2. ConfirmedIsCommitted'
    <3> SUFFICES ASSUME NEW c \in DOMAIN posted', c.kind \in {"success", "update"}
                 PROVE  "oracle" \in InUse /\ RequestsOf("oracle", c.ticket)' # {}
      BY DEF ConfirmedIsCommitted
    <3>1. "oracle" \in InUse /\ RequestsOf("oracle", c.ticket) # {}
      BY <1>1, <1>3, ConfirmationsFrom DEF ConfirmedIsCommitted
    <3> QED
      BY <1>1, <3>1, OracleRequestsStay
  <2> QED
    BY <1>1, <2>1, <2>2 DEF CommitInv
<1> QED
  BY <1>2, <1>3

LEMMA CommitInit == Init => CommitInv
<1> SUFFICES ASSUME Init
             PROVE  CommitInv
  OBVIOUS
<1>1. RecordedIsCommitted /\ ConfirmedIsCommitted
  BY DEF Init, NewTicket, RecordedIsCommitted, ConfirmedIsCommitted
<1> QED
  BY <1>1, TypeInit DEF CommitInv

(***************************************************************************)
(* No ticket is marked as recorded unless Oracle has committed a request   *)
(* for it, whatever failed, whatever answer was lost and wherever a pass   *)
(* ended.                                                                  *)
(***************************************************************************)
THEOREM DeliveryRecordedIsCommitted == Spec => []RecordedIsCommitted
<1>1. CommitInv => RecordedIsCommitted
  BY DEF CommitInv
<1> QED
  BY <1>1, CommitInit, CommitStep, PTL DEF Spec

(***************************************************************************)
(* No incident is told that Oracle confirmed its ticket unless it did.     *)
(***************************************************************************)
THEOREM DeliveryConfirmedIsCommitted == Spec => []ConfirmedIsCommitted
<1>1. CommitInv => ConfirmedIsCommitted
  BY DEF CommitInv
<1> QED
  BY <1>1, CommitInit, CommitStep, PTL DEF Spec

-----------------------------------------------------------------------------
(***************************************************************************)
(* Oracle gets one primary record of a ticket.  Its desk grows with the    *)
(* event ORACLE_EVENT only, and once it has a request for a ticket that    *)
(* event is over: the file has the ticket in a later status, and dispatch  *)
(* has passed the Oracle plugin.  This does not depend on what the ticket  *)
(* says of itself: oracle_recorded is lost when a pass ends early.         *)
(***************************************************************************)
PastOracleEvent(t) ==
  local[t].status \in (IF OracleEvent = "created" THEN {"open", "closed"} ELSE {"closed"})

IsOracleEvent(j, t) == events[j].action = OracleEvent /\ events[j].ticket = t

PastHandler(p, j) == j < ev \/ (j = ev /\ \A k \in DOMAIN Plugins : Plugins[k] = p => k < turn)

OneEventPerTicket ==
  \A i, j \in DOMAIN events : events[i].ticket = events[j].ticket => i = j

EventsAreSaved ==
  \A j \in DOMAIN events, t \in Tickets : IsOracleEvent(j, t) => PastOracleEvent(t)

RecordedIsPast ==
  "oracle" \in InUse =>
    \A t \in Tickets : RequestsOf("oracle", t) # {} =>
      /\ PastOracleEvent(t)
      /\ phase = "dispatch" =>
           \A j \in DOMAIN events : IsOracleEvent(j, t) => PastHandler("oracle", j)

AtMostOne ==
  "oracle" \in InUse =>
    \A t \in Tickets : RequestsOf("oracle", t) = {} \/ \E n : RequestsOf("oracle", t) = {n}

OnceInv == TypeInv /\ OneEventPerTicket /\ EventsAreSaved /\ RecordedIsPast /\ AtMostOne

(* The events of a pass are no events of tickets that were past them. *)
LEMMA OnceByBeginPass ==
  ASSUME OnceInv, BeginPass
  PROVE  OnceInv'
<1>1. /\ TypeInv /\ TypeInv' /\ RecordedIsPast /\ AtMostOne /\ TypeOK
      /\ UNCHANGED <<desk, ev, turn>>
  BY BeginPassType DEF OnceInv, TypeInv, BeginPass
<1>2. PICK S \in SUBSET Tickets : \E act \in [S -> Actions], changed \in SUBSET S, q \in Orders(S) :
        /\ \A t \in S : MayHappen(t, act[t])
        /\ events' = [j \in DOMAIN q |-> [action |-> act[q[j]], ticket |-> q[j]]]
        /\ local' = [t \in Tickets |->
                       IF t \in S THEN Happened(t, act[t], t \in changed) ELSE local[t]]
  BY DEF BeginPass
<1>3. PICK act \in [S -> Actions], changed \in SUBSET S, q \in Orders(S) :
        /\ \A t \in S : MayHappen(t, act[t])
        /\ events' = [j \in DOMAIN q |-> [action |-> act[q[j]], ticket |-> q[j]]]
        /\ local' = [t \in Tickets |->
                       IF t \in S THEN Happened(t, act[t], t \in changed) ELSE local[t]]
  BY <1>2
<1>4. /\ \A j \in DOMAIN q : q[j] \in S
      /\ \A i, j \in DOMAIN q : q[i] = q[j] => i = j
      /\ DOMAIN events' = DOMAIN q
      /\ \A j \in DOMAIN q : events'[j].action = act[q[j]] /\ events'[j].ticket = q[j]
  BY <1>3 DEF Orders
<1>5. OneEventPerTicket'
  BY <1>4 DEF OneEventPerTicket
<1>6. ASSUME NEW t \in Tickets
      PROVE  /\ PastOracleEvent(t) => PastOracleEvent(t)'
             /\ t \in S /\ act[t] = OracleEvent => PastOracleEvent(t)' /\ ~ PastOracleEvent(t)
  <2>1. CASE t \notin S
    BY <1>3, <2>1 DEF PastOracleEvent
  <2>2. CASE t \in S
    <3>1. local'[t] = Happened(t, act[t], t \in changed) /\ MayHappen(t, act[t]) /\ act[t] \in Actions
      BY <1>3, <2>2
    <3>2. local'[t].status = IF act[t] = "closed" THEN "closed" ELSE "open"
      BY <3>1 DEF Happened
    <3>3. /\ act[t] = "created" => local[t].status = "none"
          /\ act[t] # "created" => local[t].status = "open"
      BY <3>1 DEF MayHappen, Actions
    <3> QED
      BY <3>2, <3>3, DeliveryAssumption DEF PastOracleEvent
  <2> QED
    BY <2>1, <2>2
<1>7. ASSUME NEW j \in DOMAIN events', NEW t \in Tickets, IsOracleEvent(j, t)'
      PROVE  t \in S /\ act[t] = OracleEvent
  BY <1>4, <1>7 DEF IsOracleEvent
<1>8. EventsAreSaved'
  BY <1>6, <1>7 DEF EventsAreSaved
<1>9. RecordedIsPast' /\ AtMostOne'
  <2>1. \A t : RequestsOf("oracle", t)' = RequestsOf("oracle", t)
    BY <1>1 DEF RequestsOf
  <2>2. ASSUME "oracle" \in InUse, NEW t \in Tickets, RequestsOf("oracle", t)' # {}
        PROVE  PastOracleEvent(t)' /\ \A j \in DOMAIN events' : ~ IsOracleEvent(j, t)'
    <3>1. PastOracleEvent(t)
      BY <1>1, <2>1, <2>2 DEF RecordedIsPast
    <3> QED
      BY <1>6, <1>7, <3>1
  <2> QED
    BY <1>1, <2>1, <2>2 DEF RecordedIsPast, AtMostOne
<1> QED
  BY <1>1, <1>5, <1>8, <1>9 DEF OnceInv

(* A handler is passed once and for all. *)
LEMMA PastHandlerStays ==
  ASSUME TypeOK, Handling, NextHandler, NEW p, NEW j \in DOMAIN events, PastHandler(p, j)
  PROVE  PastHandler(p, j)'
<1> DEFINE E == [action : Actions, ticket : Tickets]
<1>1. j \in Nat /\ ev \in Nat /\ turn \in Nat /\ \A k \in DOMAIN Plugins : k \in Nat
  <2>1. events \in Seq(E) /\ ev \in Nat /\ turn \in Nat
    BY HandlingType, InUseType DEF TypeOK
  <2> HIDE DEF E
  <2> QED
    BY <2>1, SeqType, InUseType
<1>2. (ev' = ev /\ turn' = turn + 1) \/ ev' = ev + 1
  BY DEF NextHandler
<1> QED
  BY <1>1, <1>2 DEF PastHandler

LEMMA OnceByHandler ==
  ASSUME OnceInv, Handling, NextHandler, TypeInv',
         \A t : RequestsOf("oracle", t)' = RequestsOf("oracle", t)
  PROVE  OnceInv'
<1>1. /\ TypeOK /\ OneEventPerTicket /\ EventsAreSaved /\ RecordedIsPast /\ AtMostOne
      /\ UNCHANGED <<local, events, phase>>
  BY DEF OnceInv, TypeInv, NextHandler
<1>2. OneEventPerTicket' /\ EventsAreSaved' /\ AtMostOne'
  BY <1>1 DEF OneEventPerTicket, EventsAreSaved, AtMostOne, IsOracleEvent, PastOracleEvent
<1>3. RecordedIsPast'
  BY <1>1, PastHandlerStays DEF RecordedIsPast, IsOracleEvent, PastOracleEvent
<1> QED
  BY <1>2, <1>3 DEF OnceInv

(* The request that Oracle commits is the first, and its event is then over. *)
LEMMA OnceByOracleRequest ==
  ASSUME OnceInv, OracleRequest
  PROVE  OnceInv'
<1>1. /\ TypeOK /\ TypeInv /\ TypeInv' /\ OneEventPerTicket /\ EventsAreSaved /\ RecordedIsPast /\ AtMostOne
      /\ Handling /\ OracleHandling /\ NextHandler
      /\ UNCHANGED <<local, events, phase>>
  BY OracleRequestType DEF OnceInv, TypeInv, OracleRequest, OracleHandling, NextHandler
<1>2. CASE \A t : RequestsOf("oracle", t)' = RequestsOf("oracle", t)
  BY <1>1, <1>2, OnceByHandler
<1>3. CASE /\ Action = OracleEvent
           /\ \A t : RequestsOf("oracle", t)' =
                      IF t = Ticket THEN RequestsOf("oracle", t) \cup {Len(desk["oracle"]) + 1}
                                    ELSE RequestsOf("oracle", t)
  <2>1. /\ "oracle" \in InUse /\ Ticket \in Tickets /\ ev \in DOMAIN events
        /\ IsOracleEvent(ev, Ticket) /\ phase = "dispatch" /\ Plugins[turn] = "oracle"
        /\ turn \in DOMAIN Plugins /\ ev \in Nat /\ turn \in Nat
    <3>1. /\ "oracle" \in InUse /\ Ticket \in Tickets /\ ev \in DOMAIN events
          /\ ev \in 1..Len(events) /\ Len(events) \in Nat
      BY <1>1, HandlingType, OracleDeskGrows
    <3>2. IsOracleEvent(ev, Ticket) /\ phase = "dispatch" /\ Plugins[turn] = "oracle"
      BY <1>1, <1>3 DEF IsOracleEvent, Action, Ticket, Handling, OracleHandling, Handler
    <3>3. turn \in DOMAIN Plugins /\ turn \in Nat
      BY <1>1, InUseType DEF TypeOK
    <3> QED
      BY <3>1, <3>2, <3>3
  <2>2. RequestsOf("oracle", Ticket) = {}
    <3>1. ~ PastHandler("oracle", ev)
      BY <2>1 DEF PastHandler
    <3> QED
      BY <1>1, <2>1, <3>1 DEF RecordedIsPast
  <2>3. AtMostOne'
    BY <1>1, <1>3, <2>2 DEF AtMostOne
  <2>4. OneEventPerTicket' /\ EventsAreSaved'
    BY <1>1 DEF OneEventPerTicket, EventsAreSaved, IsOracleEvent, PastOracleEvent
  <2>5. RecordedIsPast'
    <3> SUFFICES ASSUME NEW t \in Tickets, RequestsOf("oracle", t)' # {}
                 PROVE  /\ PastOracleEvent(t)'
                        /\ \A j \in DOMAIN events : IsOracleEvent(j, t) => PastHandler("oracle", j)'
      BY <1>1 DEF RecordedIsPast, IsOracleEvent
    <3>1. CASE t # Ticket
      <4>1. RequestsOf("oracle", t) # {}
        BY <1>3, <3>1
      <4> QED
        BY <1>1, <2>1, <4>1, PastHandlerStays DEF RecordedIsPast, PastOracleEvent
    <3>2. CASE t = Ticket
      <4>1. PastOracleEvent(t)
        BY <1>1, <2>1, <3>2 DEF EventsAreSaved
      <4>2. ASSUME NEW j \in DOMAIN events, IsOracleEvent(j, t)
            PROVE  PastHandler("oracle", j)'
        <5>1. j = ev
          BY <1>1, <2>1, <3>2, <4>2 DEF OneEventPerTicket, IsOracleEvent
        <5>2. \A k \in DOMAIN Plugins : Plugins[k] = "oracle" => k = turn
          BY <2>1, DeliveryAssumption
        <5>3. (ev' = ev /\ turn' = turn + 1) \/ ev' = ev + 1
          BY <1>1 DEF NextHandler
        <5> QED
          BY <2>1, <5>1, <5>2, <5>3 DEF PastHandler
      <4> QED
        BY <1>1, <4>1, <4>2 DEF PastOracleEvent
    <3> QED
      BY <3>1, <3>2
  <2> QED
    BY <1>1, <2>3, <2>4, <2>5 DEF OnceInv
<1> QED
  BY <1>1, <1>2, <1>3, OracleDeskGrows

LEMMA OnceStep == OnceInv /\ [Next]_vars => OnceInv'
<1> SUFFICES ASSUME OnceInv, [Next]_vars
             PROVE  OnceInv'
  OBVIOUS
<1>1. /\ TypeInv /\ TypeInv' /\ OneEventPerTicket /\ EventsAreSaved /\ RecordedIsPast /\ AtMostOne
  BY TypeStep DEF OnceInv
<1>2. CASE BeginPass
  BY <1>2, OnceByBeginPass
<1>3. CASE OracleRequest
  BY <1>3, OnceByOracleRequest
<1>4. CASE ~ OracleRequest /\ Handling /\ NextHandler
  <2>1. CASE "oracle" \in InUse
    BY <1>1, <1>4, <2>1, OracleDeskKept, OnceByHandler
  <2>2. CASE "oracle" \notin InUse
    BY <1>1, <1>4, <2>2 DEF OnceInv, OneEventPerTicket, EventsAreSaved, RecordedIsPast, AtMostOne,
                            NextHandler, IsOracleEvent, PastOracleEvent
  <2> QED
    BY <2>1, <2>2
<1>5. CASE EndPass
  <2>1. DOMAIN events' = {} /\ phase' = "idle" /\ UNCHANGED <<local, desk>>
    BY <1>5 DEF EndPass
  <2>2. OneEventPerTicket' /\ EventsAreSaved'
    BY <2>1 DEF OneEventPerTicket, EventsAreSaved
  <2>3. RecordedIsPast' /\ AtMostOne'
    BY <1>1, <2>1 DEF RecordedIsPast, AtMostOne, PastOracleEvent, RequestsOf
  <2> QED
    BY <1>1, <2>2, <2>3 DEF OnceInv
<1>6. CASE UNCHANGED <<local, events, desk>> /\ (phase' # "dispatch" \/ UNCHANGED <<phase, ev, turn>>)
  <2>1. OneEventPerTicket' /\ EventsAreSaved' /\ AtMostOne'
    BY <1>1, <1>6 DEF OneEventPerTicket, EventsAreSaved, AtMostOne, IsOracleEvent, PastOracleEvent, RequestsOf
  <2>2. RecordedIsPast'
    BY <1>1, <1>6 DEF RecordedIsPast, IsOracleEvent, PastOracleEvent, PastHandler, RequestsOf
  <2> QED
    BY <1>1, <2>1, <2>2 DEF OnceInv
<1>7. \/ BeginPass \/ OracleRequest \/ EndPass
      \/ Handling /\ NextHandler
      \/ UNCHANGED <<local, events, desk>> /\ (phase' # "dispatch" \/ UNCHANGED <<phase, ev, turn>>)
  BY DEF Next, vars, pass, RegisterRequest, UpdateRequest, CloseRequest, NothingToClose,
         OracleUnchanged, OracleLifecycle, OracleHandling, FinishDispatch, AnnotateIncident,
         AnnotateFails, FinishAnnotate, SkipHistorical, PostComment, SaveFlushed, PostFails,
         FinishPass, AbortPass
<1> QED
  BY <1>2, <1>3, <1>4, <1>5, <1>6, <1>7

LEMMA OnceInit == Init => OnceInv
<1> SUFFICES ASSUME Init
             PROVE  OnceInv
  OBVIOUS
<1>1. OneEventPerTicket /\ EventsAreSaved /\ RecordedIsPast /\ AtMostOne
  BY DEF Init, OneEventPerTicket, EventsAreSaved, RecordedIsPast, AtMostOne, RequestsOf
<1> QED
  BY <1>1, TypeInit DEF OnceInv

(***************************************************************************)
(* Oracle gets at most one primary record of a ticket, for all plugins,    *)
(* tickets, failures and lost answers, and wherever passes end.            *)
(***************************************************************************)
THEOREM DeliveryOracleRecordedOnce == Spec => []OracleRecordedOnce
<1>1. OnceInv => OracleRecordedOnce
  <2> SUFFICES ASSUME AtMostOne, "oracle" \in InUse, NEW t \in Tickets
               PROVE  Cardinality(RequestsOf("oracle", t)) <= 1
    BY DEF OnceInv, OracleRecordedOnce
  <2>1. CASE RequestsOf("oracle", t) = {}
    BY <2>1, FS_EmptySet
  <2>2. CASE \E n : RequestsOf("oracle", t) = {n}
    BY <2>2, FS_Singleton
  <2> QED
    BY <2>1, <2>2 DEF AtMostOne
<1> QED
  BY <1>1, OnceInit, OnceStep, PTL DEF Spec

-----------------------------------------------------------------------------
(***************************************************************************)
(* The comments of the Oracle plugin.  An incident pending for a comment   *)
(* of a ticket, in x the tickets in memory or in the file, and the key the *)
(* comment is counted under.                                               *)
(***************************************************************************)
PendsAt(x, t, k, i) == k \in DOMAIN x[t].comments /\ i \in x[t].comments[k].pending

KeyAt(x, t, k, i) == Key(t, x[t].comments[k], i)

SameComments(y, x) == \A t \in Tickets : y[t].comments = x[t].comments

LEMMA SameCommentsPend ==
  ASSUME NEW x, NEW y, SameComments(y, x), NEW t \in Tickets
  PROVE  \A k, i : /\ PendsAt(y, t, k, i) <=> PendsAt(x, t, k, i)
                   /\ KeyAt(y, t, k, i) = KeyAt(x, t, k, i)
BY DEF SameComments, PendsAt, KeyAt

(* The comments of a ticket and the queueing of one more. *)
Queues(kind) ==
  /\ mem'[Ticket].comments = Append(mem[Ticket].comments, Comment(kind))
  /\ \A t \in Tickets \ {Ticket} : mem'[t].comments = mem[t].comments

LEMMA QueuedComments ==
  ASSUME NEW x \in External, NEW kind
  PROVE  /\ Queued(x, kind).comments = Append(x.comments, Comment(kind))
         /\ OracleResult(Queued(x, kind)).comments = Append(x.comments, Comment(kind))
<1>1. Queued(x, kind).comments = Append(x.comments, Comment(kind))
  BY DEF Queued, External
<1>2. OracleResult(Queued(x, kind)).comments = Queued(x, kind).comments
  <2>1. "comments" \in DOMAIN Queued(x, kind)
    BY DEF Queued, External
  <2> QED
    BY <2>1 DEF OracleResult
<1> QED
  BY <1>1, <1>2

(* A comment is queued at the end, so that those before it stay in place. *)
LEMMA QueuesPend ==
  ASSUME TypeOK, Handling, NEW kind \in Kinds, Queues(kind), NEW t \in Tickets, NEW k, NEW i
  PROVE  /\ PendsAt(mem, t, k, i) =>
              PendsAt(mem, t, k, i)' /\ KeyAt(mem, t, k, i)' = KeyAt(mem, t, k, i)
         /\ PendsAt(mem, t, k, i)' =>
              \/ PendsAt(mem, t, k, i) /\ KeyAt(mem, t, k, i)' = KeyAt(mem, t, k, i)
              \/ /\ t = Ticket /\ k = Len(mem[Ticket].comments) + 1
                 /\ i \in Members[Ticket]
                 /\ KeyAt(mem, t, k, i)' = Key(Ticket, Comment(kind), i)
<1> DEFINE items == mem[Ticket].comments
<1>1. CASE t # Ticket
  BY <1>1 DEF Queues, PendsAt, KeyAt
<1>2. CASE t = Ticket
  <2>1. items \in Seq(CommentItem) /\ Comment(kind) \in CommentItem
    BY HandlingType, ExternalFields, CommentType DEF Known
  <2>2. mem'[Ticket].comments = Append(items, Comment(kind))
    BY DEF Queues
  <2> HIDE DEF items
  <2>3. /\ DOMAIN items = 1..Len(items) /\ Len(items) \in Nat
        /\ DOMAIN mem'[Ticket].comments = 1..(Len(items) + 1)
        /\ \A n \in DOMAIN items : mem'[Ticket].comments[n] = items[n]
        /\ mem'[Ticket].comments[Len(items) + 1] = Comment(kind)
    BY <2>1, <2>2, AppendType
  <2>4. \A n \in 1..(Len(items) + 1) : n \in DOMAIN items \/ n = Len(items) + 1
    BY <2>3
  <2>5. Comment(kind).pending = Members[Ticket]
    BY DEF Comment
  <2>6. ASSUME PendsAt(mem, t, k, i)
        PROVE  PendsAt(mem, t, k, i)' /\ KeyAt(mem, t, k, i)' = KeyAt(mem, t, k, i)
    BY <1>2, <2>3, <2>6 DEF PendsAt, KeyAt, items
  <2>7. ASSUME PendsAt(mem, t, k, i)', k \in DOMAIN items
        PROVE  PendsAt(mem, t, k, i) /\ KeyAt(mem, t, k, i)' = KeyAt(mem, t, k, i)
    BY <1>2, <2>3, <2>7 DEF PendsAt, KeyAt, items
  <2>8. ASSUME PendsAt(mem, t, k, i)', k = Len(items) + 1
        PROVE  i \in Members[Ticket] /\ KeyAt(mem, t, k, i)' = Key(Ticket, Comment(kind), i)
    BY <1>2, <2>3, <2>5, <2>8 DEF PendsAt, KeyAt
  <2> QED
    BY <1>2, <2>3, <2>4, <2>6, <2>7, <2>8 DEF PendsAt, items
<1> QED
  BY <1>1, <1>2

(* A comment taken off one incident is pending for the others as before. *)
LEMMA RemovedPend ==
  ASSUME TypeOK, NEW w \in Triples, PendsAt(mem, w[1], w[2], w[3]), mem' = Removed(w),
         NEW t \in Tickets, NEW k, NEW i
  PROVE  /\ PendsAt(mem, t, k, i)' <=> PendsAt(mem, t, k, i) /\ <<t, k, i>> # w
         /\ PendsAt(mem, t, k, i) => KeyAt(mem, t, k, i)' = KeyAt(mem, t, k, i)
<1> DEFINE x == mem[w[1]]
<1>1. w[1] \in Tickets /\ x \in External /\ w = <<w[1], w[2], w[3]>>
  BY DEF Triples, TypeOK
<1>2. /\ mem'[w[1]] = TakenOff(x, w[2], w[3])
      /\ \A u \in Tickets \ {w[1]} : mem'[u] = mem[u]
  BY <1>1 DEF Removed, TakenOff, TypeOK
<1>3. x.comments \in Seq(CommentItem) /\ w[2] \in DOMAIN x.comments
  BY <1>1, ExternalFields DEF PendsAt
<1>4. x.comments[w[2]] \in CommentItem
  BY <1>3, SeqType
<1> DEFINE less  == [x.comments[w[2]] EXCEPT !.pending = x.comments[w[2]].pending \ {w[3]}]
           items == [x.comments EXCEPT ![w[2]] = less]
<1>5. mem'[w[1]].comments = items
  <2>1. TakenOff(x, w[2], w[3]) = [x EXCEPT !.comments = items]
    BY DEF TakenOff
  <2> QED
    BY <1>1, <1>2, <2>1 DEF External
<1>6. /\ less.pending = x.comments[w[2]].pending \ {w[3]}
      /\ less.about = x.comments[w[2]].about /\ less.kind = x.comments[w[2]].kind
  BY <1>4 DEF CommentItem
<1> HIDE DEF less
<1>7. /\ DOMAIN items = DOMAIN x.comments
      /\ items[w[2]] = less
      /\ \A n \in DOMAIN x.comments \ {w[2]} : items[n] = x.comments[n]
  BY <1>3
<1> HIDE DEF items, x
<1>8. CASE t # w[1]
  BY <1>1, <1>2, <1>8 DEF PendsAt, KeyAt
<1>9. CASE t = w[1] /\ k # w[2]
  BY <1>1, <1>5, <1>7, <1>9 DEF PendsAt, KeyAt, Key, x
<1>10. CASE t = w[1] /\ k = w[2]
  BY <1>1, <1>3, <1>5, <1>6, <1>7, <1>10 DEF PendsAt, KeyAt, Key, x
<1> QED
  BY <1>8, <1>9, <1>10

-----------------------------------------------------------------------------
(***************************************************************************)
(* What every pass keeps of the comments.  Whatever SAYMON was or is to be *)
(* told is about an event of the past, so the comment a handler queues is  *)
(* a new one; flush tries comments that are pending; the comment being     *)
(* sent is one of them.                                                    *)
(***************************************************************************)
StatusAfter(action) == IF action = "closed" THEN "closed" ELSE "open"

EventsHappened ==
  \A j \in DOMAIN events : local[events[j].ticket].status = StatusAfter(events[j].action)

KeysArePast ==
  \A c \in DOMAIN posted :
    /\ local[c.ticket].status # "none"
    /\ c.about.update <= local[c.ticket].updates
    /\ c.about.action = "closed" => local[c.ticket].status = "closed"
    /\ phase = "dispatch" =>
         \A j \in DOMAIN events :
           events[j].ticket = c.ticket /\ c.about = About(c.ticket, events[j].action) => PastHandler("oracle", j)

KnownPending(x) ==
  \A t \in Tickets : \A k, i : PendsAt(x, t, k, i) => KeyAt(x, t, k, i) \in DOMAIN posted

WorkPends == phase = "flush" => \A w \in work : PendsAt(mem, w[1], w[2], w[3])

SendingInWork ==
  sending # None => phase = "flush" /\ sending \in work /\ posted[KeyOf(sending)] > 0

CommentInv ==
  /\ TypeInv /\ OneEventPerTicket /\ EventsHappened
  /\ KeysArePast
  /\ KnownPending(mem) /\ KnownPending(file)
  /\ WorkPends /\ SendingInWork

LEMMA EventType ==
  ASSUME TypeOK, NEW j \in DOMAIN events
  PROVE  events[j].action \in Actions /\ events[j].ticket \in Tickets /\ j \in Nat
<1> DEFINE E == [action : Actions, ticket : Tickets]
<1>1. events \in Seq(E)
  BY DEF TypeOK
<1> HIDE DEF E
<1>2. events[j] \in E /\ j \in Nat
  BY <1>1, SeqType
<1> QED
  BY <1>2 DEF E

(* The events of a pass, each of a ticket of its own, and what they make of it. *)
LEMMA BeginPassEvents ==
  ASSUME TypeInv, BeginPass
  PROVE  /\ OneEventPerTicket'
         /\ \A j \in DOMAIN events' :
              LET t == events'[j].ticket
                  a == events'[j].action
              IN  /\ t \in Tickets /\ a \in Actions
                  /\ MayHappen(t, a)
                  /\ local'[t].status = StatusAfter(a)
                  /\ local'[t].updates = IF a = "updated" THEN local[t].updates + 1
                                                          ELSE local[t].updates
         /\ \A t \in Tickets : (\A j \in DOMAIN events' : events'[j].ticket # t) => local'[t] = local[t]
<1>1. PICK S \in SUBSET Tickets : \E act \in [S -> Actions], changed \in SUBSET S, q \in Orders(S) :
        /\ \A t \in S : MayHappen(t, act[t])
        /\ events' = [j \in DOMAIN q |-> [action |-> act[q[j]], ticket |-> q[j]]]
        /\ local' = [t \in Tickets |->
                       IF t \in S THEN Happened(t, act[t], t \in changed) ELSE local[t]]
  BY DEF BeginPass
<1>2. PICK act \in [S -> Actions], changed \in SUBSET S, q \in Orders(S) :
        /\ \A t \in S : MayHappen(t, act[t])
        /\ events' = [j \in DOMAIN q |-> [action |-> act[q[j]], ticket |-> q[j]]]
        /\ local' = [t \in Tickets |->
                       IF t \in S THEN Happened(t, act[t], t \in changed) ELSE local[t]]
  BY <1>1
<1>3. /\ \A j \in DOMAIN q : q[j] \in S
      /\ \A t \in S : \E j \in DOMAIN q : q[j] = t
      /\ \A i, j \in DOMAIN q : q[i] = q[j] => i = j
      /\ DOMAIN events' = DOMAIN q
      /\ \A j \in DOMAIN q : events'[j].action = act[q[j]] /\ events'[j].ticket = q[j]
  BY <1>2 DEF Orders
<1>4. OneEventPerTicket'
  BY <1>3 DEF OneEventPerTicket
<1>5. ASSUME NEW j \in DOMAIN events'
      PROVE  /\ events'[j].ticket \in Tickets /\ events'[j].action \in Actions
             /\ MayHappen(events'[j].ticket, events'[j].action)
             /\ local'[events'[j].ticket] =
                  Happened(events'[j].ticket, events'[j].action, events'[j].ticket \in changed)
  BY <1>2, <1>3
<1>6. \A t, a, c : /\ Happened(t, a, c).status = StatusAfter(a)
                   /\ Happened(t, a, c).updates = IF a = "updated" THEN local[t].updates + 1
                                                                   ELSE local[t].updates
  BY DEF Happened, StatusAfter
<1>7. ASSUME NEW t \in Tickets, \A j \in DOMAIN events' : events'[j].ticket # t
      PROVE  local'[t] = local[t]
  <2>1. t \notin S
    BY <1>3, <1>7
  <2> QED
    BY <1>2, <2>1
<1> QED
  BY <1>4, <1>5, <1>6, <1>7

LEMMA CommentInit == Init => CommentInv
<1> SUFFICES ASSUME Init
             PROVE  CommentInv
  OBVIOUS
<1>1. DOMAIN posted = {} /\ DOMAIN events = {} /\ sending = None /\ phase = "idle"
  BY DEF Init
<1>2. \A t \in Tickets : DOMAIN mem[t].comments = {} /\ DOMAIN file[t].comments = {}
  BY DEF Init, NewTicket
<1>3. KnownPending(mem) /\ KnownPending(file)
  BY <1>2 DEF KnownPending, PendsAt
<1>4. OneEventPerTicket /\ EventsHappened /\ KeysArePast /\ WorkPends /\ SendingInWork
  BY <1>1 DEF OneEventPerTicket, EventsHappened, KeysArePast, WorkPends, SendingInWork
<1> QED
  BY <1>3, <1>4, TypeInit DEF CommentInv

(* No comment is about an event of a pass that begins. *)
LEMMA CommentByBeginPass ==
  ASSUME CommentInv, BeginPass
  PROVE  CommentInv'
<1>1. /\ TypeInv /\ TypeInv' /\ TypeOK /\ KeysArePast /\ KnownPending(file) /\ SendingInWork
      /\ phase = "idle" /\ phase' = "dispatch" /\ mem' = file
      /\ UNCHANGED <<file, sending, posted>>
  BY BeginPassType DEF CommentInv, TypeInv, BeginPass
<1>2. OneEventPerTicket' /\ EventsHappened'
  BY <1>1, BeginPassEvents DEF EventsHappened
<1>3. KnownPending(mem)' /\ KnownPending(file)'
  BY <1>1 DEF KnownPending, PendsAt, KeyAt
<1>4. WorkPends' /\ SendingInWork'
  BY <1>1 DEF WorkPends, SendingInWork
<1>5. KeysArePast'
  <2> SUFFICES ASSUME NEW c \in DOMAIN posted
               PROVE  /\ local'[c.ticket].status # "none"
                      /\ c.about.update <= local'[c.ticket].updates
                      /\ c.about.action = "closed" => local'[c.ticket].status = "closed"
                      /\ \A j \in DOMAIN events' :
                           events'[j].ticket = c.ticket =>
                             c.about # [action |-> events'[j].action,
                                        update |-> local'[c.ticket].updates]
    BY <1>1 DEF KeysArePast, About
  <2> DEFINE t == c.ticket
  <2>1. /\ t \in Tickets /\ c.about \in Abouts
        /\ local[t].updates \in Nat /\ c.about.update \in Nat
    BY <1>1, DeliveryAssumption DEF TypeOK, Keys, Abouts
  <2>2. /\ local[t].status # "none" /\ c.about.update <= local[t].updates
        /\ c.about.action = "closed" => local[t].status = "closed"
    BY <1>1 DEF KeysArePast
  <2> HIDE DEF t
  <2>3. CASE \A j \in DOMAIN events' : events'[j].ticket # t
    BY <1>1, <2>1, <2>2, <2>3, BeginPassEvents DEF t
  <2>4. ASSUME NEW j \in DOMAIN events', events'[j].ticket = t
        PROVE  /\ local'[t].status # "none"
               /\ c.about.update <= local'[t].updates
               /\ c.about.action # "closed"
               /\ c.about # [action |-> events'[j].action, update |-> local'[t].updates]
    <3> DEFINE a == events'[j].action
    <3>1. /\ MayHappen(t, a) /\ local'[t].status = StatusAfter(a) /\ a \in Actions
          /\ local'[t].updates = IF a = "updated" THEN local[t].updates + 1 ELSE local[t].updates
      BY <1>1, <2>4, BeginPassEvents
    <3> HIDE DEF a
    <3>2. a \in {"updated", "closed"} /\ local[t].status = "open"
      BY <2>2, <3>1 DEF MayHappen, Actions
    <3>3. CASE a = "updated"
      BY <2>1, <2>2, <3>1, <3>2, <3>3 DEF StatusAfter, a
    <3>4. CASE a = "closed"
      BY <2>1, <2>2, <3>1, <3>2, <3>4 DEF StatusAfter, a
    <3> QED
      BY <3>2, <3>3, <3>4
  <2> QED
    BY <2>2, <2>3, <2>4 DEF t
<1> QED
  BY <1>1, <1>2, <1>3, <1>4, <1>5 DEF CommentInv

(* Dispatch leaves a handler behind with its event, not before. *)
LEMMA HandlerPassed ==
  ASSUME TypeOK, Handling, NEW p, Handler = p, NextHandler
  PROVE  /\ ~ PastHandler(p, ev)
         /\ \A j : j = ev => PastHandler(p, j)'
<1>1. /\ ev \in Nat /\ turn \in Nat /\ turn \in DOMAIN Plugins /\ Plugins[turn] = p
  BY HandlingType, InUseType DEF TypeOK, Handler
<1>2. \A k \in DOMAIN Plugins : Plugins[k] = p => k = turn
  BY <1>1, DeliveryAssumption
<1>3. ~ PastHandler(p, ev)
  BY <1>1 DEF PastHandler
<1>4. (ev' = ev /\ turn' = turn + 1) \/ ev' = ev + 1
  BY DEF NextHandler
<1>5. ev < ev' \/ (ev = ev' /\ \A k \in DOMAIN Plugins : Plugins[k] = p => k < turn')
  BY <1>1, <1>2, <1>4
<1> QED
  BY <1>3, <1>5 DEF PastHandler

(* A comment is known of when its incidents are. *)
LEMMA KnownStays ==
  ASSUME NEW x, NEW y, SameComments(y, x), KnownPending(x), DOMAIN posted \subseteq DOMAIN posted'
  PROVE  \A t \in Tickets : \A k, i : PendsAt(y, t, k, i) => KeyAt(y, t, k, i) \in DOMAIN posted'
BY SameCommentsPend DEF KnownPending

(* A handler that queues no comment. *)
LEMMA CommentByHandler ==
  ASSUME CommentInv, TypeInv', Handling, NextHandler, UNCHANGED posted, SameComments(mem', mem)
  PROVE  CommentInv'
<1>1. /\ TypeOK /\ OneEventPerTicket /\ EventsHappened /\ KeysArePast /\ SendingInWork
      /\ KnownPending(mem) /\ KnownPending(file)
      /\ phase = "dispatch" /\ UNCHANGED <<local, file, events, phase, sending>>
  BY DEF CommentInv, TypeInv, Handling, NextHandler
<1>2. OneEventPerTicket' /\ EventsHappened' /\ WorkPends' /\ SendingInWork'
  BY <1>1 DEF OneEventPerTicket, EventsHappened, WorkPends, SendingInWork
<1>3. KnownPending(mem)'
  BY <1>1, KnownStays DEF KnownPending, PendsAt, KeyAt
<1>4. KnownPending(file)'
  BY <1>1 DEF KnownPending, PendsAt, KeyAt
<1>5. KeysArePast'
  BY <1>1, PastHandlerStays DEF KeysArePast, About
<1> QED
  BY <1>2, <1>3, <1>4, <1>5 DEF CommentInv

(* The comment the Oracle plugin queues is a new one. *)
LEMMA QueuedIsNew ==
  ASSUME CommentInv, OracleHandling, NextHandler, NEW kind \in Kinds, NEW i
  PROVE  Key(Ticket, Comment(kind), i) \notin DOMAIN posted
<1>1. TypeOK /\ Handling /\ Handler = "oracle" /\ KeysArePast /\ phase = "dispatch"
  BY DEF CommentInv, TypeInv, OracleHandling, Handling
<1>2. ev \in DOMAIN events /\ ~ PastHandler("oracle", ev)
  BY <1>1, HandlingType, HandlerPassed
<1>3. \A c \in DOMAIN posted : c.ticket = Ticket => c.about # About(Ticket, Action)
  BY <1>1, <1>2 DEF KeysArePast, Ticket, Action
<1>4. /\ Key(Ticket, Comment(kind), i).ticket = Ticket
      /\ Key(Ticket, Comment(kind), i).about = About(Ticket, Action)
  BY DEF Key, Comment
<1> QED
  BY <1>3, <1>4

LEMMA CommentByQueue ==
  ASSUME CommentInv, TypeInv', OracleHandling, NextHandler, NEW kind \in Kinds,
         QueuesComment(kind), Queues(kind)
  PROVE  CommentInv'
<1> DEFINE new == {Key(Ticket, Comment(kind), i) : i \in Members[Ticket]}
<1>1. /\ TypeOK /\ OneEventPerTicket /\ EventsHappened /\ KeysArePast /\ SendingInWork
      /\ KnownPending(mem) /\ KnownPending(file)
      /\ Handling /\ Handler = "oracle"
      /\ phase = "dispatch" /\ UNCHANGED <<local, file, events, phase, sending>>
  BY DEF CommentInv, TypeInv, OracleHandling, Handling, NextHandler
<1>2. DOMAIN posted' = DOMAIN posted \cup new
  BY DEF QueuesComment
<1>3. OneEventPerTicket' /\ EventsHappened' /\ WorkPends' /\ SendingInWork'
  BY <1>1 DEF OneEventPerTicket, EventsHappened, WorkPends, SendingInWork
<1>4. KnownPending(mem)'
  BY <1>1, <1>2, QueuesPend DEF KnownPending
<1>5. KnownPending(file)'
  BY <1>1, <1>2 DEF KnownPending, PendsAt, KeyAt
<1>6. KeysArePast'
  <2> SUFFICES ASSUME NEW c \in DOMAIN posted'
               PROVE  /\ local[c.ticket].status # "none"
                      /\ c.about.update <= local[c.ticket].updates
                      /\ c.about.action = "closed" => local[c.ticket].status = "closed"
                      /\ \A j \in DOMAIN events :
                           events[j].ticket = c.ticket /\ c.about = About(c.ticket, events[j].action)
                             => PastHandler("oracle", j)'
    BY <1>1 DEF KeysArePast, About
  <2>1. CASE c \in DOMAIN posted
    BY <1>1, <2>1, PastHandlerStays DEF KeysArePast
  <2>2. CASE c \in new
    <3>1. /\ c.ticket = Ticket /\ c.about.action = Action
          /\ c.about.update = local[Ticket].updates
      BY <2>2 DEF Key, Comment, About
    <3>2. ev \in DOMAIN events /\ local[Ticket].updates \in Nat
      <4>1. ev \in DOMAIN events /\ Ticket \in Tickets
        BY <1>1, HandlingType
      <4> QED
        BY <1>1, <4>1, DeliveryAssumption DEF TypeOK
    <3>3. local[Ticket].status = StatusAfter(Action)
      BY <1>1, <3>2 DEF EventsHappened, Ticket, Action
    <3>4. \A j \in DOMAIN events : events[j].ticket = Ticket => j = ev
      BY <1>1, <3>2 DEF OneEventPerTicket, Ticket
    <3>5. \A j : j = ev => PastHandler("oracle", j)'
      BY <1>1, HandlerPassed
    <3>6. StatusAfter(Action) # "none" /\ (Action = "closed" => StatusAfter(Action) = "closed")
      BY DEF StatusAfter
    <3>7. local[Ticket].updates <= local[Ticket].updates
      BY <3>2
    <3> QED
      BY <3>1, <3>3, <3>4, <3>5, <3>6, <3>7
  <2> QED
    BY <1>2, <2>1, <2>2
<1> QED
  BY <1>3, <1>4, <1>5, <1>6 DEF CommentInv

(* The end of dispatch, and annotate: the comments stay as they are. *)
LEMMA CommentByAnnotate ==
  ASSUME CommentInv, TypeInv', FinishDispatch \/ AnnotateIncident \/ AnnotateFails
  PROVE  /\ CommentInv'
         /\ SameComments(mem', mem) /\ (file' = file \/ file' = mem)
         /\ UNCHANGED <<history, posted, sending>> /\ sending = None
<1>1. /\ TypeOK /\ OneEventPerTicket /\ EventsHappened /\ KeysArePast /\ SendingInWork
      /\ KnownPending(mem) /\ KnownPending(file)
      /\ phase # "flush" /\ phase' = "annotate"
      /\ UNCHANGED <<local, events, sending, history, posted>>
  BY DEF CommentInv, TypeInv, FinishDispatch, AnnotateIncident, AnnotateFails, Trying
<1>2. file' = file \/ file' = mem
  BY DEF FinishDispatch, AnnotateIncident, AnnotateFails, Saved
<1>3. SameComments(mem', mem)
  <2>1. CASE mem' = mem
    BY <2>1 DEF SameComments
  <2>2. CASE AnnotateIncident
    <3>1. PICK w \in work : mem' = [mem EXCEPT ![w[1]].commented = mem[w[1]].commented \cup {w[3]}]
      BY <2>2 DEF AnnotateIncident
    <3>2. \A t \in Tickets : "comments" \in DOMAIN mem[t] /\ t \in DOMAIN mem
      BY <1>1 DEF TypeOK, External
    <3> QED
      BY <3>1, <3>2 DEF SameComments
  <2> QED
    BY <2>1, <2>2 DEF FinishDispatch, AnnotateFails
<1>4. OneEventPerTicket' /\ EventsHappened' /\ KeysArePast' /\ WorkPends' /\ SendingInWork' /\ sending = None
  BY <1>1 DEF OneEventPerTicket, EventsHappened, KeysArePast, WorkPends, SendingInWork
<1>5. KnownPending(mem)'
  BY <1>1, <1>3, KnownStays DEF KnownPending, PendsAt, KeyAt
<1>6. KnownPending(file)'
  BY <1>1, <1>2 DEF KnownPending, PendsAt, KeyAt
<1> QED
  BY <1>1, <1>2, <1>3, <1>4, <1>5, <1>6 DEF CommentInv

(* Flush starts with all comments that are pending. *)
LEMMA CommentByFinishAnnotate ==
  ASSUME CommentInv, TypeInv', FinishAnnotate
  PROVE  CommentInv'
<1>1. /\ OneEventPerTicket /\ EventsHappened /\ KeysArePast /\ SendingInWork
      /\ KnownPending(mem) /\ KnownPending(file)
      /\ phase # "flush" /\ phase' = "flush" /\ work' = AllPending
      /\ UNCHANGED <<local, mem, events, sending, posted>>
      /\ file' = file \/ file' = mem
  BY DEF CommentInv, FinishAnnotate, Saved
<1>2. OneEventPerTicket' /\ EventsHappened' /\ KeysArePast' /\ SendingInWork'
  BY <1>1 DEF OneEventPerTicket, EventsHappened, KeysArePast, SendingInWork
<1>3. KnownPending(mem)' /\ KnownPending(file)'
  BY <1>1 DEF KnownPending, PendsAt, KeyAt
<1>4. WorkPends'
  BY <1>1 DEF WorkPends, AllPending, Pending, PendsAt
<1> QED
  BY <1>2, <1>3, <1>4 DEF CommentInv

(* What is pending and not taken off stays pending, under the same key. *)
LEMMA CommentByRemoves ==
  ASSUME CommentInv, TypeInv', NEW w \in Triples, PendsAt(mem, w[1], w[2], w[3]),
         mem' = Removed(w), file' = mem', work' = work \ {w},
         sending' = None, phase' = phase,
         UNCHANGED <<local, events, ev, turn, posted>>
  PROVE  CommentInv'
<1>1. /\ TypeOK /\ OneEventPerTicket /\ EventsHappened /\ KeysArePast /\ WorkPends
      /\ KnownPending(mem)
  BY DEF CommentInv, TypeInv
<1>2. OneEventPerTicket' /\ EventsHappened' /\ KeysArePast'
  BY <1>1 DEF OneEventPerTicket, EventsHappened, KeysArePast, PastHandler, About
<1>3. SendingInWork'
  BY DEF SendingInWork
<1>4. KnownPending(mem)'
  BY <1>1, RemovedPend DEF KnownPending
<1>5. KnownPending(file)'
  BY <1>4 DEF KnownPending, PendsAt, KeyAt
<1>6. WorkPends'
  <2> SUFFICES ASSUME phase = "flush", NEW v \in work \ {w}
               PROVE  PendsAt(mem, v[1], v[2], v[3])'
    BY DEF WorkPends
  <2>1. v[1] \in Tickets /\ v = <<v[1], v[2], v[3]>>
    BY <1>1 DEF TypeOK, Triples
  <2>2. PendsAt(mem, v[1], v[2], v[3])
    BY <1>1 DEF WorkPends
  <2> QED
    BY <1>1, <2>1, <2>2, RemovedPend
<1> QED
  BY <1>2, <1>3, <1>4, <1>5, <1>6 DEF CommentInv

LEMMA SkipRemoves ==
  ASSUME CommentInv, SkipHistorical
  PROVE  \E w \in Triples :
           /\ PendsAt(mem, w[1], w[2], w[3]) /\ w[3] \in history
           /\ mem' = Removed(w) /\ file' = mem' /\ work' = work \ {w}
           /\ sending = None /\ sending' = None /\ phase = "flush" /\ phase' = phase
           /\ UNCHANGED <<local, events, ev, turn, posted, history, dirty>>
<1>1. TypeOK /\ WorkPends
  BY DEF CommentInv, TypeInv
<1>2. PICK w \in work : Trying("flush", w) /\ w[3] \in history /\ mem' = Removed(w) /\ work' = work \ {w}
  BY DEF SkipHistorical
<1>3. w \in Triples /\ PendsAt(mem, w[1], w[2], w[3])
  BY <1>1, <1>2 DEF TypeOK, WorkPends, Trying
<1> QED
  BY <1>2, <1>3 DEF SkipHistorical, Trying

LEMMA FlushedRemoves ==
  ASSUME CommentInv, SaveFlushed
  PROVE  /\ sending \in Triples /\ PendsAt(mem, sending[1], sending[2], sending[3])
         /\ posted[KeyOf(sending)] > 0
         /\ mem' = Removed(sending) /\ file' = mem' /\ work' = work \ {sending}
         /\ sending' = None /\ sending # None /\ phase = "flush" /\ phase' = phase
         /\ UNCHANGED <<local, events, ev, turn, posted, history, dirty>>
<1>1. TypeOK /\ WorkPends /\ SendingInWork
  BY DEF CommentInv, TypeInv
<1>2. phase = "flush" /\ sending # None
  BY DEF SaveFlushed
<1>3. sending \in work /\ sending \in Triples
  BY <1>1, <1>2 DEF SendingInWork, TypeOK
<1> QED
  BY <1>1, <1>2, <1>3 DEF SaveFlushed, WorkPends, SendingInWork

(* Posting counts under a key that is known, and never down. *)
LEMMA PostsCounts ==
  ASSUME TypeOK, NEW w, Posts(w)
  PROVE  /\ DOMAIN posted' = DOMAIN posted
         /\ KeyOf(w) \in DOMAIN posted =>
              posted'[KeyOf(w)] = IF posted[KeyOf(w)] = 0 THEN 1 ELSE 2
         /\ \A c \in DOMAIN posted : c # KeyOf(w) => posted'[c] = posted[c]
         /\ \A c \in DOMAIN posted : posted[c] > 0 => posted'[c] > 0
<1>1. posted \in [DOMAIN posted -> 0..2]
  BY DEF TypeOK
<1>2. posted' = [posted EXCEPT ![KeyOf(w)] = IF posted[KeyOf(w)] = 0 THEN 1 ELSE 2]
  BY DEF Posts
<1> HIDE DEF KeyOf
<1>3. /\ DOMAIN posted' = DOMAIN posted
      /\ \A c \in DOMAIN posted :
           posted'[c] = IF c = KeyOf(w) THEN (IF posted[KeyOf(w)] = 0 THEN 1 ELSE 2) ELSE posted[c]
  BY <1>1, <1>2
<1> QED
  BY <1>1, <1>3

LEMMA PostEffect ==
  ASSUME CommentInv, PostComment \/ PostFails
  PROVE  \E w \in work :
           /\ PendsAt(mem, w[1], w[2], w[3]) /\ KeyOf(w) \in DOMAIN posted
           /\ \/ Posts(w) /\ sending' = w /\ work' = work
              \/ Posts(w) /\ sending' = None /\ work' = work \ {w} /\ "lost" \in SaymonFailures
              \/ posted' = posted /\ sending' = None /\ work' = work \ {w}
           /\ sending = None /\ phase = "flush"
           /\ UNCHANGED <<local, file, mem, history, phase, events, ev, turn, dirty>>
<1>1. TypeOK /\ WorkPends /\ KnownPending(mem)
  BY DEF CommentInv, TypeInv
<1>2. CASE PostComment
  <2>1. PICK w \in work : Trying("flush", w) /\ Posts(w) /\ sending' = w
    BY <1>2 DEF PostComment
  <2>2. w \in Triples /\ PendsAt(mem, w[1], w[2], w[3])
    BY <1>1, <2>1 DEF TypeOK, WorkPends, Trying
  <2>3. KeyOf(w) \in DOMAIN posted
    BY <1>1, <2>2 DEF KnownPending, KeyOf, KeyAt, Triples
  <2> QED
    BY <1>2, <2>1, <2>2, <2>3 DEF PostComment, Trying
<1>3. CASE PostFails
  <2>1. PICK w \in work, outcome \in SaymonFailures :
          /\ Trying("flush", w) /\ work' = work \ {w}
          /\ IF TakesEffect(outcome) THEN Posts(w) ELSE UNCHANGED posted
    BY <1>3 DEF PostFails
  <2>2. w \in Triples /\ PendsAt(mem, w[1], w[2], w[3])
    BY <1>1, <2>1 DEF TypeOK, WorkPends, Trying
  <2>3. KeyOf(w) \in DOMAIN posted
    BY <1>1, <2>2 DEF KnownPending, KeyOf, KeyAt, Triples
  <2>4. TakesEffect(outcome) => outcome = "lost"
    BY DeliveryAssumption DEF TakesEffect, Failures
  <2> QED
    BY <1>3, <2>1, <2>2, <2>3, <2>4 DEF PostFails, Trying
<1> QED
  BY <1>2, <1>3

LEMMA CommentByPost ==
  ASSUME CommentInv, TypeInv', PostComment \/ PostFails
  PROVE  CommentInv'
<1>1. /\ TypeOK /\ OneEventPerTicket /\ EventsHappened /\ KeysArePast /\ WorkPends
      /\ KnownPending(mem) /\ KnownPending(file)
  BY DEF CommentInv, TypeInv
<1>2. PICK w \in work :
        /\ PendsAt(mem, w[1], w[2], w[3]) /\ KeyOf(w) \in DOMAIN posted
        /\ \/ Posts(w) /\ sending' = w /\ work' = work
           \/ Posts(w) /\ sending' = None /\ work' = work \ {w}
           \/ posted' = posted /\ sending' = None /\ work' = work \ {w}
        /\ sending = None /\ phase = "flush"
        /\ UNCHANGED <<local, file, mem, history, phase, events, ev, turn, dirty>>
  BY PostEffect
<1>3. DOMAIN posted' = DOMAIN posted
  BY <1>1, <1>2, PostsCounts
<1>4. OneEventPerTicket' /\ EventsHappened'
  <2>1. UNCHANGED <<local, events>>
    BY <1>2
  <2> QED
    BY <1>1, <2>1 DEF OneEventPerTicket, EventsHappened
<1>5. KeysArePast'
  BY <1>1, <1>2, <1>3 DEF KeysArePast, PastHandler, About
<1>6. KnownPending(mem)' /\ KnownPending(file)'
  BY <1>1, <1>2, <1>3 DEF KnownPending, PendsAt, KeyAt
<1>7. WorkPends'
  BY <1>1, <1>2 DEF WorkPends, PendsAt
<1>8. SendingInWork'
  <2>1. CASE sending' = None
    BY <2>1 DEF SendingInWork
  <2>2. CASE Posts(w) /\ sending' = w /\ work' = work
    <3>1. posted'[KeyOf(w)] > 0
      BY <1>1, <1>2, <2>2, PostsCounts
    <3>2. KeyOf(w)' = KeyOf(w)
      BY <1>2 DEF KeyOf
    <3> QED
      BY <1>2, <2>2, <3>1, <3>2 DEF SendingInWork, KeyOf
  <2> QED
    BY <1>2, <2>1, <2>2
<1> QED
  BY <1>4, <1>5, <1>6, <1>7, <1>8 DEF CommentInv

LEMMA CommentByEndPass ==
  ASSUME CommentInv, TypeInv', EndPass
  PROVE  CommentInv'
<1>1. /\ KeysArePast /\ KnownPending(file)
      /\ phase' = "idle" /\ mem' = file /\ events' = <<>> /\ sending' = None
      /\ UNCHANGED <<local, file, posted>>
  BY DEF CommentInv, EndPass
<1>2. DOMAIN events' = {}
  BY <1>1
<1>3. /\ OneEventPerTicket' /\ EventsHappened' /\ KeysArePast' /\ WorkPends' /\ SendingInWork'
  BY <1>1, <1>2 DEF OneEventPerTicket, EventsHappened, KeysArePast, WorkPends, SendingInWork
<1>4. KnownPending(mem)' /\ KnownPending(file)'
  BY <1>1 DEF KnownPending, PendsAt, KeyAt
<1> QED
  BY <1>3, <1>4 DEF CommentInv

(* What the handlers do to the comments. *)
LEMMA HandlersComment ==
  ASSUME TypeOK, Handling, NextHandler, [Next]_vars
  PROVE  \/ UNCHANGED posted /\ SameComments(mem', mem)
         \/ /\ OracleHandling
            /\ \E kind \in Kinds : /\ QueuesComment(kind) /\ Queues(kind)
                                   /\ kind = "lifecycle" \/ dirty'
<1>1. phase = "dispatch" /\ phase' = phase /\ ev <= Len(events)
  BY DEF Handling, NextHandler
<1>2. /\ Ticket \in Tickets /\ Known \in External /\ mem \in [Tickets -> External]
      /\ ev \in Nat /\ Len(events) \in Nat
  <2>1. Ticket \in Tickets /\ Known \in External /\ ev \in 1..Len(events) /\ Len(events) \in Nat
    BY HandlingType
  <2> QED
    BY <2>1 DEF TypeOK
<1>3. CASE RegisterRequest
  <2>1. UNCHANGED posted
    BY <1>3 DEF RegisterRequest
  <2>2. \A r : Registered(Known, r).comments = Known.comments
    BY <1>2 DEF Registered, External
  <2>3. mem' = mem \/ \E r : mem' = [mem EXCEPT ![Ticket] = Registered(Known, r)]
    BY <1>3 DEF RegisterRequest, Known
  <2> QED
    BY <1>2, <2>1, <2>2, <2>3 DEF SameComments, Known
<1>4. CASE UpdateRequest \/ CloseRequest \/ NothingToClose \/ OracleUnchanged
  BY <1>4 DEF UpdateRequest, CloseRequest, NothingToClose, OracleUnchanged, SameComments
<1>5. CASE OracleRequest
  <2>1. PICK kind \in Kinds :
          \/ mem' = [mem EXCEPT ![Ticket] = OracleResult(Queued(mem[Ticket], kind))] /\ QueuesComment(kind)
          \/ UNCHANGED <<mem, posted>>
    BY <1>5 DEF OracleRequest, Kinds
  <2>2. CASE UNCHANGED <<mem, posted>>
    BY <2>2 DEF SameComments
  <2>3. CASE /\ mem' = [mem EXCEPT ![Ticket] = OracleResult(Queued(mem[Ticket], kind))]
             /\ QueuesComment(kind)
    <3>1. Queues(kind)
      BY <1>2, <2>3, QueuedComments DEF Queues, Known
    <3> QED
      BY <1>5, <2>3, <3>1 DEF OracleRequest
  <2> QED
    BY <2>1, <2>2, <2>3
<1>6. CASE OracleLifecycle
  <2>1. /\ OracleHandling /\ QueuesComment("lifecycle")
        /\ mem' = [mem EXCEPT ![Ticket] = Queued(mem[Ticket], "lifecycle")]
    BY <1>6 DEF OracleLifecycle
  <2>2. Queues("lifecycle")
    BY <1>2, <2>1, QueuedComments DEF Queues, Known
  <2> QED
    BY <2>1, <2>2 DEF Kinds
<1>7. CASE UNCHANGED vars
  BY <1>7 DEF vars, SameComments
<1> QED
  BY <1>1, <1>2, <1>3, <1>4, <1>5, <1>6, <1>7
  DEF Next, BeginPass, FinishDispatch, AnnotateIncident, AnnotateFails, FinishAnnotate,
      SkipHistorical, PostComment, SaveFlushed, PostFails, FinishPass, AbortPass, EndPass, Trying

(* Every step is a handler or one of the others. *)
LEMMA NextByPhase ==
  ASSUME Next
  PROVE  \/ BeginPass
         \/ Handling /\ NextHandler
         \/ FinishDispatch \/ AnnotateIncident \/ AnnotateFails
         \/ FinishAnnotate
         \/ SkipHistorical \/ SaveFlushed
         \/ PostComment \/ PostFails
         \/ FinishPass \/ AbortPass
BY DEF Next, RegisterRequest, UpdateRequest, CloseRequest, NothingToClose, OracleUnchanged,
       OracleRequest, OracleLifecycle, OracleHandling

LEMMA CommentStep == CommentInv /\ [Next]_vars => CommentInv'
<1> SUFFICES ASSUME CommentInv, [Next]_vars
             PROVE  CommentInv'
  OBVIOUS
<1>1. TypeInv /\ TypeInv' /\ TypeOK
  BY TypeStep DEF CommentInv, TypeInv
<1>2. CASE BeginPass
  BY <1>2, CommentByBeginPass
<1>3. CASE Handling /\ NextHandler
  <2>1. CASE UNCHANGED posted /\ SameComments(mem', mem)
    BY <1>1, <1>3, <2>1, CommentByHandler
  <2>2. CASE OracleHandling /\ \E kind \in Kinds : QueuesComment(kind) /\ Queues(kind)
    BY <1>1, <1>3, <2>2, CommentByQueue
  <2> QED
    BY <1>1, <1>3, <2>1, <2>2, HandlersComment
<1>4. CASE FinishDispatch \/ AnnotateIncident \/ AnnotateFails
  BY <1>1, <1>4, CommentByAnnotate
<1>5. CASE FinishAnnotate
  BY <1>1, <1>5, CommentByFinishAnnotate
<1>6. CASE SkipHistorical
  BY <1>1, <1>6, SkipRemoves, CommentByRemoves
<1>7. CASE SaveFlushed
  BY <1>1, <1>7, FlushedRemoves, CommentByRemoves
<1>8. CASE PostComment \/ PostFails
  BY <1>1, <1>8, CommentByPost
<1>9. CASE FinishPass \/ AbortPass
  BY <1>1, <1>9, CommentByEndPass DEF FinishPass, AbortPass
<1>10. CASE UNCHANGED vars
  BY <1>1, <1>10
  DEF vars, pass, CommentInv, OneEventPerTicket, EventsHappened, KeysArePast, PastHandler, About,
      KnownPending, PendsAt, KeyAt, WorkPends, SendingInWork, KeyOf
<1> QED
  BY <1>2, <1>3, <1>4, <1>5, <1>6, <1>7, <1>8, <1>9, <1>10, NextByPhase

-----------------------------------------------------------------------------
(***************************************************************************)
(* No comment is posted twice while passes end as they should and no       *)
(* answer of SAYMON is lost: a comment that is pending has not been        *)
(* posted, but for the one that was sent and is about to be taken off, and *)
(* it is pending at one place only.                                        *)
(***************************************************************************)
Unposted(x) ==
  \A t \in Tickets : \A k, i :
    PendsAt(x, t, k, i) =>
      \/ posted[KeyAt(x, t, k, i)] = 0
      \/ sending # None /\ KeyAt(x, t, k, i) = KeyOf(sending)

PendsOnce(x) ==
  \A t \in Tickets : \A k, l, i :
    PendsAt(x, t, k, i) /\ PendsAt(x, t, l, i) /\ KeyAt(x, t, k, i) = KeyAt(x, t, l, i) => k = l

UnpostedInv ==
  /\ CommentInv
  /\ Unposted(mem) /\ Unposted(file)
  /\ PendsOnce(mem) /\ PendsOnce(file)
  /\ PostedOnce

LEMMA UnpostedInit == Init => UnpostedInv
<1> SUFFICES ASSUME Init
             PROVE  UnpostedInv
  OBVIOUS
<1>1. \A t \in Tickets : DOMAIN mem[t].comments = {} /\ DOMAIN file[t].comments = {}
  BY DEF Init, NewTicket
<1>2. Unposted(mem) /\ Unposted(file) /\ PendsOnce(mem) /\ PendsOnce(file)
  BY <1>1 DEF Unposted, PendsOnce, PendsAt
<1>3. PostedOnce
  BY DEF Init, PostedOnce
<1> QED
  BY <1>2, <1>3, CommentInit DEF UnpostedInv

(* What holds of the tickets in x and of the key that is being sent. *)
LEMMA UnpostedStays ==
  ASSUME NEW x, NEW y, SameComments(y, x), Unposted(x), PendsOnce(x), sending = None
  PROVE  /\ \A t \in Tickets : \A k, i : PendsAt(y, t, k, i) => posted[KeyAt(y, t, k, i)] = 0
         /\ PendsOnce(y)
<1>1. \A t \in Tickets : \A k, i : /\ PendsAt(y, t, k, i) <=> PendsAt(x, t, k, i)
                                   /\ KeyAt(y, t, k, i) = KeyAt(x, t, k, i)
  BY SameCommentsPend
<1> HIDE DEF PendsAt, KeyAt
<1> QED
  BY <1>1 DEF Unposted, PendsOnce

LEMMA UnpostedByQueue ==
  ASSUME UnpostedInv, OracleHandling, NextHandler, NEW kind \in Kinds,
         QueuesComment(kind), Queues(kind)
  PROVE  /\ Unposted(mem)' /\ Unposted(file)'
         /\ PendsOnce(mem)' /\ PendsOnce(file)'
         /\ PostedOnce'
<1> DEFINE new == {Key(Ticket, Comment(kind), i) : i \in Members[Ticket]}
<1>1. /\ CommentInv /\ TypeOK /\ SendingInWork /\ Handling /\ KnownPending(mem) /\ KnownPending(file)
      /\ Unposted(mem) /\ Unposted(file) /\ PendsOnce(mem) /\ PendsOnce(file) /\ PostedOnce
      /\ phase = "dispatch" /\ file' = file /\ sending' = sending
  BY DEF UnpostedInv, CommentInv, TypeInv, OracleHandling, Handling, NextHandler
<1>2. sending = None
  BY <1>1 DEF SendingInWork
<1>3. /\ DOMAIN posted' = DOMAIN posted \cup new
      /\ \A c \in DOMAIN posted : posted'[c] = posted[c]
      /\ \A c \in new : posted'[c] = 0 /\ c \notin DOMAIN posted
  BY <1>1, QueuedIsNew DEF QueuesComment
<1>4. PostedOnce'
  <2>1. ASSUME NEW c \in DOMAIN posted' PROVE posted'[c] <= 1
    BY <1>1, <1>3 DEF PostedOnce
  <2> QED
    BY <2>1 DEF PostedOnce
<1>5. ASSUME NEW t \in Tickets, NEW k, NEW i, PendsAt(mem, t, k, i)'
      PROVE  \/ /\ PendsAt(mem, t, k, i) /\ KeyAt(mem, t, k, i)' = KeyAt(mem, t, k, i)
                /\ KeyAt(mem, t, k, i) \in DOMAIN posted
                /\ posted[KeyAt(mem, t, k, i)] = 0
             \/ t = Ticket /\ k = Len(mem[Ticket].comments) + 1 /\ KeyAt(mem, t, k, i)' \in new
  BY <1>1, <1>2, <1>5, QueuesPend DEF KnownPending, Unposted
<1>6. Unposted(mem)'
  BY <1>3, <1>5 DEF Unposted
<1>7. Unposted(file)'
  BY <1>1, <1>2, <1>3 DEF Unposted, KnownPending, PendsAt, KeyAt
<1>8. PendsOnce(mem)'
  <2> SUFFICES ASSUME NEW t \in Tickets, NEW k, NEW l, NEW i,
                      PendsAt(mem, t, k, i)', PendsAt(mem, t, l, i)',
                      KeyAt(mem, t, k, i)' = KeyAt(mem, t, l, i)'
               PROVE  k = l
    BY DEF PendsOnce
  <2>1. \/ PendsAt(mem, t, k, i) /\ KeyAt(mem, t, k, i)' = KeyAt(mem, t, k, i) /\ KeyAt(mem, t, k, i) \in DOMAIN posted
        \/ k = Len(mem[Ticket].comments) + 1 /\ KeyAt(mem, t, k, i)' \notin DOMAIN posted
    BY <1>3, <1>5
  <2>2. \/ PendsAt(mem, t, l, i) /\ KeyAt(mem, t, l, i)' = KeyAt(mem, t, l, i) /\ KeyAt(mem, t, l, i) \in DOMAIN posted
        \/ l = Len(mem[Ticket].comments) + 1 /\ KeyAt(mem, t, l, i)' \notin DOMAIN posted
    BY <1>3, <1>5
  <2> QED
    BY <1>1, <2>1, <2>2 DEF PendsOnce
<1>9. PendsOnce(file)'
  BY <1>1 DEF PendsOnce, PendsAt, KeyAt
<1> QED
  BY <1>4, <1>6, <1>7, <1>8, <1>9

LEMMA UnpostedByRemoves ==
  ASSUME UnpostedInv, NEW w \in Triples, PendsAt(mem, w[1], w[2], w[3]),
         mem' = Removed(w), file' = mem', posted' = posted, sending' = None,
         sending = None \/ sending = w
  PROVE  /\ Unposted(mem)' /\ Unposted(file)'
         /\ PendsOnce(mem)' /\ PendsOnce(file)'
<1>1. TypeOK /\ Unposted(mem) /\ PendsOnce(mem)
  BY DEF UnpostedInv, CommentInv, TypeInv
<1>2. ASSUME NEW t \in Tickets, NEW k, NEW i, PendsAt(mem, t, k, i)'
      PROVE  /\ PendsAt(mem, t, k, i) /\ KeyAt(mem, t, k, i)' = KeyAt(mem, t, k, i)
             /\ posted[KeyAt(mem, t, k, i)] = 0
  <2>1. /\ PendsAt(mem, t, k, i) /\ KeyAt(mem, t, k, i)' = KeyAt(mem, t, k, i)
        /\ <<t, k, i>> # w
    BY <1>1, <1>2, RemovedPend
  <2>2. CASE sending = w /\ KeyAt(mem, t, k, i) = KeyOf(sending)
    <3>1. KeyAt(mem, t, k, i) = KeyAt(mem, w[1], w[2], w[3])
      BY <2>2 DEF KeyOf, KeyAt
    <3>2. t = w[1] /\ i = w[3]
      BY <3>1 DEF KeyAt, Key
    <3>3. k = w[2]
      BY <1>1, <2>1, <3>1, <3>2 DEF PendsOnce
    <3>4. w = <<w[1], w[2], w[3]>>
      BY DEF Triples
    <3> QED
      BY <2>1, <3>2, <3>3, <3>4
  <2>3. CASE posted[KeyAt(mem, t, k, i)] = 0
    BY <2>1, <2>3
  <2>4. \/ posted[KeyAt(mem, t, k, i)] = 0
        \/ sending = w /\ KeyAt(mem, t, k, i) = KeyOf(sending)
    BY <1>1, <2>1 DEF Unposted
  <2> QED
    BY <2>2, <2>3, <2>4
<1>3. Unposted(mem)'
  BY <1>2 DEF Unposted
<1>4. PendsOnce(mem)'
  BY <1>1, <1>2 DEF PendsOnce
<1>5. Unposted(file)' /\ PendsOnce(file)'
  BY <1>3, <1>4 DEF Unposted, PendsOnce, PendsAt, KeyAt
<1> QED
  BY <1>3, <1>4, <1>5

LEMMA UnpostedByPost ==
  ASSUME "lost" \notin SaymonFailures, UnpostedInv, PostComment \/ PostFails
  PROVE  /\ Unposted(mem)' /\ Unposted(file)'
         /\ PendsOnce(mem)' /\ PendsOnce(file)'
         /\ PostedOnce'
<1>1. /\ CommentInv /\ TypeOK /\ KnownPending(mem) /\ KnownPending(file)
      /\ Unposted(mem) /\ Unposted(file) /\ PendsOnce(mem) /\ PendsOnce(file) /\ PostedOnce
  BY DEF UnpostedInv, CommentInv, TypeInv
<1>2. PICK w \in work :
        /\ PendsAt(mem, w[1], w[2], w[3]) /\ KeyOf(w) \in DOMAIN posted
        /\ (Posts(w) /\ sending' = w) \/ (posted' = posted /\ sending' = None)
        /\ sending = None /\ phase = "flush" /\ UNCHANGED <<file, mem>>
  BY <1>1, PostEffect
<1>3. PendsOnce(mem)' /\ PendsOnce(file)'
  BY <1>1, <1>2 DEF PendsOnce, PendsAt, KeyAt
<1>4. CASE posted' = posted /\ sending' = None
  BY <1>1, <1>2, <1>3, <1>4 DEF Unposted, PendsAt, KeyAt, PostedOnce
<1>5. CASE Posts(w) /\ sending' = w
  <2>1. /\ DOMAIN posted' = DOMAIN posted
        /\ posted'[KeyOf(w)] = IF posted[KeyOf(w)] = 0 THEN 1 ELSE 2
        /\ \A c \in DOMAIN posted : c # KeyOf(w) => posted'[c] = posted[c]
    BY <1>1, <1>2, <1>5, PostsCounts
  <2>2. posted[KeyOf(w)] = 0
    <3>1. w[1] \in Tickets /\ KeyAt(mem, w[1], w[2], w[3]) = KeyOf(w)
      BY <1>1, <1>2 DEF TypeOK, Triples, KeyAt, KeyOf
    <3> QED
      BY <1>1, <1>2, <3>1 DEF Unposted
  <2>3. PostedOnce'
    BY <1>1, <2>1, <2>2 DEF PostedOnce
  <2>4. KeyOf(sending)' = KeyOf(w)
    BY <1>2, <1>5 DEF KeyOf
  <2>5. sending' # None
    <3>1. w = <<w[1], w[2], w[3]>>
      BY <1>1, <1>2 DEF TypeOK, Triples
    <3> QED
      BY <1>5, <3>1 DEF None
  <2>6. Unposted(mem)'
    <3>1. \A t \in Tickets : \A k, i : PendsAt(mem, t, k, i) =>
            posted'[KeyAt(mem, t, k, i)] = 0 \/ KeyAt(mem, t, k, i) = KeyOf(w)
      BY <1>1, <1>2, <2>1 DEF Unposted, KnownPending
    <3> QED
      BY <1>2, <2>4, <2>5, <3>1 DEF Unposted, PendsAt, KeyAt
  <2>7. Unposted(file)'
    <3>1. \A t \in Tickets : \A k, i : PendsAt(file, t, k, i) =>
            posted'[KeyAt(file, t, k, i)] = 0 \/ KeyAt(file, t, k, i) = KeyOf(w)
      BY <1>1, <1>2, <2>1 DEF Unposted, KnownPending
    <3> QED
      BY <1>2, <2>4, <2>5, <3>1 DEF Unposted, PendsAt, KeyAt
  <2> QED
    BY <1>3, <2>3, <2>6, <2>7
<1> QED
  BY <1>2, <1>4, <1>5

LEMMA UnpostedStep ==
  ASSUME ~ MayCrash, "lost" \notin SaymonFailures, UnpostedInv, [Next]_vars
  PROVE  UnpostedInv'
<1>1. /\ CommentInv /\ CommentInv' /\ TypeOK /\ SendingInWork
      /\ Unposted(mem) /\ Unposted(file) /\ PendsOnce(mem) /\ PendsOnce(file) /\ PostedOnce
  BY CommentStep DEF UnpostedInv, CommentInv, TypeInv
<1>2. ASSUME sending = None, sending' = None, posted' = posted,
             SameComments(mem', mem) \/ mem' = file, file' \in {file, mem}
      PROVE  UnpostedInv'
  <2>1. SameComments(mem', mem) \/ SameComments(mem', file)
    BY <1>2 DEF SameComments
  <2>2. SameComments(file', mem) \/ SameComments(file', file)
    BY <1>2 DEF SameComments
  <2>3. /\ \A t \in Tickets : \A k, i : PendsAt(mem', t, k, i) => posted[KeyAt(mem', t, k, i)] = 0
        /\ PendsOnce(mem')
    BY <1>1, <1>2, <2>1, UnpostedStays
  <2>4. /\ \A t \in Tickets : \A k, i : PendsAt(file', t, k, i) => posted[KeyAt(file', t, k, i)] = 0
        /\ PendsOnce(file')
    BY <1>1, <1>2, <2>2, UnpostedStays
  <2>5. Unposted(mem)' /\ PendsOnce(mem)'
    BY <1>2, <2>3 DEF Unposted, PendsOnce, PendsAt, KeyAt
  <2>6. Unposted(file)' /\ PendsOnce(file)'
    BY <1>2, <2>4 DEF Unposted, PendsOnce, PendsAt, KeyAt
  <2> QED
    BY <1>1, <1>2, <2>5, <2>6 DEF UnpostedInv, PostedOnce
<1>3. CASE BeginPass
  BY <1>1, <1>2, <1>3 DEF BeginPass, SendingInWork
<1>4. CASE Handling /\ NextHandler
  <2>1. file' = file /\ sending' = sending /\ sending = None
    BY <1>1, <1>4 DEF NextHandler, Handling, SendingInWork
  <2>2. CASE UNCHANGED posted /\ SameComments(mem', mem)
    BY <1>2, <2>1, <2>2
  <2>3. CASE OracleHandling /\ \E kind \in Kinds : QueuesComment(kind) /\ Queues(kind)
    BY <1>1, <1>4, <2>3, UnpostedByQueue DEF UnpostedInv
  <2> QED
    BY <1>1, <1>4, <2>2, <2>3, HandlersComment
<1>5. CASE FinishDispatch \/ AnnotateIncident \/ AnnotateFails
  <2>1. /\ SameComments(mem', mem) /\ (file' = file \/ file' = mem)
        /\ posted' = posted /\ sending' = None /\ sending = None
    BY <1>1, <1>5, CommentByAnnotate DEF CommentInv
  <2> QED
    BY <1>2, <2>1
<1>6. CASE FinishAnnotate
  BY <1>1, <1>2, <1>6 DEF FinishAnnotate, Saved, SendingInWork, SameComments
<1>7. CASE SkipHistorical
  <2>1. PICK w \in Triples : /\ PendsAt(mem, w[1], w[2], w[3])
                             /\ mem' = Removed(w) /\ file' = mem' /\ posted' = posted
                             /\ sending = None /\ sending' = None
    BY <1>1, <1>7, SkipRemoves
  <2> QED
    BY <1>1, <2>1, UnpostedByRemoves DEF UnpostedInv, PostedOnce
<1>8. CASE SaveFlushed
  <2>1. /\ sending \in Triples /\ PendsAt(mem, sending[1], sending[2], sending[3])
        /\ mem' = Removed(sending) /\ file' = mem' /\ posted' = posted /\ sending' = None
    BY <1>1, <1>8, FlushedRemoves
  <2> QED
    BY <1>1, <2>1, UnpostedByRemoves DEF UnpostedInv, PostedOnce
<1>9. CASE PostComment \/ PostFails
  BY <1>1, <1>9, UnpostedByPost DEF UnpostedInv
<1>10. CASE FinishPass \/ AbortPass
  BY <1>1, <1>2, <1>10 DEF FinishPass, AbortPass, EndPass, SendingInWork
<1>11. CASE UNCHANGED vars
  BY <1>1, <1>11 DEF vars, pass, UnpostedInv, Unposted, PendsOnce, PendsAt, KeyAt, KeyOf, PostedOnce
<1> QED
  BY <1>3, <1>4, <1>5, <1>6, <1>7, <1>8, <1>9, <1>10, <1>11, NextByPhase

(***************************************************************************)
(* While the worker does not die in a pass and no answer of SAYMON is      *)
(* lost, no comment is posted twice, although what fails is tried again in *)
(* every pass.                                                             *)
(***************************************************************************)
THEOREM DeliveryPostedOnce ==
  ASSUME ~ MayCrash, "lost" \notin SaymonFailures
  PROVE  Spec => []PostedOnce
<1>1. UnpostedInv /\ [Next]_vars => UnpostedInv'
  BY UnpostedStep
<1>2. UnpostedInv => PostedOnce
  BY DEF UnpostedInv
<1> QED
  BY <1>1, <1>2, UnpostedInit, PTL DEF Spec

-----------------------------------------------------------------------------
(***************************************************************************)
(* Comments that confirm a request are kept while passes end as they       *)
(* should, whatever requests fail or answers are lost: the request whose   *)
(* answer queued one made the pass save its results.                       *)
(***************************************************************************)
Due(c) == posted[c] = 0 /\ c.incident \notin history /\ c.kind # "lifecycle"

PendsIn(x, c) == \E k : PendsAt(x, c.ticket, k, c.incident) /\ KeyAt(x, c.ticket, k, c.incident) = c

KeepsDue(x) == \A c \in DOMAIN posted : Due(c) => PendsIn(x, c)

ConfirmInv ==
  /\ CommentInv
  /\ KeepsDue(mem)
  /\ dirty \/ KeepsDue(file)
  /\ phase \in {"idle", "flush"} => ~ dirty

LEMMA ConfirmInit == Init => ConfirmInv
<1>1. Init => KeepsDue(mem) /\ KeepsDue(file) /\ ~ dirty
  BY DEF Init, KeepsDue
<1> QED
  BY <1>1, CommentInit DEF ConfirmInv

LEMMA KeyTicket ==
  ASSUME TypeOK, NEW c \in DOMAIN posted
  PROVE  c.ticket \in Tickets /\ posted[c] \in Nat
BY DEF TypeOK, Keys

(* The incidents only grow that need no comment any more. *)
LEMMA DueStays ==
  ASSUME TypeOK, NEW x, NEW y, SameComments(y, x), KeepsDue(x), posted' = posted,
         history \subseteq history'
  PROVE  \A c \in DOMAIN posted' : Due(c)' => PendsIn(y, c)
<1>1. ASSUME NEW c \in DOMAIN posted, Due(c)' PROVE PendsIn(y, c)
  <2>1. Due(c) /\ c.ticket \in Tickets
    BY <1>1, KeyTicket DEF Due
  <2>2. PendsIn(x, c)
    BY <2>1 DEF KeepsDue
  <2> QED
    BY <2>1, <2>2, SameCommentsPend DEF PendsIn
<1> QED
  BY <1>1

LEMMA ConfirmByQueue ==
  ASSUME ConfirmInv, OracleHandling, NextHandler, NEW kind \in Kinds,
         QueuesComment(kind), Queues(kind), kind = "lifecycle" \/ dirty', dirty => dirty'
  PROVE  KeepsDue(mem)' /\ (dirty \/ KeepsDue(file))'
<1> DEFINE new == {Key(Ticket, Comment(kind), i) : i \in Members[Ticket]}
<1>1. /\ TypeOK /\ Handling /\ KeepsDue(mem) /\ (dirty \/ KeepsDue(file))
      /\ Ticket \in Tickets /\ mem[Ticket].comments \in Seq(CommentItem)
      /\ UNCHANGED <<file, history>>
  <2>1. TypeOK /\ Handling /\ UNCHANGED <<file, history>>
    BY DEF ConfirmInv, CommentInv, TypeInv, OracleHandling, NextHandler
  <2> QED
    BY <2>1, HandlingType, ExternalFields DEF ConfirmInv, Known
<1>2. /\ DOMAIN posted' = DOMAIN posted \cup new
      /\ \A c \in DOMAIN posted : posted'[c] = posted[c]
  BY DEF QueuesComment
<1>3. \A c \in new : /\ c.ticket = Ticket /\ c.kind = kind /\ c.incident \in Members[Ticket]
                     /\ c = Key(Ticket, Comment(kind), c.incident)
  BY DEF Key, Comment
<1>4. KeepsDue(mem)'
  <2> SUFFICES ASSUME NEW c \in DOMAIN posted', Due(c)'
               PROVE  \E k : /\ PendsAt(mem, c.ticket, k, c.incident)'
                             /\ KeyAt(mem, c.ticket, k, c.incident)' = c
    BY DEF KeepsDue, PendsIn
  <2>1. CASE c \in DOMAIN posted
    <3>1. Due(c) /\ c.ticket \in Tickets
      BY <1>1, <1>2, <2>1, KeyTicket DEF Due
    <3>2. PICK k : PendsAt(mem, c.ticket, k, c.incident) /\ KeyAt(mem, c.ticket, k, c.incident) = c
      BY <1>1, <2>1, <3>1 DEF KeepsDue, PendsIn
    <3> QED
      BY <1>1, <3>1, <3>2, QueuesPend
  <2>2. CASE c \in new
    <3>1. Comment(kind) \in CommentItem
      BY <1>1, CommentType
    <3>2. PICK n : n \in DOMAIN mem'[Ticket].comments /\ mem'[Ticket].comments[n] = Comment(kind)
      <4> DEFINE last == Len(mem[Ticket].comments) + 1
      <4>1. last \in DOMAIN mem'[Ticket].comments /\ mem'[Ticket].comments[last] = Comment(kind)
        BY <1>1, <3>1, AppendType DEF Queues
      <4> QED
        BY <4>1
    <3>3. Comment(kind).pending = Members[Ticket]
      BY DEF Comment
    <3>4. /\ PendsAt(mem, c.ticket, n, c.incident)'
          /\ KeyAt(mem, c.ticket, n, c.incident)' = c
      BY <1>3, <2>2, <3>2, <3>3 DEF PendsAt, KeyAt
    <3> QED
      BY <3>4
  <2> QED
    BY <1>2, <2>1, <2>2
<1>5. ASSUME kind = "lifecycle", ~ dirty' PROVE KeepsDue(file)'
  <2>1. KeepsDue(file)
    BY <1>1, <1>5
  <2> SUFFICES ASSUME NEW c \in DOMAIN posted', Due(c)'
               PROVE  PendsIn(file, c)'
    BY DEF KeepsDue
  <2>2. c \in DOMAIN posted /\ Due(c)
    BY <1>1, <1>2, <1>3, <1>5 DEF Due
  <2> QED
    BY <1>1, <2>1, <2>2 DEF KeepsDue, PendsIn, PendsAt, KeyAt
<1> QED
  BY <1>4, <1>5

LEMMA ConfirmByRemoves ==
  ASSUME ConfirmInv, NEW w \in Triples, PendsAt(mem, w[1], w[2], w[3]),
         mem' = Removed(w), file' = mem', UNCHANGED <<posted, history>>,
         posted[KeyOf(w)] > 0 \/ w[3] \in history
  PROVE  KeepsDue(mem)' /\ KeepsDue(file)'
<1>1. TypeOK /\ KeepsDue(mem)
  BY DEF ConfirmInv, CommentInv, TypeInv
<1>2. ASSUME NEW c \in DOMAIN posted, Due(c)
      PROVE  \E k : /\ PendsAt(mem, c.ticket, k, c.incident)'
                    /\ KeyAt(mem, c.ticket, k, c.incident)' = c
  <2>1. c.ticket \in Tickets /\ posted[c] \in Nat
    BY <1>1, KeyTicket
  <2>2. PICK k : PendsAt(mem, c.ticket, k, c.incident) /\ KeyAt(mem, c.ticket, k, c.incident) = c
    BY <1>1, <1>2 DEF KeepsDue, PendsIn
  <2>3. <<c.ticket, k, c.incident>> # w
    <3> SUFFICES ASSUME w[1] = c.ticket, w[2] = k, w[3] = c.incident
                 PROVE  FALSE
      OBVIOUS
    <3>1. KeyOf(w) = c
      BY <2>2 DEF KeyOf, KeyAt
    <3> QED
      BY <1>2, <2>1, <3>1 DEF Due
  <2> QED
    BY <1>1, <2>1, <2>2, <2>3, RemovedPend
<1>3. KeepsDue(mem)'
  BY <1>2 DEF KeepsDue, PendsIn, Due
<1>4. KeepsDue(file)'
  BY <1>3 DEF KeepsDue, PendsIn, PendsAt, KeyAt
<1> QED
  BY <1>3, <1>4

LEMMA ConfirmByPost ==
  ASSUME ConfirmInv, PostComment \/ PostFails
  PROVE  KeepsDue(mem)' /\ (KeepsDue(file) => KeepsDue(file)') /\ phase = "flush"
         /\ UNCHANGED <<phase, dirty>>
<1>1. CommentInv /\ TypeOK /\ KeepsDue(mem)
  BY DEF ConfirmInv, CommentInv, TypeInv
<1>2. PICK w \in work :
        /\ Posts(w) \/ posted' = posted
        /\ phase = "flush" /\ UNCHANGED <<file, mem, history, phase, dirty>>
  BY <1>1, PostEffect
<1>3. DOMAIN posted' = DOMAIN posted /\ \A c \in DOMAIN posted : Due(c)' => Due(c)
  <2>1. /\ DOMAIN posted' = DOMAIN posted
        /\ \A c \in DOMAIN posted : posted[c] > 0 => posted'[c] > 0
    BY <1>1, <1>2, PostsCounts
  <2>2. \A c \in DOMAIN posted : posted[c] \in Nat
    BY <1>1, KeyTicket
  <2> QED
    BY <1>2, <2>1, <2>2 DEF Due
<1> QED
  BY <1>1, <1>2, <1>3 DEF KeepsDue, PendsIn, PendsAt, KeyAt

LEMMA ConfirmStep ==
  ASSUME ~ MayCrash, ConfirmInv, [Next]_vars
  PROVE  ConfirmInv'
<1>1. /\ CommentInv /\ CommentInv' /\ TypeOK /\ SendingInWork
      /\ KeepsDue(mem) /\ (dirty \/ KeepsDue(file)) /\ (phase \in {"idle", "flush"} => ~ dirty)
  BY CommentStep DEF ConfirmInv, CommentInv, TypeInv
<1>2. ASSUME posted' = posted, history \subseteq history', SameComments(mem', mem)
      PROVE  KeepsDue(mem)'
  <2>1. \A c \in DOMAIN posted' : Due(c)' => PendsIn(mem', c)
    BY <1>1, <1>2, DueStays
  <2> QED
    BY <2>1 DEF KeepsDue, PendsIn, PendsAt, KeyAt
<1>3. ASSUME posted' = posted, history \subseteq history', KeepsDue(file), file' = file
      PROVE  KeepsDue(file)'
  <2>1. SameComments(file', file)
    BY <1>3 DEF SameComments
  <2>2. \A c \in DOMAIN posted' : Due(c)' => PendsIn(file', c)
    BY <1>1, <1>3, <2>1, DueStays
  <2> QED
    BY <2>2 DEF KeepsDue, PendsIn, PendsAt, KeyAt
<1>4. ASSUME posted' = posted, history \subseteq history', file' = mem
      PROVE  KeepsDue(file)'
  <2>1. SameComments(file', mem)
    BY <1>4 DEF SameComments
  <2>2. \A c \in DOMAIN posted' : Due(c)' => PendsIn(file', c)
    BY <1>1, <1>4, <2>1, DueStays
  <2> QED
    BY <2>2 DEF KeepsDue, PendsIn, PendsAt, KeyAt
<1>5. ASSUME posted' = posted, history \subseteq history', KeepsDue(file), file' = file, mem' = file
      PROVE  KeepsDue(mem)'
  BY <1>3, <1>5 DEF KeepsDue, PendsIn, PendsAt, KeyAt
<1>6. CASE BeginPass
  BY <1>1, <1>3, <1>5, <1>6 DEF BeginPass, ConfirmInv
<1>7. CASE Handling /\ NextHandler
  <2>1. /\ file' = file /\ history' = history /\ phase = "dispatch" /\ phase' = "dispatch"
    BY <1>7 DEF NextHandler, Handling
  <2>2. dirty => dirty'
    <3>1. phase = "dispatch" /\ ev <= Len(events) /\ ev \in Nat /\ Len(events) \in Nat
      <4>1. ev \in 1..Len(events) /\ Len(events) \in Nat
        BY <1>1, <1>7, HandlingType
      <4> QED
        BY <1>7, <4>1 DEF Handling
    <3> QED
      BY <2>1, <3>1
      DEF Next, vars, RegisterRequest, UpdateRequest, CloseRequest, NothingToClose, OracleUnchanged,
          OracleRequest, OracleLifecycle, BeginPass, FinishDispatch, AnnotateIncident, AnnotateFails,
          FinishAnnotate, SkipHistorical, PostComment, SaveFlushed, PostFails, FinishPass,
          AbortPass, EndPass, Trying, pass
  <2>3. CASE UNCHANGED posted /\ SameComments(mem', mem)
    BY <1>1, <1>2, <1>3, <2>1, <2>2, <2>3 DEF ConfirmInv
  <2>4. CASE OracleHandling /\ \E kind \in Kinds : /\ QueuesComment(kind) /\ Queues(kind)
                                                   /\ kind = "lifecycle" \/ dirty'
    BY <1>1, <1>7, <2>1, <2>2, <2>4, ConfirmByQueue DEF ConfirmInv
  <2> QED
    BY <1>1, <1>7, <2>3, <2>4, HandlersComment
<1>8. CASE FinishDispatch \/ AnnotateIncident \/ AnnotateFails
  <2>1. SameComments(mem', mem) /\ posted' = posted /\ history' = history
    BY <1>1, <1>8, CommentByAnnotate DEF CommentInv
  <2>2. phase' = "annotate"
    BY <1>8 DEF FinishDispatch, AnnotateIncident, AnnotateFails, Trying
  <2>3. \/ file' = mem
        \/ file' = file /\ (dirty => dirty')
        \/ file' = file /\ ~ dirty
    BY <1>8 DEF FinishDispatch, AnnotateIncident, AnnotateFails, Saved
  <2> QED
    BY <1>1, <1>2, <1>3, <1>4, <2>1, <2>2, <2>3 DEF ConfirmInv
<1>9. CASE FinishAnnotate
  <2>1. /\ mem' = mem /\ posted' = posted /\ history' = history /\ dirty' = FALSE
        /\ file' = IF dirty THEN mem ELSE file
    BY <1>9 DEF FinishAnnotate, Saved
  <2>2. SameComments(mem', mem)
    BY <2>1 DEF SameComments
  <2> QED
    BY <1>1, <1>2, <1>3, <1>4, <2>1, <2>2 DEF ConfirmInv
<1>10. CASE SkipHistorical
  <2>1. PICK w \in Triples : /\ PendsAt(mem, w[1], w[2], w[3]) /\ w[3] \in history
                             /\ mem' = Removed(w) /\ file' = mem'
                             /\ UNCHANGED <<posted, history, dirty>> /\ phase' = phase
                             /\ phase = "flush"
    BY <1>1, <1>10, SkipRemoves
  <2> QED
    BY <1>1, <2>1, ConfirmByRemoves DEF ConfirmInv
<1>11. CASE SaveFlushed
  <2>1. /\ sending \in Triples /\ PendsAt(mem, sending[1], sending[2], sending[3])
        /\ posted[KeyOf(sending)] > 0
        /\ mem' = Removed(sending) /\ file' = mem'
        /\ UNCHANGED <<posted, history, dirty>> /\ phase' = phase
    BY <1>1, <1>11, FlushedRemoves
  <2> QED
    BY <1>1, <2>1, ConfirmByRemoves DEF ConfirmInv
<1>12. CASE PostComment \/ PostFails
  BY <1>1, <1>12, ConfirmByPost DEF ConfirmInv
<1>13. CASE FinishPass \/ AbortPass
  <2>1. /\ phase = "flush" /\ dirty' = FALSE /\ mem' = file /\ UNCHANGED <<file, history, posted>>
    BY <1>13 DEF FinishPass, AbortPass, EndPass
  <2> QED
    BY <1>1, <1>3, <1>5, <2>1 DEF ConfirmInv
<1>14. CASE UNCHANGED vars
  BY <1>1, <1>14 DEF vars, pass, ConfirmInv, KeepsDue, PendsIn, PendsAt, KeyAt, Due
<1> QED
  BY <1>6, <1>7, <1>8, <1>9, <1>10, <1>11, <1>12, <1>13, <1>14, NextByPhase

(***************************************************************************)
(* Between passes each comment that confirms a request and that SAYMON has *)
(* not got is pending in the file, unless its incident is historical, for  *)
(* all requests and comments that fail and answers that are lost.          *)
(***************************************************************************)
THEOREM DeliveryConfirmationsKept ==
  ASSUME ~ MayCrash
  PROVE  Spec => []ConfirmationsKept
<1>1. ConfirmInv /\ [Next]_vars => ConfirmInv'
  BY ConfirmStep
<1>2. ConfirmInv => ConfirmationsKept
  <2> SUFFICES ASSUME ConfirmInv, phase = "idle", NEW c \in DOMAIN posted, c.kind # "lifecycle"
               PROVE  Kept(c)
    BY DEF ConfirmationsKept
  <2>1. KeepsDue(file) /\ posted[c] \in Nat
    BY KeyTicket DEF ConfirmInv, CommentInv, TypeInv
  <2>2. CASE ~ Due(c)
    BY <2>1, <2>2 DEF Due, Kept
  <2>3. CASE Due(c)
    <3>1. PICK k : PendsAt(file, c.ticket, k, c.incident) /\ KeyAt(file, c.ticket, k, c.incident) = c
      BY <2>1, <2>3 DEF KeepsDue, PendsIn
    <3>2. file[c.ticket].comments[k].about = c.about /\ file[c.ticket].comments[k].kind = c.kind
      BY <3>1 DEF KeyAt, Key
    <3> QED
      BY <3>1, <3>2 DEF Kept, PendsAt
  <2> QED
    BY <2>2, <2>3
<1> QED
  BY <1>1, <1>2, ConfirmInit, PTL DEF Spec
=============================================================================
