------------------------- MODULE ReferenceProofs --------------------------
(***************************************************************************)
(* Proofs about the references of Delivery: which request a plugin         *)
(* addresses, and that a ticket is registered once at each service desk    *)
(* and closed wherever it was registered.                                  *)
(*                                                                         *)
(* Which plugins work side by side is the hypothesis TellApart: a plugin   *)
(* that finds nothing of its own takes external_ref for a request of its   *)
(* own by its looks, and two pairs of plugins use the same key.            *)
(***************************************************************************)
EXTENDS DeliveryProofs

(* The plugins that take external_ref for theirs if it is not in digits, or if it is. *)
ByText   == {"jira", "elma", "hpsm"}
ByDigits == {"redmine", "freshdesk", "bitrix24"}

(***************************************************************************)
(* What the plugins in use show can be told apart, and so can their keys:  *)
(* of "ticket_id" the former clause sees, as Zammad shows digits.          *)
(***************************************************************************)
TellApart ==
  /\ \A p, q \in InUse : p # q =>
       /\ p \in ByText => q \in ShownInDigits
       /\ p \in ByDigits => q \notin ShownInDigits
  /\ ~ {"servicenow", "simpleone"} \subseteq InUse

(* The key under which a plugin keeps its id, and what its external_ref looks like. *)
IdKey(p) ==
  CASE p = "jira"                        -> "issue_key"
    [] p = "redmine"                     -> "issue_id"
    [] p \in {"freshdesk", "zammad"}     -> "ticket_id"
    [] p \in {"servicenow", "simpleone"} -> "sys_id"
    [] p = "naumen"                      -> "uuid"
    [] p = "elma"                        -> "item_id"
    [] p = "bitrix24"                    -> "task_id"
    [] p = "hpsm"                        -> "incident_id"

RefForm(p) ==
  CASE p \in {"jira", "hpsm", "oracle"}                              -> "id"
    [] p \in {"redmine", "freshdesk", "bitrix24"}                    -> "hash"
    [] p \in {"servicenow", "simpleone", "naumen", "elma", "zammad"} -> "name"

LEMMA CreatedIs ==
  ASSUME NEW p \in RestSystems, NEW n \in Nat \ {0}
  PROVE  /\ Created(p, n) = [system |-> p, ref |-> RefTo(p, n, RefForm(p)),
                             key |-> IdKey(p), id |-> RefTo(p, n, "id")]
         /\ IdKey(p) \in IdKeys /\ RefForm(p) \in Forms
<1>1. CASE p \in {"jira", "redmine", "freshdesk", "servicenow", "simpleone"}
  BY <1>1 DEF Created, IdKey, RefForm, JiraCreated, RedmineCreated, FreshdeskCreated,
              ServiceNowCreated, SimpleOneCreated, Result, IdKeys, Forms
<1>2. CASE p \in {"naumen", "elma", "bitrix24", "hpsm", "zammad"}
  BY <1>2 DEF Created, IdKey, RefForm, NaumenCreated, ElmaCreated, Bitrix24Created, HpsmCreated,
              ZammadCreated, Result, IdKeys, Forms
<1> QED
  BY <1>1, <1>2 DEF RestSystems, Systems

-----------------------------------------------------------------------------
(***************************************************************************)
(* A reference to a request that is registered, for that ticket, at the    *)
(* desks d, and a ticket t whose references x are all of that kind.  The   *)
(* Oracle plugin may keep the reference of another under its own name, but *)
(* not once Oracle has told its number.                                    *)
(***************************************************************************)
OfDesk(d, t, r) ==
  r.system \in InUse /\ r.number \in DOMAIN d[r.system] /\ d[r.system][r.number].ticket = t

IsShown(d, t, r) == r # NoRef => r.form = RefForm(r.system) /\ OfDesk(d, t, r)

IsId(d, t, k, r) ==
  r # NoRef => r.form = "id" /\ OfDesk(d, t, r) /\ r.system # "oracle" /\ IdKey(r.system) = k

Genuine(d, t, x) ==
  /\ IsShown(d, t, x.ref)
  /\ \A p \in Systems :
       /\ IsShown(d, t, x.refs[p])
       /\ x.refs[p] # NoRef /\ p # "oracle" => x.refs[p].system = p
  /\ \A k \in IdKeys : IsId(d, t, k, x.ids[k])
  /\ OracleNumbers /\ x.recorded => x.refs["oracle"] # NoRef /\ x.refs["oracle"].system = "oracle"

(***************************************************************************)
(* Where the plugins can be told apart, whatever way a plugin finds a      *)
(* reference leads to its own request.  That it has the form the API takes *)
(* is not so of ELMA, whose external_ref is a name, and Bitrix24, which    *)
(* keeps the "#".                                                          *)
(***************************************************************************)
LEMMA AddressGenuine ==
  ASSUME TellApart, NEW d, NEW t, NEW x \in External, Genuine(d, t, x),
         NEW p \in RestSystems, p \in InUse, Address(p, x) # NoRef
  PROVE  /\ Address(p, x).system = p
         /\ OfDesk(d, t, Address(p, x))
         /\ p \notin {"elma", "bitrix24"} => Address(p, x).form = "id"
<1> DEFINE Right(r) == /\ r.system = p
                       /\ OfDesk(d, t, r)
                       /\ p \notin {"elma", "bitrix24"} => r.form = "id"
           own == IdKey(p)
<1>1. own \in IdKeys /\ p \in Systems /\ p # "oracle"
  BY CreatedIs DEF RestSystems
<1>2. ASSUME x.ids[own] # NoRef
      PROVE  Right(x.ids[own])
  <2> DEFINE q == x.ids[own].system
  <2>1. q \in InUse /\ q # "oracle" /\ IdKey(q) = IdKey(p) /\ q \in Systems
        /\ x.ids[own].form = "id" /\ OfDesk(d, t, x.ids[own])
    BY <1>1, <1>2, InUseType DEF Genuine, IsId, OfDesk
  <2>2. q = p
    BY <1>1, <2>1 DEF IdKey, TellApart, ByText, ByDigits, ShownInDigits, Systems
  <2> QED
    BY <2>1, <2>2
<1>3. FromMeta(p, own, x) # NoRef => FromMeta(p, own, x) = x.ids[own]
  BY DEF FromMeta
<1>4. ASSUME NEW r \in MaybeRef, IsShown(d, t, r), r # NoRef, r.system = p
      PROVE  /\ p \in ByDigits => Right(StripHash(r)) /\ StripHash(r) # NoRef
             /\ p \in ByText => Right(r)
             /\ p = "bitrix24" => Right(r)
  <2>1. r \in Ref /\ r.form = RefForm(p) /\ OfDesk(d, t, r)
    BY <1>4 DEF IsShown, MaybeRef
  <2>2. p \in ByDigits => /\ StripHash(r) = [r EXCEPT !.form = "id"]
                          /\ StripHash(r) \in Ref
    BY <1>4, <2>1 DEF StripHash, RefForm, ByDigits, Ref, Forms
  <2>3. p \in ByText => p = "elma" \/ r.form = "id"
    BY <2>1 DEF RefForm, ByText
  <2>4. p \in ByDigits => Right(StripHash(r))
    BY <1>4, <2>1, <2>2 DEF OfDesk, Ref
  <2> QED
    BY <1>4, <2>1, <2>2, <2>3, <2>4, NoRefIsNoRef
<1>5. /\ p \in ByText => FromText(x) = NoRef \/ Right(FromText(x))
      /\ p \in ByDigits => FromDigits(x) = NoRef \/ Right(FromDigits(x))
  <2>1. x.ref \in MaybeRef /\ IsShown(d, t, x.ref) /\ (x.ref # NoRef => x.ref.system \in InUse)
    BY ExternalFields DEF Genuine, IsShown, OfDesk
  <2>2. p \in ByText /\ FromText(x) # NoRef => FromText(x) = x.ref /\ x.ref.system = p
    BY <2>1 DEF FromText, TellApart
  <2>3. p \in ByDigits /\ FromDigits(x) # NoRef => FromDigits(x) = StripHash(x.ref) /\ x.ref.system = p
    BY <2>1 DEF FromDigits, TellApart
  <2>4. p \in ByDigits /\ FromDigits(x) # NoRef => x.ref # NoRef
    BY DEF FromDigits
  <2> QED
    BY <1>4, <2>1, <2>2, <2>3, <2>4 DEF FromText
<1>6. /\ x.refs[p] \in MaybeRef /\ IsShown(d, t, x.refs[p])
      /\ x.refs[p] # NoRef => x.refs[p].system = p
  BY <1>1, ExternalFields DEF Genuine
<1>7. /\ p \in ByText \/ p = "bitrix24" => x.refs[p] = NoRef \/ Right(x.refs[p])
      /\ p \in ByDigits => StripHash(x.refs[p]) = NoRef \/ Right(StripHash(x.refs[p]))
  BY <1>4, <1>6 DEF StripHash
<1>8. FromMeta(p, own, x) = NoRef \/ Right(FromMeta(p, own, x))
  BY <1>2, <1>3
<1>9. \/ p \in {"servicenow", "simpleone", "naumen", "zammad"} /\ Address(p, x) = x.ids[own]
      \/ p \in ByText /\ Address(p, x) = FirstOf(x.refs[p], FirstOf(FromMeta(p, own, x), FromText(x)))
      \/ /\ p = "bitrix24"
         /\ Address(p, x) = FirstOf(x.refs[p], FirstOf(FromMeta(p, own, x), FromDigits(x)))
      \/ /\ p \in ByDigits
         /\ Address(p, x) = FirstOf(StripHash(x.refs[p]), FirstOf(FromMeta(p, own, x), FromDigits(x)))
  <2>1. p \in {"servicenow", "simpleone", "naumen", "zammad"} => Address(p, x) = x.ids[own]
    BY DEF Address, ServiceNowSysId, SimpleOneSysId, NaumenUuid, ZammadTicketId, IdKey
  <2>2. CASE p = "jira"
    BY <2>2 DEF Address, JiraIssueKey, IdKey, ByText
  <2>3. CASE p = "elma"
    BY <2>3 DEF Address, ExternalId, IdKey, ByText
  <2>4. CASE p = "hpsm"
    BY <2>4 DEF Address, ExternalId, IdKey, ByText
  <2>5. CASE p = "bitrix24"
    BY <2>5 DEF Address, ExternalId, IdKey
  <2>6. CASE p = "redmine"
    BY <2>6 DEF Address, RedmineIssueId, IdKey, ByDigits
  <2>7. CASE p = "freshdesk"
    BY <2>7 DEF Address, FreshdeskTicketId, IdKey, ByDigits
  <2> QED
    BY <1>1, <2>1, <2>2, <2>3, <2>4, <2>5, <2>6, <2>7 DEF Systems
<1>10. Right(Address(p, x))
  <2> HIDE DEF Right, own
  <2>1. p = "bitrix24" => p \in ByDigits
    BY DEF ByDigits
  <2> QED
    BY <1>2, <1>5, <1>7, <1>8, <1>9, <2>1 DEF FirstOf
<1> QED
  BY <1>10

-----------------------------------------------------------------------------
(***************************************************************************)
(* Service desks forget no request and give none to another ticket.  Every *)
(* reference in memory and in the file stays genuine, therefore, and those *)
(* a pass adds are of the request that was registered just then.           *)
(***************************************************************************)
Remembers(e, d) ==
  \A p \in InUse : \A n \in DOMAIN d[p] : n \in DOMAIN e[p] /\ e[p][n].ticket = d[p][n].ticket

SameRef(y, x) == y.ref = x.ref /\ y.refs = x.refs /\ y.ids = x.ids /\ y.recorded = x.recorded

SameRefs(y, x) == \A t \in Tickets : SameRef(y[t], x[t])

LEMMA SameRefItself == \A x : SameRef(x, x)
BY DEF SameRef

RefInv ==
  /\ TypeInv
  /\ \A t \in Tickets : Genuine(desk, t, mem[t]) /\ Genuine(desk, t, file[t])

LEMMA RefStays ==
  ASSUME NEW d, NEW e, Remembers(e, d), NEW t, NEW r, OfDesk(d, t, r)
  PROVE  OfDesk(e, t, r)
BY DEF Remembers, OfDesk

LEMMA GenuineStays ==
  ASSUME NEW d, NEW e, Remembers(e, d), NEW t, NEW x, NEW y, Genuine(d, t, x),
         SameRef(y, x)
  PROVE  Genuine(e, t, y)
BY RefStays DEF Genuine, IsShown, IsId, SameRef

LEMMA GenuineRegistered ==
  ASSUME NEW d, NEW e, Remembers(e, d), NEW t, NEW x \in External, Genuine(d, t, x),
         NEW p \in RestSystems, p \in InUse, NEW n \in Nat \ {0},
         n \in DOMAIN e[p], e[p][n].ticket = t
  PROVE  Genuine(e, t, Registered(x, Created(p, n)))
<1> DEFINE y == Registered(x, Created(p, n))
           r == RefTo(p, n, RefForm(p))
           id == RefTo(p, n, "id")
<1>1. /\ y.ref = r
      /\ \A q \in Systems : y.refs[q] = IF q = p THEN r ELSE x.refs[q]
      /\ \A k \in IdKeys : y.ids[k] = IF k = IdKey(p) THEN id ELSE x.ids[k]
      /\ y.recorded = x.recorded
  BY CreatedIs DEF Registered, External, RestSystems
<1>2. r.system = p /\ r.form = RefForm(p) /\ OfDesk(e, t, r)
  BY DEF RefTo, OfDesk
<1>3. id.system = p /\ id.form = "id" /\ OfDesk(e, t, id) /\ p # "oracle"
  BY DEF RefTo, OfDesk, RestSystems
<1> HIDE DEF y, r, id
<1>4. Genuine(e, t, x)
  BY GenuineStays, SameRefItself
<1>5. IsShown(e, t, r) /\ IsId(e, t, IdKey(p), id)
  BY <1>2, <1>3 DEF IsShown, IsId
<1>6. Genuine(e, t, y)
  <2>1. \A q \in Systems : /\ IsShown(e, t, y.refs[q])
                            /\ y.refs[q] # NoRef /\ q # "oracle" => y.refs[q].system = q
    BY <1>1, <1>2, <1>4, <1>5 DEF Genuine
  <2>2. \A k \in IdKeys : IsId(e, t, k, y.ids[k])
    BY <1>1, <1>4, <1>5 DEF Genuine
  <2>3. y.refs["oracle"] = x.refs["oracle"]
    BY <1>1, <1>3 DEF Systems
  <2> QED
    BY <1>1, <1>4, <1>5, <2>1, <2>2, <2>3 DEF Genuine
<1> QED
  BY <1>6 DEF y

LEMMA RequestsStay ==
  ASSUME TypeOK, [Next]_vars
  PROVE  Remembers(desk', desk)
<1> DEFINE R == [ticket : Tickets, open : BOOLEAN]
<1>1. /\ desk \in [InUse -> Seq(R)]
      /\ Handling => Handler \in InUse /\ Ticket \in Tickets
  BY HandlingType DEF TypeOK
<1>2. \A p \in InUse : desk[p] \in Seq(R)
  BY <1>1
<1>3. CASE desk' = desk
  BY <1>3 DEF Remembers
<1>4. CASE /\ Handling
           /\ \E p \in InUse : desk' = [desk EXCEPT ![p] = Append(@, Request(Ticket))]
  <2>1. PICK p \in InUse : desk' = [desk EXCEPT ![p] = Append(@, Request(Ticket))]
    BY <1>4
  <2>2. Request(Ticket) \in R
    BY <1>1, <1>4 DEF Request
  <2> HIDE DEF R
  <2>3. \A n \in DOMAIN desk[p] : /\ n \in DOMAIN Append(desk[p], Request(Ticket))
                                  /\ Append(desk[p], Request(Ticket))[n] = desk[p][n]
    BY <1>2, <2>2, AppendType
  <2> QED
    BY <1>1, <2>1, <2>3 DEF Remembers
<1>5. CASE CloseRequest
  BY <1>1, <1>2, <1>5 DEF CloseRequest, Remembers
<1> QED
  BY <1>1, <1>3, <1>4, <1>5
  DEF Next, vars, BeginPass, RegisterRequest, UpdateRequest, NothingToClose, OracleUnchanged,
      OracleRequest, OracleLifecycle, OracleHandling, FinishDispatch, AnnotateIncident,
      AnnotateFails, FinishAnnotate, SkipHistorical, PostComment, SaveFlushed, PostFails,
      FinishPass, AbortPass, EndPass

LEMMA RefToGenuine ==
  ASSUME NEW p \in Systems, NEW n \in Nat \ {0}, NEW form
  PROVE  /\ RefTo(p, n, form).system = p /\ RefTo(p, n, form).number = n
         /\ RefTo(p, n, form).form = form
         /\ form \in Forms => RefTo(p, n, form) # NoRef
<1>1. form \in Forms => RefTo(p, n, form) \in Ref
  BY RefToType
<1> QED
  BY <1>1, NoRefIsNoRef DEF RefTo

(* What Oracle's number and the rest of the result lead to. *)
LEMMA GenuineOracle ==
  ASSUME RefInv, OracleRequest
  PROVE  \A t \in Tickets : Genuine(desk', t, mem'[t])
<1> DEFINE n == Len(desk["oracle"]) + 1
           new == RefTo("oracle", n, "id")
<1>1. /\ TypeOK /\ Handling /\ Handler = "oracle" /\ OracleHandling
      /\ Ticket \in Tickets /\ Known \in External
      /\ "oracle" \in InUse /\ mem \in [Tickets -> External] /\ "oracle" \in Systems
      /\ \A t \in Tickets : Genuine(desk, t, mem[t])
  BY HandlingType DEF RefInv, TypeInv, OracleRequest, OracleHandling, TypeOK
<1>2. Remembers(desk', desk)
  BY <1>1, RequestsStay DEF Next
<1>3. \A t \in Tickets : Genuine(desk', t, mem[t])
  BY <1>1, <1>2, GenuineStays, SameRefItself
<1>4. PICK outcome \in DeskOutcomes, kind \in Kinds :
        /\ desk' = IF TakesEffect(outcome) /\ ~ Known.recorded
                     THEN [desk EXCEPT !["oracle"] = Append(@, Request(Ticket))] ELSE desk
        /\ IF Confirmed(outcome) THEN mem' = [mem EXCEPT ![Ticket] = OracleResult(Queued(@, kind))]
                                 ELSE mem' = mem
  BY DEF OracleRequest, Kinds
<1>5. CASE ~ Confirmed(outcome)
  BY <1>3, <1>4, <1>5
<1>6. CASE Confirmed(outcome)
  <2> DEFINE x == Queued(Known, kind)
             y == OracleResult(x)
             r == FirstOf(CursorRef, OracleRef(Known))
  <2>1. mem' = [mem EXCEPT ![Ticket] = y]
    BY <1>4, <1>6 DEF Known
  <2>2. /\ x \in External /\ x.ref = Known.ref /\ x.refs = Known.refs /\ x.ids = Known.ids
    BY <1>1, CommentType DEF Queued, External
  <2>3. OracleRef(x) = OracleRef(Known)
    BY <2>2 DEF OracleRef
  <2>4. /\ y.ref = r /\ y.ids = Known.ids
        /\ \A p \in Systems : y.refs[p] = IF p = "oracle" THEN r ELSE Known.refs[p]
    BY <2>2, <2>3 DEF OracleResult, External
  <2>5. IsShown(desk', Ticket, OracleRef(Known))
    BY <1>1, <1>3 DEF OracleRef, FirstOf, Genuine, Known
  <2>6. /\ IsShown(desk', Ticket, r)
        /\ OracleNumbers => r # NoRef /\ r.system = "oracle"
    <3>1. CASE ~ OracleNumbers
      BY <2>5, <3>1 DEF CursorRef, FirstOf
    <3>2. CASE OracleNumbers /\ Known.recorded
      <4>1. Known.refs["oracle"] # NoRef /\ Known.refs["oracle"].system = "oracle"
        BY <1>1, <3>2 DEF Genuine, Known
      <4>2. OracleRef(Known) = Known.refs["oracle"] /\ IdMonit(Known) = Known.refs["oracle"]
        BY <4>1 DEF OracleRef, IdMonit, FirstOf
      <4>3. r = Known.refs["oracle"]
        BY <3>2, <4>1, <4>2 DEF CursorRef, FirstOf
      <4> QED
        BY <2>5, <4>1, <4>2, <4>3
    <3>3. CASE OracleNumbers /\ ~ Known.recorded
      <4>1. new.system = "oracle" /\ new.number = n /\ new.form = "id" /\ new # NoRef /\ n \in Nat \ {0}
        <5>1. n \in Nat \ {0}
          BY <1>1 DEF TypeOK
        <5> QED
          BY <1>1, <5>1, RefToGenuine DEF Forms
      <4>2. r = new
        BY <3>3, <4>1 DEF CursorRef, FirstOf
      <4>3. desk' = [desk EXCEPT !["oracle"] = Append(@, Request(Ticket))]
        BY <1>4, <1>6, <3>3 DEF Confirmed, TakesEffect
      <4>4. n \in DOMAIN desk'["oracle"] /\ desk'["oracle"][n].ticket = Ticket
        <5> DEFINE R == [ticket : Tickets, open : BOOLEAN]
        <5>1. desk["oracle"] \in Seq(R) /\ Request(Ticket) \in R
              /\ desk'["oracle"] = Append(desk["oracle"], Request(Ticket))
              /\ Request(Ticket).ticket = Ticket
          BY <1>1, <4>3 DEF TypeOK, Request
        <5> HIDE DEF R
        <5>2. n \in 1..n
          BY <4>1
        <5> QED
          BY <5>1, <5>2, AppendType
      <4> HIDE DEF new, n
      <4>5. IsShown(desk', Ticket, new)
        BY <1>1, <4>1, <4>4 DEF IsShown, OfDesk, RefForm
      <4> QED
        BY <4>1, <4>2, <4>5
    <3> QED
      BY <3>1, <3>2, <3>3
  <2> HIDE DEF r, y
  <2>7. Genuine(desk', Ticket, y)
    BY <1>1, <1>3, <2>4, <2>6 DEF Genuine, Known
  <2> QED
    BY <1>1, <1>3, <2>1, <2>7
<1> QED
  BY <1>5, <1>6

(* A request that is answered is the one memory gets the references of. *)
LEMMA GenuineRegistration ==
  ASSUME RefInv, RegisterRequest
  PROVE  \A t \in Tickets : Genuine(desk', t, mem'[t])
<1> DEFINE n == Len(desk[Handler]) + 1
           R == [ticket : Tickets, open : BOOLEAN]
<1>1. /\ TypeOK /\ Handling /\ Ticket \in Tickets /\ Known \in External
      /\ Handler \in InUse /\ Handler \in RestSystems /\ mem \in [Tickets -> External]
      /\ \A t \in Tickets : Genuine(desk, t, mem[t])
  BY HandlingType, RestHandlingType DEF RefInv, TypeInv, RegisterRequest, TypeOK
<1>2. desk \in [InUse -> Seq(R)] /\ desk[Handler] \in Seq(R) /\ Request(Ticket) \in R /\ n \in Nat \ {0}
  <2>1. desk \in [InUse -> Seq(R)] /\ Request(Ticket) \in R
    BY <1>1 DEF TypeOK, Request
  <2> HIDE DEF R
  <2>2. desk[Handler] \in Seq(R)
    BY <1>1, <2>1
  <2> QED
    BY <2>1, <2>2, SeqType
<1>3. Remembers(desk', desk)
  BY <1>1, RequestsStay DEF Next
<1>4. \A t \in Tickets : Genuine(desk', t, mem[t])
  BY <1>1, <1>3, GenuineStays, SameRefItself
<1>5. PICK outcome \in DeskOutcomes :
        /\ desk' = IF TakesEffect(outcome) THEN [desk EXCEPT ![Handler] = Append(@, Request(Ticket))]
                                           ELSE desk
        /\ mem' = IF outcome = "ok" THEN [mem EXCEPT ![Ticket] = Registered(@, Created(Handler, n))]
                                    ELSE mem
  BY DEF RegisterRequest
<1>6. CASE outcome = "ok"
  <2>1. desk'[Handler] = Append(desk[Handler], Request(Ticket)) /\ Request(Ticket).ticket = Ticket
    BY <1>1, <1>2, <1>5, <1>6 DEF TakesEffect, Request
  <2> HIDE DEF R
  <2>2. n \in DOMAIN desk'[Handler] /\ desk'[Handler][n] = Request(Ticket)
    <3>1. n \in 1..n
      BY <1>2
    <3> QED
      BY <1>2, <2>1, <3>1, AppendType
  <2> HIDE DEF n
  <2>3. Genuine(desk', Ticket, Registered(Known, Created(Handler, n)))
    BY <1>1, <1>2, <1>3, <2>1, <2>2, GenuineRegistered DEF Known
  <2> QED
    BY <1>1, <1>4, <1>5, <1>6, <2>3 DEF Known
<1> QED
  BY <1>4, <1>5, <1>6

(* Where memory gets no references. *)
LEMMA ElseSameRefs ==
  ASSUME TypeOK, [Next]_vars, ~ RegisterRequest, ~ OracleRequest
  PROVE  SameRefs(mem', mem) \/ (mem' = file /\ (BeginPass \/ FinishPass \/ AbortPass))
<1>1. mem \in [Tickets -> External] /\ (Handling => Ticket \in Tickets)
  BY HandlingType DEF TypeOK
<1>2. \A x \in External : \A c : /\ SameRef([x EXCEPT !.comments = c], x)
                                 /\ SameRef([x EXCEPT !.commented = c], x)
  BY DEF External, SameRef
<1>3. CASE mem' = mem
  BY <1>3 DEF SameRefs, SameRef
<1>4. CASE \E u \in Tickets : \E c : \/ mem' = [mem EXCEPT ![u] = [@ EXCEPT !.comments = c]]
                                    \/ mem' = [mem EXCEPT ![u] = [@ EXCEPT !.commented = c]]
  <2>0. PICK u \in Tickets : \E c : \/ mem' = [mem EXCEPT ![u] = [mem[u] EXCEPT !.comments = c]]
                                   \/ mem' = [mem EXCEPT ![u] = [mem[u] EXCEPT !.commented = c]]
    BY <1>4
  <2>1. PICK c : \/ mem' = [mem EXCEPT ![u] = [mem[u] EXCEPT !.comments = c]]
                 \/ mem' = [mem EXCEPT ![u] = [mem[u] EXCEPT !.commented = c]]
    BY <2>0
  <2>2. \A t \in Tickets : /\ t # u => mem'[t] = mem[t]
                           /\ t = u => \/ mem'[t] = [mem[t] EXCEPT !.comments = c]
                                       \/ mem'[t] = [mem[t] EXCEPT !.commented = c]
    BY <1>1, <2>1
  <2>3. ASSUME NEW t \in Tickets
        PROVE  SameRef(mem'[t], mem[t])
    <3> DEFINE x == mem[t]
               y == [x EXCEPT !.comments = c]
               z == [x EXCEPT !.commented = c]
    <3>1. SameRef(x, x) /\ SameRef(y, x) /\ SameRef(z, x)
      BY <1>1, <1>2, SameRefItself
    <3>2. mem'[t] \in {x, y, z}
      BY <2>2
    <3> HIDE DEF x, y, z
    <3>3. SameRef(mem'[t], x)
      BY <3>1, <3>2
    <3> QED
      BY <3>3 DEF x
  <2> QED
    BY <2>3 DEF SameRefs
<1>5. CASE OracleLifecycle
  BY <1>1, <1>4, <1>5 DEF OracleLifecycle, OracleHandling, Queued
<1>6. \A w \in Triples : mem' = Removed(w) =>
        \E c : mem' = [mem EXCEPT ![w[1]] = [@ EXCEPT !.comments = c]]
  BY DEF Removed
<1>7. CASE SkipHistorical \/ SaveFlushed
  <2>1. \E w \in Triples : mem' = Removed(w)
    BY <1>7 DEF SkipHistorical, SaveFlushed, TypeOK, None
  <2> QED
    BY <1>4, <1>6, <2>1 DEF Triples
<1>8. CASE AnnotateIncident
  <2>1. PICK w \in Triples : mem' = [mem EXCEPT ![w[1]].commented = @ \cup {w[3]}]
    BY <1>8 DEF AnnotateIncident, TypeOK
  <2> QED
    BY <1>4, <2>1 DEF Triples
<1> QED
  BY <1>3, <1>5, <1>7, <1>8
  DEF Next, vars, BeginPass, RegisterRequest, UpdateRequest, CloseRequest, NothingToClose,
      OracleUnchanged, FinishDispatch, AnnotateFails, FinishAnnotate, PostComment, PostFails,
      FinishPass, AbortPass, EndPass

LEMMA FileFrom ==
  ASSUME [Next]_vars
  PROVE  file' = file \/ file' = mem \/ file' = mem'
BY DEF Next, vars, BeginPass, RegisterRequest, UpdateRequest, CloseRequest, NothingToClose,
       OracleUnchanged, OracleRequest, OracleLifecycle, NextHandler, FinishDispatch, AnnotateIncident,
       AnnotateFails, FinishAnnotate, Saved, SkipHistorical, PostComment, SaveFlushed, PostFails,
       FinishPass, AbortPass, EndPass

LEMMA RefStep ==
  ASSUME RefInv, [Next]_vars
  PROVE  RefInv'
<1>1. /\ TypeOK /\ TypeInv'
      /\ \A t \in Tickets : Genuine(desk, t, mem[t]) /\ Genuine(desk, t, file[t])
  BY TypeStep DEF RefInv, TypeInv
<1>2. Remembers(desk', desk)
  BY <1>1, RequestsStay
<1>3. \A t \in Tickets : Genuine(desk', t, mem[t]) /\ Genuine(desk', t, file[t])
  BY <1>1, <1>2, GenuineStays, SameRefItself
<1>4. \A t \in Tickets : Genuine(desk', t, mem'[t])
  <2>1. CASE RegisterRequest
    BY <2>1, GenuineRegistration
  <2>2. CASE OracleRequest
    BY <2>2, GenuineOracle
  <2>3. CASE SameRefs(mem', mem)
    BY <1>1, <1>2, <2>3, GenuineStays DEF SameRefs
  <2> QED
    BY <1>1, <1>3, <2>1, <2>2, <2>3, ElseSameRefs
<1>5. \A t \in Tickets : Genuine(desk', t, file'[t])
  BY <1>3, <1>4, FileFrom
<1> QED
  BY <1>1, <1>4, <1>5 DEF RefInv

LEMMA RefInit == Init => RefInv
<1> SUFFICES ASSUME Init
             PROVE  RefInv
  OBVIOUS
<1>1. \A t \in Tickets : Genuine(desk, t, NewTicket)
  BY DEF Genuine, NewTicket, IsShown, IsId
<1> QED
  BY <1>1, TypeInit DEF RefInv, Init

(***************************************************************************)
(* The last call was sent to a request of the plugin's own desk that is    *)
(* registered for the ticket.                                              *)
(***************************************************************************)
RightCall(d, c) ==
  c # NoCall => /\ c.ref.system = c.plugin
                /\ OfDesk(d, c.ticket, c.ref)
                /\ c.plugin \notin {"elma", "bitrix24"} => c.ref.form = "id"

AddressInv == RefInv /\ RightCall(desk, call)

LEMMA CallFrom ==
  ASSUME [Next]_vars
  PROVE  \/ call' = call \/ call' = NoCall
         \/ Handling /\ Handler # "oracle" /\ Address(Handler, Known) # NoRef /\ Calls
         \/ /\ OracleHandling /\ IdMonit(Known) # NoRef
            /\ call' = [plugin |-> "oracle", ticket |-> Ticket, ref |-> IdMonit(Known)]
BY DEF Next, vars, BeginPass, RegisterRequest, UpdateRequest, CloseRequest, NothingToClose,
       OracleUnchanged, OracleRequest, OracleLifecycle, FinishDispatch, AnnotateIncident,
       AnnotateFails, FinishAnnotate, SkipHistorical, PostComment, SaveFlushed, PostFails,
       FinishPass, AbortPass, EndPass

LEMMA AddressStep ==
  ASSUME TellApart, AddressInv, [Next]_vars
  PROVE  AddressInv'
<1> SUFFICES RightCall(desk', call')
  BY RefStep DEF AddressInv
<1>1. /\ RefInv /\ RefInv' /\ TypeOK /\ RightCall(desk, call)
      /\ \A t \in Tickets : Genuine(desk, t, mem[t])
  BY RefStep DEF AddressInv, RefInv, TypeInv
<1>2. Remembers(desk', desk)
  BY <1>1, RequestsStay
<1>3. CASE call' = call
  BY <1>1, <1>2, <1>3, RefStays DEF RightCall
<1>4. CASE call' = NoCall
  BY <1>4 DEF RightCall
<1>5. CASE Handling /\ Handler # "oracle" /\ Address(Handler, Known) # NoRef /\ Calls
  <2>1. /\ Handler \in RestSystems /\ Handler \in InUse /\ Ticket \in Tickets /\ Known \in External
        /\ Genuine(desk, Ticket, Known)
    BY <1>1, <1>5, HandlingType, RestHandlingType DEF Known
  <2>2. /\ Address(Handler, Known).system = Handler
        /\ OfDesk(desk, Ticket, Address(Handler, Known))
        /\ Handler \notin {"elma", "bitrix24"} => Address(Handler, Known).form = "id"
    BY <1>5, <2>1, AddressGenuine
  <2> QED
    BY <1>2, <1>5, <2>2, RefStays DEF RightCall, Calls
<1>6. CASE /\ OracleHandling /\ IdMonit(Known) # NoRef
           /\ call' = [plugin |-> "oracle", ticket |-> Ticket, ref |-> IdMonit(Known)]
  <2>1. Ticket \in Tickets /\ Genuine(desk, Ticket, Known) /\ "oracle" \in Systems
    BY <1>1, <1>6, HandlingType DEF Known, OracleHandling, Systems
  <2>2. IsShown(desk, Ticket, IdMonit(Known)) /\ IdMonit(Known).system = "oracle"
    BY <1>6, <2>1 DEF IdMonit, OracleRef, FirstOf, Genuine
  <2>3. OfDesk(desk, Ticket, IdMonit(Known)) /\ IdMonit(Known).form = "id"
    BY <1>6, <2>2 DEF IsShown, RefForm
  <2> QED
    BY <1>2, <1>6, <2>2, <2>3, RefStays DEF RightCall
<1> QED
  BY <1>3, <1>4, <1>5, <1>6, CallFrom

LEMMA AddressInit == Init => AddressInv
BY RefInit DEF AddressInv, RightCall, Init

(***************************************************************************)
(* Where the plugins in use can be told apart, no plugin ever sends an     *)
(* update or a closing to the request of another: for all orders of the    *)
(* plugins, all requests that fail or are lost, wherever passes end early. *)
(***************************************************************************)
THEOREM ReferencesAddressIsOwn ==
  ASSUME TellApart
  PROVE  Spec => []AddressIsOwn
<1>1. AddressInv /\ [Next]_vars => AddressInv'
  BY AddressStep
<1>2. AddressInv => AddressIsOwn
  BY DEF AddressInv, RightCall, AddressIsOwn
<1> QED
  BY <1>1, <1>2, AddressInit, PTL DEF Spec

(***************************************************************************)
(* ... and it is the request registered for the ticket, under the id the   *)
(* API takes, but for ELMA and Bitrix24: ELMA's external_ref is a name,    *)
(* and Bitrix24's keeps its "#".                                           *)
(***************************************************************************)
THEOREM ReferencesAddressIsRegistered ==
  ASSUME TellApart, InUse \cap {"elma", "bitrix24"} = {}
  PROVE  Spec => []AddressIsRegistered
<1>1. AddressInv /\ [Next]_vars => AddressInv'
  BY AddressStep
<1>2. AddressInv => AddressIsRegistered
  <2> SUFFICES ASSUME AddressInv, call # NoCall
               PROVE  /\ call.ref.form = "id" /\ call.ref.system = call.plugin
                      /\ call.ref.number \in DOMAIN desk[call.plugin]
                      /\ desk[call.plugin][call.ref.number].ticket = call.ticket
    BY DEF AddressIsRegistered
  <2>1. call.plugin \in InUse
    BY DEF AddressInv, RefInv, TypeInv, TypeOK
  <2>2. call.plugin \notin {"elma", "bitrix24"}
    BY <2>1
  <2> QED
    BY <2>2 DEF AddressInv, RightCall, OfDesk
<1> QED
  BY <1>1, <1>2, AddressInit, PTL DEF Spec

-----------------------------------------------------------------------------
(***************************************************************************)
(* A ticket is registered once at each service desk, whatever plugins are  *)
(* in use, while passes end as they should and no answer is lost: where a  *)
(* desk has a request for a ticket, the event that created the ticket is   *)
(* over for its plugin, and the plugin finds a reference, if not its own.  *)
(***************************************************************************)
RestInUse == InUse \ {"oracle"}

Knows(x, p) == x.refs[p] # NoRef /\ x.ids[IdKey(p)] # NoRef

CreationsPast(p, t) ==
  \A j \in DOMAIN events :
    events[j].ticket = t /\ events[j].action = "created" => PastHandler(p, j)

OnceKnown ==
  \A p \in RestInUse, t \in Tickets : RequestsOf(p, t) # {} =>
    /\ \E n : RequestsOf(p, t) = {n}
    /\ Knows(mem[t], p)
    /\ dirty \/ Knows(file[t], p)
    /\ local[t].status # "none"
    /\ phase = "dispatch" => CreationsPast(p, t)

SavedBetween == phase \in {"idle", "flush"} => ~ dirty

RegisterInv == CommentInv /\ OnceKnown /\ SavedBetween

LEMMA RestInUseType == RestInUse \subseteq RestSystems /\ RestInUse \subseteq InUse
BY InUseType DEF RestInUse, RestSystems

LEMMA KnowsAddress ==
  ASSUME NEW x \in External, NEW p \in RestSystems, Knows(x, p)
  PROVE  Address(p, x) # NoRef
<1>1. x.refs[p] \in Ref /\ StripHash(x.refs[p]) \in MaybeRef
  BY ExternalFields, StripHashType DEF Knows, MaybeRef, RestSystems
<1>2. StripHash(x.refs[p]) # NoRef
  <2>1. StripHash(x.refs[p]) \in {x.refs[p], [x.refs[p] EXCEPT !.form = "id"]}
    BY DEF StripHash
  <2>2. [x.refs[p] EXCEPT !.form = "id"] \in Ref
    BY <1>1 DEF Ref, Forms
  <2> QED
    BY <1>1, <2>1, <2>2, NoRefIsNoRef
<1>3. x.refs[p] # NoRef /\ x.ids[IdKey(p)] # NoRef
  BY DEF Knows
<1>4. CASE p \in {"servicenow", "simpleone", "naumen", "zammad"}
  BY <1>3, <1>4 DEF Address, IdKey, ServiceNowSysId, SimpleOneSysId, NaumenUuid, ZammadTicketId
<1>5. CASE p \in {"redmine", "freshdesk"}
  BY <1>2, <1>5 DEF Address, RedmineIssueId, FreshdeskTicketId, FirstOf
<1>6. CASE p \in {"jira", "elma", "bitrix24", "hpsm"}
  BY <1>3, <1>6 DEF Address, JiraIssueKey, ExternalId, FirstOf
<1> QED
  BY <1>4, <1>5, <1>6 DEF RestSystems, Systems

LEMMA KnowsRegistered ==
  ASSUME NEW x \in External, NEW p \in RestSystems, NEW n \in Nat \ {0}
  PROVE  LET y == Registered(x, Created(p, n))
         IN  /\ Knows(y, p)
             /\ \A q \in RestSystems : Knows(x, q) => Knows(y, q)
<1> DEFINE y == Registered(x, Created(p, n))
           r == RefTo(p, n, RefForm(p))
           id == RefTo(p, n, "id")
<1>1. /\ \A q \in Systems : y.refs[q] = IF q = p THEN r ELSE x.refs[q]
      /\ \A k \in IdKeys : y.ids[k] = IF k = IdKey(p) THEN id ELSE x.ids[k]
  BY CreatedIs DEF Registered, External, RestSystems
<1>2. r # NoRef /\ id # NoRef
  BY CreatedIs, RefToGenuine DEF RestSystems, Forms
<1>3. \A q \in RestSystems : q \in Systems /\ IdKey(q) \in IdKeys
  BY CreatedIs DEF RestSystems
<1> HIDE DEF y, r, id
<1>4. Knows(y, p) /\ \A q \in RestSystems : Knows(x, q) => Knows(y, q)
  BY <1>1, <1>2, <1>3 DEF Knows
<1> QED
  BY <1>4 DEF y

(* A registration that is not lost is either made and noted or neither. *)
LEMMA RegisterEffect ==
  ASSUME TypeOK, "lost" \notin DeskFailures, RegisterRequest, NEW p, p = Handler
  PROVE  \/ UNCHANGED <<desk, mem>>
         \/ LET n == Len(desk[p]) + 1
            IN  /\ n \in Nat \ {0}
                /\ mem' = [mem EXCEPT ![Ticket] = Registered(@, Created(p, n))]
                /\ \A t : RequestsOf(p, t)' =
                             IF t = Ticket THEN RequestsOf(p, t) \cup {n}
                                           ELSE RequestsOf(p, t)
<1> DEFINE R == [ticket : Tickets, open : BOOLEAN]
           n == Len(desk[p]) + 1
<1>1. Handling /\ Handler \in InUse /\ Ticket \in Tickets
  BY HandlingType DEF RegisterRequest
<1>2. PICK outcome \in DeskOutcomes :
        /\ desk' = IF TakesEffect(outcome) THEN [desk EXCEPT ![Handler] = Append(@, Request(Ticket))]
                                           ELSE desk
        /\ mem' = IF outcome = "ok" THEN [mem EXCEPT ![Ticket] = Registered(@, Created(p, n))]
                                    ELSE mem
  BY DEF RegisterRequest
<1>3. outcome \in {"ok", "refused"}
  BY DeliveryAssumption DEF DeskOutcomes, Failures
<1>4. CASE outcome = "refused"
  BY <1>2, <1>4 DEF TakesEffect
<1>5. CASE outcome = "ok"
  <2>1. /\ desk' = [desk EXCEPT ![Handler] = Append(@, Request(Ticket))]
        /\ mem' = [mem EXCEPT ![Ticket] = Registered(@, Created(p, n))]
    BY <1>2, <1>5 DEF TakesEffect
  <2>2. desk \in [InUse -> Seq(R)] /\ Request(Ticket) \in R /\ Request(Ticket).ticket = Ticket
    BY <1>1 DEF TypeOK, Request
  <2> HIDE DEF R
  <2>3. desk[p] \in Seq(R) /\ desk'[p] = Append(desk[p], Request(Ticket))
    BY <1>1, <2>1, <2>2
  <2> DEFINE s == desk[p]
             s2 == Append(s, Request(Ticket))
  <2>4. /\ DOMAIN s = 1..Len(s) /\ Len(s) \in Nat /\ DOMAIN s2 = 1..(Len(s) + 1)
        /\ \A m \in DOMAIN s : s2[m] = s[m]
        /\ s2[Len(s) + 1] = Request(Ticket)
    BY <2>2, <2>3, AppendType
  <2> HIDE DEF s2
  <2>5. \A t : {m \in DOMAIN s2 : s2[m].ticket = t} =
                 IF t = Ticket THEN {m \in DOMAIN s : s[m].ticket = t} \cup {n}
                               ELSE {m \in DOMAIN s : s[m].ticket = t}
    BY <2>2, <2>4
  <2>6. \A t : /\ RequestsOf(p, t) = {m \in DOMAIN s : s[m].ticket = t}
               /\ RequestsOf(p, t)' = {m \in DOMAIN s2 : s2[m].ticket = t}
    BY <2>3 DEF RequestsOf, s2
  <2> HIDE DEF s
  <2>7. n \in Nat \ {0}
    BY <2>4 DEF s
  <2>8. \A t : RequestsOf(p, t)' = IF t = Ticket THEN RequestsOf(p, t) \cup {n} ELSE RequestsOf(p, t)
    BY <2>5, <2>6
  <2> QED
    BY <2>1, <2>7, <2>8
<1> QED
  BY <1>3, <1>4, <1>5

(* The other steps register nothing at the desk of a REST plugin. *)
LEMMA RequestsElse ==
  ASSUME TypeOK, [Next]_vars, NEW p \in RestInUse, ~ (RegisterRequest /\ Handler = p)
  PROVE  \A t : RequestsOf(p, t)' = RequestsOf(p, t)
<1> DEFINE R == [ticket : Tickets, open : BOOLEAN]
<1>1. desk \in [InUse -> Seq(R)] /\ p \in InUse /\ p # "oracle" /\ (Handling => Handler \in InUse)
  BY HandlingType DEF TypeOK, RestInUse
<1>2. /\ DOMAIN desk'[p] = DOMAIN desk[p]
      /\ \A n \in DOMAIN desk[p] : desk'[p][n].ticket = desk[p][n].ticket
  <2>1. CASE RegisterRequest \/ OracleRequest
    <3>1. \/ RegisterRequest /\ \E new : desk' = desk \/ desk' = [desk EXCEPT ![Handler] = new]
          \/ \E new : desk' = desk \/ desk' = [desk EXCEPT !["oracle"] = new]
      BY <2>1 DEF RegisterRequest, OracleRequest
    <3>2. desk'[p] = desk[p]
      <4> HIDE DEF R
      <4> QED
        BY <1>1, <3>1
    <3> QED
      BY <3>2
  <2>2. CASE CloseRequest
    BY <1>1, <2>2 DEF CloseRequest
  <2>3. CASE UNCHANGED desk
    BY <2>3
  <2> QED
    BY <2>1, <2>2, <2>3
    DEF Next, vars, BeginPass, UpdateRequest, NothingToClose, OracleUnchanged, OracleLifecycle,
        FinishDispatch, AnnotateIncident, AnnotateFails, FinishAnnotate, SkipHistorical,
        PostComment, SaveFlushed, PostFails, FinishPass, AbortPass, EndPass
<1> QED
  BY <1>2 DEF RequestsOf

(* Memory is let go of when the file holds it. *)
LEMMA SavedFrom ==
  ASSUME [Next]_vars, ~ MayCrash, SavedBetween
  PROVE  file' = mem' \/ file' = mem \/ (file' = file /\ (~ dirty \/ dirty'))
<1>1. CASE BeginPass \/ FinishPass \/ AbortPass
  BY <1>1 DEF BeginPass, FinishPass, AbortPass, EndPass, SavedBetween
<1>2. CASE FinishDispatch \/ FinishAnnotate
  BY <1>2 DEF FinishDispatch, FinishAnnotate, Saved
<1> QED
  BY <1>1, <1>2
  DEF Next, vars, pass, RegisterRequest, UpdateRequest, CloseRequest, NothingToClose,
      OracleUnchanged, OracleRequest, OracleLifecycle, NextHandler, AnnotateIncident,
      AnnotateFails, SkipHistorical, PostComment, SaveFlushed, PostFails

(* What a plugin knows it goes on knowing, while passes end as they should. *)
LEMMA KnowsStays ==
  ASSUME TypeOK, [Next]_vars, NEW p \in RestInUse, NEW t \in Tickets, Knows(mem[t], p),
         ~ MayCrash, SavedBetween, dirty \/ Knows(file[t], p)
  PROVE  /\ Knows(mem'[t], p)
         /\ dirty' \/ Knows(file'[t], p)
<1>1. p \in RestSystems /\ p # "oracle" /\ mem[t] \in External /\ mem \in [Tickets -> External]
  BY RestInUseType DEF TypeOK, RestSystems
<1>2. Knows(mem'[t], p)
  <2>1. CASE SameRefs(mem', mem)
    BY <2>1 DEF SameRefs, SameRef, Knows
  <2>2. CASE mem' = file /\ (BeginPass \/ FinishPass \/ AbortPass)
    BY <2>2 DEF SavedBetween, BeginPass, FinishPass, AbortPass
  <2>3. CASE RegisterRequest
    <3> DEFINE n == Len(desk[Handler]) + 1
    <3>1. Handler \in RestSystems /\ n \in Nat \ {0}
      <4> DEFINE R == [ticket : Tickets, open : BOOLEAN]
      <4>1. Handling /\ Handler # "oracle" /\ desk \in [InUse -> Seq(R)]
        BY <2>3 DEF RegisterRequest, TypeOK
      <4> HIDE DEF R
      <4>2. Handler \in RestSystems /\ desk[Handler] \in Seq(R)
        BY <4>1, RestHandlingType, HandlingType
      <4> QED
        BY <4>2, SeqType
    <3>2. \/ mem' = mem
          \/ mem' = [mem EXCEPT ![Ticket] = Registered(mem[Ticket], Created(Handler, n))]
      BY <2>3 DEF RegisterRequest
    <3>3. \/ mem'[t] = mem[t]
          \/ mem'[t] = Registered(mem[t], Created(Handler, n))
      BY <1>1, <3>2
    <3> HIDE DEF n
    <3> QED
      BY <1>1, <3>1, <3>3, KnowsRegistered
  <2>4. CASE OracleRequest
    <3>1. PICK kind \in Kinds :
            \/ mem' = mem
            \/ mem' = [mem EXCEPT ![Ticket] = OracleResult(Queued(mem[Ticket], kind))]
      BY <2>4 DEF OracleRequest, Kinds
    <3>2. \/ mem'[t] = mem[t]
          \/ mem'[t] = OracleResult(Queued(mem[t], kind))
      BY <1>1, <3>1
    <3>3. Queued(mem[t], kind).refs = mem[t].refs /\ Queued(mem[t], kind).ids = mem[t].ids
          /\ DOMAIN Queued(mem[t], kind) = DOMAIN mem[t]
      BY <1>1 DEF Queued, External
    <3>4. /\ OracleResult(Queued(mem[t], kind)).refs[p] = mem[t].refs[p]
          /\ OracleResult(Queued(mem[t], kind)).ids = mem[t].ids
      BY <1>1, <3>3 DEF OracleResult, External
    <3> QED
      BY <3>2, <3>4 DEF Knows
  <2> QED
    BY <2>1, <2>2, <2>3, <2>4, ElseSameRefs
<1> QED
  BY <1>2, SavedFrom

LEMMA RegisterByBeginPass ==
  ASSUME RegisterInv, BeginPass, ~ MayCrash
  PROVE  OnceKnown' /\ SavedBetween'
<1>1. /\ TypeInv /\ TypeOK /\ OnceKnown /\ SavedBetween /\ ~ dirty
      /\ mem' = file /\ phase' = "dispatch" /\ UNCHANGED <<file, dirty, desk>> /\ Next
  BY DEF RegisterInv, CommentInv, TypeInv, BeginPass, SavedBetween, Next
<1>2. SavedBetween'
  BY <1>1 DEF SavedBetween
<1>3. OnceKnown'
  <2> SUFFICES ASSUME NEW p \in RestInUse, NEW t \in Tickets, RequestsOf(p, t)' # {}
               PROVE  /\ \E n : RequestsOf(p, t)' = {n}
                      /\ Knows(mem'[t], p)
                      /\ dirty' \/ Knows(file'[t], p)
                      /\ local'[t].status # "none"
                      /\ CreationsPast(p, t)'
    BY DEF OnceKnown
  <2>1. RequestsOf(p, t)' = RequestsOf(p, t)
    BY <1>1 DEF RequestsOf
  <2>2. /\ \E n : RequestsOf(p, t) = {n}
        /\ Knows(mem[t], p) /\ Knows(file[t], p)
        /\ local[t].status # "none"
    BY <1>1, <2>1 DEF OnceKnown
  <2>3. ASSUME NEW j \in DOMAIN events', events'[j].ticket = t
        PROVE  local'[t].status # "none" /\ events'[j].action # "created"
    <3>1. MayHappen(t, events'[j].action) /\ local'[t].status = StatusAfter(events'[j].action)
      BY <1>1, <2>3, BeginPassEvents
    <3> QED
      BY <2>2, <3>1 DEF MayHappen, StatusAfter
  <2>4. local'[t].status # "none"
    BY <1>1, <2>2, <2>3, BeginPassEvents
  <2>5. CreationsPast(p, t)'
    BY <2>3 DEF CreationsPast
  <2> QED
    BY <1>1, <2>1, <2>2, <2>4, <2>5
<1> QED
  BY <1>2, <1>3

(* What the first registration of a ticket leaves, and what goes on being so of the others. *)
LEMMA RegisterByHandler ==
  ASSUME RegisterInv, [Next]_vars, Handling, NextHandler, ~ MayCrash, "lost" \notin DeskFailures
  PROVE  OnceKnown' /\ SavedBetween'
<1>1. /\ TypeInv /\ TypeOK /\ OneEventPerTicket /\ EventsHappened /\ OnceKnown /\ SavedBetween
      /\ phase = "dispatch" /\ phase' = "dispatch" /\ UNCHANGED <<local, events, file>>
  BY DEF RegisterInv, CommentInv, TypeInv, Handling, NextHandler
<1>2. SavedBetween'
  BY <1>1 DEF SavedBetween
<1>3. ASSUME NEW p \in RestInUse, NEW t \in Tickets, RequestsOf(p, t) # {},
             RequestsOf(p, t)' = RequestsOf(p, t)
      PROVE  /\ \E n : RequestsOf(p, t)' = {n}
             /\ Knows(mem'[t], p)
             /\ dirty' \/ Knows(file'[t], p)
             /\ local'[t].status # "none"
             /\ CreationsPast(p, t)'
  <2>1. /\ \E n : RequestsOf(p, t) = {n}
        /\ Knows(mem[t], p) /\ (dirty \/ Knows(file[t], p))
        /\ local[t].status # "none" /\ CreationsPast(p, t)
    BY <1>1, <1>3 DEF OnceKnown
  <2>2. CreationsPast(p, t)'
    BY <1>1, <2>1, PastHandlerStays DEF CreationsPast
  <2> QED
    BY <1>1, <1>3, <2>1, <2>2, KnowsStays
<1>4. ASSUME NEW p \in RestInUse, RegisterRequest, p = Handler, NEW t \in Tickets
      PROVE  \/ RequestsOf(p, t)' = RequestsOf(p, t)
             \/ /\ \E n : RequestsOf(p, t)' = {n}
                /\ Knows(mem'[t], p)
                /\ dirty'
                /\ local'[t].status # "none"
                /\ CreationsPast(p, t)'
  <2>1. /\ Ticket \in Tickets /\ Known \in External /\ ev \in DOMAIN events
        /\ mem \in [Tickets -> External] /\ p \in RestSystems
        /\ Registers /\ dirty' = TRUE
    BY <1>1, <1>4, HandlingType, RestInUseType DEF RegisterRequest, TypeOK
  <2>2. RequestsOf(p, Ticket) = {}
    <3>1. SUFFICES ASSUME RequestsOf(p, Ticket) # {}
                   PROVE  FALSE
      OBVIOUS
    <3>2. Knows(Known, p) /\ CreationsPast(p, Ticket)
      BY <1>1, <2>1, <3>1 DEF OnceKnown, Known
    <3>3. Address(Handler, Known) # NoRef
      BY <1>4, <2>1, <3>2, KnowsAddress
    <3>4. Action # "created"
      BY <1>1, <1>4, <2>1, <3>2, HandlerPassed DEF CreationsPast, Action, Ticket
    <3> QED
      BY <2>1, <3>3, <3>4 DEF Registers
  <2>3. CASE UNCHANGED <<desk, mem>>
    BY <2>3 DEF RequestsOf
  <2>4. ASSUME NEW n \in Nat \ {0},
               mem' = [mem EXCEPT ![Ticket] = Registered(@, Created(p, n))],
               \A u : RequestsOf(p, u)' = IF u = Ticket THEN RequestsOf(p, u) \cup {n}
                                                        ELSE RequestsOf(p, u),
               t = Ticket
        PROVE  /\ RequestsOf(p, t)' = {n}
               /\ Knows(mem'[t], p)
               /\ local'[t].status # "none"
               /\ CreationsPast(p, t)'
    <3>1. RequestsOf(p, t)' = {n}
      BY <2>2, <2>4
    <3>2. mem'[t] = Registered(Known, Created(p, n))
      BY <2>1, <2>4 DEF Known
    <3>3. Knows(mem'[t], p)
      BY <2>1, <3>2, KnowsRegistered
    <3>4. local[t].status # "none"
      BY <1>1, <2>1, <2>4 DEF EventsHappened, StatusAfter, Ticket
    <3>5. CreationsPast(p, t)'
      <4> SUFFICES ASSUME NEW j \in DOMAIN events, events[j].ticket = t
                   PROVE  PastHandler(p, j)'
        BY <1>1 DEF CreationsPast
      <4>1. j = ev
        BY <1>1, <2>1, <2>4 DEF OneEventPerTicket, Ticket
      <4> QED
        BY <1>1, <1>4, <4>1, HandlerPassed
    <3> QED
      BY <1>1, <3>1, <3>3, <3>4, <3>5
  <2>5. \/ UNCHANGED <<desk, mem>>
        \/ \E n \in Nat \ {0} :
             /\ mem' = [mem EXCEPT ![Ticket] = Registered(@, Created(p, n))]
             /\ \A u : RequestsOf(p, u)' = IF u = Ticket THEN RequestsOf(p, u) \cup {n}
                                                       ELSE RequestsOf(p, u)
    <3> DEFINE m == Len(desk[p]) + 1
    <3>1. \/ UNCHANGED <<desk, mem>>
          \/ /\ m \in Nat \ {0}
             /\ mem' = [mem EXCEPT ![Ticket] = Registered(@, Created(p, m))]
             /\ \A u : RequestsOf(p, u)' = IF u = Ticket THEN RequestsOf(p, u) \cup {m}
                                                       ELSE RequestsOf(p, u)
      BY <1>1, <1>4, RegisterEffect
    <3> HIDE DEF m
    <3> QED
      BY <3>1
  <2>6. CASE \E n \in Nat \ {0} :
               /\ mem' = [mem EXCEPT ![Ticket] = Registered(@, Created(p, n))]
               /\ \A u : RequestsOf(p, u)' = IF u = Ticket THEN RequestsOf(p, u) \cup {n}
                                                         ELSE RequestsOf(p, u)
    <3>1. PICK n \in Nat \ {0} :
               /\ mem' = [mem EXCEPT ![Ticket] = Registered(@, Created(p, n))]
               /\ \A u : RequestsOf(p, u)' = IF u = Ticket THEN RequestsOf(p, u) \cup {n}
                                                         ELSE RequestsOf(p, u)
      BY <2>6
    <3> QED
      BY <2>1, <2>4, <3>1
  <2> QED
    BY <2>3, <2>5, <2>6
<1>5. OnceKnown'
  <2> SUFFICES ASSUME NEW p \in RestInUse, NEW t \in Tickets, RequestsOf(p, t)' # {}
               PROVE  /\ \E n : RequestsOf(p, t)' = {n}
                      /\ Knows(mem'[t], p)
                      /\ dirty' \/ Knows(file'[t], p)
                      /\ local'[t].status # "none"
                      /\ CreationsPast(p, t)'
    BY <1>1 DEF OnceKnown
  <2>1. CASE RequestsOf(p, t)' = RequestsOf(p, t)
    BY <1>3, <2>1
  <2>2. CASE RegisterRequest /\ Handler = p
    BY <1>3, <1>4, <2>2
  <2> QED
    BY <1>1, <2>1, <2>2, RequestsElse
<1> QED
  BY <1>2, <1>5

LEMMA RegisterStep ==
  ASSUME RegisterInv, [Next]_vars, ~ MayCrash, "lost" \notin DeskFailures
  PROVE  RegisterInv'
<1>1. /\ TypeOK /\ OnceKnown /\ SavedBetween /\ CommentInv'
  BY CommentStep DEF RegisterInv, CommentInv, TypeInv
<1>2. CASE BeginPass
  BY <1>1, <1>2, RegisterByBeginPass DEF RegisterInv
<1>3. CASE Handling /\ NextHandler
  BY <1>1, <1>3, RegisterByHandler DEF RegisterInv
<1>4. CASE ~ BeginPass /\ ~ (Handling /\ NextHandler)
  <2>1. /\ UNCHANGED local
        /\ phase' = "dispatch" => UNCHANGED <<phase, events, ev, turn>>
        /\ ~ RegisterRequest /\ SavedBetween'
    <3>1. ~ RegisterRequest
      BY <1>4 DEF RegisterRequest
    <3>2. CASE FinishDispatch \/ AnnotateIncident \/ AnnotateFails
      BY <3>1, <3>2 DEF FinishDispatch, AnnotateIncident, AnnotateFails, SavedBetween, Trying
    <3>3. CASE FinishAnnotate \/ FinishPass \/ AbortPass
      BY <3>1, <3>3 DEF FinishAnnotate, FinishPass, AbortPass, EndPass, SavedBetween
    <3>4. CASE SkipHistorical \/ SaveFlushed \/ PostComment \/ PostFails
      BY <1>1, <3>1, <3>4 DEF SkipHistorical, SaveFlushed, PostComment, PostFails, SavedBetween
    <3>5. CASE UNCHANGED vars
      BY <1>1, <3>1, <3>5 DEF vars, pass, SavedBetween
    <3> QED
      BY <1>4, <3>2, <3>3, <3>4, <3>5, NextByPhase
  <2>2. OnceKnown'
    <3> SUFFICES ASSUME NEW p \in RestInUse, NEW t \in Tickets, RequestsOf(p, t)' # {}
                 PROVE  /\ \E n : RequestsOf(p, t)' = {n}
                        /\ Knows(mem'[t], p)
                        /\ dirty' \/ Knows(file'[t], p)
                        /\ local'[t].status # "none"
                        /\ phase' = "dispatch" => CreationsPast(p, t)'
      BY DEF OnceKnown
    <3>1. RequestsOf(p, t)' = RequestsOf(p, t)
      BY <1>1, <2>1, RequestsElse
    <3>2. /\ \E n : RequestsOf(p, t) = {n}
          /\ Knows(mem[t], p) /\ (dirty \/ Knows(file[t], p))
          /\ local[t].status # "none"
          /\ phase = "dispatch" => CreationsPast(p, t)
      BY <1>1, <3>1 DEF OnceKnown
    <3>3. phase' = "dispatch" => CreationsPast(p, t)'
      BY <2>1, <3>2 DEF CreationsPast, PastHandler
    <3> QED
      BY <1>1, <2>1, <3>1, <3>2, <3>3, KnowsStays
  <2> QED
    BY <1>1, <2>1, <2>2 DEF RegisterInv
<1> QED
  BY <1>2, <1>3, <1>4

LEMMA RegisterInit == Init => RegisterInv
<1>1. Init => OnceKnown /\ SavedBetween
  BY DEF Init, OnceKnown, RequestsOf, SavedBetween, RestInUse
<1> QED
  BY <1>1, CommentInit DEF RegisterInv

(***************************************************************************)
(* A service desk has at most one request for a ticket, for all plugins    *)
(* side by side and all registrations that are refused and repeated, while *)
(* the worker does not die in a pass and no answer is lost.                *)
(***************************************************************************)
THEOREM ReferencesRegisteredOnce ==
  ASSUME ~ MayCrash, "lost" \notin DeskFailures
  PROVE  Spec => []RegisteredOnce
<1>1. RegisterInv /\ [Next]_vars => RegisterInv'
  BY RegisterStep
<1>2. RegisterInv /\ OnceInv => RegisteredOnce
  <2> SUFFICES ASSUME OnceKnown, AtMostOne, NEW p \in InUse, NEW t \in Tickets
               PROVE  Cardinality(RequestsOf(p, t)) <= 1
    BY DEF RegisterInv, OnceInv, RegisteredOnce
  <2>1. RequestsOf(p, t) = {} \/ \E n : RequestsOf(p, t) = {n}
    BY DEF OnceKnown, AtMostOne, RestInUse
  <2>2. CASE RequestsOf(p, t) = {}
    BY <2>2, FS_EmptySet
  <2>3. CASE \E n : RequestsOf(p, t) = {n}
    BY <2>3, FS_Singleton
  <2> QED
    BY <2>1, <2>2, <2>3
<1> QED
  BY <1>1, <1>2, RegisterInit, OnceInit, OnceStep, PTL DEF Spec

-----------------------------------------------------------------------------
(***************************************************************************)
(* Every request of a closed ticket is closed, but where the closing did   *)
(* not end well: once dispatch has passed a plugin with the closing, the   *)
(* one request its desk has for the ticket is the one it addressed.        *)
(***************************************************************************)
EventPast(p, t) == \A j \in DOMAIN events : events[j].ticket = t => PastHandler(p, j)

ClosedPast ==
  \A p \in RestInUse, t \in Tickets :
    /\ local[t].status = "closed" /\ ~ StaysOpen(p, t)
    /\ phase = "dispatch" => EventPast(p, t)
    => \A n \in RequestsOf(p, t) : ~ desk[p][n].open

ClosedInv == RegisterInv /\ RefInv /\ ClosedPast /\ (phase = "idle" => turn = 1)

(* What dispatch leaves behind with a step is one event with one handler. *)
LEMMA PassedOnly ==
  ASSUME TypeOK, Handling, NextHandler, NEW p \in InUse, NEW j \in DOMAIN events, PastHandler(p, j)'
  PROVE  PastHandler(p, j) \/ (j = ev /\ p = Handler)
<1>1. j \in Nat /\ ev \in Nat /\ turn \in DOMAIN Plugins
  BY EventType, HandlingType DEF TypeOK
<1>2. DOMAIN Plugins = 1..Len(Plugins) /\ Len(Plugins) \in Nat
  BY InUseType
<1>3. \/ ev' = ev /\ turn' = turn + 1
      \/ ev' = ev + 1 /\ turn = Len(Plugins) /\ turn' = 1
  BY <1>1, <1>2 DEF NextHandler
<1>4. SUFFICES ASSUME ~ PastHandler(p, j)
               PROVE  j = ev /\ Plugins[turn] = p
  BY DEF Handler
<1>5. j < ev' \/ (j = ev' /\ \A k \in DOMAIN Plugins : Plugins[k] = p => k < turn')
  BY DEF PastHandler
<1>6. ~ (j < ev)
  BY <1>4 DEF PastHandler
<1>7. j = ev
  <2>1. PICK m \in DOMAIN Plugins : Plugins[m] = p
    BY DEF InUse
  <2>2. m \in Nat /\ ~ (m < 1)
    BY <1>2
  <2> QED
    BY <1>1, <1>3, <1>5, <1>6, <2>1, <2>2
<1>8. PICK k \in DOMAIN Plugins : Plugins[k] = p /\ ~ (k < turn)
  BY <1>4, <1>7 DEF PastHandler
<1>9. k = turn
  <2>1. k \in Nat /\ turn \in Nat /\ k <= Len(Plugins)
    BY <1>1, <1>2
  <2>2. CASE ev' = ev /\ turn' = turn + 1
    BY <1>1, <1>5, <1>7, <1>8, <2>1, <2>2
  <2>3. CASE turn = Len(Plugins)
    BY <1>2, <1>8, <2>1, <2>3
  <2> QED
    BY <1>3, <2>2, <2>3
<1> QED
  BY <1>7, <1>8, <1>9

LEMMA ClosedStaysClosed ==
  ASSUME TypeOK, [Next]_vars, NEW p \in RestInUse, NEW n \in DOMAIN desk[p], ~ desk[p][n].open
  PROVE  ~ desk'[p][n].open
<1> DEFINE R == [ticket : Tickets, open : BOOLEAN]
<1>1. desk \in [InUse -> Seq(R)] /\ p \in InUse /\ p # "oracle" /\ (Handling => Handler \in InUse)
  BY HandlingType DEF TypeOK, RestInUse
<1>2. CASE UNCHANGED desk
  BY <1>2
<1>3. CASE CloseRequest
  BY <1>1, <1>3 DEF CloseRequest
<1>4. CASE RegisterRequest \/ OracleRequest
  <2>1. /\ Handling
        /\ desk' = desk \/ \E q \in InUse : desk' = [desk EXCEPT ![q] = Append(desk[q], Request(Ticket))]
    BY <1>1, <1>4 DEF RegisterRequest, OracleRequest, OracleHandling
  <2>2. CASE desk' = desk
    BY <2>2
  <2>3. ASSUME NEW q \in InUse, desk' = [desk EXCEPT ![q] = Append(desk[q], Request(Ticket))]
        PROVE  ~ desk'[p][n].open
    <3>1. Request(Ticket) \in R
      BY <2>1, HandlingType DEF Request
    <3> HIDE DEF R
    <3>2. desk[p] \in Seq(R) /\ (desk'[p] = desk[p] \/ desk'[p] = Append(desk[p], Request(Ticket)))
      BY <1>1, <2>3
    <3>3. desk'[p][n] = desk[p][n]
      BY <3>1, <3>2, AppendType
    <3> QED
      BY <3>3
  <2> QED
    BY <2>1, <2>2, <2>3
<1> QED
  BY <1>2, <1>3, <1>4
  DEF Next, vars, BeginPass, UpdateRequest, NothingToClose, OracleUnchanged, OracleLifecycle,
      FinishDispatch, AnnotateIncident, AnnotateFails, FinishAnnotate, SkipHistorical,
      PostComment, SaveFlushed, PostFails, FinishPass, AbortPass, EndPass

LEMMA MissedStays ==
  ASSUME [Next]_vars
  PROVE  missed \subseteq missed'
BY DEF Next, vars, BeginPass, RegisterRequest, UpdateRequest, CloseRequest, NothingToClose,
       OracleUnchanged, OracleRequest, OracleLifecycle, FinishDispatch, AnnotateIncident,
       AnnotateFails, FinishAnnotate, SkipHistorical, PostComment, SaveFlushed, PostFails,
       FinishPass, AbortPass, EndPass

(* A closing that reaches the plugin closes the request, or did not end well. *)
LEMMA ClosingCloses ==
  ASSUME TellApart, InUse \cap {"elma", "bitrix24"} = {}, "lost" \notin DeskFailures,
         ClosedInv, [Next]_vars, Handling, NextHandler,
         NEW p \in RestInUse, p = Handler, NEW t \in Tickets, t = Ticket,
         local[t].status = "closed", ~ StaysOpen(p, t)'
  PROVE  \A n \in RequestsOf(p, t)' : ~ desk'[p][n].open
<1>1. /\ TypeOK /\ EventsHappened /\ OnceKnown /\ \A u \in Tickets : Genuine(desk, u, mem[u])
  BY DEF ClosedInv, RegisterInv, RefInv, CommentInv, TypeInv
<1>2. /\ Known \in External /\ ev \in DOMAIN events /\ Action \in Actions
      /\ p \in RestSystems /\ p \in InUse /\ p # "oracle"
      /\ Genuine(desk, t, Known) /\ p \notin {"elma", "bitrix24"}
  BY <1>1, HandlingType, RestInUseType DEF RestInUse, Known
<1>3. Action = "closed"
  BY <1>1, <1>2 DEF EventsHappened, StatusAfter, Action, Ticket, Actions
<1>4. Address(p, Known) # NoRef => CloseRequest
  <2>1. Handling /\ Handler # "oracle" /\ Action = "closed" /\ ~ UNCHANGED vars
    <3>1. ev' # ev \/ turn' # turn
      <4>1. ev \in Nat /\ turn \in Nat
        BY <1>1, InUseType DEF TypeOK
      <4> QED
        BY <4>1 DEF NextHandler
    <3> QED
      BY <1>2, <1>3, <3>1 DEF vars, pass
  <2>2. phase = "dispatch" /\ ev <= Len(events) /\ phase' = phase
    BY DEF Handling, NextHandler
  <2>3. ~ (ev > Len(events))
    <3>1. ev \in 1..Len(events) /\ Len(events) \in Nat
      BY <1>1, HandlingType
    <3> QED
      BY <3>1
  <2> QED
    BY <2>1, <2>2, <2>3
    DEF Next, BeginPass, RegisterRequest, Registers, UpdateRequest, NothingToClose, OracleUnchanged,
        OracleRequest, OracleLifecycle, OracleHandling, FinishDispatch, AnnotateIncident,
        AnnotateFails, FinishAnnotate, SkipHistorical, PostComment, SaveFlushed, PostFails,
        FinishPass, AbortPass, EndPass, Trying
<1>5. RequestsOf(p, t)' = RequestsOf(p, t)
  BY <1>1, <1>3, RequestsElse DEF RegisterRequest, Registers
<1>6. CASE RequestsOf(p, t) = {}
  BY <1>5, <1>6
<1>7. CASE RequestsOf(p, t) # {}
  <2>1. PICK n : RequestsOf(p, t) = {n}
    BY <1>1, <1>7 DEF OnceKnown
  <2>2. Knows(Known, p)
    BY <1>1, <1>7 DEF OnceKnown, Known
  <2> DEFINE r == Address(p, Known)
  <2>3. r # NoRef
    BY <1>2, <2>2, KnowsAddress
  <2>4. r.system = p /\ OfDesk(desk, t, r) /\ r.form = "id"
    BY <1>2, <2>3, AddressGenuine
  <2>5. Addressed(p, r) = {n}
    BY <2>1, <2>4 DEF Addressed, OfDesk, RequestsOf
  <2> HIDE DEF r
  <2>6. PICK outcome \in ClosingOutcomes :
          /\ desk' = IF TakesEffect(outcome)
                       THEN [desk EXCEPT ![p] =
                               [m \in DOMAIN @ |-> IF m \in Addressed(p, r)
                                                     THEN [@[m] EXCEPT !.open = FALSE] ELSE @[m]]]
                       ELSE desk
          /\ missed' = IF outcome = "ok" THEN missed ELSE missed \cup {<<p, t, outcome>>}
    BY <1>4, <2>3 DEF CloseRequest, r
  <2>7. outcome = "ok"
    <3>1. outcome # "ok" => <<p, t, outcome>> \in missed'
      BY <2>6
    <3>2. \/ outcome = "ok" \/ outcome \in Failures
          \/ outcome = "unheeded" /\ p \in Unheeding
      BY DeliveryAssumption DEF ClosingOutcomes, DeskOutcomes
    <3> QED
      BY <3>1, <3>2 DEF StaysOpen
  <2>8. desk'[p][n].open = FALSE
    <3> DEFINE R == [ticket : Tickets, open : BOOLEAN]
    <3>1. desk \in [InUse -> Seq(R)] /\ n \in DOMAIN desk[p]
      BY <1>1, <2>1 DEF RequestsOf, TypeOK
    <3>2. desk[p][n] \in R
      <4> HIDE DEF R
      <4> QED
        BY <1>2, <3>1, SeqType
    <3>3. desk'[p][n] = [desk[p][n] EXCEPT !.open = FALSE]
      <4> HIDE DEF R
      <4> QED
        BY <1>2, <2>5, <2>6, <2>7, <3>1 DEF TakesEffect
    <3> QED
      BY <3>2, <3>3
  <2> QED
    BY <1>5, <2>1, <2>8
<1> QED
  BY <1>6, <1>7

LEMMA ClosedByBeginPass ==
  ASSUME ClosedInv, BeginPass
  PROVE  ClosedPast'
<1>1. /\ TypeInv /\ TypeOK /\ ClosedPast /\ turn = 1 /\ ev = 1 /\ Next
      /\ phase = "idle" /\ phase' = "dispatch" /\ UNCHANGED <<desk, missed, ev, turn>>
  BY DEF ClosedInv, RegisterInv, CommentInv, TypeInv, BeginPass, Next
<1> SUFFICES ASSUME NEW p \in RestInUse, NEW t \in Tickets,
                    local'[t].status = "closed", ~ StaysOpen(p, t)', EventPast(p, t)'
             PROVE  \A n \in RequestsOf(p, t)' : ~ desk'[p][n].open
  BY <1>1 DEF ClosedPast
<1>2. ASSUME NEW j \in DOMAIN events', events'[j].ticket = t
      PROVE  FALSE
  <2>1. PICK k \in DOMAIN Plugins : Plugins[k] = p
    BY DEF RestInUse, InUse
  <2>2. k \in Nat /\ ~ (k < 1)
    BY InUseType
  <2>3. j \in Nat /\ ~ (j < 1)
    <3>1. TypeOK'
      BY <1>1, TypeStep DEF TypeInv
    <3> DEFINE E == [action : Actions, ticket : Tickets]
    <3>2. events' \in Seq(E)
      BY <3>1 DEF TypeOK
    <3> HIDE DEF E
    <3> QED
      BY <3>2, SeqType
  <2>4. PastHandler(p, j)'
    BY <1>2 DEF EventPast
  <2> QED
    BY <1>1, <2>1, <2>2, <2>3, <2>4 DEF PastHandler
<1>3. local'[t] = local[t]
  BY <1>1, <1>2, BeginPassEvents
<1> QED
  BY <1>1, <1>3 DEF ClosedPast, StaysOpen, RequestsOf

LEMMA ClosedByHandler ==
  ASSUME TellApart, InUse \cap {"elma", "bitrix24"} = {}, "lost" \notin DeskFailures, ~ MayCrash,
         ClosedInv, [Next]_vars, Handling, NextHandler
  PROVE  ClosedPast'
<1>1. /\ TypeOK /\ EventsHappened /\ ClosedPast /\ Ticket \in Tickets
      /\ phase = "dispatch" /\ phase' = "dispatch" /\ UNCHANGED <<local, events>>
  BY HandlingType DEF ClosedInv, RegisterInv, CommentInv, TypeInv, Handling, NextHandler
<1> SUFFICES ASSUME NEW p \in RestInUse, NEW t \in Tickets,
                    local[t].status = "closed", ~ StaysOpen(p, t)', EventPast(p, t)'
             PROVE  \A n \in RequestsOf(p, t)' : ~ desk'[p][n].open
  BY <1>1 DEF ClosedPast
<1>2. CASE p = Handler /\ t = Ticket
  BY <1>2, ClosingCloses
<1>3. CASE ~ (p = Handler /\ t = Ticket)
  <2>1. EventPast(p, t)
    <3> SUFFICES ASSUME NEW j \in DOMAIN events, events[j].ticket = t
                 PROVE  PastHandler(p, j)
      BY DEF EventPast
    <3>1. PastHandler(p, j)' /\ p \in InUse
      BY <1>1, RestInUseType DEF EventPast
    <3> QED
      BY <1>1, <1>3, <3>1, PassedOnly DEF Ticket
  <2>2. RequestsOf(p, t)' = RequestsOf(p, t)
    <3>1. CASE ~ (RegisterRequest /\ Handler = p)
      BY <1>1, <3>1, RequestsElse
    <3>2. CASE RegisterRequest /\ Handler = p
      <4>1. \/ UNCHANGED <<desk, mem>>
            \/ \A u : u # Ticket => RequestsOf(p, u)' = RequestsOf(p, u)
        BY <1>1, <3>2, RegisterEffect
      <4> QED
        BY <1>3, <3>2, <4>1 DEF RequestsOf
    <3> QED
      BY <3>1, <3>2
  <2>3. \A n \in RequestsOf(p, t) : n \in DOMAIN desk[p] /\ ~ desk[p][n].open
    BY <1>1, <2>1, MissedStays DEF ClosedPast, StaysOpen, RequestsOf
  <2> QED
    BY <1>1, <2>2, <2>3, ClosedStaysClosed
<1> QED
  BY <1>2, <1>3

LEMMA ClosedStep ==
  ASSUME TellApart, InUse \cap {"elma", "bitrix24"} = {}, "lost" \notin DeskFailures, ~ MayCrash,
         ClosedInv, [Next]_vars
  PROVE  ClosedInv'
<1>1. /\ RegisterInv' /\ RefInv' /\ TypeOK /\ ClosedPast /\ (phase = "idle" => turn = 1)
  BY RegisterStep, RefStep DEF ClosedInv, RefInv, TypeInv
<1>2. CASE BeginPass
  BY <1>1, <1>2, ClosedByBeginPass DEF ClosedInv, BeginPass
<1>3. CASE Handling /\ NextHandler
  BY <1>1, <1>3, ClosedByHandler DEF ClosedInv, NextHandler, Handling
<1>4. CASE UNCHANGED vars
  BY <1>1, <1>4 DEF ClosedInv, ClosedPast, StaysOpen, EventPast, PastHandler, RequestsOf, vars, pass
<1>5. CASE ~ BeginPass /\ ~ (Handling /\ NextHandler) /\ Next
  <2>1. /\ UNCHANGED <<local, desk, missed>> /\ phase' # "dispatch"
        /\ phase' = "idle" => turn' = 1
        /\ phase = "dispatch" => (phase' = "idle" /\ MayCrash) \/ ev > Len(events)
    <3>1. CASE FinishDispatch \/ AnnotateIncident \/ AnnotateFails
      BY <3>1 DEF FinishDispatch, AnnotateIncident, AnnotateFails, Trying
    <3>2. CASE FinishAnnotate \/ FinishPass \/ AbortPass
      BY <3>2 DEF FinishAnnotate, FinishPass, AbortPass, EndPass
    <3>3. CASE SkipHistorical \/ SaveFlushed \/ PostComment \/ PostFails
      BY <3>3 DEF SkipHistorical, SaveFlushed, PostComment, PostFails, Trying
    <3> QED
      BY <1>5, <3>1, <3>2, <3>3, NextByPhase
  <2>2. \A p \in RestInUse, t \in Tickets : phase = "dispatch" => EventPast(p, t)
    <3> SUFFICES ASSUME NEW j \in DOMAIN events, ev > Len(events)
                 PROVE  j < ev
      BY <2>1 DEF EventPast, PastHandler
    <3> DEFINE E == [action : Actions, ticket : Tickets]
    <3>1. events \in Seq(E) /\ ev \in Nat
      BY <1>1 DEF TypeOK
    <3> HIDE DEF E
    <3> QED
      BY <3>1, SeqType
  <2>3. ClosedPast'
    BY <1>1, <2>1, <2>2 DEF ClosedPast, StaysOpen, RequestsOf
  <2> QED
    BY <1>1, <2>1, <2>3 DEF ClosedInv
<1> QED
  BY <1>2, <1>3, <1>4, <1>5

LEMMA ClosedInit == Init => ClosedInv
<1>1. Init => ClosedPast /\ (phase = "idle" => turn = 1)
  BY DEF Init, ClosedPast, RequestsOf, RestInUse
<1> QED
  BY <1>1, RegisterInit, RefInit DEF ClosedInv

(***************************************************************************)
(* Between passes a request of a closed ticket is open only if its closing *)
(* was sent and failed, or is one that Jira or Freshdesk left open without *)
(* a word: for all plugins in use that can be told apart, but ELMA and     *)
(* Bitrix24, which are sent a reference their API does not take, while the *)
(* worker does not die in a pass and no answer is lost.                    *)
(***************************************************************************)
THEOREM ReferencesClosedEverywhere ==
  ASSUME TellApart, InUse \cap {"elma", "bitrix24"} = {},
         "lost" \notin DeskFailures, ~ MayCrash
  PROVE  Spec => []ClosedEverywhere
<1>1. ClosedInv /\ [Next]_vars => ClosedInv'
  BY ClosedStep
<1>2. ClosedInv => ClosedEverywhere
  BY DEF ClosedInv, ClosedPast, ClosedEverywhere, RestInUse
<1> QED
  BY <1>1, <1>2, ClosedInit, PTL DEF Spec
===========================================================================
