----------------------------- MODULE Delivery -----------------------------
(***************************************************************************)
(* What a pass of the worker does once sync_tickets has saved the file     *)
(* (worker/run.py): it hands every event to every plugin, comments on the  *)
(* incidents of tickets that were registered, and flushes the comments the *)
(* Oracle plugin has queued in the tickets.                                *)
(*                                                                         *)
(* Between two saves the results live in memory only.  The process may die *)
(* and an exception may leave the pass at any point; the next pass reads   *)
(* the file again.  A request to a service desk or to SAYMON may fail, or  *)
(* take effect and its answer be lost.  The file can be read: what load()  *)
(* makes of one that cannot is told by TicketSync.                         *)
(***************************************************************************)
EXTENDS PluginRefs, Sequences, FiniteSets

CONSTANTS
  Plugins,         \* the handlers, in the order of resolve_ticket_handlers
  Tickets,         \* local ticket numbers
  Members,         \* the incidents of each ticket
  OracleEvent,     \* ORACLE_EVENT: "created" or "closed"
  OracleNumbers,   \* whether a number can be told from Oracle's cursor
  MaxUpdates,      \* bound: updates of one ticket
  MayExpire,       \* the incidents that may become historical
  DeskFailures,    \* ways a request to a service desk may fail
  SaymonFailures,  \* ways a comment may fail
  MayCrash         \* whether a pass may end early

Failures == {"refused", "lost"}

InUse == {Plugins[j] : j \in DOMAIN Plugins}

Incidents == UNION {Members[t] : t \in Tickets}

ASSUME DeliveryAssumption ==
  /\ Plugins \in Seq(Systems) /\ Plugins # <<>>
  /\ \A i, j \in DOMAIN Plugins : Plugins[i] = Plugins[j] => i = j
  /\ Tickets \subseteq Nat /\ IsFiniteSet(Tickets)
  /\ Members \in [Tickets -> SUBSET Nat]
  /\ OracleEvent \in {"created", "closed"}
  /\ OracleNumbers \in BOOLEAN
  /\ MaxUpdates \in Nat
  /\ MayExpire \subseteq Nat
  /\ DeskFailures \subseteq Failures
  /\ SaymonFailures \subseteq Failures
  /\ MayCrash \in BOOLEAN

ASSUME NoRefIsNoRef == NoRef \notin Ref

VARIABLES
  local,    \* what sync_tickets saves of each ticket: status, content
  file,     \* the rest of each ticket in the tickets file
  mem,      \* the same in the TicketStore of the pass
  history,  \* the incidents SAYMON holds as historical
  phase,    \* where run_once is
  events,   \* the events of the pass
  ev,       \* position in events of dispatch_ticket_handlers
  turn,     \* position in Plugins
  dirty,    \* the local of dispatch and of annotate
  work,     \* comments annotate or flush has still to try
  sending,  \* the comment flush has sent and not yet saved, or none
  desk,     \* the requests each service desk has registered
  call,     \* the last update or closing sent to a service desk, or none
  missed,   \* history: closings that ended otherwise than "ok", and how
  posted    \* history: for each comment ever queued, whether SAYMON got it
            \* never, once, or more than once (0, 1, 2)

pass == <<phase, events, ev, turn, dirty, work, sending>>
vars == <<local, file, mem, history, pass, desk, call, missed, posted>>

Actions == {"created", "updated", "closed"}

NoCall == [plugin |-> "none", ticket |-> 0, ref |-> NoRef]

None == <<>>

(* A ticket as sync_tickets creates it. *)
NewTicket ==
  [ref         |-> NoRef,
   refs        |-> [p \in Systems |-> NoRef],
   system      |-> "none",
   ids         |-> [k \in IdKeys |-> NoRef],
   recorded    |-> FALSE,     \* oracle_recorded
   fingerprint |-> NoRef,     \* oracle_content_fp
   comments    |-> <<>>,      \* oracle_comments
   commented   |-> {}]        \* saymon_sd_comments

Init ==
  /\ local = [t \in Tickets |-> [status |-> "none", content |-> 0, updates |-> 0]]
  /\ file = [t \in Tickets |-> NewTicket]
  /\ mem = file
  /\ history = {}
  /\ phase = "idle"
  /\ events = <<>>
  /\ ev = 1
  /\ turn = 1
  /\ dirty = FALSE
  /\ work = {}
  /\ sending = None
  /\ desk = [p \in InUse |-> <<>>]
  /\ call = NoCall
  /\ missed = {}
  /\ posted = [c \in {} |-> 0]

-----------------------------------------------------------------------------
(***************************************************************************)
(* TicketStore.load and sync_tickets, with their save: TicketSync tells    *)
(* them in detail.  A pass has at most one event for a ticket; an update   *)
(* may leave what Oracle is told of the ticket as it was.                  *)
(***************************************************************************)
MayHappen(t, action) ==
  CASE action = "created" -> local[t].status = "none"
    [] action = "updated" -> local[t].status = "open" /\ local[t].updates < MaxUpdates
    [] action = "closed"  -> local[t].status = "open"

Happened(t, action, changed) ==
  [status  |-> IF action = "closed" THEN "closed" ELSE "open",
   content |-> IF changed THEN 1 - local[t].content ELSE local[t].content,
   updates |-> IF action = "updated" THEN local[t].updates + 1 ELSE local[t].updates]

Orders(S) ==
  {q \in [1..Cardinality(S) -> S] :
     /\ \A t \in S : \E j \in DOMAIN q : q[j] = t
     /\ \A i, j \in DOMAIN q : q[i] = q[j] => i = j}

BeginPass ==
  /\ phase = "idle"
  /\ \E S \in SUBSET Tickets : \E act \in [S -> Actions], changed \in SUBSET S, q \in Orders(S) :
       /\ \A t \in S : /\ MayHappen(t, act[t])
                       /\ act[t] # "updated" => t \notin changed
       /\ events' = [j \in DOMAIN q |-> [action |-> act[q[j]], ticket |-> q[j]]]
       /\ local' = [t \in Tickets |->
                      IF t \in S THEN Happened(t, act[t], t \in changed) ELSE local[t]]
  /\ \E more \in SUBSET MayExpire : history' = history \cup more
  /\ mem' = file
  /\ phase' = "dispatch"
  /\ UNCHANGED <<file, ev, turn, dirty, work, sending, desk, call, missed, posted>>

-----------------------------------------------------------------------------
(***************************************************************************)
(* dispatch_ticket_handlers.                                               *)
(***************************************************************************)
Handling == phase = "dispatch" /\ ev <= Len(events)

Handler == Plugins[turn]
Action  == events[ev].action
Ticket  == events[ev].ticket
Known   == mem[Ticket]

(* As it would be if the last handler were taken for one more. *)
NextHandlerLate ==
  /\ IF turn <= Len(Plugins)
       THEN turn' = turn + 1 /\ ev' = ev
       ELSE turn' = 1 /\ ev' = ev + 1
  /\ UNCHANGED <<local, file, history, phase, events, work, sending>>

NextHandler ==
  /\ IF turn < Len(Plugins)
       THEN turn' = turn + 1 /\ ev' = ev
       ELSE turn' = 1 /\ ev' = ev + 1
  /\ UNCHANGED <<local, file, history, phase, events, work, sending>>

(* How a request may end for the worker. *)
DeskOutcomes == {"ok"} \cup DeskFailures

TakesEffect(outcome) == outcome \notin {"refused", "unheeded"}

(* on_created, which on_updated calls when it finds no request to update. *)
Registers ==
  \/ Action = "created"
  \/ Action = "updated" /\ Address(Handler, Known) = NoRef

(* A request is open until its closing takes effect, which for some systems
   is a comment only: the settings name a closing state where there is one. *)
Request(t) == [ticket |-> t, open |-> TRUE]

RegisterRequest ==
  /\ Handling /\ Handler # "oracle"
  /\ Registers
  /\ \E outcome \in DeskOutcomes :
       /\ desk' = IF TakesEffect(outcome)
                    THEN [desk EXCEPT ![Handler] = Append(@, Request(Ticket))]
                    ELSE desk
       /\ mem' = IF outcome = "ok"
                   THEN [mem EXCEPT ![Ticket] = Registered(@, Created(Handler, Len(desk[Handler]) + 1))]
                   ELSE mem
  /\ dirty' = TRUE
  /\ call' = NoCall
  /\ NextHandler
  /\ UNCHANGED <<missed, posted>>

Calls == call' = [plugin |-> Handler, ticket |-> Ticket, ref |-> Address(Handler, Known)]

UpdateRequest ==
  /\ Handling /\ Handler # "oracle"
  /\ Action = "updated" /\ Address(Handler, Known) # NoRef
  /\ \E outcome \in DeskOutcomes : dirty' = (dirty \/ outcome # "ok")
  /\ Calls
  /\ NextHandler
  /\ UNCHANGED <<mem, desk, missed, posted>>

(* The request of the plugin's own desk that a reference addresses, if any. *)
Addressed(p, r) ==
  IF r.system = p /\ r.form = "id" /\ r.number \in DOMAIN desk[p] THEN {r.number} ELSE {}

(***************************************************************************)
(* The plugins that return normally although the request was left open:    *)
(* Jira when the issue does not offer the transition of the settings,      *)
(* Freshdesk when the closing is refused, as it does not read the answer.  *)
(***************************************************************************)
Unheeding == {"jira", "freshdesk"}

(* How a closing may end: the worker takes one that is "unheeded" for "ok". *)
ClosingOutcomes ==
  DeskOutcomes \cup (IF Handler \in Unheeding THEN {"unheeded"} ELSE {})

(* Where a closing takes two calls, it takes effect with the second. *)
CloseRequest ==
  /\ Handling /\ Handler # "oracle"
  /\ Action = "closed" /\ Address(Handler, Known) # NoRef
  /\ \E outcome \in ClosingOutcomes :
       /\ desk' = IF TakesEffect(outcome)
                    THEN [desk EXCEPT ![Handler] =
                            [n \in DOMAIN @ |->
                               IF n \in Addressed(Handler, Address(Handler, Known))
                                 THEN [@[n] EXCEPT !.open = FALSE] ELSE @[n]]]
                    ELSE desk
       /\ missed' = IF outcome = "ok" THEN missed ELSE missed \cup {<<Handler, Ticket, outcome>>}
       /\ dirty' = (dirty \/ outcome \notin {"ok", "unheeded"})
  /\ Calls
  /\ NextHandler
  /\ UNCHANGED <<mem, posted>>

NothingToClose ==
  /\ Handling /\ Handler # "oracle"
  /\ Action = "closed" /\ Address(Handler, Known) = NoRef
  /\ call' = NoCall
  /\ NextHandler
  /\ UNCHANGED <<mem, dirty, desk, missed, posted>>

-----------------------------------------------------------------------------
(***************************************************************************)
(* The Oracle plugin.  A comment it queues is told apart by the event it   *)
(* is about; it queues at most one for an event.                           *)
(***************************************************************************)
About(t, action) == [action |-> action, update |-> local[t].updates]

Comment(kind) ==
  [about |-> About(Ticket, Action), kind |-> kind, pending |-> Members[Ticket]]

Key(t, item, i) ==
  [ticket |-> t, about |-> item.about, kind |-> item.kind, incident |-> i]

QueuesComment(kind) ==
  LET new == {Key(Ticket, Comment(kind), i) : i \in Members[Ticket]}
  IN  posted' = [c \in DOMAIN posted \cup new |->
                   IF c \in DOMAIN posted THEN posted[c] ELSE 0]

OracleHandling == Handling /\ Handler = "oracle"

(* As it would be if an update were sent whether recorded or not. *)
SendsUpdates == (Action = OracleEvent /\ ~ Known.recorded) \/ Action = "updated"

(* _should_send *)
OracleSends ==
  \/ Action = OracleEvent /\ ~ Known.recorded
  \/ Action = "updated" /\ Known.recorded

(* _content_fingerprint: what Oracle is told, and the number it is told under. *)
Fingerprint == [content |-> local[Ticket].content, number |-> IdMonit(Known)]

Unchanged == Action = "updated" /\ Known.fingerprint = Fingerprint

OracleUnchanged ==
  /\ OracleHandling /\ OracleSends /\ Unchanged
  /\ call' = NoCall
  /\ NextHandler
  /\ UNCHANGED <<mem, dirty, desk, missed, posted>>

(* As it would be if each call were answered with a new number. *)
NewCursorRef == IF OracleNumbers THEN RefTo("oracle", Len(desk["oracle"]) + 1, "id") ELSE NoRef

(* _cursor_ref: an update returns the number it was sent under. *)
CursorRef ==
  IF ~ OracleNumbers THEN NoRef
  ELSE IF Known.recorded /\ IdMonit(Known) # NoRef THEN IdMonit(Known)
  ELSE RefTo("oracle", Len(desk["oracle"]) + 1, "id")

OracleResult(x) ==
  LET r == FirstOf(CursorRef, OracleRef(x))
  IN  [x EXCEPT !.ref            = r,
                !.refs["oracle"] = r,
                !.system         = "oracle",
                !.recorded       = TRUE,
                !.fingerprint    = Fingerprint]

(* As it would be if the answer to the commit were not awaited. *)
ConfirmedAnyway(outcome) == outcome \in DeskOutcomes

(* _send returns: connection.commit() did. *)
Confirmed(outcome) == outcome = "ok"

Queued(x, kind) == [x EXCEPT !.comments = Append(@, Comment(kind))]

(***************************************************************************)
(* The function is called and its work committed: the comment is queued    *)
(* and the result applied.  Any error before the answer to the commit is   *)
(* rolled back and raised, and dispatch goes on to the next handler.       *)
(***************************************************************************)
OracleRequest ==
  /\ OracleHandling /\ OracleSends /\ ~ Unchanged
  /\ \E outcome \in DeskOutcomes :
       /\ desk' = IF TakesEffect(outcome) /\ ~ Known.recorded
                    THEN [desk EXCEPT !["oracle"] = Append(@, Request(Ticket))]
                    ELSE desk
       /\ LET kind == IF Action = "updated" THEN "update" ELSE "success"
          IN  IF Confirmed(outcome)
                THEN /\ mem' = [mem EXCEPT ![Ticket] = OracleResult(Queued(@, kind))]
                     /\ QueuesComment(kind)
                ELSE UNCHANGED <<mem, posted>>
  /\ dirty' = TRUE
  /\ call' = IF IdMonit(Known) = NoRef THEN NoCall
               ELSE [plugin |-> "oracle", ticket |-> Ticket, ref |-> IdMonit(Known)]
  /\ NextHandler
  /\ UNCHANGED missed

(* A comment is queued, but no result returned: dispatch sees no change.
   A new ticket is never recorded, so a creation is sent or commented on. *)
OracleLifecycle ==
  /\ OracleHandling /\ ~ OracleSends
  /\ mem' = [mem EXCEPT ![Ticket] = Queued(@, "lifecycle")]
  /\ QueuesComment("lifecycle")
  /\ call' = NoCall
  /\ NextHandler
  /\ UNCHANGED <<dirty, desk, missed>>

-----------------------------------------------------------------------------
(***************************************************************************)
(* annotate_saymon_incidents_on_registration: of the tickets created in    *)
(* this pass, those a plugin has registered; an incident at a time.        *)
(***************************************************************************)
Fresh == {events[j].ticket : j \in {k \in DOMAIN events : events[k].action = "created"}}

ToAnnounce(x) ==
  {p \in Systems : x.refs[p] # NoRef /\ (p = "oracle" => x.comments = <<>>)}

ToAnnotate ==
  UNION {{<<t, 0, i>> : i \in Members[t] \ (mem[t].commented \cup history)} :
           t \in {u \in Fresh : ToAnnounce(mem[u]) # {}}}

(* As it would be if the results were left in memory. *)
NeverSaved == file' = file

(* store.save() at the end, if dirty *)
Saved == file' = IF dirty THEN mem ELSE file

FinishDispatch ==
  /\ phase = "dispatch" /\ ev > Len(events)
  /\ Saved
  /\ dirty' = FALSE
  /\ work' = ToAnnotate
  /\ phase' = "annotate"
  /\ UNCHANGED <<local, mem, history, events, ev, turn, sending, desk, call, missed, posted>>

(* Tickets in order, then the comments of a ticket, then its incidents. *)
Before(v, w) ==
  \/ v[1] < w[1]
  \/ v[1] = w[1] /\ v[2] < w[2]
  \/ v[1] = w[1] /\ v[2] = w[2] /\ v[3] < w[3]

IsFirst(w) == \A v \in work \ {w} : Before(w, v)

Trying(where, w) == phase = where /\ w \in work /\ IsFirst(w) /\ sending = None

AnnotateIncident ==
  /\ \E w \in work :
       /\ Trying("annotate", w)
       /\ mem' = [mem EXCEPT ![w[1]].commented = @ \cup {w[3]}]
       /\ work' = work \ {w}
  /\ dirty' = TRUE
  /\ UNCHANGED <<local, file, history, phase, events, ev, turn, sending, desk, call, missed, posted>>

AnnotateFails ==
  /\ SaymonFailures # {}
  /\ \E w \in work : Trying("annotate", w) /\ work' = work \ {w}
  /\ UNCHANGED <<local, file, mem, history, phase, events, ev, turn, dirty, sending, desk, call,
                 missed, posted>>

(* The comments flush finds pending, per incident. *)
Pending(x, t) ==
  UNION {{<<t, k, i>> : i \in x.comments[k].pending} : k \in DOMAIN x.comments}

(* As it would be if only the tickets of the pass were looked at. *)
FreshPending == UNION {Pending(mem[t], t) : t \in Fresh}

AllPending == UNION {Pending(mem[t], t) : t \in Tickets}

FinishAnnotate ==
  /\ phase = "annotate" /\ work = {}
  /\ Saved
  /\ dirty' = FALSE
  /\ work' = AllPending
  /\ phase' = "flush"
  /\ UNCHANGED <<local, mem, history, events, ev, turn, sending, desk, call, missed, posted>>

-----------------------------------------------------------------------------
(***************************************************************************)
(* flush_oracle_comments: one comment for one incident at a time, the file *)
(* saved after each.                                                       *)
(***************************************************************************)
(* As it would be if a comment stayed pending. *)
NotRemoved(w) == [mem EXCEPT ![w[1]].comments[w[2]].pending = @ \cup {w[3]}]

Removed(w) == [mem EXCEPT ![w[1]].comments[w[2]].pending = @ \ {w[3]}]

SkipHistorical ==
  /\ \E w \in work :
       /\ Trying("flush", w)
       /\ w[3] \in history
       /\ mem' = Removed(w)
       /\ work' = work \ {w}
  /\ file' = mem'
  /\ UNCHANGED <<local, history, phase, events, ev, turn, dirty, sending, desk, call, missed, posted>>

KeyOf(w) == Key(w[1], mem[w[1]].comments[w[2]], w[3])

(* Never, once, or more than once. *)
Posts(w) == posted' = [posted EXCEPT ![KeyOf(w)] = IF @ = 0 THEN 1 ELSE 2]

PostComment ==
  /\ \E w \in work :
       /\ Trying("flush", w)
       /\ w[3] \notin history
       /\ Posts(w)
       /\ sending' = w
  /\ UNCHANGED <<local, file, mem, history, phase, events, ev, turn, dirty, work, desk, call, missed>>

SaveFlushed ==
  /\ phase = "flush" /\ sending # None
  /\ mem' = Removed(sending)
  /\ file' = mem'
  /\ work' = work \ {sending}
  /\ sending' = None
  /\ UNCHANGED <<local, history, phase, events, ev, turn, dirty, desk, call, missed, posted>>

PostFails ==
  /\ \E w \in work, outcome \in SaymonFailures :
       /\ Trying("flush", w)
       /\ w[3] \notin history
       /\ IF TakesEffect(outcome) THEN Posts(w) ELSE UNCHANGED posted
       /\ work' = work \ {w}
  /\ UNCHANGED <<local, file, mem, history, phase, events, ev, turn, dirty, sending, desk, call, missed>>

EndPass ==
  /\ phase' = "idle"
  /\ mem' = file
  /\ events' = <<>>
  /\ ev' = 1
  /\ turn' = 1
  /\ dirty' = FALSE
  /\ work' = {}
  /\ sending' = None
  /\ call' = NoCall
  /\ UNCHANGED <<local, file, history, desk, missed, posted>>

FinishPass ==
  /\ phase = "flush" /\ work = {}
  /\ EndPass

(***************************************************************************)
(* The process dies, or an exception leaves run_once: a handler that does  *)
(* not load, a file that cannot be written.                                *)
(***************************************************************************)
AbortPass ==
  /\ MayCrash
  /\ phase # "idle"
  /\ EndPass

Next ==
  \/ BeginPass
  \/ RegisterRequest
  \/ UpdateRequest
  \/ CloseRequest
  \/ NothingToClose
  \/ OracleUnchanged
  \/ OracleRequest
  \/ OracleLifecycle
  \/ FinishDispatch
  \/ AnnotateIncident
  \/ AnnotateFails
  \/ FinishAnnotate
  \/ SkipHistorical
  \/ PostComment
  \/ SaveFlushed
  \/ PostFails
  \/ FinishPass
  \/ AbortPass

Spec == Init /\ [][Next]_vars

(***************************************************************************)
(* run_loop starts a pass again and again, and no step of a pass waits for *)
(* another process; SAYMON does not refuse comments for ever.              *)
(***************************************************************************)
FairSpec == Spec /\ WF_vars(Next) /\ SF_vars(PostComment)

-----------------------------------------------------------------------------
(***************************************************************************)
(* Properties.                                                             *)
(***************************************************************************)
MaybeRef == Ref \cup {NoRef}

Kinds == {"success", "update", "lifecycle"}

Abouts == [action : Actions, update : 0..MaxUpdates]

CommentItem == [about : Abouts, kind : Kinds, pending : SUBSET Incidents]

Fingerprints == [content : {0, 1}, number : MaybeRef]

External ==
  [ref         : MaybeRef,
   refs        : [Systems -> MaybeRef],
   system      : Systems \cup {"none"},
   ids         : [IdKeys -> MaybeRef],
   recorded    : BOOLEAN,
   fingerprint : Fingerprints \cup {NoRef},
   comments    : Seq(CommentItem),
   commented   : SUBSET Incidents]

Keys == [ticket : Tickets, about : Abouts, kind : Kinds, incident : Incidents]

Triples == Tickets \X Nat \X Incidents

(* The variables hold what the code's objects can hold. *)
TypeOK ==
  /\ local \in [Tickets -> [status  : {"none", "open", "closed"},
                            content : {0, 1},
                            updates : 0..MaxUpdates]]
  /\ file \in [Tickets -> External]
  /\ mem \in [Tickets -> External]
  /\ history \subseteq MayExpire
  /\ phase \in {"idle", "dispatch", "annotate", "flush"}
  /\ events \in Seq([action : Actions, ticket : Tickets])
  /\ ev \in 1..(Len(events) + 1)
  /\ turn \in DOMAIN Plugins
  /\ dirty \in BOOLEAN
  /\ work \subseteq Triples
  /\ sending \in Triples \cup {None}
  /\ desk \in [InUse -> Seq([ticket : Tickets, open : BOOLEAN])]
  /\ call \in [plugin : InUse, ticket : Tickets, ref : Ref] \cup {NoCall}
  /\ missed \subseteq InUse \X Tickets \X (Failures \cup {"unheeded"})
  /\ DOMAIN posted \subseteq Keys
  /\ posted \in [DOMAIN posted -> 0..2]

(***************************************************************************)
(* The request an update or a closing is sent to is one of the plugin's    *)
(* own service desk: no plugin takes the reference of another for its own. *)
(***************************************************************************)
AddressIsOwn == call # NoCall => call.ref.system = call.plugin

(***************************************************************************)
(* ... and it is the one registered for the ticket, in the form the API    *)
(* takes.                                                                  *)
(***************************************************************************)
AddressIsRegistered ==
  call # NoCall =>
    LET r == call.ref
    IN  /\ r.form = "id"
        /\ r.system = call.plugin
        /\ r.number \in DOMAIN desk[call.plugin]
        /\ desk[call.plugin][r.number].ticket = call.ticket

RequestsOf(p, t) == {n \in DOMAIN desk[p] : desk[p][n].ticket = t}

(***************************************************************************)
(* A service desk has at most one request for a ticket, although a failed  *)
(* registration is repeated with the next update.                          *)
(***************************************************************************)
RegisteredOnce ==
  \A p \in InUse, t \in Tickets : Cardinality(RequestsOf(p, t)) <= 1

(***************************************************************************)
(* Oracle gets at most one primary record of a ticket, whatever fails and  *)
(* wherever the worker dies: a failed one is not repeated automatically.   *)
(***************************************************************************)
OracleRecordedOnce ==
  "oracle" \in InUse => \A t \in Tickets : Cardinality(RequestsOf("oracle", t)) <= 1

(***************************************************************************)
(* The worker calls the handlers for each closing (README, "TICKET_        *)
(* HANDLERS"): between passes a request of a closed ticket is open only if *)
(* its closing was sent and failed, which the worker has seen, or if it is *)
(* one of Jira or Freshdesk that was left open unnoticed.  None is left    *)
(* open because its reference was lost or the closing went to another.     *)
(***************************************************************************)
StaysOpen(p, t) ==
  \/ \E why \in Failures : <<p, t, why>> \in missed
  \/ p \in Unheeding /\ <<p, t, "unheeded">> \in missed

ClosedEverywhere ==
  phase = "idle" =>
    \A p \in InUse \ {"oracle"}, t \in Tickets :
      local[t].status = "closed" /\ ~ StaysOpen(p, t) =>
        \A n \in RequestsOf(p, t) : ~ desk[p][n].open

(***************************************************************************)
(* A ticket is marked as recorded, in memory or in the file, only if       *)
(* Oracle has committed a request for it.                                  *)
(***************************************************************************)
RecordedIsCommitted ==
  \A t \in Tickets : mem[t].recorded \/ file[t].recorded =>
    "oracle" \in InUse /\ RequestsOf("oracle", t) # {}

(***************************************************************************)
(* No comment says that Oracle confirmed a ticket unless it has a request  *)
(* for it, whatever failed and wherever the worker died.                   *)
(***************************************************************************)
ConfirmedIsCommitted ==
  \A c \in DOMAIN posted : c.kind \in {"success", "update"} =>
    "oracle" \in InUse /\ RequestsOf("oracle", c.ticket) # {}

(* The worker keeps the comment: it is pending in the file, or is no longer due. *)
Kept(c) ==
  \/ posted[c] > 0
  \/ c.incident \in history
  \/ \E k \in DOMAIN file[c.ticket].comments :
       LET item == file[c.ticket].comments[k]
       IN  item.about = c.about /\ item.kind = c.kind /\ c.incident \in item.pending

(***************************************************************************)
(* Comments that were not delivered are repeated: between passes each that *)
(* tells of a confirmed request and that SAYMON has not got is pending in  *)
(* the file.  Of the others only those are that something else saved.      *)
(***************************************************************************)
ConfirmationsKept ==
  phase = "idle" => \A c \in DOMAIN posted : c.kind # "lifecycle" => Kept(c)

(***************************************************************************)
(* No comment is posted twice, although what fails is tried in every pass. *)
(***************************************************************************)
PostedOnce == \A c \in DOMAIN posted : posted[c] <= 1

IsPending(t, k, i) ==
  k \in DOMAIN file[t].comments /\ i \in file[t].comments[k].pending

(***************************************************************************)
(* A comment that is pending in the file is eventually posted or skipped,  *)
(* whether or not its ticket ever has another event.                       *)
(***************************************************************************)
PendingIsFlushed ==
  \A t \in Tickets : \A i \in Members[t], k \in 1..(MaxUpdates + 2) :
    IsPending(t, k, i) ~> ~ IsPending(t, k, i)
=============================================================================
