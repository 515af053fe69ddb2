---------------------------- MODULE SaymonClient ----------------------------
(***************************************************************************)
(* The client of SAYMON (saymon/client.py) as the coroutines that share it *)
(* use it: each reads the list of incidents page by page, and the first to *)
(* make a request logs in for all of them, under an asyncio lock.  SAYMON  *)
(* raises and clears incidents between the pages, forgets the session, and *)
(* refuses requests.                                                       *)
(*                                                                         *)
(* A request and its answer are one step: a coroutine keeps nothing that   *)
(* it changes while it waits for the answer.                               *)
(***************************************************************************)
EXTENDS Integers, Sequences, FiniteSets

CONSTANTS
  Reader,       \* coroutines that read
  Incident,     \* ids of incidents
  FirstLists,   \* the lists SAYMON may begin with
  Asks,         \* what is asked of a read: [limit, page], page = 0 for none
  DefaultPage,  \* 500
  HasRedirect,  \* whether SAYMON_AUTH_REDIRECT_URL is set
  MaxChanges    \* bound: incidents raised or cleared in all

Cookies == {"sid", "csrf"}

ASSUME ClientAssumption ==
  /\ FirstLists \subseteq Seq(Incident)
  /\ Asks \subseteq [limit : Int, page : Nat]
  /\ DefaultPage \in Nat \ {0}
  /\ HasRedirect \in BOOLEAN
  /\ MaxChanges \in Nat

VARIABLES
  list,           \* the incidents as /incidents lists them
  alive,          \* whether SAYMON knows the session
  jar,            \* the cookies the client holds
  authenticated,  \* SaymonClient._authenticated
  queue,          \* _auth_lock: its holder, then those who wait for it
  read,           \* the locals of each coroutine
  changes,        \* incidents raised and cleared so far, for the bound
  seen            \* history: what became of the list since a read began

session == <<alive, jar, authenticated, queue>>
vars    == <<list, session, read, changes, seen>>

Lesser(m, n)  == IF m <= n THEN m ELSE n
Greater(m, n) == IF m >= n THEN m ELSE n

NoRead == [pc |-> "idle", limit |-> 0, page |-> 1, skip |-> 0, results |-> <<>>]

NothingSeen == [there |-> {}, raised |-> 0, cleared |-> 0]

Listed == {list[p] : p \in DOMAIN list}

Init ==
  /\ list \in FirstLists
  /\ alive = FALSE
  /\ jar = {}
  /\ authenticated = FALSE
  /\ queue = <<>>
  /\ read = [c \in Reader |-> NoRead]
  /\ changes = 0
  /\ seen = [c \in Reader |-> NothingSeen]

-----------------------------------------------------------------------------
(***************************************************************************)
(* SAYMON: where in the list a new incident appears is not known.          *)
(***************************************************************************)
Reading(c) == read[c].pc # "idle"

Change ==
  /\ changes < MaxChanges
  /\ changes' = changes + 1
  /\ UNCHANGED <<session, read>>

Raise ==
  /\ Change
  /\ \E i \in Incident \ Listed, p \in 0..Len(list) :
       list' = SubSeq(list, 1, p) \o <<i>> \o SubSeq(list, p + 1, Len(list))
  /\ seen' = [c \in Reader |-> IF Reading(c) THEN [seen[c] EXCEPT !.raised = @ + 1]
                              ELSE seen[c]]

Clear ==
  /\ Change
  /\ \E p \in DOMAIN list :
       /\ list' = SubSeq(list, 1, p - 1) \o SubSeq(list, p + 1, Len(list))
       /\ seen' = [c \in Reader |->
                     IF Reading(c) THEN [seen[c] EXCEPT !.there   = @ \ {list[p]},
                                                        !.cleared = @ + 1]
                     ELSE seen[c]]

Expire ==
  /\ alive
  /\ alive' = FALSE
  /\ UNCHANGED <<list, jar, authenticated, queue, read, changes, seen>>

-----------------------------------------------------------------------------
(***************************************************************************)
(* A request is made at once if the client has a session; if not, the      *)
(* coroutine takes the lock or waits for it.                               *)
(***************************************************************************)
Toward(c, r) ==
  /\ read'  = [read EXCEPT ![c] = [r EXCEPT !.pc = IF authenticated THEN "page" ELSE "lock"]]
  /\ queue' = IF authenticated THEN queue ELSE Append(queue, c)

PageSize(ask) ==
  LET page == IF ask.page = 0 THEN Lesser(DefaultPage, ask.limit) ELSE ask.page
  IN  Greater(1, Lesser(page, ask.limit))

Begin(c) ==
  /\ read[c].pc = "idle"
  /\ \E ask \in Asks :
       IF ask.limit <= 0
       THEN /\ read' = [read EXCEPT ![c] = [NoRead EXCEPT !.pc = "done"]]
            /\ queue' = queue
       ELSE Toward(c, [NoRead EXCEPT !.limit = ask.limit, !.page = PageSize(ask)])
  /\ seen' = [seen EXCEPT ![c] = [NothingSeen EXCEPT !.there = Listed]]
  /\ UNCHANGED <<list, alive, jar, authenticated, changes>>

Holds(c) == queue # <<>> /\ Head(queue) = c

(* An exception leaves the read, and the lock if the coroutine holds it. *)
Leave(c) ==
  /\ read' = [read EXCEPT ![c] = NoRead]
  /\ seen' = [seen EXCEPT ![c] = NothingSeen]

(***************************************************************************)
(* _ensure_authenticated with the lock: another coroutine may have logged  *)
(* in meanwhile.                                                           *)
(***************************************************************************)
(* As it would be if that were not looked at again. *)
EnterAnyway(c) ==
  /\ read[c].pc = "lock" /\ Holds(c)
  /\ read' = [read EXCEPT ![c].pc = "login"]
  /\ UNCHANGED <<list, session, changes, seen>>

Enter(c) ==
  /\ read[c].pc = "lock" /\ Holds(c)
  /\ IF authenticated
     THEN /\ read' = [read EXCEPT ![c].pc = "page"]
          /\ queue' = Tail(queue)
     ELSE /\ read' = [read EXCEPT ![c].pc = "login"]
          /\ queue' = queue
  /\ UNCHANGED <<list, alive, jar, authenticated, changes, seen>>

(* As it would be if an answer without cookies were a session. *)
LoginTrusted(c) ==
  /\ read[c].pc = "login"
  /\ jar' \in SUBSET Cookies
  /\ read' = [read EXCEPT ![c].pc = "page"]
  /\ queue' = Tail(queue)
  /\ authenticated' = TRUE
  /\ alive' = TRUE
  /\ UNCHANGED <<list, changes, seen>>

(***************************************************************************)
(* The answer to POST /users/session: it may bring fewer cookies than the  *)
(* client needs; then, or if it is refused, the coroutine fails and the    *)
(* next one tries for itself.                                              *)
(***************************************************************************)
LoginAnswer(c) ==
  /\ read[c].pc = "login"
  /\ \E given \in SUBSET Cookies :
       /\ jar' = jar \cup given
       /\ IF jar' # Cookies
          THEN /\ Leave(c)
               /\ queue' = Tail(queue)
               /\ UNCHANGED authenticated
          ELSE /\ read' = [read EXCEPT ![c].pc = IF HasRedirect THEN "redirect" ELSE "page"]
               /\ queue' = IF HasRedirect THEN queue ELSE Tail(queue)
               /\ authenticated' = ~ HasRedirect
               /\ UNCHANGED seen
  /\ alive' = TRUE
  /\ UNCHANGED <<list, changes>>

(* As it would be if a login that fails did not give the lock back. *)
LoginRefusedLocked(c) ==
  /\ read[c].pc = "login"
  /\ Leave(c)
  /\ UNCHANGED <<list, session, changes>>

LoginRefused(c) ==
  /\ read[c].pc = "login"
  /\ Leave(c)
  /\ queue' = Tail(queue)
  /\ UNCHANGED <<list, alive, jar, authenticated, changes>>

(* Whatever becomes of the request to the redirect URL. *)
RedirectAnswer(c) ==
  /\ read[c].pc = "redirect"
  /\ read' = [read EXCEPT ![c].pc = "page"]
  /\ queue' = Tail(queue)
  /\ authenticated' = TRUE
  /\ UNCHANGED <<list, alive, jar, changes, seen>>

-----------------------------------------------------------------------------
(***************************************************************************)
(* _fetch_paginated: the answer to GET /incidents?limit=..&skip=..; after  *)
(* a short page, or when the limit is reached, the read is complete.       *)
(***************************************************************************)
(* As it would be if a page were always asked for in full. *)
FullPage(r) == r.page

BatchLimit(r) == Lesser(r.page, r.limit - Len(r.results))

Batch(r) == SubSeq(list, r.skip + 1, Lesser(r.skip + BatchLimit(r), Len(list)))

(* As it would be if a full page ended the read. *)
EndedByPage(r) ==
  LET got == r.results \o Batch(r)
  IN  [r EXCEPT !.pc = "done", !.results = got]

(* As it would be if the pages were counted and not the records. *)
PagesCounted(r) ==
  LET got == r.results \o Batch(r)
  IN  IF Len(Batch(r)) < BatchLimit(r) \/ Len(got) >= r.limit
      THEN [r EXCEPT !.pc = "done", !.results = got]
      ELSE [r EXCEPT !.results = got, !.skip = @ + 1]

(* As it would be if a page were one record of the results. *)
PageAppended(r) ==
  [r EXCEPT !.pc = "done", !.results = Append(@, Batch(r))]

WithBatch(r) ==
  LET got == r.results \o Batch(r)
  IN  IF Batch(r) = <<>> THEN [r EXCEPT !.pc = "done"]
      ELSE IF Len(Batch(r)) < BatchLimit(r) THEN [r EXCEPT !.pc = "done", !.results = got]
      ELSE [r EXCEPT !.pc      = IF Len(got) < r.limit THEN "page" ELSE "done",
                     !.results = got,
                     !.skip    = @ + Len(Batch(r))]

PageAnswer(c) ==
  /\ read[c].pc = "page"
  /\ alive
  /\ read' = [read EXCEPT ![c] = WithBatch(read[c])]
  /\ UNCHANGED <<list, session, changes, seen>>

(* A status of SAYMON's, a timeout, or a body that is not a list. *)
PageRefused(c) ==
  /\ read[c].pc = "page"
  /\ Leave(c)
  /\ UNCHANGED <<list, session, changes>>

Return(c) ==
  /\ read[c].pc = "done"
  /\ Leave(c)
  /\ UNCHANGED <<list, session, changes>>

(***************************************************************************)
(* The server is stopped (aclose) and started again.                       *)
(***************************************************************************)
Restart ==
  /\ alive' = FALSE
  /\ jar' = {}
  /\ authenticated' = FALSE
  /\ queue' = <<>>
  /\ read' = [c \in Reader |-> NoRead]
  /\ seen' = [c \in Reader |-> NothingSeen]
  /\ UNCHANGED <<list, changes>>

Runs(c) ==
  \/ Enter(c)
  \/ LoginAnswer(c)
  \/ LoginRefused(c)
  \/ RedirectAnswer(c)
  \/ PageAnswer(c)
  \/ PageRefused(c)
  \/ Return(c)

Next ==
  \/ Raise
  \/ Clear
  \/ Expire
  \/ Restart
  \/ \E c \in Reader : Begin(c) \/ Runs(c)

Spec == Init /\ [][Next]_vars

FairSpec == Spec /\ \A c \in Reader : WF_vars(Runs(c))

-----------------------------------------------------------------------------
(***************************************************************************)
(* Properties.                                                             *)
(***************************************************************************)

States == {"idle", "lock", "login", "redirect", "page", "done"}

ReadState ==
  [pc : States, limit : Int, page : Nat, skip : Nat, results : Seq(Incident)]

(* The variables hold what the client's fields and locals can hold. *)
TypeOK ==
  /\ list \in Seq(Incident)
  /\ alive \in BOOLEAN
  /\ jar \subseteq Cookies
  /\ authenticated \in BOOLEAN
  /\ queue \in Seq(Reader)
  /\ read \in [Reader -> ReadState]
  /\ changes \in Nat
  /\ seen \in [Reader -> [there : SUBSET Incident, raised : Nat, cleared : Nat]]

LoggingIn(c) == read[c].pc \in {"login", "redirect"}

(***************************************************************************)
(* The lock and the second look at _authenticated do their work: no two    *)
(* coroutines log in at once, and none does once one has succeeded, so     *)
(* that no coroutine's cookies are exchanged under its feet.               *)
(***************************************************************************)
OneLogin ==
  \A c, d \in Reader : LoggingIn(c) /\ (LoggingIn(d) \/ authenticated) => c = d /\ ~ authenticated

(***************************************************************************)
(* Nothing is asked of SAYMON before both cookies are there, whoever       *)
(* logged in, however many logins failed and whatever they brought.        *)
(***************************************************************************)
NoRequestWithoutSession ==
  \A c \in Reader : read[c].pc = "page" => authenticated /\ jar = Cookies

(***************************************************************************)
(* FETCH_LIMIT is a limit also when it is no multiple of the page: no read *)
(* goes beyond it, and each page begins where the results end.             *)
(***************************************************************************)
LimitKept ==
  \A c \in Reader : Reading(c) =>
    /\ read[c].results # <<>> => Len(read[c].results) <= read[c].limit
    /\ read[c].pc = "page" => read[c].skip = Len(read[c].results)

Found(r) == {r.results[j] : j \in DOMAIN r.results}

(***************************************************************************)
(* Pages are taken by offset while the list changes: a read misses no more *)
(* of the incidents that were there all along, within the limit, than were *)
(* cleared meanwhile; none, if none was.                                   *)
(***************************************************************************)
MissedAtMostCleared ==
  \A c \in Reader : read[c].pc = "done" =>
    LET within == {list[p] : p \in {q \in DOMAIN list : q <= read[c].limit}}
    IN  Cardinality((seen[c].there \cap within) \ Found(read[c])) <= seen[c].cleared

(***************************************************************************)
(* If nothing is cleared meanwhile, whatever is raised: what was there     *)
(* when the read began is in the results, or stands beyond the limit.      *)
(***************************************************************************)
NothingMissed ==
  \A c \in Reader : read[c].pc = "done" /\ seen[c].cleared = 0 =>
    \A i \in seen[c].there :
      i \in Found(read[c]) \/ \E p \in DOMAIN list : p > read[c].limit /\ list[p] = i

(***************************************************************************)
(* And it returns no more of them twice than were raised meanwhile.        *)
(***************************************************************************)
TwiceAtMostRaised ==
  \A c \in Reader : read[c].pc = "done" =>
    Len(read[c].results) - Cardinality(Found(read[c])) <= seen[c].raised

(***************************************************************************)
(* Every read ends, in an answer or an exception, whatever the list does   *)
(* meanwhile and whatever becomes of the logins it waits for.              *)
(***************************************************************************)
ReadsEnd == \A c \in Reader : Reading(c) ~> ~ Reading(c)
=============================================================================
