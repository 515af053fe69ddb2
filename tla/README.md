# Alarm Manager Server: specification, model checking, proofs

The server reads the incidents of a SAYMON monitoring system, groups them, and
answers `POST /process` and `POST /grouping`. The worker polls `/process`,
turns the groups into numbered local tickets kept in one JSON file, and hands
what changed to service-desk plugins and back to SAYMON as comments. This
directory holds TLA+ models of that, their TLC configurations, and proofs that
TLAPS checks. `PROJECT.json` maps every definition to the source lines it models.

    tlc -workers 2 -config TicketSync.cfg MCTicketSync
    tlapm TicketSyncProofs.tla
    tlapm DeliveryProofs.tla

and likewise for `ReferenceProofs`, `ProcessRequestProofs`, `SaymonClientProofs`,
`MacroResolverProofs`, `ObjectNamesProofs` and `ProcessorCachesProofs`.

## 1. Inventory

| Component | State | Operations | Talks to |
|---|---|---|---|
| Ticket store (`worker/tickets.py`) | tickets, next number, index of open tickets by group key; the tickets file | load, save, create, update, close, look up by key or overlap | synchronisation |
| Ticket synchronisation (`worker/tickets.py`, `run.py`) | tickets matched and events emitted so far in a pass | one pass over the groups of a report | store, tracked groups |
| Tracked groups (`worker/formatter.py`) | none | heads, members and key of each group | grouping of a response |
| Grouping (`services/grouping`) | none | by owner, by class ancestor, synthetic containers, merge | object store |
| Object store (`saymon/object_store.py`) | objects with class, parents, name; paths cache; fetches under way | seed, upsert, fetch, walk to ancestors | SAYMON client, file cache |
| Processing API (`api/app.py`, `services/processor.py`) | one processor shared by all requests | `/process`, `/grouping` | everything above it in this list but the store of tickets |
| Worker loop (`worker/run.py`, `client.py`) | none between passes | poll, synchronise, dispatch, comment, flush | API, plugins, SAYMON |
| Ticket handlers (`worker/ticket_handlers.py`), plugins (`plugins/`) | external reference and metadata in the ticket | register, update, close in a service desk | service desks |
| SAYMON comments (`worker/incident_comments.py`) | queue of pending comments in the ticket | annotate, flush | SAYMON |
| SAYMON client (`saymon/client.py`) | session, authentication, the lock of the login | pages of incidents, objects, paths, comments | SAYMON |
| File cache (`cache/file_cache.py`) | one file with a time stamp per name | get within a TTL, set | processor, object store |
| Macro resolver (`services/macros`) | results for nodes and chains, shared by requests | responsible party of each incident | object store |

What is hard, and what makes each part correct:

* **Tickets.** A group is matched to an open ticket by key, else by an overlap
  of half the members. Matching is greedy in report order and rebinds keys, so
  one group may take another's ticket. Correct is: after a pass the open
  tickets are the active groups, the index is exact, the events are the
  difference, an unchanged report says nothing, a closed ticket stays closed,
  and a pass that dies leaves the file alone. What a ticket keeps up of a group
  is what `diff_snapshots` compares: not its head, nor a member's opening time.
* **Grouping.** Three groupings are merged in order. Correct is: the result is
  a forest, no active incident is under a historical one, owner groups have
  priority, no class group is dropped for another reason, containers have two
  children, every incident is shown once.
* **Requests.** Coroutines share one object store and wait between computing
  the grouping and computing the rows. Incidents move between two endpoints
  that are read one after the other, each page by page, up to a limit. Correct
  is: a report lacks only what the limits and the paging by offset make it lack.
* **Delivery.** The file is saved before handlers run, a handler runs before
  its result is saved, comments are queued in the ticket and sent later; requests
  are refused or their answers lost. Correct is: a request is made once and later
  found again under its own reference, a confirmation is announced only if there
  was one, a closing reaches every request of the ticket, and a comment waits in the
  file until it is posted, once.
* **Several plugins.** All write into one `external_ref` and one `external_meta`.
  Correct is: none takes the reference of another for its own.
* **Client.** All coroutines share one session, got under one lock, and read
  lists by offset that change between the pages. Correct is: one login at a
  time, no request before it, no read beyond its limit, nothing missed unless
  something was cleared meanwhile, nobody waits for ever.
* **Shared results.** One request clears the macro resolver's results while
  another is half way along a chain and puts its own back. Correct is: an answer
  is what the store held in the time of the request, at the nearest object.
* **Shared lookups.** Coroutines that need one object's name share a task that
  may fail, and may be found new, half way or ended. Correct is: one fetch
  at a time, no old failure for a later one, everyone gets on.
* **Cache files.** Requests overwrite each other's file, the slower one the
  newer content; an empty answer is kept like a full one. Correct is: what is
  served is not older than promised, and an outage is not kept for good.
* **Operation.** `docker compose run ... --once` runs a second worker on the
  same file.

`PROJECT.json` lists the hazards line by line and the properties for each.

## 2. Modules

| Module | Models |
|---|---|
| `TicketStore` | the tickets file as a value, and what every method of `TicketStore` computes from it |
| `TicketSync` | a worker's passes: one action per branch of `sync_tickets`, `load`, `save`, abort |
| `TicketLifecycle` | what the file promises, without how: a pass is one atomic step |
| `TicketSyncProofs` | the theorems about `TicketSync` |
| `Grouping` | the grouping of one report as functions |
| `TrackedGroups` | the groups and keys the worker makes of a response |
| `ObjectStore` | seeding, upserts and lookups of the object store as functions |
| `ProcessRequest` | requests as coroutines over a shared object store, and SAYMON's incidents |
| `ProcessRequestProofs` | the theorems about `ProcessRequest`, and with it about `Grouping`, `TrackedGroups` and `ObjectStore` |
| `PluginRefs` | the references a ticket keeps to requests at service desks: what each plugin writes, what it reads back |
| `Delivery` | what a pass does after synchronisation: dispatch to the plugins, announcements, the queue of Oracle comments, with failures and aborts |
| `DeliveryProofs` | the theorems about what `Delivery` does with Oracle and with comments |
| `ReferenceProofs` | the theorems about the references and requests of `Delivery` |
| `SaymonClient` | coroutines over one client: session, lock, login, pages of a list that changes |
| `SaymonClientProofs` | the theorems about `SaymonClient` |
| `MacroResolver` | requests over one macro resolver: reset, chains, nodes, both caches, the store as it changes |
| `MacroResolverProofs` | the theorems about `MacroResolver` |
| `ObjectNames` | coroutines that look for an object's name: the task they share, what it fetches, how it ends |
| `ObjectNamesProofs` | the theorems about `ObjectNames` |
| `ProcessorCaches` | the files of `FileCache` for incidents, class ids and labels, over requests, restarts and time |
| `ProcessorCachesProofs` | the theorems about `ProcessorCaches` |
| `MC...` | an instance of each for TLC |

`TicketSync` EXTENDS `TicketStore`; `ProcessRequest` EXTENDS `TrackedGroups`
and `ObjectStore`, both over `Grouping`. `MCTicketSync` composes the two
halves: its reports are what `Grouping` and `TrackedGroups` make of all the
states of a few incidents, not arbitrary sequences of groups. `Delivery`
EXTENDS `PluginRefs` and starts a pass where `TicketSync` ends it: `BeginPass`
stands for a saved pass of `TicketSync` and says only what happened to each ticket,
with the facts that `TicketSync` establishes (one event for a ticket in a pass,
none after it was closed). The last four stand under `ProcessRequest`: each
takes up a part of a request that is one step there, or is left out, and
looks at what the sharing of that part does to requests.

**State.** In `TicketSync`, `file` is the JSON file and `data` is
`TicketStore._data`; `poll`, `next`, `matched`, `events` are the locals of
`sync_tickets`; `pc` tells whether a pass is under way; `saved` is a history
variable. In `ProcessRequest`, `listed` is what the two endpoints list, `objects` is
`ObjectStore._objects`, `req[r]` the locals of a request (`got` the pages of the
endpoint it reads, `first` what the first one returned; `due` and `shifted`, which
incidents its report has to show, are history), and `loop` the
coroutine that still has the event loop: an action that ends at an `await`
which really suspends releases it, one that may run on keeps it. In `Delivery`,
`file` and `mem` are the metadata of each ticket in the tickets file and in the
pass's store, `local` what synchronisation has saved of it; `phase` tells which
of `dispatch_ticket_handlers`, `annotate_...` and `flush_oracle_comments` runs,
`ev` and `turn` where dispatch is in its two loops, `dirty` and `work` their
locals, `sending` the comment posted and not yet taken off the queue; `desk` is
what each service desk has registered, `history` what SAYMON holds as
historical; `call`, `missed` and `posted` are history variables.

In `SaymonClient`, `list` is SAYMON's list and `alive` whether it knows the
session; `jar` and `authenticated` are the client's cookies and flag, `queue` its
lock with those who wait, `read[c]` the locals of a coroutine in
`_fetch_paginated`; `seen` is a history variable. In `MacroResolver`, `store` is what
`ObjectStore._objects` holds of a property, `nodeProp` and `entityResult` the resolver's
dictionaries, `req[r]` a request's locals; `since` and `lately` are history
variables. In `ObjectNames`, `entry` is `_name_inflight`, `task[c]` the task that
coroutine `c` made, `call[c]` what it waits for, `missed` is
`_paths_miss`. In `ProcessorCaches`, `files` is the cache directory,
`classes` whether `_class_ids` is set, `req[r]` a request.

**Abstractions.** A ticket number stands for `T-%06d`. A `MemberState` stands
for what a snapshot records of one member and `diff_snapshots` compares: status,
label, closing time, text, object, responsible. Which of these change is not told
apart, as it reports a change for each. It compares neither the opening time of
a member nor `head_id`: these are fields of their own (`started`, `head`), and
a change in them alone leaves the old snapshot in the file and makes no
event, but for an opening time that moves the first or last minute of the statistics
line (`StatsLine`). Opening times are numbers, `Minute` of which are rendered
alike. A title stands for the rendered heading. The
overlap score is compared by cross-multiplication. Object names matter only in
that a named object is not fetched again. A container's children come in
report order, where the code has the order of a set. Loops of the code over a
sequence are recursive functions on its length (`Those`, which selects; the two
loops of `MergeGroupings`; the owners seeded one after the other, `SeedOwners`),
which TLC evaluates and TLAPS can be told about, unlike the library's folds.

In `Delivery` a reference is the system that gave it, its number there, and its
form: the id the API takes, the id after a `#`, or a name shown to people (the
title of an ELMA item, the number of a ServiceNow incident). Which names are in
digits is fixed as the systems show them (`ShownInDigits`). What Oracle is told of a
ticket is one bit, `content`, which an update may change or not. The incidents of
a ticket are fixed; that they change is `TicketSync`'s matter. Credentials are
present and comments enabled. Registering, updating and closing have one shape
in all ten REST plugins, so that each is one action; they are mapped to one
plugin's code, and differ in the operators of `PluginRefs`. A request ends in one of
three ways: it succeeds, it is refused, or it takes effect and its answer is lost.
A closing has a fourth at Jira and Freshdesk (`Unheeding`): the plugin returns
normally and the request is still open, because Jira does not offer the transition
of the settings, or because Freshdesk's answer to the closing is not looked at.
With `--active-only` the worker drops events whose group is not visible; created and
updated tickets have active groups, so nothing is dropped.

In `SaymonClient` a request and its answer are one step, as a coroutine changes
nothing while it waits; where in the list a new incident appears is open; SAYMON
returns full pages as long as it has records. The reads of `ProcessRequest` are
the same, page by page between two awaits, without session and login, and over
two endpoints: an incident that is cleared leaves the one list and enters the
other at any place. `MacroResolver` has one macro,
its text being part of every key, and a selector that always matches the same
objects, though one by class or name depends on what the store has learned; a request may be interrupted at every `await`, though not each suspends.
`ObjectNames` keeps of an object whether it is named and complete, and of an
answer what it adds to that. `ProcessorCaches` has ages instead of times, in
ticks, which stop growing past the TTL; of a file's content it keeps how old it
was when written and whether it is an answer or an empty table. `/grouping`
asks for no labels and is a request that ends earlier, so that only `/process` is there.

Each module also holds a few definitions introduced by "As it would be if":
variants of a definition with a plausible mistake. No run uses them as they
stand; each shows that the property named with it in `PROJECT.json` ("mutants")
is broken if the code is.

## 3. Runs

| Run | Checks | Result |
|---|---|---|
| `ticket_sync` | `TypeOK`, `OpenIndexExact`, `FileReflectsReport`, `EventsTellTheDifference`, `Quiescent`, `ClosedForever`, `ImplementsLifecycle` | hold; about 2 million states |
| `process_request` | `TypeOK`, `EachIncidentOnce`, `ContainersHoldTwo` | hold; about 670,000 states |
| `grouping_shapes` | `NoIncidentMissed`, `GroupingIsForest`, `ActiveNotUnderHistory`, `OwnerFirst`, `ClassGroupsAreKept` | hold; about 1.8 million states |
| `references` | `TypeOK`, `AddressIsOwn`, `AddressIsRegistered`, `RegisteredOnce`, `ClosedEverywhere`: Jira and Redmine, requests refused, Jira closings not carried out | hold; about 580,000 states |
| `oracle_comments` | `ConfirmationsKept`, `PostedOnce`, `PendingIsFlushed` (liveness): Oracle with `ORACLE_EVENT=closed`, two tickets, requests and comments refused | hold; about 240,000 states |
| `oracle_crash` | `OracleRecordedOnce`, `RecordedIsCommitted`, `ConfirmedIsCommitted`: Jira and Oracle, requests refused, answers lost, aborts | hold; about 1.6 million states |
| `saymon_client` | `TypeOK`, `OneLogin`, `NoRequestWithoutSession`, `MissedAtMostCleared`, `TwiceAtMostRaised`, `ReadsEnd` (liveness) | hold; about 230,000 states |
| `macro_resolver` | `TypeOK`, `AnswersAreCurrent`, `NearestLately` | hold; about 2.5 million states |
| `object_names` | `OneFetch`, `EntryHasMaker`, `EveryoneReturns` (liveness) | hold; about 160,000 states |
| `processor_caches` | `IncidentsAreRecent`, `LabelsComeBack` (liveness) | hold; about 410,000 states |
| `key_collision` | `ActiveGroupsTracked`, with active and historical groups on one object | violated |
| `lost_hierarchy` | `HierarchyIsWalked` | violated |

The two violated ones each state a sentence of the repository's documentation
or tests that the code does not keep; "findings" in `PROJECT.json` quotes it and
tells the counterexample. Others are in section 4.

**Bounds.** `ticket_sync` has three incidents, two on a host and one on an
object below it, each absent or active, one of those on the host possibly cleared,
the one below the host in one of two active states, so that a ticket may change
in nothing but a member's state, and an object store that knows the hierarchy or
not. Where all three are active the opening time of one may be another, which
changes the head, the statistics of two of them and not of all three, so that
a ticket is left with an old head or opening time. That gives groups of one, two and three members, owner keys, incident keys
and synthetic containers, overlaps below, at and above one half, ties, rekeying,
groups that split and join and cleared groups that match the ticket of active
ones. `MaxSeq = 3` bounds the numbers given out: a third ticket is enough for a
number to be reused, lost or rebound. One incident may be cleared, so that no
two groups of a report have one key; `key_collision` lifts just that.

`process_request` has two requests (what one can do to another needs no third)
over three incidents and a chain of three objects, the grouping class two
levels above the incidents; an endpoint is read in one page there, as the pages of
one request are nothing to another. `grouping_shapes` has one request, four incidents
and two grouping classes in the chain: enough for groups to nest and for one
head to have children of its owner and of its class. Its pages hold two, so that
a read of either endpoint takes one, two or three, whole, short and empty, and an
incident is cleared before, at or behind the offset. `HistoryLimit = 3` cuts the
history at a limit that is no multiple of the page; `FetchLimit = 4` is as many as
there are, as a smaller one would leave out groupings the other properties look
at. That /incidents is cut too is covered by the theorem.
The two requests are interchangeable, hence the symmetry.

In `Delivery` two tickets are enough for two to be in one pass, in either order,
and for a pass to flush the comments of a ticket that has no event in it; an incident for
each, of which one may become historical, for a comment to be skipped.
`MaxUpdates` bounds the updates of a ticket: two let a failed registration be
repeated and its result be used, and one update of Oracle follow another; where
only queueing matters one is enough. `references` has a desk of each kind, one
whose reference is text and one whose reference is digits, so that each could take the
other's. `oracle_crash` has one ticket, as no action of Oracle's looks at two.
The two properties of references hold only for plugins that share no key and can
tell their references apart; section 4 names pairs that do not.
`RegisteredOnce`, `ClosedEverywhere` and `PostedOnce` hold only without aborts
and lost answers: what was done and not saved cannot be recognised later.

`saymon_client` has two coroutines and a list of three incidents, to which a
fourth may come, with `MaxChanges = 2`: one that is cleared and one that is raised, or
two of either, between pages. A read asks for nothing, for less than a page,
for a limit that is no multiple of the page, or for more than there is, so
that the last page is whole, short or empty. `macro_resolver` has two requests over three
objects in a chain, depth 1, so that the chain of the lowest reaches beyond the
depth or is cut short; one value and none are all an answer is told apart by.
`MaxNews = 2` lets a property be read and then change. `object_names` has four
coroutines: one makes a task, two wait for it, one comes when it has ended.
`processor_caches` has two requests; TTLs and the time of a read are one or two
ticks, so that a file is fresh, on the border and too old, and a slow read ends
after a quick one that began later.

**Fairness.** Four specifications state any.

* `Delivery` in `oracle_comments`. `WF_vars(Next)`: `run_loop` starts passes
  for ever and no step of one waits for another process, each request having a
  timeout. `SF_vars(PostComment)`: SAYMON does not refuse for ever a comment that is
  tried again and again; without it nothing could be promised. Aborts are left
  out there: a worker that dies in every pass delivers nothing.
* `SaymonClient`: `WF_vars(Runs(c))`. The event loop runs every coroutine that
  can run, httpx ends every request within its timeout, and an `asyncio.Lock`
  is handed on in the order of arrival. That an answer is good is not assumed.
* `ObjectNames`: weak fairness of each step of each task and coroutine, for
  the same reasons. Again an answer may be an error every time.
* `ProcessorCaches`: `SF_vars(Tick)`, time passes; `WF_vars(Runs(r))`, a worker
  polls and its requests get on. `LabelsComeBack` is promised only for when
  SAYMON has ceased to fail and the server is not restarted any more.

Elsewhere the specifications state safety only: the worker may die at any point
and nothing in the code bounds how long a request of a client of the API waits. In
`TicketSync` the pass that would need a number above `MaxSeq` can
only be aborted, so no run ends in a deadlock.

## 4. Disagreements that no run carries

Met while modelling, each with the line that says otherwise; a run for each would
show little that the code does not.

* A session that SAYMON ends is not renewed: every read fails until the server is
  restarted (`client.py:187`).
* The files `object_paths` and `objects` carry one time stamp, which every new entry
  renews, so that old entries outlive their TTL (`object_store.py:287`;
  README.md:693). What is in memory has no TTL at all: class ids
  (`processor.py:65`) and the properties of ancestors last as long as the process.
* A responsible party found along a chain that was read before another request's
  reset may be kept after it (`resolver.py:40`), which is why `NearestLately`
  says "since a request last began alone".
* A cleared group closes a ticket it overlaps by half as `all_cleared` while the
  other half is active (`tickets.py:261`; README.md:346).
* A group earlier in the report may take, by overlap, the ticket open under the key of
  a later one, which is then announced as created (`tickets.py:282`; README.md:338).
* An unreadable tickets file counts as empty, and numbers are given out again
  (`tickets.py:136`; README.md:350).
* With two grouping classes in one chain a head may be a child, whose own
  children come out as groups (`merge.py:24`; docstring `formatter.py:331`).
* A historical incident carries no owner and is not grouped with the active ones
  of its object (`owner.py:13`; README.md:18).
* A container in the rows may differ from the one in `grouping`: it is computed
  again after awaits, from a store another request may have seeded, so that
  `parent_of` names a header not among the rows (`app.py:75`; README.md:20).
* A comment queued for a ticket while nothing marks the store dirty is lost if
  SAYMON refuses it (`oracle.py:110`, `ticket_handlers.py:230`;
  docs/oracle-servicedesk-and-zammad.md:83). `ConfirmationsKept` is what does hold.
* Bitrix24's reference is the task's number after a `#`, which `external_refs` keeps
  and `external_id` returns as it is; `int` of it fails, so that no update or closing
  reaches the task (`_refs.py:19`, `bitrix24.py:97`). `AddressIsRegistered` fails
  for `Plugins` of it alone.
* With Jira and Naumen, whose references are both text, Jira takes Naumen's
  `external_ref` for its own while its own registration has failed
  (`jira.py:149`); `AddressIsOwn` fails.
* ELMA updates go to an item's title, as `external_refs` holds it (`_refs.py:18`;
  tests/test_elma_bitrix24.py:111). ServiceNow and SimpleOne share `sys_id`,
  Freshdesk and Zammad `ticket_id` (docs/oracle-servicedesk-and-zammad.md:5).
* Oracle's number is that of another system if the cursor tells none
  (`oracle.py:408`; README.md:835). The first update after registration is always
  sent, as the fingerprint contains the number (`oracle.py:27`; the comment above it).
* A registration that succeeds with a later update is never announced
  (`incident_comments.py:76`; README.md:574).
* A report may lack an incident that is active all along: another one cleared
  between two pages of /incidents moves it under the offset (`client.py:110`). The
  worker then closes its ticket as `removed`, which README.md:347 says of incidents
  that are beyond the limits or past. `NoIncidentMissed` says which may be missed.
* A ticket's snapshot keeps an opening time, and a head, that the report no longer
  has, if nothing else of the group changed (`tickets.py:97`, `tickets.py:58`).
* Jira's request stays open if the transition of the settings is not offered
  (`jira.py:125`), Freshdesk's if the closing is refused (`freshdesk.py:108`); the
  worker takes both for closed (README.md:451, README.md:472). `ClosedEverywhere` says that these
  and the closings that failed are all that stays open.
* Events of a pass that dies are lost, as the file is saved before the handlers
  run (`run.py:62`; README.md:593).

## 5. Proofs

`TicketSyncProofs` proves of `TicketSync`, for every set of incidents, states,
keys, titles and reports:

| Theorem | States | Assumes |
|---|---|---|
| `TypeCorrect` | `[]TypeOK` | |
| `IndexCorrect` | `[]OpenIndexExact` | |
| `FileCorrect` | `[]FileReflectsReport` | `WellFormedPolls` |
| `ClosedStaysClosed` | `ClosedForever` | `~ ReadMayFail` |
| `UnchangedReportIsQuiet` | `[]Quiescent` | both |
| `SyncImplementsLifecycle` | `ImplementsLifecycle` | both |
| `EventsCorrect` | `[]EventsTellTheDifference` | both |

`FileReflectsReport`, and the lifecycle, speak of what the worker keeps up of a
group (`Shows`, `Tracked`): key, title, members, the state of each, and the
statistics line. `WellFormedPolls` says that two groups of a report share neither key nor
member. It is what `key_collision` shows to be needed: without it a report's
second group takes the first one's ticket. `~ ReadMayFail` is needed because an
unreadable file counts as an empty one.

The argument, in order:

1. `TypeInv` is `TypeOK` and that an idle worker holds an empty store.
2. `StoreInv` adds `IndexInv` of the file and of memory: the index is exact and
   all numbers are below `next_seq`. The second part is the strengthening:
   without it a new ticket could replace an open one the index names. One lemma
   per operation (`CreateIndex`, `UpdateIndex`, `CloseIndex`) shows that it
   keeps `IndexInv`.
3. `PassInv` relates the tickets a pass holds (matched and still open) to the
   groups it has taken. `HeldAreTaken`: each shows the content of a group taken,
   an active one. `TakenAreHeld`: each active group taken has a ticket that shows it.
   Neither is stable alone, because a later group could take a held ticket by
   key or overlap; `MatchUnheld` shows that with `WellFormedPolls` it cannot,
   since the held ticket has the key and the members of another group. At the
   end nothing unmatched is open, so the two give `FileReflectsReport`.
4. `FileKept`: in a pass every ticket of the file is still in memory, the closed
   ones unchanged. This gives `ClosedForever`, as only `Save` changes the file.
5. `QuietInv`: in a pass over the report that was saved last, memory is the file
   and there are no events. `QuietMatch` shows that each active group finds its
   own ticket, unchanged, and each cleared one none.
6. `AddedTickets`: tickets that are in memory and not in the file have numbers
   not below the file's `next_seq`. With `PassInv` and `FileKept` it shows
   that `Save` is a step of `TicketLifecycle`, and every other action a stutter.
7. `ToldInv`: in a pass the events so far tell of every ticket how memory differs
   from the file (`ToldOf`). Its strengthening is `Untouched`: a ticket that is open
   and not yet matched is as the file has it, so that no event is about it yet,
   and the one event of a step is the first about its ticket.

`DeliveryProofs` and `ReferenceProofs` prove of `Delivery`, for all plugins in any
order (none twice), all tickets, members and bounds, and every failure:

| Theorem | States | Assumes |
|---|---|---|
| `DeliveryTypeCorrect` | `[]TypeOK` | |
| `DeliveryRecordedIsCommitted` | `[]RecordedIsCommitted` | |
| `DeliveryConfirmedIsCommitted` | `[]ConfirmedIsCommitted` | |
| `DeliveryOracleRecordedOnce` | `[]OracleRecordedOnce` | |
| `DeliveryConfirmationsKept` | `[]ConfirmationsKept` | no aborts |
| `DeliveryPostedOnce` | `[]PostedOnce` | no aborts, no lost answers of SAYMON |
| `ReferencesAddressIsOwn` | `[]AddressIsOwn` | `TellApart` |
| `ReferencesAddressIsRegistered` | `[]AddressIsRegistered` | `TellApart`, neither ELMA nor Bitrix24 |
| `ReferencesRegisteredOnce` | `[]RegisteredOnce` | no aborts, no lost answers of desks |
| `ReferencesClosedEverywhere` | `[]ClosedEverywhere` | all four |

No aborts is `~ MayCrash`, no lost answers is `"lost"` not in `SaymonFailures` or
`DeskFailures`: what was done and not saved, or not answered, cannot be
recognised later. `TellApart` says which plugins may work side by side: a plugin
that takes an `external_ref` for its own if it is not in digits (Jira, ELMA, HPSM)
only with those whose references are in digits, and the other way round
(Redmine, Freshdesk, Bitrix24), and not ServiceNow with SimpleOne, which use one
key. Section 4 has the pairs for which the properties fail, and why ELMA and
Bitrix24 are excepted. One plugin alone always satisfies it.

1. `TypeInv` is `TypeOK` and that an idle worker stands at the first event. It
   rests on one lemma per operator of `PluginRefs`, so that what a plugin
   writes and addresses is a reference.
2. `OracleDeskKept`, `RecordedKept` and `ConfirmationsFrom`: Oracle's desk, the
   mark `oracle_recorded` and the comments that speak of a confirmed
   request change with `OracleRequest` only, and there all three together
   (`CommitByRequest`). As the desk only grows, `CommitInv` is inductive.
3. `OnceInv`. The mark cannot carry this one: it is lost when a pass ends before
   the save. What does is the status in the file, saved before dispatch: once
   Oracle has a request for a ticket, the ticket is past `ORACLE_EVENT`
   (`PastOracleEvent`), so that no later pass has that event for it, and the
   pass at hand has gone past the Oracle plugin in it (`PastOracle`).
   That needs `OneEventPerTicket` and `EventsAreSaved`, which hold from `BeginPass`
   to the end of the pass, and that no plugin is called twice for an event.
4. `CommentInv`. A comment is known by its ticket, event and incident. All that
   SAYMON was or is to be told is about events of the past (`KeysArePast`), so that what a
   handler queues is new; what flush tries is pending, what is being sent is
   among it. On it rest `UnpostedInv` (what is pending has not been posted, but
   for the one just sent, and is pending in one place) and `ConfirmInv` (what
   SAYMON has not got is pending in memory, and in the file unless the pass has
   marked the store dirty; a pass past dispatch has saved).
5. `RefInv`: every reference in the file and in memory is `Genuine`: of a
   request its desk has for this ticket, in the form its system shows, under its
   key. Desks forget nothing, so that references stay genuine, and what a
   pass adds is of the request registered just then. `AddressGenuine` goes through
   the ways in which each plugin finds a reference; `AddressInv` says that the
   call made last was to a genuine one of the plugin's own.
6. `RegisterInv`: where a desk has a request for a ticket, it is the only one,
   the plugin knows it (in memory, and in the file unless dirty), and the event
   that created the ticket is over for this plugin. `ClosedInv` adds that when the
   closing is over for a plugin, the request it has is closed, or the closing
   failed, or it is one of Jira or Freshdesk that was left open unnoticed (`StaysOpen`).

`SaymonClientProofs` proves of `SaymonClient`, for any number of coroutines,
every list, limit, page size and order of changes:

| Theorem | States | Assumes |
|---|---|---|
| `ClientTypeCorrect` | `[]TypeOK` | |
| `OneLoginAtATime` | `[]OneLogin` | |
| `SessionComesFirst` | `[]NoRequestWithoutSession` | |
| `LimitIsKept` | `[]LimitKept` | |
| `ReadsAreComplete` | `[]NothingMissed` | |
| `MissedAreCleared` | `[]MissedAtMostCleared` | |
| `TwiceAreRaised` | `[]TwiceAtMostRaised` | no list of `FirstLists` repeats an incident |

1. `TypeInv` is `TypeOK` with `PageInv`: the page size of a read is positive and
   within its limit, and its results end where the next page begins.
2. `LockInv`: who logs in is at the head of the queue, and nobody has succeeded yet.
   That the second look at `_authenticated` is under the lock makes it inductive.
3. `SessionInv`: `authenticated` means that both cookies are in the jar, and who asks
   for a page has seen it.
4. `AheadInv` carries `ReadsAreComplete`: while nothing is cleared, what was
   there when the read began and is not in the results stands at or beyond the
   offset. `RaisedPositions` says where a new incident moves the others: only further.
5. `MissedInv` and `TwiceInv` count. The incidents a read was to find, that stand
   before the offset and are not in its results, are at most as many as were
   cleared: clearing one moves at most one other across the offset. What is
   in the results twice, and what is in them and stands beyond the offset, where
   it may be read again, are together at most as many as were raised.

`MacroResolverProofs` proves of `MacroResolver`, for any number of requests and
objects, all chains, depths and selectors:

| Theorem | States | Assumes |
|---|---|---|
| `ResolverTypeCorrect` | `[]TypeOK` | |
| `AnswersAreOfTheirTime` | `[]AnswersAreCurrent` | |
| `NearestIsShown` | `[]NearestLately` | |

The invariant has one part for each place where a value waits: the store
(`StoreIn`), the walk along a chain (`WalkIn`), the answers (`AnswersIn`) and, for
requests that have done their reset, the shared results (`NodesIn`,
`EntitiesIn`): all are in the histories. Histories only grow while a request is
under way, so that what was in them stays there, and what another request
puts into the shared results after this one's reset it looked up after this
one was seeded. `FindStep` is the one lemma about what a node's value leads to.

`ObjectNamesProofs` and `ProcessorCachesProofs`:

| Theorem | States | Assumes |
|---|---|---|
| `NamesTypeCorrect`, `CachesTypeCorrect` | `[]TypeOK` of each module | |
| `OneFetchAtATime` | `[]OneFetch` | |
| `NoTaskLingers` | `[]EntryHasMaker` | |
| `ServedIsRecent` | `[]IncidentsAreRecent` | |

`TaskHasEntry`, that a task which has not been taken out has its object's entry, is
the converse of `EntryHasMaker`; together they are inductive and give
`OneFetch`, an object having one entry. `TimeInv`: what a file holds was
at most `FetchTime` old when it was written, so that its age may be what `Fresh`
allows, and no more.

`ProcessRequestProofs` proves of `ProcessRequest`, for any number of requests and
incidents, every hierarchy of objects (a circular one too), depth and set of grouping
classes, and everything the store may hold:

| Theorem | States | Assumes |
|---|---|---|
| `RequestsSound` | `[]RequestsOK` | |
| `ProcessTypeCorrect` | `[]TypeOK` | |
| `NoneMissed` | `[]NoIncidentMissed` | |
| `ShownOnce` | `[]EachIncidentOnce` | `ContainersHaveTheirOwnIds` |
| `GroupingsAreForests` | `[]GroupingIsForest` | the same |
| `ActiveUnderActive` | `[]ActiveNotUnderHistory` | the same |
| `OwnersComeFirst` | `[]OwnerFirst` | the same |
| `ContainersHaveTwo` | `[]ContainersHoldTwo` | the same |
| `ClassGroupsHonoured` | `ClassGroupsAreKept` | |

`ContainersHaveTheirOwnIds` says that no incident has the id of a container, for
which `merge.py` has `SYNTH_PREFIX`. The modules assume besides that the objects are
finitely many and their parents objects (`TopologyAssumption`), that every incident
has an object (`EntityAssumption`), that the report's order lists every
incident once (`NewestOrderAssumption`), and that limits and the size of a page
are positive (`LimitAssumption`).

1. *Functions on sequences.* The grouping is computed by recursive functions.
   `CHOOSE`, which is what a recursive function stands for, tells nothing until one is
   known to exist: `ThoseExists`, `NestedExists`, `MergedExists`, `UpExists`,
   `LinkedExists` and `SeededExists` show it, each for its own function, as a
   lemma for all of them would need an operator for a parameter. Induction is done by
   hand for the same reason: `Least` gives the least length at which a statement
   fails, and the step before it holds. So `ThoseElements` says that `Those(seq, S)`
   holds the elements of `seq` in `S`, once if `seq` holds them once.
2. *The merge.* `Sound` has five parts: `Filed` (`children_of` and `parent_of`
   are inverse), `NoCircle`, `NoneUnderHistory`, `ContainersHold`, `Keeps` (the
   owners' groups). `Adopt` keeps each of them if the children it is given are
   `Free`: they have no parent and are no heads. That they are no heads makes
   `NoCircle` inductive: nobody's parent is a new child, so that a circle without the
   new children would be one that was there before. `Adoptable` gives free ones,
   `OwnerGrouping` shows that the owners' groups are sound to begin with, `ClassGroups`
   and `SyntheticGroups` what may be adopted; `ComputeGroupingIsSound` is the end of it.
   What the merge may not leave out is shown by `NestedHolds` and `MergedHolds`, one
   for each of its loops: a step only adds (`Grows`); after the class groups who
   has a parent has it from its owner's group or from its class, and every kid of a
   group that was merged has a place; after the containers one of any two kids
   has. `ClassGroups` and `SyntheticGroups` say whose kid an incident is.
3. *The groups shown.* `SpecsShowEachOnce`: of a `Filed` grouping and rows that
   contain the report, `iter_group_specs` makes groups that show each incident once.
   It does not ask whether the rows have the containers of the grouping, which
   they need not, being computed from another content of the store.
4. *The requests.* `RequestsOK` adds to a sound grouping what the reads have found:
   `NoneLost` says where an incident is that the report has to show. While
   /incidents is read: in the history, in the pages so far, among those moved
   forward, or behind the offset (`Behind`). While the history is read: in what has
   been got, or behind the offset. `InsertedIs` and `RemovedIs` say that an entry
   that comes into a list brings nothing out from behind an offset, and one that goes
   only what stood behind it; `PageIs`, that what stands behind the offset is in the
   next page or behind the next offset, and after the last page beyond the limit.
   `Types` adds `ObjectsOK`: what seeding, chains and
   fetches put into the store are objects with parents that exist.

Every safety invariant and action property of the passing runs is thus stated by
a theorem. Only model-checked are the liveness properties (`PendingIsFlushed`,
`ReadsEnd`, `EveryoneReturns`, `LabelsComeBack`), as the prover has neither
`ENABLED` nor fairness, and the two violations. Two properties are proved that
no run states: `LimitKept`, and `NothingMissed`, what `MissedAtMostCleared` comes
to when nothing is cleared.

## 6. Not modelled, and why

* Two workers on one file. `TicketSync` assumes one: two would share the temporary
  file too (`tickets.py:145`), and nothing in the code orders them.
* The snapshot of the objects on disk and the file of `/paths` answers; the names
  and parents they hold are modelled as the store's (`Seed` of `ObjectNames`).
* Cancelled coroutines: nothing in the code cancels one. `FileCache.invalidate` has
  no caller.
* SAYMON giving fewer records than a page has and there are: it would end a read early.
* `LoggingTicketHandler` and handlers loaded by name from `TICKET_HANDLERS`:
  arbitrary code. One that does not load ends a pass, which `AbortPass` covers.
* Service desks that answer without an id, or with a reference in another form
  than `PluginRefs` says.
* An unreadable tickets file in `Delivery`: its numbers, references and marks would
  be lost and given out again. `TicketSync` has it; what `Delivery` shows, and
  the theorems about it, hold as long as the file can be read.
* The stages of a call to Oracle: connecting, calling, reading the cursor and
  committing are one step with three outcomes, as nothing is kept in between.
* In `ProcessRequest` the incidents cache (`CACHE_TTL_INCIDENTS_SEC`) is taken as
  switched off; `ProcessorCaches` shows how old a cached answer may be.
* `/paths` is asked only for an object SAYMON does not return by itself; every
  object of a `Topology` exists.
* The last resort of `_owner_key`, the owner's name, cannot arise: an owner of an
  `Incident` always has an id.
* `visible_rows`, rendering, logging, macros' syntax, configuration.
* `tests/test_owner_grouping.py:47-55` builds a historical record with owner
  data, which no answer of `/incident-history` has here, as owner data is not
  asked for there.

## 7. Plan

1. `TwoWorkers`: two instances of `TicketSync` over one file and one temporary file,
   as a fault model.
2. `Delivery`: the order of the comments of one incident; tickets whose
   incidents change.
3. `ProcessorCaches`: the files of the object store, dated as a whole.
4. Proofs: what `ClassAncestor` returns, the nearest ancestor of a grouping class.
