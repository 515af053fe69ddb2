----------------------------- MODULE ObjectNames -----------------------------
(***************************************************************************)
(* Names of objects (ObjectStore.resolve_object_name): the coroutines that *)
(* need the name of one object share one task that asks SAYMON for it.     *)
(* The task is in _name_inflight until the coroutine that made it goes on; *)
(* each coroutine is woken by itself.  A task that fails fails all of them. *)
(***************************************************************************)
EXTENDS Naturals

CONSTANTS
  Caller,  \* coroutines, each with at most one lookup at a time
  Object,  \* ids of objects
  NoCaller

ASSUME NamesAssumption == NoCaller \notin Caller

VARIABLES
  store,   \* ObjectStore._objects: whether the name is known, and all the rest
  missed,  \* ObjectStore._paths_miss
  entry,   \* _name_inflight: who made the task for each object, or NoCaller
  call,    \* each coroutine: what it looks up and whose task it waits for
  task     \* the task each coroutine has made

vars == <<store, missed, entry, call, task>>

NoCall == [pc |-> "idle", of |-> NoCaller, result |-> "none"]

Init ==
  /\ store \in [Object -> [named : BOOLEAN, full : BOOLEAN]]
  /\ missed = {}
  /\ entry = [o \in Object |-> NoCaller]
  /\ call = [c \in Caller |-> NoCall]
  /\ task \in [Caller -> [pc : {"none"}, obj : Object, result : {"none"}]]

-----------------------------------------------------------------------------
(***************************************************************************)
(* What else changes the store: incidents are read and seed it, chains are *)
(* fetched.  An owner whose name is only its id takes a name away.         *)
(***************************************************************************)
Seed(o) ==
  /\ \E n \in [named : BOOLEAN, full : BOOLEAN] : store' = [store EXCEPT ![o] = n]
  /\ UNCHANGED <<missed, entry, call, task>>

(***************************************************************************)
(* A coroutine needs a name the store does not have: it waits for the task *)
(* there is, or takes its result if it has ended, or makes one.            *)
(***************************************************************************)
Awaits(c, d) == call' = [call EXCEPT ![c] = [pc |-> "awaiting", of |-> d, result |-> "none"]]

Create(c, o) ==
  /\ entry' = [entry EXCEPT ![o] = c]
  /\ task'  = [task EXCEPT ![c] = [pc |-> "new", obj |-> o, result |-> "none"]]
  /\ Awaits(c, c)

(* As it would be if each made a task of its own. *)
AskForItself(c, o) ==
  /\ call[c].pc = "idle"
  /\ ~ store[o].named
  /\ Create(c, o)
  /\ UNCHANGED <<store, missed>>

Ask(c, o) ==
  /\ call[c].pc = "idle"
  /\ ~ store[o].named
  /\ IF entry[o] = NoCaller THEN Create(c, o)
     ELSE /\ IF task[entry[o]].pc = "ended"
             THEN call' = [call EXCEPT ![c] = [pc |-> "woken", of |-> entry[o],
                                               result |-> task[entry[o]].result]]
             ELSE Awaits(c, entry[o])
          /\ UNCHANGED <<entry, task>>
  /\ UNCHANGED <<store, missed>>

-----------------------------------------------------------------------------
(***************************************************************************)
(* _resolve_object_name_impl, the task of c.                               *)
(***************************************************************************)
(* As it would be if a failure woke nobody but the task's maker. *)
FinishForMaker(c, result) ==
  /\ task' = [task EXCEPT ![c].pc = "ended", ![c].result = result]
  /\ call' = [d \in Caller |->
                IF call[d].pc = "awaiting" /\ call[d].of = c /\ (result # "failed" \/ c = d)
                THEN [call[d] EXCEPT !.pc = "woken", !.result = result]
                ELSE call[d]]

Finish(c, result) ==
  /\ task' = [task EXCEPT ![c].pc = "ended", ![c].result = result]
  /\ call' = [d \in Caller |->
                IF call[d].pc = "awaiting" /\ call[d].of = c
                THEN [call[d] EXCEPT !.pc = "woken", !.result = result]
                ELSE call[d]]

GoOn(c, pc) ==
  /\ task' = [task EXCEPT ![c].pc = pc]
  /\ UNCHANGED call

(* fetch_object_full asks only for what the store lacks. *)
Start(c) ==
  LET n == store[task[c].obj]
  IN  /\ task[c].pc = "new"
      /\ IF n.named /\ n.full THEN Finish(c, "name") ELSE GoOn(c, "object")
      /\ UNCHANGED <<store, missed, entry>>

(* SAYMON answers with an object, with 404, or not at all. *)
ObjectAnswer(c) ==
  LET o == task[c].obj
  IN  /\ task[c].pc = "object"
      /\ \/ /\ Finish(c, "failed")
            /\ UNCHANGED store
         \/ \E n \in [named : BOOLEAN, full : BOOLEAN] :
              /\ store[o].named => n.named
              /\ store' = [store EXCEPT ![o] = n]
              /\ IF n.named THEN Finish(c, "name")
                 ELSE IF o \in missed THEN Finish(c, "id")
                 ELSE GoOn(c, "paths")
      /\ UNCHANGED <<missed, entry>>

(* _fetch_paths_and_cache: with 404 the paths are not asked for again. *)
PathsAnswer(c) ==
  LET o == task[c].obj
  IN  /\ task[c].pc = "paths"
      /\ \/ /\ Finish(c, "failed")
            /\ UNCHANGED <<store, missed>>
         \/ \E n \in [named : BOOLEAN, full : BOOLEAN] :
              /\ store[o].named => n.named
              /\ store' = [store EXCEPT ![o] = n]
              /\ missed' \in IF n = store[o] THEN {missed, missed \cup {o}} ELSE {missed}
              /\ Finish(c, IF n.named THEN "name" ELSE "id")
      /\ UNCHANGED entry

-----------------------------------------------------------------------------
(***************************************************************************)
(* A coroutine goes on with the result, or the exception; the one that     *)
(* made the task takes it out of _name_inflight, if it is still there.     *)
(***************************************************************************)
(* As it would be if an exception were not caught by a finally. *)
ReturnIfNamed(c) ==
  LET o == task[c].obj
  IN  /\ call[c].pc = "woken"
      /\ call' = [call EXCEPT ![c] = NoCall]
      /\ IF call[c].of = c
         THEN /\ entry' = IF entry[o] = c /\ call[c].result # "failed"
                          THEN [entry EXCEPT ![o] = NoCaller] ELSE entry
              /\ task' = task
         ELSE UNCHANGED <<entry, task>>
      /\ UNCHANGED <<store, missed>>

Return(c) ==
  LET o == task[c].obj
  IN  /\ call[c].pc = "woken"
      /\ call' = [call EXCEPT ![c] = NoCall]
      /\ IF call[c].of = c
         THEN /\ entry' = IF entry[o] = c THEN [entry EXCEPT ![o] = NoCaller] ELSE entry
              /\ task' = [task EXCEPT ![c].pc = "none", ![c].result = "none"]
         ELSE UNCHANGED <<entry, task>>
      /\ UNCHANGED <<store, missed>>

Runs(c) == Start(c) \/ ObjectAnswer(c) \/ PathsAnswer(c) \/ Return(c)

Next ==
  \/ \E o \in Object : Seed(o)
  \/ \E c \in Caller : (\E o \in Object : Ask(c, o)) \/ Runs(c)

Spec == Init /\ [][Next]_vars

FairSpec == Spec /\ \A c \in Caller : WF_vars(Start(c)) /\ WF_vars(ObjectAnswer(c))
                                      /\ WF_vars(PathsAnswer(c)) /\ WF_vars(Return(c))

-----------------------------------------------------------------------------
(***************************************************************************)
(* Properties.                                                             *)
(***************************************************************************)

Results == {"none", "name", "id", "failed"}

(* The variables hold what the store and the coroutines can hold. *)
TypeOK ==
  /\ store \in [Object -> [named : BOOLEAN, full : BOOLEAN]]
  /\ missed \subseteq Object
  /\ entry \in [Object -> Caller \cup {NoCaller}]
  /\ call \in [Caller -> [pc : {"idle", "awaiting", "woken"}, of : Caller \cup {NoCaller},
                          result : Results]]
  /\ task \in [Caller -> [pc : {"none", "new", "object", "paths", "ended"}, obj : Object,
                          result : Results]]

Fetching(c) == task[c].pc \in {"new", "object", "paths"}

(***************************************************************************)
(* However coroutines come and go, no object is asked for twice at a time. *)
(***************************************************************************)
OneFetch ==
  \A c, d \in Caller : Fetching(c) /\ Fetching(d) /\ task[c].obj = task[d].obj => c = d

(***************************************************************************)
(* A task does not outlast the lookup that made it, whatever it ended in:  *)
(* a failure is shared by those who were waiting, and not by later ones.   *)
(***************************************************************************)
EntryHasMaker ==
  \A o \in Object : entry[o] # NoCaller =>
    /\ call[entry[o]].of = entry[o]
    /\ task[entry[o]].obj = o
    /\ task[entry[o]].pc # "none"

(***************************************************************************)
(* Every coroutine that waits for a name gets on: also those that joined a *)
(* task late, that wait for one that fails, or whose maker is gone first.  *)
(***************************************************************************)
EveryoneReturns == \A c \in Caller : call[c].pc # "idle" ~> call[c].pc = "idle"
=============================================================================
