-------------------------- MODULE ObjectNamesProofs --------------------------
(***************************************************************************)
(* Proofs about ObjectNames, for any number of coroutines and objects, and *)
(* whatever SAYMON answers: its types, that an object is asked for by one  *)
(* task at a time, and that no task outlasts the lookup that made it.      *)
(***************************************************************************)
EXTENDS ObjectNames, TLAPS

(* A coroutine that waits for no one has no lookup; who has a task is not idle. *)
CallInv == \A c \in Caller : call[c].pc = "idle" => call[c].of = NoCaller

(* A task is in _name_inflight under its object, as long as there is one. *)
TaskHasEntry ==
  \A c \in Caller : task[c].pc # "none" => call[c].of = c /\ entry[task[c].obj] = c

Inv == TypeOK /\ CallInv /\ TaskHasEntry /\ EntryHasMaker

LEMMA InitInv == Init => Inv
BY NamesAssumption
   DEF Init, Inv, TypeOK, CallInv, TaskHasEntry, EntryHasMaker, NoCall, Results

-----------------------------------------------------------------------------
(***************************************************************************)
(* The steps, one lemma for each that does more than change the store.     *)
(***************************************************************************)
LEMMA AskInv ==
  ASSUME Inv, NEW c \in Caller, NEW o \in Object, Ask(c, o)
  PROVE  Inv'
<1> USE DEF Inv, TypeOK
<1>1. store' = store /\ missed' = missed /\ call[c].pc = "idle" /\ call[c].of = NoCaller
  BY DEF Ask, CallInv
<1>2. task[c].pc = "none"
  BY <1>1, NamesAssumption DEF TaskHasEntry
<1>3. CASE entry[o] = NoCaller
  <2>1. /\ entry' = [entry EXCEPT ![o] = c]
        /\ task'  = [task EXCEPT ![c] = [pc |-> "new", obj |-> o, result |-> "none"]]
        /\ call' = [call EXCEPT ![c] = [pc |-> "awaiting", of |-> c, result |-> "none"]]
    BY <1>3 DEF Ask, Create, Awaits
  <2>2. TypeOK'
    BY <1>1, <2>1 DEF Results
  <2>3. CallInv' /\ TaskHasEntry'
    BY <1>1, <1>3, <2>1, NamesAssumption DEF CallInv, TaskHasEntry
  <2>4. EntryHasMaker'
    BY <1>1, <1>2, <1>3, <2>1, NamesAssumption DEF EntryHasMaker
  <2> QED  BY <2>2, <2>3, <2>4
<1>4. CASE entry[o] # NoCaller
  <2>1. /\ entry' = entry /\ task' = task
        /\ \E pc \in {"awaiting", "woken"}, result \in Results :
             call' = [call EXCEPT ![c] = [pc |-> pc, of |-> entry[o], result |-> result]]
    BY <1>4 DEF Ask, Awaits, Results
  <2>2. \A x \in Object : entry[x] # c
    BY <1>1, NamesAssumption DEF EntryHasMaker
  <2>3. TypeOK' /\ CallInv'
    BY <1>1, <1>4, <2>1 DEF CallInv
  <2>4. TaskHasEntry' /\ EntryHasMaker'
    BY <1>1, <1>2, <2>1, <2>2 DEF TaskHasEntry, EntryHasMaker
  <2> QED  BY <2>3, <2>4
<1> QED  BY <1>3, <1>4

(* A task that ends or goes on stays where it is, and nobody's lookup changes its task. *)
LEMMA TaskStep ==
  ASSUME Inv, NEW c \in Caller, task[c].pc # "none", entry' = entry,
         store' \in [Object -> [named : BOOLEAN, full : BOOLEAN]], missed' \subseteq Object,
         \/ \E result \in Results : Finish(c, result)
         \/ \E pc \in {"object", "paths"} : GoOn(c, pc)
  PROVE  Inv'
<1> USE DEF Inv, TypeOK
<1> DEFINE Calls == [pc : {"idle", "awaiting", "woken"}, of : Caller \cup {NoCaller},
                     result : Results]
           Tasks == [pc : {"none", "new", "object", "paths", "ended"}, obj : Object,
                     result : Results]
<1>1. \E n \in Tasks : n.pc # "none" /\ n.obj = task[c].obj /\ task' = [task EXCEPT ![c] = n]
  <2>1. task[c] \in Tasks
    OBVIOUS
  <2>2. ASSUME NEW result \in Results, Finish(c, result)
        PROVE  \E n \in Tasks : n.pc # "none" /\ n.obj = task[c].obj /\ task' = [task EXCEPT ![c] = n]
    <3> DEFINE n == [task[c] EXCEPT !.pc = "ended", !.result = result]
    <3>1. n \in Tasks /\ n.pc # "none" /\ n.obj = task[c].obj
      BY <2>1
    <3>2. task' = [task EXCEPT ![c] = n]
      BY <2>2 DEF Finish
    <3> QED  BY <3>1, <3>2
  <2>3. ASSUME NEW pc \in {"object", "paths"}, GoOn(c, pc)
        PROVE  \E n \in Tasks : n.pc # "none" /\ n.obj = task[c].obj /\ task' = [task EXCEPT ![c] = n]
    <3> DEFINE n == [task[c] EXCEPT !.pc = pc]
    <3>1. n \in Tasks /\ n.pc # "none" /\ n.obj = task[c].obj
      BY <2>1
    <3>2. task' = [task EXCEPT ![c] = n]
      BY <2>3 DEF GoOn
    <3> QED  BY <3>1, <3>2
  <2> QED  BY <2>2, <2>3
<1>2. /\ call' \in [Caller -> Calls]
      /\ \A d \in Caller : call'[d].of = call[d].of /\ (call'[d].pc = "idle" => call[d].pc = "idle")
  <2>1. ASSUME NEW result \in Results, Finish(c, result)
        PROVE  <1>2!:
    <3>1. call' = [d \in Caller |->
                     IF call[d].pc = "awaiting" /\ call[d].of = c
                     THEN [call[d] EXCEPT !.pc = "woken", !.result = result]
                     ELSE call[d]]
      BY <2>1 DEF Finish
    <3>2. ASSUME NEW n \in Calls
          PROVE  /\ [n EXCEPT !.pc = "woken", !.result = result] \in Calls
                 /\ [n EXCEPT !.pc = "woken", !.result = result].of = n.of
                 /\ [n EXCEPT !.pc = "woken", !.result = result].pc = "woken"
      OBVIOUS
    <3>3. \A d \in Caller : call[d] \in Calls
      OBVIOUS
    <3> HIDE DEF Calls
    <3> QED  BY <3>1, <3>2, <3>3
  <2>2. CASE \E pc \in {"object", "paths"} : GoOn(c, pc)
    BY <2>2 DEF GoOn
  <2> QED  BY <2>1, <2>2
<1>3. /\ task' \in [Caller -> Tasks]
      /\ \A d \in Caller : task'[d].obj = task[d].obj /\ (task'[d].pc = "none" <=> task[d].pc = "none")
  <2> HIDE DEF Tasks
  <2>1. task \in [Caller -> Tasks]
    BY DEF Tasks
  <2> QED  BY <1>1, <2>1
<1> QED  BY <1>2, <1>3 DEF CallInv, TaskHasEntry, EntryHasMaker

LEMMA ReturnInv ==
  ASSUME Inv, NEW c \in Caller, Return(c)
  PROVE  Inv'
<1> USE DEF Inv, TypeOK
<1>1. store' = store /\ missed' = missed /\ call' = [call EXCEPT ![c] = NoCall]
  BY DEF Return
<1>2. CASE call[c].of = c
  <2>1. /\ entry' = IF entry[task[c].obj] = c THEN [entry EXCEPT ![task[c].obj] = NoCaller]
                    ELSE entry
        /\ task' = [task EXCEPT ![c].pc = "none", ![c].result = "none"]
    BY <1>2 DEF Return
  <2>2. \A o \in Object : entry[o] = c => o = task[c].obj
    BY NamesAssumption DEF EntryHasMaker
  <2>3. \A o \in Object : entry'[o] # c /\ (entry[o] # c => entry'[o] = entry[o])
    BY <2>1, <2>2, NamesAssumption
  <2>4. TypeOK' /\ CallInv'
    BY <1>1, <2>1, NamesAssumption DEF CallInv, NoCall, Results
  <2>5. TaskHasEntry'
    BY <1>1, <2>1, <2>3 DEF TaskHasEntry
  <2>6. EntryHasMaker'
    <3> SUFFICES ASSUME NEW o \in Object, entry'[o] # NoCaller
                 PROVE  /\ call'[entry'[o]].of = entry'[o]
                        /\ task'[entry'[o]].obj = o
                        /\ task'[entry'[o]].pc # "none"
      BY DEF EntryHasMaker
    <3>1. entry'[o] = entry[o] /\ entry[o] # c
      BY <2>1, <2>2, <2>3
    <3> QED  BY <1>1, <2>1, <3>1 DEF EntryHasMaker
  <2> QED  BY <2>4, <2>5, <2>6
<1>3. CASE call[c].of # c
  <2>1. entry' = entry /\ task' = task
    BY <1>3 DEF Return
  <2>2. task[c].pc = "none" /\ \A o \in Object : entry[o] # c
    BY <1>3, NamesAssumption DEF TaskHasEntry, EntryHasMaker
  <2> QED  BY <1>1, <2>1, <2>2, NamesAssumption
           DEF CallInv, TaskHasEntry, EntryHasMaker, NoCall, Results
<1> QED  BY <1>2, <1>3

LEMMA NextInv ==
  ASSUME Inv, [Next]_vars
  PROVE  Inv'
<1>1. ASSUME NEW o \in Object, Seed(o)  PROVE Inv'
  BY <1>1 DEF Seed, Inv, TypeOK, CallInv, TaskHasEntry, EntryHasMaker
<1>2. ASSUME NEW c \in Caller, NEW o \in Object, Ask(c, o)  PROVE Inv'
  BY <1>2, AskInv
<1>3. ASSUME NEW c \in Caller, Start(c)  PROVE Inv'
  <2>1. entry' = entry /\ store' = store /\ missed' = missed /\ task[c].pc # "none"
    BY <1>3 DEF Start
  <2>2. Finish(c, "name") \/ GoOn(c, "object")
    BY <1>3 DEF Start
  <2> QED  BY <2>1, <2>2, TaskStep DEF Inv, TypeOK, Results
<1>4. ASSUME NEW c \in Caller, ObjectAnswer(c)  PROVE Inv'
  <2>1. entry' = entry /\ missed' = missed /\ task[c].pc # "none"
    BY <1>4 DEF ObjectAnswer
  <2>2. store' \in [Object -> [named : BOOLEAN, full : BOOLEAN]]
    BY <1>4 DEF ObjectAnswer, Inv, TypeOK
  <2>3. \/ Finish(c, "failed") \/ Finish(c, "name") \/ Finish(c, "id")
        \/ GoOn(c, "paths")
    BY <1>4 DEF ObjectAnswer
  <2> QED  BY <2>1, <2>2, <2>3, TaskStep DEF Inv, TypeOK, Results
<1>5. ASSUME NEW c \in Caller, PathsAnswer(c)  PROVE Inv'
  <2>1. entry' = entry /\ task[c].pc # "none" /\ task[c].obj \in Object
    BY <1>5 DEF PathsAnswer, Inv, TypeOK
  <2>2. store' \in [Object -> [named : BOOLEAN, full : BOOLEAN]] /\ missed' \subseteq Object
    BY <1>5, <2>1 DEF PathsAnswer, Inv, TypeOK
  <2>3. Finish(c, "failed") \/ Finish(c, "name") \/ Finish(c, "id")
    BY <1>5 DEF PathsAnswer
  <2> QED  BY <2>1, <2>2, <2>3, TaskStep DEF Results
<1>6. ASSUME NEW c \in Caller, Return(c)  PROVE Inv'
  BY <1>6, ReturnInv
<1>7. CASE UNCHANGED vars
  BY <1>7 DEF vars, Inv, TypeOK, CallInv, TaskHasEntry, EntryHasMaker
<1> QED  BY <1>1, <1>2, <1>3, <1>4, <1>5, <1>6, <1>7 DEF Next, Runs

LEMMA AlwaysInv == Spec => []Inv
BY InitInv, NextInv, PTL DEF Spec

-----------------------------------------------------------------------------
(* The store, the table of tasks and the coroutines hold what they can hold. *)
THEOREM NamesTypeCorrect == Spec => []TypeOK
<1>1. Inv => TypeOK
  BY DEF Inv
<1> QED  BY <1>1, AlwaysInv, PTL

(***************************************************************************)
(* However many coroutines need the name of an object, one task at a time  *)
(* asks SAYMON for it (resolve_object_name).                               *)
(***************************************************************************)
THEOREM OneFetchAtATime == Spec => []OneFetch
<1>1. Inv => OneFetch
  BY DEF Inv, TaskHasEntry, OneFetch, Fetching
<1> QED  BY <1>1, AlwaysInv, PTL

(***************************************************************************)
(* What is in _name_inflight belongs to a lookup that is still under way:  *)
(* the finally of the coroutine that made it removes it, in any outcome.   *)
(***************************************************************************)
THEOREM NoTaskLingers == Spec => []EntryHasMaker
<1>1. Inv => EntryHasMaker
  BY DEF Inv
<1> QED  BY <1>1, AlwaysInv, PTL
=============================================================================
