--------------------------- MODULE ProcessorCaches ---------------------------
(***************************************************************************)
(* What requests to the API keep for each other and for the next start of  *)
(* the server: the files of cache/file_cache.py, each with the time it was *)
(* written, for incidents, class ids and state labels, and the class ids   *)
(* in memory (services/processor.py).                                      *)
(*                                                                         *)
(* Time passes in ticks.  Instead of times there are ages, in ticks, which *)
(* stop growing where no comparison tells them apart any more.             *)
(***************************************************************************)
EXTENDS Naturals

CONSTANTS
  Request,       \* requests that may be under way at once
  IncidentsTTL,  \* cache_ttl_incidents_sec
  ClassesTTL,    \* cache_ttl_class_ids_sec
  LabelsTTL,     \* cache_ttl_state_labels_sec
  FetchTime      \* the ticks a read of the incidents takes at most

ASSUME CachesAssumption ==
  {IncidentsTTL, ClassesTTL, LabelsTTL, FetchTime} \subseteq Nat

VARIABLES
  files,    \* the cache directory: what was written under each name, and how long ago
  classes,  \* AlarmProcessor._class_ids: whether they are known
  req       \* the requests

vars == <<files, classes, req>>

Names == {"incidents", "class_ids", "state_labels"}

TTL == [incidents |-> IncidentsTTL, class_ids |-> ClassesTTL, state_labels |-> LabelsTTL]

(***************************************************************************)
(* A file: whether there is one, how long ago it was written, how old its  *)
(* content was then, and whether it is what SAYMON answered or a table     *)
(* left empty because it did not.                                          *)
(***************************************************************************)
NoFile == [there |-> FALSE, age |-> 0, old |-> 0, real |-> FALSE]

(* time: how long a read of the incidents has taken; served: how old what  *)
(* the request got was then; labelled: whether it got labels.              *)
Idle == [pc |-> "idle", time |-> 0, served |-> 0, labelled |-> FALSE]

Init ==
  /\ files = [n \in Names |-> NoFile]
  /\ classes = FALSE
  /\ req = [r \in Request |-> Idle]

-----------------------------------------------------------------------------
(***************************************************************************)
(* FileCache.get and set.  A file may turn out to be unreadable, which     *)
(* counts as none; one that cannot be written stays as it was.             *)
(***************************************************************************)
(* As it would be if the age of what is found were not looked at. *)
PresentFile(name) == files[name].there

Fresh(name) == TTL[name] > 0 /\ files[name].there /\ files[name].age <= TTL[name]

Set(name, old, real) ==
  files' \in {files, [files EXCEPT ![name] = [there |-> TRUE, age |-> 0, old |-> old, real |-> real]]}

-----------------------------------------------------------------------------
(***************************************************************************)
(* fetch_incidents: from the file, or from SAYMON.                         *)
(***************************************************************************)
Stale(name) == files[name].age + files[name].old

(* As it would be if what is found were written again. *)
BeginAndKeep(r) ==
  /\ req[r].pc = "idle"
  /\ IF Fresh("incidents")
     THEN /\ req' = [req EXCEPT ![r].pc = "fetched", ![r].served = Stale("incidents")]
          /\ files' = [files EXCEPT !["incidents"].age = 0, !["incidents"].old = Stale("incidents")]
     ELSE /\ req' = [req EXCEPT ![r].pc = "fetching"]
          /\ files' = files
  /\ UNCHANGED classes

Begin(r) ==
  /\ req[r].pc = "idle"
  /\ \/ /\ Fresh("incidents")
        /\ req' = [req EXCEPT ![r].pc = "fetched", ![r].served = Stale("incidents")]
     \/ req' = [req EXCEPT ![r].pc = "fetching"]
  /\ UNCHANGED <<files, classes>>

Incidents(r) ==
  /\ req[r].pc = "fetching"
  /\ req' = [req EXCEPT ![r].pc = "fetched", ![r].time = 0, ![r].served = req[r].time]
  /\ Set("incidents", req[r].time, TRUE)
  /\ UNCHANGED classes

-----------------------------------------------------------------------------
(***************************************************************************)
(* get_class_ids: from memory, the file, or SAYMON.                        *)
(***************************************************************************)
Classes(r) ==
  /\ req[r].pc = "fetched"
  /\ \/ /\ classes \/ Fresh("class_ids")
        /\ classes' = TRUE
        /\ req' = [req EXCEPT ![r].pc = "grouped"]
     \/ /\ ~ classes
        /\ req' = [req EXCEPT ![r].pc = "classing"]
        /\ UNCHANGED classes
  /\ UNCHANGED files

ClassIds(r) ==
  /\ req[r].pc = "classing"
  /\ classes' = TRUE
  /\ req' = [req EXCEPT ![r].pc = "grouped"]
  /\ Set("class_ids", 0, TRUE)

(***************************************************************************)
(* get_state_labels: what fails is an empty table, which is kept too.      *)
(***************************************************************************)
Labels(r) ==
  /\ req[r].pc = "grouped"
  /\ \/ /\ Fresh("state_labels")
        /\ req' = [req EXCEPT ![r].pc = "done", ![r].labelled = files["state_labels"].real]
     \/ req' = [req EXCEPT ![r].pc = "labelling"]
  /\ UNCHANGED <<files, classes>>

Levels(r, answered) ==
  /\ req[r].pc = "labelling"
  /\ req' = [req EXCEPT ![r].pc = "done", ![r].labelled = answered]
  /\ Set("state_labels", 0, answered)
  /\ UNCHANGED classes

-----------------------------------------------------------------------------
(* What SAYMON refuses but the labels ends the request with an exception. *)
Refused(r) ==
  /\ req[r].pc \in {"fetching", "classing"}
  /\ req' = [req EXCEPT ![r] = Idle]
  /\ UNCHANGED <<files, classes>>

Respond(r) ==
  /\ req[r].pc = "done"
  /\ req' = [req EXCEPT ![r] = Idle]
  /\ UNCHANGED <<files, classes>>

(* The server is stopped and started again. *)
Restart ==
  /\ classes' = FALSE
  /\ req' = [r \in Request |-> Idle]
  /\ UNCHANGED files

(* Each request to SAYMON has a timeout, so a read of so many pages has one. *)
Tick ==
  /\ \A r \in Request : req[r].pc = "fetching" => req[r].time < FetchTime
  /\ files' = [n \in Names |-> IF files[n].there /\ files[n].age <= TTL[n]
                              THEN [files[n] EXCEPT !.age = @ + 1] ELSE files[n]]
  /\ req' = [r \in Request |-> IF req[r].pc = "fetching" THEN [req[r] EXCEPT !.time = @ + 1]
                              ELSE req[r]]
  /\ UNCHANGED classes

Runs(r) ==
  \/ Begin(r)
  \/ Incidents(r)
  \/ Classes(r)
  \/ ClassIds(r)
  \/ Labels(r)
  \/ Levels(r, TRUE)
  \/ Respond(r)

Fails(r) == Refused(r) \/ Levels(r, FALSE)

Next ==
  \/ Tick
  \/ Restart
  \/ \E r \in Request : Runs(r) \/ Fails(r)

Spec == Init /\ [][Next]_vars

(***************************************************************************)
(* Time passes; requests get on, as no request to SAYMON takes for ever,   *)
(* and are made again and again by a worker that polls.                    *)
(***************************************************************************)
FairSpec == Spec /\ SF_vars(Tick) /\ \A r \in Request : WF_vars(Runs(r))

-----------------------------------------------------------------------------
(***************************************************************************)
(* Properties.                                                             *)
(***************************************************************************)

Steps == {"idle", "fetching", "fetched", "classing", "grouped", "labelling", "done"}

(* The variables hold what the files and the requests can hold. *)
TypeOK ==
  /\ files \in [Names -> [there : BOOLEAN, age : Nat, old : Nat, real : BOOLEAN]]
  /\ classes \in BOOLEAN
  /\ req \in [Request -> [pc : Steps, time : Nat, served : Nat, labelled : BOOLEAN]]

(***************************************************************************)
(* However requests overwrite each other's file, a request gets incidents  *)
(* no older than the TTL and the time a read takes.                        *)
(***************************************************************************)
IncidentsAreRecent == \A r \in Request : req[r].served <= IncidentsTTL + FetchTime

(***************************************************************************)
(* An outage of SAYMON, however long, leaves an empty table of labels that *)
(* is not kept for good: once it answers again, labels come back.          *)
(***************************************************************************)
Undisturbed == ~ Restart /\ \A r \in Request : ~ Fails(r)

LabelsComeBack ==
  <>[][Undisturbed]_vars => []<>(\E r \in Request : req[r].pc = "done" /\ req[r].labelled)
=============================================================================
