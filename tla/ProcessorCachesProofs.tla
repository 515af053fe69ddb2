------------------------ MODULE ProcessorCachesProofs ------------------------
(***************************************************************************)
(* Proofs about ProcessorCaches, for any number of requests, all TTLs and  *)
(* every duration of a read: its types, and how old incidents may be.      *)
(***************************************************************************)
EXTENDS ProcessorCaches, TLAPS

File == [there : BOOLEAN, age : Nat, old : Nat, real : BOOLEAN]

State == [pc : Steps, time : Nat, served : Nat, labelled : BOOLEAN]

(* A read takes its time; what it wrote into the file was no older than that. *)
TimeInv ==
  /\ \A r \in Request : req[r].time <= FetchTime
  /\ files["incidents"].old <= FetchTime

Inv == TypeOK /\ TimeInv /\ IncidentsAreRecent

LEMMA Bounds ==
  /\ IncidentsTTL \in Nat /\ FetchTime \in Nat /\ IncidentsTTL + FetchTime \in Nat
  /\ 0 <= FetchTime /\ 0 <= IncidentsTTL + FetchTime
<1>1. IncidentsTTL \in Nat /\ FetchTime \in Nat
  BY CachesAssumption
<1> QED  BY <1>1

LEMMA InitInv == Init => Inv
<1> SUFFICES ASSUME Init  PROVE Inv
  OBVIOUS
<1>1. /\ Idle \in State /\ NoFile \in File /\ "incidents" \in Names
      /\ Idle.time = 0 /\ Idle.served = 0 /\ NoFile.old = 0
  BY DEF Idle, State, NoFile, File, Steps, Names
<1>2. /\ files = [n \in Names |-> NoFile]
      /\ classes = FALSE
      /\ req = [r \in Request |-> Idle]
  BY DEF Init
<1> QED  BY <1>1, <1>2, Bounds DEF Inv, TypeOK, TimeInv, IncidentsAreRecent, State, File

-----------------------------------------------------------------------------
(***************************************************************************)
(* A request's step: what it makes of the request, and of the files.       *)
(***************************************************************************)
LEMMA RequestStep ==
  ASSUME Inv, NEW r \in Request, NEW q \in State,
         q.time <= FetchTime, q.served <= IncidentsTTL + FetchTime,
         req' = [req EXCEPT ![r] = q], classes' \in BOOLEAN,
         \/ files' = files
         \/ \E name \in Names, old \in Nat, real \in BOOLEAN :
              Set(name, old, real) /\ (name = "incidents" => old <= FetchTime)
  PROVE  Inv'
<1>1. req \in [Request -> State] /\ files \in [Names -> File]
  BY DEF Inv, TypeOK, State, File
<1>2. req' \in [Request -> State]
  BY <1>1
<1>3. /\ files' \in [Names -> File]
      /\ files'["incidents"].old <= FetchTime
  <2>1. CASE files' = files
    BY <1>1, <2>1 DEF Inv, TimeInv
  <2>2. ASSUME NEW name \in Names, NEW old \in Nat, NEW real \in BOOLEAN,
               Set(name, old, real), name = "incidents" => old <= FetchTime
        PROVE  <1>3!:
    <3> DEFINE f == [there |-> TRUE, age |-> 0, old |-> old, real |-> real]
    <3>1. f \in File /\ f.old = old
      BY DEF File
    <3>2. files' = files \/ files' = [files EXCEPT ![name] = f]
      BY <2>2 DEF Set
    <3> HIDE DEF f
    <3>3. "incidents" \in Names
      BY DEF Names
    <3> QED  BY <1>1, <2>2, <3>1, <3>2, <3>3 DEF Inv, TimeInv
  <2> QED  BY <2>1, <2>2
<1>4. \A x \in Request : req'[x].time <= FetchTime /\ req'[x].served <= IncidentsTTL + FetchTime
  BY <1>1 DEF Inv, TimeInv, IncidentsAreRecent
<1> QED  BY <1>2, <1>3, <1>4 DEF Inv, TypeOK, TimeInv, IncidentsAreRecent, State, File

(* What the file of incidents gives, while it counts as fresh. *)
LEMMA FreshIsRecent ==
  ASSUME Inv, Fresh("incidents")
  PROVE  Stale("incidents") \in Nat /\ Stale("incidents") <= IncidentsTTL + FetchTime
<1>1. files["incidents"] \in File
  BY DEF Inv, TypeOK, File, Names
<1>2. files["incidents"].age <= IncidentsTTL /\ files["incidents"].old <= FetchTime
  BY DEF Inv, TimeInv, Fresh, TTL
<1> QED  BY <1>1, <1>2, Bounds DEF Stale, File

LEMMA TickInv ==
  ASSUME Inv, Tick
  PROVE  Inv'
<1>1. req \in [Request -> State] /\ files \in [Names -> File]
  BY DEF Inv, TypeOK, State, File
<1>2. /\ files' \in [Names -> File]
      /\ \A n \in Names : files'[n].old = files[n].old
  <2>1. ASSUME NEW f \in File
        PROVE  [f EXCEPT !.age = @ + 1] \in File /\ [f EXCEPT !.age = @ + 1].old = f.old
    BY DEF File
  <2> QED  BY <1>1, <2>1 DEF Tick
<1>3. /\ req' \in [Request -> State]
      /\ \A r \in Request : /\ req'[r].served = req[r].served
                            /\ req'[r].time <= FetchTime
  <2>1. ASSUME NEW q \in State
        PROVE  /\ [q EXCEPT !.time = @ + 1] \in State
               /\ [q EXCEPT !.time = @ + 1].served = q.served
               /\ [q EXCEPT !.time = @ + 1].time = q.time + 1
    BY DEF State
  <2>2. ASSUME NEW r \in Request
        PROVE  /\ req'[r] \in State
               /\ req'[r].served = req[r].served
               /\ req'[r].time <= FetchTime
    <3>1. req[r] \in State /\ req[r].time \in Nat /\ req[r].time <= FetchTime
      BY <1>1 DEF State, Inv, TimeInv
    <3>2. req'[r] = IF req[r].pc = "fetching" THEN [req[r] EXCEPT !.time = @ + 1] ELSE req[r]
      BY DEF Tick
    <3>3. req[r].pc = "fetching" => req[r].time < FetchTime
      BY DEF Tick
    <3> QED  BY <2>1, <3>1, <3>2, <3>3, Bounds
  <2>3. req' = [r \in Request |-> req'[r]]
    BY DEF Tick
  <2> QED  BY <2>2, <2>3
<1>4. classes' \in BOOLEAN
  BY DEF Tick, Inv, TypeOK
<1>5. "incidents" \in Names
  BY DEF Names
<1> QED  BY <1>2, <1>3, <1>4, <1>5 DEF Inv, TypeOK, TimeInv, IncidentsAreRecent, State, File

LEMMA RunsInv ==
  ASSUME Inv, NEW r \in Request, Runs(r) \/ Fails(r)
  PROVE  Inv'
<1> DEFINE q == req[r]
<1>1. /\ q \in State /\ q.time <= FetchTime /\ q.served <= IncidentsTTL + FetchTime
      /\ classes \in BOOLEAN
  BY DEF Inv, TypeOK, State, TimeInv, IncidentsAreRecent
<1>2. {"incidents", "class_ids", "state_labels"} = Names /\ 0 \in Nat
  BY DEF Names
<1>3. ASSUME NEW pc \in Steps
      PROVE  /\ [q EXCEPT !.pc = pc] \in State
             /\ [q EXCEPT !.pc = pc].time = q.time
             /\ [q EXCEPT !.pc = pc].served = q.served
  BY <1>1 DEF State
<1>4. Idle \in State /\ Idle.time <= FetchTime /\ Idle.served <= IncidentsTTL + FetchTime
  BY Bounds DEF Idle, State, Steps
<1>5. CASE Begin(r)
  <2>1. files' = files /\ classes' = classes
    BY <1>5 DEF Begin
  <2>2. CASE Fresh("incidents") /\ req' = [req EXCEPT ![r].pc = "fetched",
                                                      ![r].served = Stale("incidents")]
    <3> DEFINE n == [q EXCEPT !.pc = "fetched", !.served = Stale("incidents")]
    <3>1. Stale("incidents") \in Nat /\ Stale("incidents") <= IncidentsTTL + FetchTime
      BY <2>2, FreshIsRecent
    <3>2. n \in State /\ n.time = q.time /\ n.served = Stale("incidents")
      BY <1>1, <3>1 DEF State, Steps
    <3>3. req' = [req EXCEPT ![r] = n]
      BY <2>2
    <3> HIDE DEF n
    <3> QED  BY <1>1, <2>1, <3>1, <3>2, <3>3, RequestStep
  <2>3. CASE req' = [req EXCEPT ![r].pc = "fetching"]
    BY <1>1, <1>3, <2>1, <2>3, RequestStep DEF Steps
  <2> QED  BY <1>5, <2>2, <2>3 DEF Begin
<1>6. CASE Incidents(r)
  <2> DEFINE n == [q EXCEPT !.pc = "fetched", !.time = 0, !.served = q.time]
  <2> HIDE DEF q
  <2>1. q.time \in Nat
    BY <1>1 DEF State
  <2>2. q.time <= IncidentsTTL + FetchTime
    BY <1>1, <2>1, Bounds
  <2>3. n \in State /\ n.time = 0 /\ n.served = q.time
    BY <1>1, <2>1 DEF State, Steps
  <2>4. req' = [req EXCEPT ![r] = n] /\ classes' = classes /\ Set("incidents", q.time, TRUE)
    BY <1>6 DEF Incidents, q
  <2> HIDE DEF n
  <2> QED  BY <1>1, <1>2, <2>1, <2>2, <2>3, <2>4, Bounds, RequestStep
<1>7. CASE Classes(r)
  <2>1. files' = files /\ classes' \in BOOLEAN
    BY <1>1, <1>7 DEF Classes
  <2>2. \E pc \in Steps : req' = [req EXCEPT ![r].pc = pc]
    BY <1>7 DEF Classes, Steps
  <2> QED  BY <1>1, <1>3, <2>1, <2>2, RequestStep
<1>8. CASE ClassIds(r)
  <2>1. /\ req' = [req EXCEPT ![r].pc = "grouped"] /\ "grouped" \in Steps
        /\ classes' \in BOOLEAN /\ Set("class_ids", 0, TRUE)
    BY <1>8 DEF ClassIds, Steps
  <2> QED  BY <1>1, <1>2, <1>3, <2>1, RequestStep
<1>9. ASSUME NEW answered \in BOOLEAN, NEW pc \in Steps
      PROVE  LET n == [q EXCEPT !.pc = pc, !.labelled = answered]
             IN  n \in State /\ n.time = q.time /\ n.served = q.served
  BY <1>1 DEF State
<1>10. CASE Labels(r)
  <2>1. files' = files /\ classes' = classes /\ files["state_labels"].real \in BOOLEAN
    BY <1>10, <1>2 DEF Labels, Inv, TypeOK
  <2>2. CASE req' = [req EXCEPT ![r].pc = "done", ![r].labelled = files["state_labels"].real]
    <3> DEFINE n == [q EXCEPT !.pc = "done", !.labelled = files["state_labels"].real]
    <3>1. n \in State /\ n.time = q.time /\ n.served = q.served
      BY <1>9, <2>1 DEF Steps
    <3>2. req' = [req EXCEPT ![r] = n]
      BY <2>2
    <3> HIDE DEF n
    <3> QED  BY <1>1, <2>1, <3>1, <3>2, RequestStep
  <2>3. CASE req' = [req EXCEPT ![r].pc = "labelling"]
    BY <1>1, <1>3, <2>1, <2>3, RequestStep DEF Steps
  <2> QED  BY <1>10, <2>2, <2>3 DEF Labels
<1>11. ASSUME NEW answered \in BOOLEAN, Levels(r, answered)  PROVE Inv'
  <2> DEFINE n == [q EXCEPT !.pc = "done", !.labelled = answered]
  <2>1. n \in State /\ n.time = q.time /\ n.served = q.served
    BY <1>9 DEF Steps
  <2>2. req' = [req EXCEPT ![r] = n] /\ classes' = classes /\ Set("state_labels", 0, answered)
    BY <1>11 DEF Levels
  <2> HIDE DEF n
  <2> QED  BY <1>1, <1>2, <2>1, <2>2, RequestStep
<1>12. CASE Respond(r) \/ Refused(r)
  <2>1. req' = [req EXCEPT ![r] = Idle] /\ files' = files /\ classes' = classes
    BY <1>12 DEF Respond, Refused
  <2> QED  BY <1>1, <1>4, <2>1, RequestStep
<1> QED  BY <1>5, <1>6, <1>7, <1>8, <1>10, <1>11, <1>12 DEF Runs, Fails

LEMMA NextInv ==
  ASSUME Inv, [Next]_vars
  PROVE  Inv'
<1>1. ASSUME Tick  PROVE Inv'
  BY <1>1, TickInv
<1>2. ASSUME Restart  PROVE Inv'
  BY <1>2, Bounds
     DEF Restart, Idle, Inv, TypeOK, TimeInv, IncidentsAreRecent, Steps
<1>3. ASSUME NEW r \in Request, Runs(r) \/ Fails(r)  PROVE Inv'
  BY <1>3, RunsInv
<1>4. CASE UNCHANGED vars
  BY <1>4 DEF vars, Inv, TypeOK, TimeInv, IncidentsAreRecent
<1> QED  BY <1>1, <1>2, <1>3, <1>4 DEF Next

LEMMA AlwaysInv == Spec => []Inv
BY InitInv, NextInv, PTL DEF Spec

-----------------------------------------------------------------------------
(* The files, the class ids and the requests hold what they can hold. *)
THEOREM CachesTypeCorrect == Spec => []TypeOK
<1>1. Inv => TypeOK
  BY DEF Inv
<1> QED  BY <1>1, AlwaysInv, PTL

(***************************************************************************)
(* No request is served incidents older than the TTL of their file and the *)
(* time of one read, whoever wrote the file (fetch_incidents).             *)
(***************************************************************************)
THEOREM ServedIsRecent == Spec => []IncidentsAreRecent
<1>1. Inv => IncidentsAreRecent
  BY DEF Inv
<1> QED  BY <1>1, AlwaysInv, PTL
=============================================================================
