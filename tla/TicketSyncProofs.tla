------------------------- MODULE TicketSyncProofs -------------------------
(***************************************************************************)
(* Proofs about TicketSync: for every set of incidents, every set of       *)
(* reports and every number of tickets.                                    *)
(***************************************************************************)
EXTENDS TicketSync, TLAPS

-----------------------------------------------------------------------------
(***************************************************************************)
(* Dictionaries and lookups.                                               *)
(***************************************************************************)
LEMMA PutType ==
  ASSUME NEW K, NEW V, NEW f, DOMAIN f \subseteq K, f \in [DOMAIN f -> V],
         NEW k \in K, NEW v \in V
  PROVE  /\ DOMAIN Put(f, k, v) = DOMAIN f \cup {k}
         /\ DOMAIN Put(f, k, v) \subseteq K
         /\ Put(f, k, v) \in [DOMAIN Put(f, k, v) -> V]
         /\ Put(f, k, v)[k] = v
         /\ \A x \in DOMAIN f \ {k} : Put(f, k, v)[x] = f[x]
BY DEF Put

LEMMA WithoutType ==
  ASSUME NEW K, NEW V, NEW f, DOMAIN f \subseteq K, f \in [DOMAIN f -> V], NEW k
  PROVE  /\ DOMAIN Without(f, k) = DOMAIN f \ {k}
         /\ DOMAIN Without(f, k) \subseteq K
         /\ Without(f, k) \in [DOMAIN Without(f, k) -> V]
         /\ \A x \in DOMAIN f \ {k} : Without(f, k)[x] = f[x]
BY DEF Without

(* A ticket Match returns is an open one of the store. *)
LEMMA MatchOpen ==
  ASSUME NEW s, NEW g, NEW t \in Match(s, g)
  PROVE  t \in OpenTickets(s)
BY DEF Match, GetOpenByKey, FindOpenByOverlap

(* When Match returns nothing, the key of the group is not indexed. *)
LEMMA NoMatchNoKey ==
  ASSUME NEW s, NEW g, Match(s, g) = {}, IndexExact(s)
  PROVE  g.group_key \notin DOMAIN s.open_by_group_key
BY DEF Match, GetOpenByKey, IndexExact

-----------------------------------------------------------------------------
(***************************************************************************)
(* The methods of TicketStore keep a store well typed.                     *)
(***************************************************************************)
LEMMA EmptyStoreType == IsStore(EmptyStore)
BY DEF IsStore, EmptyStore, Store, EmptyDict, TicketId

LEMMA GroupFields ==
  ASSUME NEW g \in Group
  PROVE  /\ g.group_key \in GroupKey
         /\ g.head \in GroupHead
         /\ g.title \in Title
         /\ g.members \in Snapshot
         /\ OpenTicket(g) \in Ticket
BY DEF Group, OpenTicket, Ticket

(* Two records show the same exactly when diff_snapshots finds nothing.    *)
LEMMA ShowsFields ==
  ASSUME NEW x, NEW y, Shows(x) = Shows(y)
  PROVE  /\ x.group_key = y.group_key
         /\ Content(x) = Content(y)
         /\ x.title = y.title
         /\ DOMAIN x.members = DOMAIN y.members
         /\ \A i \in DOMAIN x.members : x.members[i].state = y.members[i].state
         /\ StatsLine(x.members) = StatsLine(y.members)
<1>1. x.group_key = y.group_key /\ Content(x) = Content(y)
  BY DEF Shows
<1>2. /\ x.title = y.title
      /\ StatesOf(x.members) = StatesOf(y.members)
      /\ StatsLine(x.members) = StatsLine(y.members)
  BY <1>1 DEF Content
<1>3. DOMAIN x.members = DOMAIN y.members
  BY <1>2 DEF StatesOf
<1>4. ASSUME NEW i \in DOMAIN x.members PROVE x.members[i].state = y.members[i].state
  <2>1. StatesOf(x.members)[i] = StatesOf(y.members)[i]
    BY <1>2
  <2> QED
    BY <1>3, <2>1 DEF StatesOf
<1> QED
  BY <1>1, <1>2, <1>3, <1>4

LEMMA DiffersShows ==
  ASSUME NEW x, NEW y
  PROVE  Differs(x, y) <=> Shows(x) # Shows(y)
<1>1. ASSUME Shows(x) = Shows(y) PROVE ~ Differs(x, y)
  BY <1>1, ShowsFields DEF Differs, StateDiffers
<1>2. ASSUME ~ Differs(x, y) PROVE Shows(x) = Shows(y)
  <2>1. StatesOf(x.members) = StatesOf(y.members)
    BY <1>2 DEF Differs, StateDiffers, StatesOf
  <2> QED
    BY <1>2, <2>1 DEF Differs, Shows, Content
<1> QED
  BY <1>1, <1>2

LEMMA ShowsOpen == \A g : Shows(OpenTicket(g)) = Shows(g)
BY DEF Shows, Content, OpenTicket

LEMMA UnindexType ==
  ASSUME NEW s, IsStore(s), NEW key, NEW t
  PROVE  /\ DOMAIN Unindex(s, key, t) \subseteq GroupKey
         /\ Unindex(s, key, t) \in [DOMAIN Unindex(s, key, t) -> TicketId]
BY WithoutType DEF IsStore, Unindex

LEMMA CreateType ==
  ASSUME NEW s, IsStore(s), NEW g \in Group
  PROVE  IsStore(Create(s, g))
<1>1. s.next_seq \in TicketId /\ s.next_seq + 1 \in TicketId
  BY DEF IsStore, TicketId
<1> DEFINE T == Put(s.tickets, s.next_seq, OpenTicket(g))
           I == Put(s.open_by_group_key, g.group_key, s.next_seq)
<1>2. DOMAIN T \subseteq TicketId /\ T \in [DOMAIN T -> Ticket]
  BY <1>1, PutType, GroupFields DEF IsStore
<1>3. DOMAIN I \subseteq GroupKey /\ I \in [DOMAIN I -> TicketId]
  <2>1. g.group_key \in GroupKey
    BY GroupFields
  <2>2. /\ DOMAIN s.open_by_group_key \subseteq GroupKey
        /\ s.open_by_group_key \in [DOMAIN s.open_by_group_key -> TicketId]
    BY DEF IsStore
  <2> QED
    BY <1>1, <2>1, <2>2, PutType
<1> HIDE DEF T, I
<1>4. Create(s, g) = Store(s.next_seq + 1, T, I)
  BY DEF Create, T, I
<1> QED
  BY <1>1, <1>2, <1>3, <1>4 DEF IsStore, Store

LEMMA UpdateType ==
  ASSUME NEW s, IsStore(s), NEW g \in Group, NEW t \in DOMAIN s.tickets
  PROVE  IsStore(Update(s, t, g))
<1> DEFINE old == s.tickets[t]
           new == [old EXCEPT !.group_key = g.group_key,
                              !.head      = g.head,
                              !.title     = g.title,
                              !.members   = g.members]
           T == [s.tickets EXCEPT ![t] = new]
           U == IF old.group_key # g.group_key
                THEN Unindex(s, old.group_key, t)
                ELSE s.open_by_group_key
           I == Put(U, g.group_key, t)
<1>1. old \in Ticket /\ t \in TicketId
  BY DEF IsStore
<1>2. new \in Ticket
  BY <1>1, GroupFields DEF Ticket
<1>3. DOMAIN T \subseteq TicketId /\ T \in [DOMAIN T -> Ticket]
  BY <1>2 DEF IsStore
<1>4. DOMAIN U \subseteq GroupKey /\ U \in [DOMAIN U -> TicketId]
  BY UnindexType DEF IsStore
<1> HIDE DEF U
<1>5. DOMAIN I \subseteq GroupKey /\ I \in [DOMAIN I -> TicketId]
  BY <1>1, <1>4, PutType, GroupFields
<1>6. Update(s, t, g) = Store(s.next_seq, T, I)
  BY DEF Update, U
<1> HIDE DEF T, I
<1> QED
  BY <1>3, <1>5, <1>6 DEF IsStore, Store

LEMMA CloseType ==
  ASSUME NEW s, IsStore(s), NEW t \in DOMAIN s.tickets, NEW reason \in CloseReasons
  PROVE  IsStore(Close(s, t, reason))
<1> DEFINE old == s.tickets[t]
           new == [old EXCEPT !.status = "closed", !.close_reason = reason]
           T == [s.tickets EXCEPT ![t] = new]
           I == Unindex(s, old.group_key, t)
<1>1. old \in Ticket
  BY DEF IsStore
<1>2. new \in Ticket
  BY <1>1 DEF Ticket
<1>3. DOMAIN T \subseteq TicketId /\ T \in [DOMAIN T -> Ticket]
  BY <1>2 DEF IsStore
<1>4. DOMAIN I \subseteq GroupKey /\ I \in [DOMAIN I -> TicketId]
  BY UnindexType
<1>5. Close(s, t, reason) = Store(s.next_seq, T, I)
  BY DEF Close
<1> HIDE DEF T, I
<1> QED
  BY <1>3, <1>4, <1>5 DEF IsStore, Store

-----------------------------------------------------------------------------
(***************************************************************************)
(* TypeOK is inductive.                                                    *)
(***************************************************************************)
LEMMA PollGroup ==
  ASSUME TypeOK, Matching
  PROVE  poll[next] \in Group /\ next + 1 \in 1..(Len(poll) + 1)
BY DEF TypeOK, Matching

LEMMA OpenInDomain == \A s : OpenTickets(s) \subseteq DOMAIN s.tickets
BY DEF OpenTickets

LEMMA EmitType ==
  ASSUME events \in Seq(Event), NEW action \in {"created", "updated", "closed"},
         NEW t \in TicketId, NEW reason \in CloseReasons \cup {"none"},
         Emit(action, t, reason)
  PROVE  events' \in Seq(Event)
<1>1. [action |-> action, ticket_id |-> t, close_reason |-> reason] \in Event
  BY DEF Event
<1> QED
  BY <1>1 DEF Emit

LEMMA TicketIdOf ==
  ASSUME NEW s, IsStore(s), NEW t \in DOMAIN s.tickets
  PROVE  t \in TicketId
BY DEF IsStore

LEMMA CloseReasonType == \A ticket, p : CloseReason(ticket, p) \in CloseReasons
BY DEF CloseReason, CloseReasons

LEMMA IdleType ==
  /\ IsStore(EmptyStore)
  /\ <<>> \in Seq(Group)
  /\ 1 \in 1..(Len(<<>>) + 1)
  /\ {} \subseteq TicketId
  /\ <<>> \in Seq(Event)
BY EmptyStoreType

(* Between passes the locals of a pass have their initial values. *)
IdleReset == pc = "idle" => Idle

TypeInv == TypeOK /\ IdleReset

LEMMA InitType == Init => TypeInv
BY IdleType DEF Init, Idle, TypeOK, TypeInv, IdleReset

LEMMA StepType == TypeInv /\ [Next]_vars => TypeInv'
<1> SUFFICES ASSUME TypeInv, [Next]_vars PROVE TypeInv'
  OBVIOUS
<1> USE DEF TypeOK, TypeInv
<1>1. ASSUME NEW p \in Polls, BeginPass(p) PROVE TypeInv'
  <2>1. p \in Seq(Group)
    BY SyncAssumption
  <2>2. IsStore(data')
    BY <1>1, EmptyStoreType DEF BeginPass, Loaded
  <2>3. next' = 1 /\ 1 \in 1..(Len(p) + 1)
    BY <1>1, <2>1 DEF BeginPass, IdleReset, Idle
  <2> QED
    BY <1>1, <2>1, <2>2, <2>3 DEF BeginPass, IdleReset
<1>2. CASE CloseCleared
  <2>1. PICK t \in Match(data, poll[next]) :
          /\ data' = Close(data, t, "all_cleared")
          /\ matched' = matched \cup {t}
          /\ Emit("closed", t, "all_cleared")
    BY <1>2 DEF CloseCleared
  <2>2. t \in DOMAIN data.tickets /\ t \in TicketId
    BY MatchOpen, OpenInDomain, TicketIdOf
  <2>3. IsStore(data')
    BY <2>1, <2>2, CloseType DEF CloseReasons
  <2>4. events' \in Seq(Event)
    BY <2>1, <2>2, EmitType DEF CloseReasons
  <2>5. matched' \subseteq TicketId
    BY <2>1, <2>2
  <2> QED
    BY <1>2, <2>3, <2>4, <2>5, PollGroup DEF CloseCleared, TakeGroup, Matching, IdleReset
<1>3. CASE SkipCleared
  BY <1>3, PollGroup DEF SkipCleared, TakeGroup, Matching, IdleReset
<1>4. CASE CreateTicket
  <2>1. IsStore(data')
    BY <1>4, PollGroup, CreateType DEF CreateTicket
  <2>2. data.next_seq \in TicketId
    BY DEF IsStore
  <2>3. events' \in Seq(Event)
    BY <1>4, <2>2, EmitType DEF CreateTicket
  <2>4. matched' \subseteq TicketId
    BY <1>4, <2>2 DEF CreateTicket
  <2> QED
    BY <1>4, <2>1, <2>3, <2>4, PollGroup DEF CreateTicket, TakeGroup, Matching, IdleReset
<1>5. CASE UpdateTicket
  <2>1. PICK t \in Match(data, poll[next]) :
          /\ data' = Update(data, t, poll[next])
          /\ matched' = matched \cup {t}
          /\ Emit("updated", t, "none")
    BY <1>5 DEF UpdateTicket
  <2>2. t \in DOMAIN data.tickets /\ t \in TicketId
    BY MatchOpen, OpenInDomain, TicketIdOf
  <2>3. IsStore(data')
    BY <1>5, <2>1, <2>2, PollGroup, UpdateType DEF UpdateTicket
  <2>4. events' \in Seq(Event)
    BY <2>1, <2>2, EmitType
  <2>5. matched' \subseteq TicketId
    BY <2>1, <2>2
  <2> QED
    BY <1>5, <2>3, <2>4, <2>5, PollGroup DEF UpdateTicket, TakeGroup, Matching, IdleReset
<1>6. CASE KeepTicket
  <2>1. PICK t \in Match(data, poll[next]) : matched' = matched \cup {t}
    BY <1>6 DEF KeepTicket
  <2>2. matched' \subseteq TicketId
    BY <2>1, MatchOpen, OpenInDomain, TicketIdOf
  <2> QED
    BY <1>6, <2>2, PollGroup DEF KeepTicket, TakeGroup, Matching, IdleReset
<1>7. CASE SweepTicket
  <2>1. PICK t \in Unmatched :
          /\ data' = Close(data, t, CloseReason(data.tickets[t], poll))
          /\ Emit("closed", t, CloseReason(data.tickets[t], poll))
    BY <1>7 DEF SweepTicket
  <2>2. t \in DOMAIN data.tickets /\ t \in TicketId
    BY OpenInDomain, TicketIdOf DEF Unmatched
  <2>3. IsStore(data')
    BY <2>1, <2>2, CloseType, CloseReasonType
  <2>4. events' \in Seq(Event)
    BY <2>1, <2>2, EmitType, CloseReasonType
  <2> QED
    BY <1>7, <2>3, <2>4 DEF SweepTicket, Sweeping, IdleReset
<1>8. CASE Save
  BY <1>8, IdleType DEF Save, Reset, IdleReset, Idle
<1>9. CASE AbortPass
  BY <1>9, IdleType DEF AbortPass, Reset, IdleReset, Idle
<1>10. CASE UNCHANGED vars
  BY <1>10 DEF vars, IdleReset, Idle
<1> QED
  BY <1>1, <1>2, <1>3, <1>4, <1>5, <1>6, <1>7, <1>8, <1>9, <1>10 DEF Next

(***************************************************************************)
(* TypeOK holds of every run of the worker, whatever the reports and       *)
(* whether or not the file can be read.                                    *)
(***************************************************************************)
THEOREM TypeCorrect == Spec => []TypeOK
<1>1. Spec => []TypeInv
  BY InitType, StepType, PTL DEF Spec
<1>2. TypeInv => TypeOK
  BY DEF TypeInv
<1> QED
  BY <1>1, <1>2, PTL

-----------------------------------------------------------------------------
(***************************************************************************)
(* The index.  A new number is above all numbers in use, so that creating  *)
(* a ticket never overwrites one.                                          *)
(***************************************************************************)
Numbered(s) == \A t \in DOMAIN s.tickets : t < s.next_seq

IndexInv(s) == IndexExact(s) /\ Numbered(s)

LEMMA EmptyStoreIndex == IndexInv(EmptyStore)
BY DEF IndexInv, IndexExact, Numbered, EmptyStore, Store, EmptyDict, OpenTickets

LEMMA CreateIndex ==
  ASSUME NEW s, IsStore(s), IndexInv(s), NEW g \in Group, Match(s, g) = {}
  PROVE  /\ IndexInv(Create(s, g))
         /\ OpenTickets(Create(s, g)) = OpenTickets(s) \cup {s.next_seq}
         /\ DOMAIN Create(s, g).tickets = DOMAIN s.tickets \cup {s.next_seq}
         /\ Create(s, g).tickets[s.next_seq] = OpenTicket(g)
         /\ \A t \in DOMAIN s.tickets : Create(s, g).tickets[t] = s.tickets[t]
<1> DEFINE n == s.next_seq
           c == Create(s, g)
<1>1. n \in TicketId /\ DOMAIN s.tickets \subseteq TicketId /\ n \notin DOMAIN s.tickets
  BY DEF IsStore, IndexInv, Numbered, TicketId
<1>2. g.group_key \notin DOMAIN s.open_by_group_key
  BY NoMatchNoKey DEF IndexInv
<1>3. /\ DOMAIN c.tickets = DOMAIN s.tickets \cup {n}
      /\ c.tickets[n] = OpenTicket(g)
      /\ \A t \in DOMAIN s.tickets : c.tickets[t] = s.tickets[t]
  BY <1>1 DEF Create, Store, Put
<1>4. /\ DOMAIN c.open_by_group_key = DOMAIN s.open_by_group_key \cup {g.group_key}
      /\ c.open_by_group_key[g.group_key] = n
      /\ \A k \in DOMAIN s.open_by_group_key :
           c.open_by_group_key[k] = s.open_by_group_key[k]
  BY <1>2 DEF Create, Store, Put
<1>5. c.next_seq = n + 1
  BY DEF Create, Store
<1> HIDE DEF c
<1>6. OpenTicket(g).status = "open" /\ OpenTicket(g).group_key = g.group_key
  BY DEF OpenTicket
<1>7. OpenTickets(c) = OpenTickets(s) \cup {n}
  BY <1>1, <1>3, <1>6 DEF OpenTickets
<1>8. Numbered(c)
  BY <1>1, <1>3, <1>5 DEF Numbered, IndexInv, TicketId
<1>9. IndexExact(c)
  <2>1. ASSUME NEW t \in OpenTickets(c)
        PROVE  /\ c.tickets[t].group_key \in DOMAIN c.open_by_group_key
               /\ c.open_by_group_key[c.tickets[t].group_key] = t
    BY <1>1, <1>2, <1>3, <1>4, <1>6, <1>7, OpenInDomain DEF IndexInv, IndexExact
  <2>2. ASSUME NEW k \in DOMAIN c.open_by_group_key
        PROVE  /\ c.open_by_group_key[k] \in OpenTickets(c)
               /\ c.tickets[c.open_by_group_key[k]].group_key = k
    BY <1>1, <1>2, <1>3, <1>4, <1>6, <1>7, OpenInDomain DEF IndexInv, IndexExact
  <2> QED
    BY <2>1, <2>2 DEF IndexExact
<1> QED
  BY <1>3, <1>7, <1>8, <1>9 DEF IndexInv, c

(* In an exact index the tickets of two keys differ, and Unindex removes   *)
(* exactly the entry of the ticket's own key.                              *)
LEMMA UnindexExact ==
  ASSUME NEW s, IndexExact(s), NEW t \in OpenTickets(s)
  PROVE  LET key == s.tickets[t].group_key
             I   == Unindex(s, key, t)
         IN  /\ DOMAIN I = DOMAIN s.open_by_group_key \ {key}
             /\ \A k \in DOMAIN I : I[k] = s.open_by_group_key[k]
BY DEF IndexExact, Unindex, Without

LEMMA UpdateIndex ==
  ASSUME NEW s, IsStore(s), IndexInv(s), NEW g \in Group, NEW t \in Match(s, g)
  PROVE  /\ IndexInv(Update(s, t, g))
         /\ OpenTickets(Update(s, t, g)) = OpenTickets(s)
         /\ DOMAIN Update(s, t, g).tickets = DOMAIN s.tickets
         /\ Update(s, t, g).next_seq = s.next_seq
         /\ Shows(Update(s, t, g).tickets[t]) = Shows(OpenTicket(g))
         /\ \A u \in DOMAIN s.tickets \ {t} : Update(s, t, g).tickets[u] = s.tickets[u]
<1> DEFINE old == s.tickets[t]
           u == Update(s, t, g)
           U == IF old.group_key # g.group_key
                THEN Unindex(s, old.group_key, t)
                ELSE s.open_by_group_key
<1>1. t \in OpenTickets(s) /\ t \in DOMAIN s.tickets
  BY MatchOpen, OpenInDomain
<1>2. old \in Ticket /\ old.status = "open"
  BY <1>1 DEF IsStore, OpenTickets
<1>3. /\ DOMAIN u.tickets = DOMAIN s.tickets
      /\ \A x \in DOMAIN s.tickets \ {t} : u.tickets[x] = s.tickets[x]
      /\ u.tickets[t] = [old EXCEPT !.group_key = g.group_key,
                                    !.head      = g.head,
                                    !.title     = g.title,
                                    !.members   = g.members]
      /\ u.next_seq = s.next_seq
      /\ u.open_by_group_key = Put(U, g.group_key, t)
  BY <1>1 DEF Update, Store, IsStore
<1> HIDE DEF u, old
<1>4. /\ u.tickets[t].status = "open"
      /\ u.tickets[t].group_key = g.group_key
      /\ Shows(u.tickets[t]) = Shows(OpenTicket(g))
  BY <1>2, <1>3 DEF Shows, Content, OpenTicket, Ticket
<1>5. OpenTickets(u) = OpenTickets(s)
  BY <1>1, <1>3, <1>4 DEF OpenTickets
<1>6. \A k \in DOMAIN s.open_by_group_key : s.open_by_group_key[k] = t <=> k = old.group_key
  BY <1>1 DEF IndexInv, IndexExact, old
<1>7. \/ old.group_key = g.group_key
      \/ g.group_key \notin DOMAIN s.open_by_group_key
  BY <1>1, <1>6, Zenon DEF Match, GetOpenByKey, IndexInv, IndexExact
<1>8. /\ DOMAIN U \cup {g.group_key} =
           (DOMAIN s.open_by_group_key \ {old.group_key}) \cup {g.group_key}
      /\ \A k \in DOMAIN U \ {g.group_key} : /\ U[k] = s.open_by_group_key[k]
                                             /\ U[k] # t
  <2>1. CASE old.group_key = g.group_key
    BY <2>1, <1>6
  <2>2. CASE old.group_key # g.group_key
    <3>1. U = Unindex(s, old.group_key, t)
      BY <2>2
    <3>2. /\ DOMAIN U = DOMAIN s.open_by_group_key \ {old.group_key}
          /\ \A k \in DOMAIN U : U[k] = s.open_by_group_key[k]
      BY <3>1, <1>1, UnindexExact DEF IndexInv, old
    <3> QED
      BY <3>2, <1>6
  <2> QED
    BY <2>1, <2>2
<1>9. /\ DOMAIN u.open_by_group_key =
           (DOMAIN s.open_by_group_key \ {old.group_key}) \cup {g.group_key}
      /\ u.open_by_group_key[g.group_key] = t
      /\ \A k \in DOMAIN u.open_by_group_key \ {g.group_key} :
           /\ u.open_by_group_key[k] = s.open_by_group_key[k]
           /\ u.open_by_group_key[k] # t
  BY <1>3, <1>8 DEF Put
<1>10. IndexExact(u)
  <2>1. ASSUME NEW x \in OpenTickets(u)
        PROVE  /\ u.tickets[x].group_key \in DOMAIN u.open_by_group_key
               /\ u.open_by_group_key[u.tickets[x].group_key] = x
    <3>1. CASE x = t
      BY <3>1, <1>4, <1>9
    <3>2. CASE x # t
      <4>1. u.tickets[x] = s.tickets[x] /\ x \in OpenTickets(s)
        BY <3>2, <1>3, <1>5, OpenInDomain
      <4>2. /\ s.tickets[x].group_key \in DOMAIN s.open_by_group_key
            /\ s.open_by_group_key[s.tickets[x].group_key] = x
        BY <4>1 DEF IndexInv, IndexExact
      <4>3. s.tickets[x].group_key # old.group_key /\ s.tickets[x].group_key # g.group_key
        BY <3>2, <4>2, <1>6, <1>7
      <4> QED
        BY <4>1, <4>2, <4>3, <1>9
    <3> QED
      BY <3>1, <3>2
  <2>2. ASSUME NEW k \in DOMAIN u.open_by_group_key
        PROVE  /\ u.open_by_group_key[k] \in OpenTickets(u)
               /\ u.tickets[u.open_by_group_key[k]].group_key = k
    <3>1. CASE k = g.group_key
      BY <3>1, <1>1, <1>4, <1>5, <1>9
    <3>2. CASE k # g.group_key
      BY <3>2, <1>3, <1>5, <1>9, OpenInDomain DEF IndexInv, IndexExact
    <3> QED
      BY <3>1, <3>2
  <2> QED
    BY <2>1, <2>2 DEF IndexExact
<1> QED
  BY <1>3, <1>4, <1>5, <1>10 DEF IndexInv, Numbered, u

LEMMA CloseIndex ==
  ASSUME NEW s, IsStore(s), IndexInv(s), NEW t \in OpenTickets(s), NEW reason
  PROVE  /\ IndexInv(Close(s, t, reason))
         /\ OpenTickets(Close(s, t, reason)) = OpenTickets(s) \ {t}
         /\ DOMAIN Close(s, t, reason).tickets = DOMAIN s.tickets
         /\ Close(s, t, reason).next_seq = s.next_seq
         /\ \A u \in DOMAIN s.tickets \ {t} :
              Close(s, t, reason).tickets[u] = s.tickets[u]
<1> DEFINE old == s.tickets[t]
           c == Close(s, t, reason)
<1>1. t \in DOMAIN s.tickets /\ old \in Ticket
  BY OpenInDomain DEF IsStore
<1>2. /\ DOMAIN c.tickets = DOMAIN s.tickets
      /\ \A x \in DOMAIN s.tickets \ {t} : c.tickets[x] = s.tickets[x]
      /\ c.tickets[t] = [old EXCEPT !.status = "closed", !.close_reason = reason]
      /\ c.next_seq = s.next_seq
      /\ c.open_by_group_key = Unindex(s, old.group_key, t)
  BY <1>1 DEF Close, Store, IsStore
<1> HIDE DEF c
<1>3. c.tickets[t].status = "closed"
  BY <1>1, <1>2 DEF Ticket
<1>4. OpenTickets(c) = OpenTickets(s) \ {t}
  BY <1>1, <1>2, <1>3 DEF OpenTickets
<1>5. /\ DOMAIN c.open_by_group_key = DOMAIN s.open_by_group_key \ {old.group_key}
      /\ \A k \in DOMAIN c.open_by_group_key :
           c.open_by_group_key[k] = s.open_by_group_key[k]
  BY <1>2, UnindexExact DEF IndexInv
<1>6. \A x \in OpenTickets(s) \ {t} : s.tickets[x].group_key # old.group_key
  BY DEF IndexInv, IndexExact
<1>7. IndexExact(c)
  BY <1>2, <1>4, <1>5, <1>6, OpenInDomain DEF IndexInv, IndexExact
<1> QED
  BY <1>2, <1>4, <1>7 DEF IndexInv, Numbered, c

-----------------------------------------------------------------------------
(***************************************************************************)
(* The index is exact in the file and in memory at every step.             *)
(***************************************************************************)
StoreInv == TypeInv /\ IndexInv(file) /\ IndexInv(data)

LEMMA InitStore == Init => StoreInv
BY InitType, EmptyStoreIndex DEF Init, Idle, StoreInv

(* What a step of a pass does to the store in memory. *)
LEMMA StepStore == StoreInv /\ [Next]_vars => StoreInv'
<1> SUFFICES ASSUME StoreInv, [Next]_vars
             PROVE  IndexInv(file') /\ IndexInv(data')
  BY StepType DEF StoreInv
<1>1. IsStore(data) /\ IsStore(file)
  BY DEF StoreInv, TypeInv, TypeOK
<1>2. ASSUME NEW p \in Polls, BeginPass(p) 
      PROVE  IndexInv(file') /\ IndexInv(data')
  BY <1>2, EmptyStoreIndex DEF BeginPass, Loaded, StoreInv
<1>3. CASE CloseCleared
  BY <1>1, <1>3, MatchOpen, CloseIndex DEF CloseCleared, TakeGroup, StoreInv
<1>4. CASE SkipCleared
  BY <1>4 DEF SkipCleared, TakeGroup, StoreInv
<1>5. CASE CreateTicket
  <2>1. poll[next] \in Group
    BY <1>5, PollGroup DEF CreateTicket, StoreInv, TypeInv
  <2> QED
    BY <1>1, <1>5, <2>1, CreateIndex DEF CreateTicket, TakeGroup, StoreInv
<1>6. CASE UpdateTicket
  <2>1. poll[next] \in Group
    BY <1>6, PollGroup DEF UpdateTicket, StoreInv, TypeInv
  <2> QED
    BY <1>1, <1>6, <2>1, UpdateIndex DEF UpdateTicket, TakeGroup, StoreInv
<1>7. CASE KeepTicket
  BY <1>7 DEF KeepTicket, TakeGroup, StoreInv
<1>8. CASE SweepTicket
  <2>1. PICK t \in OpenTickets(data) :
          data' = Close(data, t, CloseReason(data.tickets[t], poll))
    BY <1>8 DEF SweepTicket, Unmatched
  <2> QED
    BY <1>1, <1>8, <2>1, CloseIndex DEF SweepTicket, StoreInv
<1>9. CASE Save
  BY <1>9, EmptyStoreIndex DEF Save, Reset, StoreInv
<1>10. CASE AbortPass
  BY <1>10, EmptyStoreIndex DEF AbortPass, Reset, StoreInv
<1>11. CASE UNCHANGED vars
  BY <1>11 DEF vars, StoreInv
<1> QED
  BY <1>2, <1>3, <1>4, <1>5, <1>6, <1>7, <1>8, <1>9, <1>10, <1>11 DEF Next

(***************************************************************************)
(* Whatever the reports are, and even if a pass starts from an empty store *)
(* because the file could not be read, the index of the open tickets is    *)
(* exact, so one key never has two open tickets.                           *)
(***************************************************************************)
THEOREM IndexCorrect == Spec => []OpenIndexExact
<1>1. Spec => []StoreInv
  BY InitStore, StepStore, PTL DEF Spec
<1>2. StoreInv => OpenIndexExact
  BY DEF StoreInv, IndexInv, OpenIndexExact
<1> QED
  BY <1>1, <1>2, PTL

-----------------------------------------------------------------------------
(***************************************************************************)
(* Every pass brings the file in line with its report, if no two groups of *)
(* a report have a key or a member in common.                              *)
(*                                                                         *)
(* The open tickets that were matched are exactly the active groups taken  *)
(* so far.  A later group cannot take one of them: it has another key and  *)
(* no member in common with it.                                            *)
(***************************************************************************)
WellFormedPolls == \A p \in Polls : WellFormed(p)

Taken == {j \in DOMAIN poll : j < next}

Held == matched \cap OpenTickets(data)

HeldAreTaken ==
  \A t \in Held : \E j \in Taken : /\ ~ AllCleared(poll[j].members)
                                   /\ Shows(data.tickets[t]) = Shows(poll[j])

TakenAreHeld ==
  \A j \in Taken : ~ AllCleared(poll[j].members) =>
    \E t \in Held : Shows(data.tickets[t]) = Shows(poll[j])

PassInv ==
  /\ StoreInv
  /\ pc = "sync" => poll \in Polls
  /\ HeldAreTaken
  /\ TakenAreHeld
  /\ FileReflectsReport
  /\ saved \in Polls \cup {<<>>}


LEMMA MatchUnheld ==
  ASSUME WellFormedPolls, PassInv, Matching, NEW t \in Match(data, poll[next])
  PROVE  t \in OpenTickets(data) /\ t \notin Held
<1>1. t \in OpenTickets(data)
  BY MatchOpen
<1>2. ASSUME NEW j \in Taken, Shows(data.tickets[t]) = Shows(poll[j]) PROVE FALSE
  <2>1. next \in DOMAIN poll /\ j \in DOMAIN poll /\ j # next
    BY DEF Taken, Matching, PassInv, StoreInv, TypeInv, TypeOK
  <2>2. /\ poll[j].group_key # poll[next].group_key
        /\ DOMAIN poll[j].members \cap DOMAIN poll[next].members = {}
    BY <2>1 DEF WellFormedPolls, PassInv, Matching, WellFormed
  <2>3. /\ data.tickets[t].group_key = poll[j].group_key
        /\ DOMAIN data.tickets[t].members = DOMAIN poll[j].members
    BY <1>2, ShowsFields
  <2>4. CASE t \in GetOpenByKey(data, poll[next].group_key)
    BY <2>2, <2>3, <2>4 DEF GetOpenByKey, PassInv, StoreInv, IndexInv, IndexExact
  <2>5. CASE t \in FindOpenByOverlap(data, DOMAIN poll[next].members)
    BY <2>2, <2>3, <2>5 DEF FindOpenByOverlap, Shared
  <2> QED
    BY <2>4, <2>5 DEF Match
<1> QED
  BY <1>1, <1>2 DEF PassInv, HeldAreTaken

LEMMA TakenGrows ==
  ASSUME TypeOK, Matching, TakeGroup
  PROVE  Taken' = Taken \cup {next} /\ poll' = poll /\ next \in DOMAIN poll
<1>1. next \in 1..Len(poll) /\ DOMAIN poll = 1..Len(poll) /\ next' = next + 1
  BY DEF TypeOK, Matching, TakeGroup
<1>2. poll' = poll
  BY DEF TakeGroup
<1>3. \A j \in DOMAIN poll : j < next + 1 <=> j < next \/ j = next
  BY <1>1
<1> QED
  BY <1>1, <1>2, <1>3 DEF Taken

(* A step that takes a group and, if it is active, holds a ticket for it. *)
LEMMA TakeKeepsHeld ==
  ASSUME TypeOK, Matching, TakeGroup, HeldAreTaken, TakenAreHeld,
         Held \subseteq Held',
         \A t \in Held : Shows(data'.tickets[t]) = Shows(data.tickets[t]),
         \A t \in Held' \ Held : Shows(data'.tickets[t]) = Shows(poll[next]),
         AllCleared(poll[next].members) <=> Held' = Held
  PROVE  HeldAreTaken' /\ TakenAreHeld'
<1>1. Taken' = Taken \cup {next} /\ poll' = poll
  BY TakenGrows
<1>2. HeldAreTaken'
  <2>1. SUFFICES ASSUME NEW t \in Held'
                 PROVE  \E j \in Taken' : /\ ~ AllCleared(poll'[j].members)
                                          /\ Shows(data'.tickets[t]) = Shows(poll'[j])
    BY DEF HeldAreTaken
  <2>2. CASE t \notin Held
    BY <1>1, <2>1, <2>2
  <2>3. CASE t \in Held
    BY <1>1, <2>3 DEF HeldAreTaken
  <2> QED
    BY <2>2, <2>3
<1>3. TakenAreHeld'
  <2>1. SUFFICES ASSUME NEW j \in Taken', ~ AllCleared(poll'[j].members)
                 PROVE  \E t \in Held' : Shows(data'.tickets[t]) = Shows(poll'[j])
    BY DEF TakenAreHeld
  <2>2. CASE j = next
    <3>1. PICK t \in Held' : t \notin Held
      BY <1>1, <2>1, <2>2
    <3> QED
      BY <1>1, <2>2, <3>1
  <2>3. CASE j \in Taken
    <3>1. PICK t \in Held : Shows(data.tickets[t]) = Shows(poll[j])
      BY <1>1, <2>1, <2>3 DEF TakenAreHeld
    <3> QED
      BY <1>1, <3>1
  <2> QED
    BY <1>1, <2>1, <2>2, <2>3
<1> QED
  BY <1>2, <1>3

(* At the end of the sweep the open tickets are the active groups. *)
LEMMA ReadyReflects ==
  ASSUME PassInv, ReadyToSave
  PROVE  TrackedIn(data) = ToTrack(poll)
<1>1. Held = OpenTickets(data)
  BY DEF ReadyToSave, Unmatched, Held
<1>2. Taken = DOMAIN poll
  <2>1. DOMAIN poll = 1..Len(poll) /\ Len(poll) \in Nat /\ next \in Nat
    BY DEF PassInv, StoreInv, TypeInv, TypeOK
  <2>2. next > Len(poll)
    BY DEF ReadyToSave, Sweeping
  <2> QED
    BY <2>1, <2>2 DEF Taken
<1>3. ActiveGroups(poll) = {poll[j] : j \in {k \in DOMAIN poll : ~ AllCleared(poll[k].members)}}
  BY DEF ActiveGroups, Groups
<1> QED
  BY <1>1, <1>2, <1>3 DEF TrackedIn, ToTrack, PassInv, HeldAreTaken, TakenAreHeld

LEMMA ResetEmpty ==
  ASSUME Reset
  PROVE  HeldAreTaken' /\ TakenAreHeld'
BY DEF Reset, HeldAreTaken, TakenAreHeld, Held, Taken

LEMMA InitPass == Init => PassInv
<1> SUFFICES ASSUME Init PROVE PassInv
  OBVIOUS
<1>1. StoreInv
  BY InitStore
<1>2. HeldAreTaken /\ TakenAreHeld
  BY DEF Init, Idle, HeldAreTaken, TakenAreHeld, Held, Taken
<1>3. FileReflectsReport
  BY DEF Init, FileReflectsReport, TrackedIn, OpenTickets, EmptyStore, Store,
         EmptyDict, ToTrack, ActiveGroups, Groups
<1> QED
  BY <1>1, <1>2, <1>3 DEF Init, Idle, PassInv

LEMMA StepPass ==
  ASSUME WellFormedPolls, PassInv, [Next]_vars
  PROVE  PassInv'
<1> SUFFICES /\ HeldAreTaken' /\ TakenAreHeld'
             /\ FileReflectsReport'
             /\ pc' = "sync" => poll' \in Polls
             /\ saved' \in Polls \cup {<<>>}
  BY StepStore DEF PassInv
<1>0. /\ StoreInv /\ TypeInv /\ TypeOK /\ IsStore(data) /\ IndexInv(data)
      /\ HeldAreTaken /\ TakenAreHeld
  BY DEF PassInv, StoreInv, TypeInv, TypeOK
<1>1. ASSUME NEW p \in Polls, BeginPass(p)
      PROVE  /\ HeldAreTaken' /\ TakenAreHeld'
             /\ FileReflectsReport'
             /\ pc' = "sync" => poll' \in Polls
             /\ saved' \in Polls \cup {<<>>}
  <2>1. next' = 1 /\ matched' = {}
    BY <1>0, <1>1 DEF BeginPass, TypeInv, IdleReset, Idle
  <2>2. Taken' = {} /\ Held' = {}
    BY <1>1, <2>1, SyncAssumption DEF Taken, Held, BeginPass
  <2> QED
    BY <1>1, <2>2 DEF BeginPass, PassInv, HeldAreTaken, TakenAreHeld, FileReflectsReport
<1>2. CASE CloseCleared
  <2>1. PICK t \in Match(data, poll[next]) :
          /\ data' = Close(data, t, "all_cleared")
          /\ matched' = matched \cup {t}
    BY <1>2 DEF CloseCleared
  <2>2. Matching /\ TakeGroup /\ AllCleared(poll[next].members)
    BY <1>2 DEF CloseCleared
  <2>3. t \in OpenTickets(data) /\ t \notin Held
    BY <2>2, MatchUnheld
  <2>4. /\ OpenTickets(data') = OpenTickets(data) \ {t}
        /\ \A u \in DOMAIN data.tickets \ {t} : data'.tickets[u] = data.tickets[u]
    BY <1>0, <2>1, <2>3, CloseIndex
  <2>5. Held' = Held
    BY <2>1, <2>3, <2>4 DEF Held
  <2>6. \A u \in Held : data'.tickets[u] = data.tickets[u]
    BY <2>3, <2>4, OpenInDomain DEF Held
  <2>7. HeldAreTaken' /\ TakenAreHeld'
    BY <1>0, <2>2, <2>5, <2>6, TakeKeepsHeld
  <2> QED
    BY <2>2, <2>7 DEF TakeGroup, PassInv, FileReflectsReport
<1>3. CASE SkipCleared
  <2>1. Matching /\ TakeGroup /\ AllCleared(poll[next].members)
    BY <1>3 DEF SkipCleared
  <2>2. data' = data /\ Held' = Held
    BY <1>3 DEF SkipCleared, Held
  <2>3. HeldAreTaken' /\ TakenAreHeld'
    BY <1>0, <2>1, <2>2, TakeKeepsHeld
  <2> QED
    BY <2>1, <2>3 DEF TakeGroup, PassInv, FileReflectsReport
<1>4. CASE CreateTicket
  <2> DEFINE n == data.next_seq
  <2>1. Matching /\ TakeGroup /\ ~ AllCleared(poll[next].members)
    BY <1>4 DEF CreateTicket
  <2>2. poll[next] \in Group
    BY <1>0, <2>1, PollGroup
  <2>3. /\ OpenTickets(data') = OpenTickets(data) \cup {n}
        /\ data'.tickets[n] = OpenTicket(poll[next])
        /\ \A u \in DOMAIN data.tickets : data'.tickets[u] = data.tickets[u]
    BY <1>0, <1>4, <2>2, CreateIndex DEF CreateTicket
  <2>4. n \notin DOMAIN data.tickets
    BY <1>0 DEF IndexInv, Numbered, IsStore, TicketId
  <2>5. Held' = Held \cup {n} /\ n \notin Held
    BY <1>4, <2>3, <2>4, OpenInDomain DEF CreateTicket, Held
  <2>6. \A u \in Held : data'.tickets[u] = data.tickets[u]
    BY <2>3, OpenInDomain DEF Held
  <2>7. Shows(data'.tickets[n]) = Shows(poll[next])
    BY <2>2, <2>3, ShowsOpen
  <2>8. HeldAreTaken' /\ TakenAreHeld'
    BY <1>0, <2>1, <2>5, <2>6, <2>7, TakeKeepsHeld
  <2> QED
    BY <2>1, <2>8 DEF TakeGroup, PassInv, FileReflectsReport
<1>5. CASE UpdateTicket
  <2>1. PICK t \in Match(data, poll[next]) :
          /\ data' = Update(data, t, poll[next])
          /\ matched' = matched \cup {t}
    BY <1>5 DEF UpdateTicket
  <2>2. Matching /\ TakeGroup /\ ~ AllCleared(poll[next].members)
    BY <1>5 DEF UpdateTicket
  <2>3. poll[next] \in Group
    BY <1>0, <2>2, PollGroup
  <2>4. t \in OpenTickets(data) /\ t \notin Held
    BY <2>2, MatchUnheld
  <2>5. /\ OpenTickets(data') = OpenTickets(data)
        /\ Shows(data'.tickets[t]) = Shows(OpenTicket(poll[next]))
        /\ \A u \in DOMAIN data.tickets \ {t} : data'.tickets[u] = data.tickets[u]
    BY <1>0, <2>1, <2>3, UpdateIndex
  <2>6. Held' = Held \cup {t}
    BY <2>1, <2>4, <2>5 DEF Held
  <2>7. \A u \in Held : data'.tickets[u] = data.tickets[u]
    BY <2>4, <2>5, OpenInDomain DEF Held
  <2>8. Shows(data'.tickets[t]) = Shows(poll[next])
    BY <2>3, <2>5, ShowsOpen
  <2>9. HeldAreTaken' /\ TakenAreHeld'
    BY <1>0, <2>2, <2>4, <2>6, <2>7, <2>8, TakeKeepsHeld
  <2> QED
    BY <2>2, <2>9 DEF TakeGroup, PassInv, FileReflectsReport
<1>6. CASE KeepTicket
  <2>1. PICK t \in Match(data, poll[next]) :
          /\ ~ Differs(data.tickets[t], poll[next])
          /\ matched' = matched \cup {t}
    BY <1>6 DEF KeepTicket
  <2>2. Matching /\ TakeGroup /\ ~ AllCleared(poll[next].members) /\ data' = data
    BY <1>6 DEF KeepTicket
  <2>3. t \in OpenTickets(data) /\ t \notin Held
    BY <2>2, MatchUnheld
  <2>4. Held' = Held \cup {t}
    BY <2>1, <2>2, <2>3 DEF Held
  <2>5. Shows(data.tickets[t]) = Shows(poll[next])
    BY <2>1, DiffersShows
  <2>6. HeldAreTaken' /\ TakenAreHeld'
    BY <1>0, <2>2, <2>3, <2>4, <2>5, TakeKeepsHeld
  <2> QED
    BY <2>2, <2>6 DEF TakeGroup, PassInv, FileReflectsReport
<1>7. CASE SweepTicket
  <2>1. PICK t \in Unmatched :
          data' = Close(data, t, CloseReason(data.tickets[t], poll))
    BY <1>7 DEF SweepTicket
  <2>2. /\ OpenTickets(data') = OpenTickets(data) \ {t}
        /\ \A u \in DOMAIN data.tickets \ {t} : data'.tickets[u] = data.tickets[u]
    BY <1>0, <2>1, CloseIndex DEF Unmatched
  <2>3. Held' = Held /\ t \notin Held /\ Taken' = Taken /\ poll' = poll
    BY <1>7, <2>1, <2>2 DEF SweepTicket, Held, Unmatched, Taken
  <2>4. \A u \in Held : data'.tickets[u] = data.tickets[u]
    BY <2>2, <2>3, OpenInDomain DEF Held
  <2>5. HeldAreTaken' /\ TakenAreHeld'
    BY <1>0, <2>3, <2>4 DEF HeldAreTaken, TakenAreHeld
  <2> QED
    BY <1>7, <2>5 DEF SweepTicket, PassInv, FileReflectsReport
<1>8. CASE Save
  <2>1. TrackedIn(data) = ToTrack(poll)
    BY <1>8, ReadyReflects DEF Save
  <2>2. HeldAreTaken' /\ TakenAreHeld'
    BY <1>8, ResetEmpty DEF Save
  <2>3. poll \in Polls
    BY <1>8 DEF Save, ReadyToSave, Sweeping, PassInv
  <2> QED
    BY <1>8, <2>1, <2>2, <2>3 DEF Save, Reset, FileReflectsReport
<1>9. CASE AbortPass
  BY <1>9, ResetEmpty DEF AbortPass, Reset, PassInv, FileReflectsReport
<1>10. CASE UNCHANGED vars
  BY <1>0, <1>10 DEF vars, PassInv, FileReflectsReport, HeldAreTaken, TakenAreHeld,
                     Held, Taken
<1> QED
  BY <1>1, <1>2, <1>3, <1>4, <1>5, <1>6, <1>7, <1>8, <1>9, <1>10 DEF Next

(***************************************************************************)
(* After every pass the open tickets of the file are the active groups of  *)
(* its report in all that diff_snapshots compares, for any reports whose   *)
(* groups share neither keys nor members, with passes aborted anywhere.    *)
(***************************************************************************)
THEOREM FileCorrect ==
  ASSUME WellFormedPolls
  PROVE  Spec => []FileReflectsReport
<1>1. PassInv /\ [Next]_vars => PassInv'
  BY StepPass
<1>2. PassInv => FileReflectsReport
  BY DEF PassInv
<1> QED
  BY <1>1, <1>2, InitPass, PTL DEF Spec

-----------------------------------------------------------------------------
(***************************************************************************)
(* What a pass keeps of the file it has read.                              *)
(***************************************************************************)
FileKept ==
  pc = "sync" =>
    \A t \in DOMAIN file.tickets :
      /\ t \in DOMAIN data.tickets
      /\ file.tickets[t].status = "closed" => data.tickets[t] = file.tickets[t]

KeptInv == StoreInv /\ FileKept

(* A method that leaves every other ticket alone and works on an open one  *)
(* or on a new one keeps the file's tickets.                               *)
LEMMA KeepsFile ==
  ASSUME TypeOK, FileKept, pc = "sync", file' = file, NEW t,
         t \in OpenTickets(data) \/ t \notin DOMAIN data.tickets,
         DOMAIN data.tickets \subseteq DOMAIN data'.tickets,
         \A u \in DOMAIN data.tickets \ {t} : data'.tickets[u] = data.tickets[u]
  PROVE  FileKept'
<1> SUFFICES ASSUME NEW u \in DOMAIN file.tickets
             PROVE  /\ u \in DOMAIN data'.tickets
                    /\ file.tickets[u].status = "closed" =>
                         data'.tickets[u] = file.tickets[u]
  BY DEF FileKept
<1>1. /\ u \in DOMAIN data.tickets
      /\ file.tickets[u].status = "closed" => data.tickets[u] = file.tickets[u]
  BY DEF FileKept
<1>2. CASE u = t
  BY <1>1, <1>2 DEF OpenTickets
<1>3. CASE u # t
  BY <1>1, <1>3
<1> QED
  BY <1>2, <1>3

LEMMA StepKept ==
  ASSUME ~ ReadMayFail, KeptInv, [Next]_vars
  PROVE  FileKept'
<1>0. StoreInv /\ TypeInv /\ TypeOK /\ IsStore(data) /\ IndexInv(data) /\ FileKept
  BY DEF KeptInv, StoreInv, TypeInv, TypeOK
<1>1. ASSUME NEW p \in Polls, BeginPass(p) PROVE FileKept'
  BY <1>1 DEF BeginPass, Loaded, FileKept
<1>2. CASE CloseCleared
  <2>1. PICK t \in Match(data, poll[next]) : data' = Close(data, t, "all_cleared")
    BY <1>2 DEF CloseCleared
  <2>2. t \in OpenTickets(data)
    BY MatchOpen
  <2>3. /\ DOMAIN data'.tickets = DOMAIN data.tickets
        /\ \A u \in DOMAIN data.tickets \ {t} : data'.tickets[u] = data.tickets[u]
    BY <1>0, <2>1, <2>2, CloseIndex
  <2> QED
    BY <1>0, <1>2, <2>2, <2>3, KeepsFile DEF CloseCleared, Matching, TakeGroup
<1>3. CASE SkipCleared
  BY <1>0, <1>3 DEF SkipCleared, TakeGroup, FileKept
<1>4. CASE CreateTicket
  <2>1. poll[next] \in Group
    BY <1>0, <1>4, PollGroup DEF CreateTicket
  <2>2. /\ DOMAIN data'.tickets = DOMAIN data.tickets \cup {data.next_seq}
        /\ \A u \in DOMAIN data.tickets : data'.tickets[u] = data.tickets[u]
    BY <1>0, <1>4, <2>1, CreateIndex DEF CreateTicket
  <2>3. data.next_seq \notin DOMAIN data.tickets
    BY <1>0 DEF IndexInv, Numbered, IsStore, TicketId
  <2> QED
    BY <1>0, <1>4, <2>2, <2>3, KeepsFile DEF CreateTicket, Matching, TakeGroup
<1>5. CASE UpdateTicket
  <2>1. PICK t \in Match(data, poll[next]) : data' = Update(data, t, poll[next])
    BY <1>5 DEF UpdateTicket
  <2>2. t \in OpenTickets(data) /\ poll[next] \in Group
    BY <1>0, <1>5, MatchOpen, PollGroup DEF UpdateTicket
  <2>3. /\ DOMAIN data'.tickets = DOMAIN data.tickets
        /\ \A u \in DOMAIN data.tickets \ {t} : data'.tickets[u] = data.tickets[u]
    BY <1>0, <2>1, <2>2, UpdateIndex
  <2> QED
    BY <1>0, <1>5, <2>2, <2>3, KeepsFile DEF UpdateTicket, Matching, TakeGroup
<1>6. CASE KeepTicket
  BY <1>0, <1>6 DEF KeepTicket, TakeGroup, FileKept
<1>7. CASE SweepTicket
  <2>1. PICK t \in Unmatched :
          data' = Close(data, t, CloseReason(data.tickets[t], poll))
    BY <1>7 DEF SweepTicket
  <2>2. t \in OpenTickets(data)
    BY DEF Unmatched
  <2>3. /\ DOMAIN data'.tickets = DOMAIN data.tickets
        /\ \A u \in DOMAIN data.tickets \ {t} : data'.tickets[u] = data.tickets[u]
    BY <1>0, <2>1, <2>2, CloseIndex
  <2> QED
    BY <1>0, <1>7, <2>2, <2>3, KeepsFile DEF SweepTicket, Sweeping
<1>8. CASE Save
  BY <1>8 DEF Save, Reset, FileKept
<1>9. CASE AbortPass
  BY <1>9 DEF AbortPass, Reset, FileKept
<1>10. CASE UNCHANGED vars
  BY <1>0, <1>10 DEF vars, FileKept
<1> QED
  BY <1>1, <1>2, <1>3, <1>4, <1>5, <1>6, <1>7, <1>8, <1>9, <1>10 DEF Next

(* The file changes only by Save. *)
LEMMA FileChanges ==
  ASSUME [Next]_vars
  PROVE  (file' = file /\ saved' = saved) \/ Save
BY DEF Next, vars, BeginPass, CloseCleared, SkipCleared, CreateTicket, UpdateTicket,
       KeepTicket, SweepTicket, AbortPass, TakeGroup

(***************************************************************************)
(* If every pass can read the file, a closed ticket stays as it is and no  *)
(* ticket is lost, whatever the reports are.                               *)
(***************************************************************************)
THEOREM ClosedStaysClosed ==
  ASSUME ~ ReadMayFail
  PROVE  Spec => ClosedForever
<1> DEFINE Kept == \A t \in DOMAIN file.tickets :
              /\ t \in DOMAIN file'.tickets
              /\ file.tickets[t].status = "closed" => file'.tickets[t] = file.tickets[t]
<1>1. Init => KeptInv
  BY InitStore DEF KeptInv, FileKept, Init, Idle
<1>2. KeptInv /\ [Next]_vars => KeptInv'
  BY StepStore, StepKept DEF KeptInv
<1>3. KeptInv /\ [Next]_vars => [Kept]_vars
  <2> SUFFICES ASSUME KeptInv, [Next]_vars PROVE Kept
    OBVIOUS
  <2>1. CASE file' = file
    BY <2>1
  <2>2. CASE Save
    BY <2>2 DEF KeptInv, FileKept, Save, ReadyToSave, Sweeping
  <2> QED
    BY <2>1, <2>2, FileChanges
<1> QED
  BY <1>1, <1>2, <1>3, PTL DEF Spec, ClosedForever

-----------------------------------------------------------------------------
(***************************************************************************)
(* A pass over the report the file reflects changes nothing: its active    *)
(* groups match the tickets they have, its cleared groups match none, and  *)
(* nothing is left to sweep.                                               *)
(***************************************************************************)
QuietInv == pc = "sync" /\ poll = saved => data = file /\ events = <<>>

LEMMA QuietMatch ==
  ASSUME WellFormedPolls, PassInv, Matching, data = file, poll = saved
  PROVE  LET g == poll[next] IN
         IF AllCleared(g.members)
         THEN Match(data, g) = {}
         ELSE /\ Match(data, g) # {}
              /\ \A t \in Match(data, g) : ~ Differs(data.tickets[t], g)
<1> DEFINE g == poll[next]
<1>1. TrackedIn(data) = ToTrack(poll) /\ IndexExact(data)
  BY DEF PassInv, FileReflectsReport, StoreInv, IndexInv
<1>2. next \in DOMAIN poll /\ WellFormed(poll)
  BY DEF Matching, PassInv, StoreInv, TypeInv, TypeOK, WellFormedPolls
<1>3. ASSUME NEW t \in OpenTickets(data)
      PROVE  \E j \in DOMAIN poll : /\ ~ AllCleared(poll[j].members)
                                    /\ Shows(data.tickets[t]) = Shows(poll[j])
  BY <1>1 DEF TrackedIn, ToTrack, ActiveGroups, Groups
<1>4. ASSUME NEW t \in Match(data, g) PROVE Shows(data.tickets[t]) = Shows(g) /\ ~ AllCleared(g.members)
  <2>1. t \in OpenTickets(data)
    BY MatchOpen
  <2>2. PICK j \in DOMAIN poll : /\ ~ AllCleared(poll[j].members)
                                 /\ Shows(data.tickets[t]) = Shows(poll[j])
    BY <1>3, <2>1
  <2>3. /\ data.tickets[t].group_key = poll[j].group_key
        /\ DOMAIN data.tickets[t].members = DOMAIN poll[j].members
    BY <2>2, ShowsFields
  <2>4. CASE t \in GetOpenByKey(data, g.group_key)
    <3>1. data.tickets[t].group_key = g.group_key
      BY <1>1, <2>4 DEF GetOpenByKey, IndexExact
    <3> QED
      BY <1>2, <2>2, <2>3, <3>1 DEF WellFormed
  <2>5. CASE t \in FindOpenByOverlap(data, DOMAIN g.members)
    <3>1. DOMAIN g.members \cap DOMAIN data.tickets[t].members # {}
      BY <2>5 DEF FindOpenByOverlap, Shared
    <3> QED
      BY <1>2, <2>2, <2>3, <3>1 DEF WellFormed
  <2> QED
    BY <2>4, <2>5 DEF Match
<1>5. CASE ~ AllCleared(g.members)
  <2>1. PICK t \in OpenTickets(data) : Shows(data.tickets[t]) = Shows(g)
    BY <1>1, <1>2, <1>5 DEF TrackedIn, ToTrack, ActiveGroups, Groups
  <2>2. t \in GetOpenByKey(data, g.group_key)
    BY <1>1, <2>1, ShowsFields DEF GetOpenByKey, IndexExact
  <2>3. Match(data, g) # {}
    BY <2>2 DEF Match
  <2>4. ASSUME NEW u \in Match(data, g) PROVE ~ Differs(data.tickets[u], g)
    BY <1>4, DiffersShows
  <2> QED
    BY <1>5, <2>3, <2>4
<1>6. CASE AllCleared(g.members)
  BY <1>4, <1>6
<1> QED
  BY <1>5, <1>6

LEMMA QuietSweep ==
  ASSUME PassInv, Sweeping, data = file, poll = saved
  PROVE  Unmatched = {}
<1> SUFFICES ASSUME NEW t \in Unmatched PROVE FALSE
  OBVIOUS
<1>1. TrackedIn(data) = ToTrack(poll) /\ IndexExact(data)
  BY DEF PassInv, FileReflectsReport, StoreInv, IndexInv
<1>2. Taken = DOMAIN poll
  <2>1. DOMAIN poll = 1..Len(poll) /\ Len(poll) \in Nat /\ next \in Nat
    BY DEF PassInv, StoreInv, TypeInv, TypeOK
  <2> QED
    BY <2>1 DEF Taken, Sweeping
<1>3. PICK j \in DOMAIN poll : /\ ~ AllCleared(poll[j].members)
                               /\ Shows(data.tickets[t]) = Shows(poll[j])
  BY <1>1 DEF Unmatched, TrackedIn, ToTrack, ActiveGroups, Groups
<1>4. PICK u \in Held : Shows(data.tickets[u]) = Shows(poll[j])
  BY <1>2, <1>3 DEF PassInv, TakenAreHeld
<1>5. data.tickets[u].group_key = data.tickets[t].group_key
  BY <1>3, <1>4, ShowsFields
<1>6. u = t
  BY <1>1, <1>4, <1>5 DEF IndexExact, Held, Unmatched
<1> QED
  BY <1>4, <1>6 DEF Held, Unmatched

LEMMA StepQuiet ==
  ASSUME ~ ReadMayFail, WellFormedPolls, PassInv, QuietInv, [Next]_vars
  PROVE  QuietInv'
<1>0. TypeInv
  BY DEF PassInv, StoreInv
<1>1. ASSUME NEW p \in Polls, BeginPass(p) PROVE QuietInv'
  BY <1>0, <1>1 DEF BeginPass, Loaded, QuietInv, TypeInv, IdleReset, Idle
<1>2. CASE CloseCleared
  BY <1>2, QuietMatch DEF CloseCleared, TakeGroup, QuietInv, Matching
<1>3. CASE SkipCleared
  BY <1>3 DEF SkipCleared, TakeGroup, QuietInv
<1>4. CASE CreateTicket
  BY <1>4, QuietMatch DEF CreateTicket, TakeGroup, QuietInv, Matching
<1>5. CASE UpdateTicket
  BY <1>5, QuietMatch DEF UpdateTicket, TakeGroup, QuietInv, Matching
<1>6. CASE KeepTicket
  BY <1>6 DEF KeepTicket, TakeGroup, QuietInv
<1>7. CASE SweepTicket
  BY <1>7, QuietSweep DEF SweepTicket, QuietInv, Sweeping
<1>8. CASE Save
  BY <1>8 DEF Save, Reset, QuietInv
<1>9. CASE AbortPass
  BY <1>9 DEF AbortPass, Reset, QuietInv
<1>10. CASE UNCHANGED vars
  BY <1>10 DEF vars, QuietInv
<1> QED
  BY <1>1, <1>2, <1>3, <1>4, <1>5, <1>6, <1>7, <1>8, <1>9, <1>10 DEF Next

(***************************************************************************)
(* A pass over an unchanged report announces nothing and changes nothing.  *)
(***************************************************************************)
THEOREM UnchangedReportIsQuiet ==
  ASSUME ~ ReadMayFail, WellFormedPolls
  PROVE  Spec => []Quiescent
<1>1. Init => PassInv /\ QuietInv
  BY InitPass DEF QuietInv, Init, Idle
<1>2. PassInv /\ QuietInv /\ [Next]_vars => (PassInv /\ QuietInv)'
  BY StepPass, StepQuiet
<1>3. QuietInv => Quiescent
  BY DEF QuietInv, Quiescent, ReadyToSave, Sweeping
<1> QED
  BY <1>1, <1>2, <1>3, PTL DEF Spec

-----------------------------------------------------------------------------
(***************************************************************************)
(* The tickets a pass has added to those of the file: they carry numbers   *)
(* the file has not given out, and each is held for a group of the report. *)
(***************************************************************************)
AddedTickets ==
  pc = "sync" =>
    /\ file.next_seq <= data.next_seq
    /\ \A t \in DOMAIN data.tickets \ DOMAIN file.tickets :
         t \in Held /\ file.next_seq <= t

(* A step that adds no ticket and lets none go keeps this. *)
LEMMA AddsNothing ==
  ASSUME AddedTickets, pc = "sync", file' = file, Held \subseteq Held',
         data'.next_seq = data.next_seq,
         DOMAIN data'.tickets = DOMAIN data.tickets
  PROVE  AddedTickets'
BY DEF AddedTickets

LEMMA StepAdded ==
  ASSUME ~ ReadMayFail, WellFormedPolls, PassInv, AddedTickets, [Next]_vars
  PROVE  AddedTickets'
<1>0. StoreInv /\ TypeInv /\ TypeOK /\ IsStore(data) /\ IsStore(file) /\ IndexInv(data)
  BY DEF PassInv, StoreInv, TypeInv, TypeOK
<1>1. ASSUME NEW p \in Polls, BeginPass(p) PROVE AddedTickets'
  <2>1. data' = file /\ file' = file
    BY <1>1 DEF BeginPass, Loaded
  <2>2. file.next_seq <= file.next_seq
    BY <1>0 DEF IsStore, TicketId
  <2> QED
    BY <2>1, <2>2 DEF AddedTickets
<1>2. CASE CloseCleared
  <2>1. PICK t \in Match(data, poll[next]) : data' = Close(data, t, "all_cleared")
                                             /\ matched' = matched \cup {t}
    BY <1>2 DEF CloseCleared
  <2>2. Matching /\ file' = file
    BY <1>2 DEF CloseCleared, TakeGroup
  <2>3. t \in OpenTickets(data) /\ t \notin Held
    BY <2>2, MatchUnheld
  <2>4. /\ OpenTickets(data') = OpenTickets(data) \ {t}
        /\ DOMAIN data'.tickets = DOMAIN data.tickets
    BY <1>0, <2>1, <2>3, CloseIndex
  <2>5. data'.next_seq = data.next_seq
    BY <2>1 DEF Close, Store
  <2>6. Held \subseteq Held'
    BY <2>1, <2>3, <2>4 DEF Held
  <2> QED
    BY <2>2, <2>4, <2>5, <2>6, AddsNothing DEF Matching
<1>3. CASE SkipCleared
  BY <1>3, AddsNothing DEF SkipCleared, Matching, TakeGroup, Held
<1>4. CASE CreateTicket
  <2> DEFINE n == data.next_seq
  <2>1. /\ pc = "sync" /\ file' = file /\ poll[next] \in Group
        /\ matched' = matched \cup {n}
        /\ data' = Create(data, poll[next])
    BY <1>0, <1>4, PollGroup DEF CreateTicket, TakeGroup, Matching
  <2>2. /\ OpenTickets(data') = OpenTickets(data) \cup {n}
        /\ DOMAIN data'.tickets = DOMAIN data.tickets \cup {n}
    BY <1>0, <1>4, <2>1, CreateIndex DEF CreateTicket
  <2>3. data'.next_seq = n + 1
    BY <2>1 DEF Create, Store
  <2>4. file.next_seq \in Nat /\ n \in Nat /\ file.next_seq <= n
    BY <1>0, <2>1 DEF AddedTickets, IsStore, TicketId
  <2>5. Held' = Held \cup {n}
    <3>1. n \notin OpenTickets(data)
      BY <1>0, OpenInDomain DEF IndexInv, Numbered, IsStore, TicketId
    <3>2. matched \cap {n} \subseteq {n}
      OBVIOUS
    <3> QED
      BY <2>1, <2>2, <3>1 DEF Held
  <2>6. file.next_seq <= n + 1
    BY <2>4
  <2> QED
    BY <2>1, <2>2, <2>3, <2>4, <2>5, <2>6 DEF AddedTickets
<1>5. CASE UpdateTicket
  <2>1. PICK t \in Match(data, poll[next]) : data' = Update(data, t, poll[next])
                                             /\ matched' = matched \cup {t}
    BY <1>5 DEF UpdateTicket
  <2>2. Matching /\ file' = file
    BY <1>5 DEF UpdateTicket, TakeGroup
  <2>3. t \in OpenTickets(data) /\ poll[next] \in Group
    BY <1>0, <2>2, MatchOpen, PollGroup
  <2>4. /\ OpenTickets(data') = OpenTickets(data)
        /\ DOMAIN data'.tickets = DOMAIN data.tickets
    BY <1>0, <2>1, <2>3, UpdateIndex
  <2>5. data'.next_seq = data.next_seq
    BY <2>1 DEF Update, Store
  <2>6. Held \subseteq Held'
    BY <2>1, <2>4 DEF Held
  <2> QED
    BY <2>2, <2>4, <2>5, <2>6, AddsNothing DEF Matching
<1>6. CASE KeepTicket
  <2>1. Matching /\ file' = file /\ data' = data /\ matched \subseteq matched'
    BY <1>6 DEF KeepTicket, TakeGroup
  <2> QED
    BY <2>1, AddsNothing DEF Matching, Held
<1>7. CASE SweepTicket
  <2>1. PICK t \in Unmatched :
          data' = Close(data, t, CloseReason(data.tickets[t], poll))
    BY <1>7 DEF SweepTicket
  <2>2. /\ OpenTickets(data') = OpenTickets(data) \ {t}
        /\ DOMAIN data'.tickets = DOMAIN data.tickets
    BY <1>0, <2>1, CloseIndex DEF Unmatched
  <2>3. data'.next_seq = data.next_seq
    BY <2>1 DEF Close, Store
  <2>4. Held \subseteq Held' /\ file' = file
    BY <1>7, <2>1, <2>2 DEF SweepTicket, Held, Unmatched
  <2> QED
    BY <1>7, <2>2, <2>3, <2>4, AddsNothing DEF SweepTicket, Sweeping
<1>8. CASE Save
  BY <1>8 DEF Save, Reset, AddedTickets
<1>9. CASE AbortPass
  BY <1>9 DEF AbortPass, Reset, AddedTickets
<1>10. CASE UNCHANGED vars
  BY <1>10 DEF vars, AddedTickets, Held
<1> QED
  BY <1>1, <1>2, <1>3, <1>4, <1>5, <1>6, <1>7, <1>8, <1>9, <1>10 DEF Next

(* The index of a store gives the open tickets, each under its own key. *)
LEMMA NumbersOpen ==
  ASSUME NEW s, IndexExact(s)
  PROVE  Lifecycle!Numbers(OpenByKey(s)) = OpenTickets(s)
BY DEF IndexExact, OpenByKey, Lifecycle!Numbers

(***************************************************************************)
(* The file a pass saves tracks the active groups of its report.           *)
(***************************************************************************)
LEMMA SaveTracks ==
  ASSUME WellFormedPolls, PassInv, Save
  PROVE  Lifecycle!Tracks(Tracked(poll))
<1> DEFINE index == data.open_by_group_key
           keys  == {g.group_key : g \in ActiveGroups(poll)}
<1>1. IndexExact(data) /\ WellFormed(poll) /\ file' = data
  BY DEF PassInv, StoreInv, IndexInv, WellFormedPolls, Save, ReadyToSave, Sweeping
<1>2. TrackedIn(data) = ToTrack(poll)
  BY ReadyReflects DEF Save
<1>3. ASSUME NEW k \in DOMAIN index
      PROVE  \E g \in ActiveGroups(poll) :
               g.group_key = k /\ Shows(data.tickets[index[k]]) = Shows(g)
  <2>1. /\ index[k] \in OpenTickets(data)
        /\ data.tickets[index[k]].group_key = k
    BY <1>1 DEF IndexExact
  <2>2. PICK g \in ActiveGroups(poll) : Shows(data.tickets[index[k]]) = Shows(g)
    BY <1>2, <2>1 DEF TrackedIn, ToTrack
  <2> QED
    BY <2>1, <2>2, ShowsFields
<1>4. DOMAIN index = keys
  <2>1. DOMAIN index \subseteq keys
    BY <1>3
  <2>2. ASSUME NEW g \in ActiveGroups(poll) PROVE g.group_key \in DOMAIN index
    <3>1. PICK t \in OpenTickets(data) : Shows(data.tickets[t]) = Shows(g)
      BY <1>2 DEF TrackedIn, ToTrack
    <3>2. data.tickets[t].group_key = g.group_key
      BY <3>1, ShowsFields
    <3> QED
      BY <1>1, <3>2 DEF IndexExact
  <2> QED
    BY <2>1, <2>2
<1>5. \A g, h \in ActiveGroups(poll) : g.group_key = h.group_key => g = h
  BY <1>1 DEF ActiveGroups, Groups, WellFormed
<1>6. ASSUME NEW k \in keys
      PROVE  Content(data.tickets[index[k]]) = Tracked(poll)[k]
  <2> DEFINE h == CHOOSE g \in ActiveGroups(poll) : g.group_key = k
  <2>1. h \in ActiveGroups(poll) /\ h.group_key = k
    OBVIOUS
  <2>2. Shows(data.tickets[index[k]]) = Shows(h)
    BY <1>3, <1>4, <1>5, <2>1
  <2>3. Tracked(poll)[k] = Content(h)
    BY DEF Tracked
  <2> QED
    BY <2>2, <2>3, ShowsFields
<1>7. DOMAIN Tracked(poll) = keys
  BY DEF Tracked
<1>8. OpenByKey(file)' = OpenByKey(data)
  BY <1>1 DEF OpenByKey
<1>9. /\ DOMAIN OpenByKey(data) = DOMAIN index
      /\ \A k \in DOMAIN index :
           /\ OpenByKey(data)[k].ticket = index[k]
           /\ OpenByKey(data)[k].content = Content(data.tickets[index[k]])
  BY DEF OpenByKey
<1>10. \A k, l \in DOMAIN index : index[k] = index[l] => k = l
  BY <1>1 DEF IndexExact
<1> HIDE DEF index, keys
<1> QED
  BY <1>4, <1>6, <1>7, <1>8, <1>9, <1>10 DEF Lifecycle!Tracks

(***************************************************************************)
(* A saved pass keeps open tickets or gives out new numbers, and retires   *)
(* the open tickets it does not keep.                                      *)
(***************************************************************************)
LEMMA SaveKeepsOrRetires ==
  ASSUME PassInv, FileKept, AddedTickets, Save
  PROVE  Lifecycle!KeepsOrNumbers /\ Lifecycle!Retires
<1>1. /\ pc = "sync" /\ file' = data /\ Held = OpenTickets(data)
      /\ IsStore(file) /\ IsStore(data)
      /\ IndexInv(file) /\ IndexInv(data)
  BY DEF PassInv, StoreInv, TypeInv, TypeOK, Save, ReadyToSave, Sweeping, Unmatched, Held
<1>2. /\ Lifecycle!Numbers(OpenByKey(file)) = OpenTickets(file)
      /\ Lifecycle!Numbers(OpenByKey(file))' = OpenTickets(data)
  <2>1. Lifecycle!Numbers(OpenByKey(data)) = OpenTickets(data)
    BY <1>1, NumbersOpen DEF IndexInv
  <2>2. Lifecycle!Numbers(OpenByKey(file)) = OpenTickets(file)
    BY <1>1, NumbersOpen DEF IndexInv
  <2>3. Lifecycle!Numbers(OpenByKey(file))' = Lifecycle!Numbers(OpenByKey(data))
    BY <1>1 DEF Lifecycle!Numbers, OpenByKey
  <2> QED
    BY <2>1, <2>2, <2>3
<1>3. ASSUME NEW t \in DOMAIN file.tickets
      PROVE  /\ t \in DOMAIN data.tickets
             /\ t \notin OpenTickets(file) => t \notin OpenTickets(data)
  <2>1. file.tickets[t].status \in {"open", "closed"}
    BY <1>1 DEF IsStore, Ticket
  <2> QED
    BY <1>1, <2>1 DEF FileKept, OpenTickets
<1>4. ASSUME NEW t \in DOMAIN data.tickets \ DOMAIN file.tickets
      PROVE  t \in OpenTickets(data) /\ \A m \in DOMAIN file.tickets : m < t
  <2>1. t \in Held /\ file.next_seq <= t
    BY <1>1 DEF AddedTickets
  <2>2. ASSUME NEW m \in DOMAIN file.tickets PROVE m < t
    <3>1. m < file.next_seq /\ m \in Nat /\ file.next_seq \in Nat /\ t \in Nat
      BY <1>1 DEF IndexInv, Numbered, IsStore, TicketId
    <3> QED
      BY <2>1, <3>1
  <2> QED
    BY <1>1, <2>1, <2>2
<1>5. Lifecycle!KeepsOrNumbers
  <2>1. Lifecycle!Issued = DOMAIN file.tickets
    BY <1>2, OpenInDomain DEF Lifecycle!Issued, Retired
  <2>2. ASSUME NEW t \in OpenTickets(data)
        PROVE  t \in OpenTickets(file) \/ \A m \in DOMAIN file.tickets : m < t
    BY <1>3, <1>4, OpenInDomain
  <2> QED
    BY <1>2, <2>1, <2>2 DEF Lifecycle!KeepsOrNumbers
<1>6. Lifecycle!Retires
  <2>1. Retired(file)' = DOMAIN data.tickets \ OpenTickets(data)
    BY <1>1 DEF Retired, OpenTickets
  <2>2. DOMAIN data.tickets \ OpenTickets(data)
          = Retired(file) \cup (OpenTickets(file) \ OpenTickets(data))
    BY <1>3, <1>4, OpenInDomain DEF Retired
  <2> QED
    BY <1>2, <2>1, <2>2 DEF Lifecycle!Retires
<1> QED
  BY <1>5, <1>6

(***************************************************************************)
(* If every pass can read the file, the worker implements the lifecycle:   *)
(* a pass that is saved is one step of it, every other step none.          *)
(***************************************************************************)
THEOREM SyncImplementsLifecycle ==
  ASSUME ~ ReadMayFail, WellFormedPolls
  PROVE  Spec => ImplementsLifecycle
<1> DEFINE IInv == PassInv /\ FileKept /\ AddedTickets
<1>1. Init => IInv
  BY InitPass DEF FileKept, AddedTickets, Init, Idle
<1>2. IInv /\ [Next]_vars => IInv'
  BY StepPass, StepKept, StepAdded DEF KeptInv, PassInv
<1>3. Init => Lifecycle!Init
  BY DEF Init, EmptyStore, Store, EmptyDict, OpenByKey, Retired, OpenTickets, Lifecycle!Init
<1>4. IInv /\ [Next]_vars => [Lifecycle!Next]_<<OpenByKey(file), Retired(file)>>
  <2> SUFFICES ASSUME IInv, [Next]_vars
               PROVE  [Lifecycle!Next]_<<OpenByKey(file), Retired(file)>>
    OBVIOUS
  <2>1. CASE file' = file
    BY <2>1 DEF OpenByKey, Retired, OpenTickets
  <2>2. CASE Save
    <3>1. Lifecycle!Pass(Tracked(poll))
      BY <2>2, SaveTracks, SaveKeepsOrRetires DEF Lifecycle!Pass
    <3>2. Tracked(poll) \in TrackedReports
      BY <2>2 DEF TrackedReports, PassInv, Save, ReadyToSave, Sweeping
    <3> QED
      BY <3>1, <3>2 DEF Lifecycle!Next
  <2> QED
    BY <2>1, <2>2, FileChanges
<1> QED
  BY <1>1, <1>2, <1>3, <1>4, PTL DEF Spec, ImplementsLifecycle, Lifecycle!Spec

-----------------------------------------------------------------------------
(***************************************************************************)
(* What a pass tells the handlers.  A ticket that is open and not matched  *)
(* yet is as it was in the file, so that the one event a step emits is the *)
(* first about its ticket.                                                 *)
(***************************************************************************)
Untouched ==
  \A t \in OpenTickets(data) \ matched :
    t \in DOMAIN file.tickets /\ data.tickets[t] = file.tickets[t]

EventsKnown == \A j \in DOMAIN events : events[j].ticket_id \in DOMAIN data.tickets

ToldInv ==
  pc = "sync" =>
    /\ DOMAIN file.tickets \subseteq DOMAIN data.tickets
    /\ \A t \in DOMAIN data.tickets : ToldOf(t)
    /\ Untouched
    /\ EventsKnown

LEMMA UntouchedIsUntold ==
  ASSUME ToldInv, pc = "sync", NEW t \in OpenTickets(data) \ matched
  PROVE  /\ t \in DOMAIN file.tickets /\ data.tickets[t] = file.tickets[t]
         /\ EventsOn(t) = {}
<1>1. t \in DOMAIN file.tickets /\ data.tickets[t] = file.tickets[t]
  BY DEF ToldInv, Untouched
<1>2. Difference(t) = "none" /\ ToldOf(t)
  BY <1>1, OpenInDomain DEF ToldInv, Difference
<1> QED
  BY <1>1, <1>2 DEF ToldOf

(* The event a step emits is added to those about its ticket only. *)
LEMMA EmitAdds ==
  ASSUME TypeOK, NEW action, NEW t, NEW reason, Emit(action, t, reason)
  PROVE  LET n == Len(events) + 1 IN
         /\ DOMAIN events' = DOMAIN events \cup {n} /\ n \notin DOMAIN events
         /\ \A j \in DOMAIN events : events'[j] = events[j]
         /\ events'[n].ticket_id = t /\ events'[n].action = action
         /\ EventsOn(t)' = EventsOn(t) \cup {n}
         /\ \A u : u # t => EventsOn(u)' = EventsOn(u)
<1> DEFINE n == Len(events) + 1
           e == [action |-> action, ticket_id |-> t, close_reason |-> reason]
<1>1. events \in Seq(Event) /\ events' = Append(events, e)
  BY DEF TypeOK, Emit
<1>2. /\ DOMAIN events = 1..Len(events) /\ Len(events) \in Nat
      /\ DOMAIN events' = 1..n
      /\ \A j \in 1..Len(events) : events'[j] = events[j]
      /\ events'[n] = e
  <2> HIDE DEF e
  <2> QED
    BY <1>1
<1>3. DOMAIN events' = DOMAIN events \cup {n} /\ n \notin DOMAIN events
  BY <1>2
<1>4. events'[n].ticket_id = t /\ events'[n].action = action
  BY <1>2
<1> HIDE DEF n, e
<1> QED
  BY <1>2, <1>3, <1>4 DEF EventsOn, n

(* A step of a pass that changes one ticket, the first time, and says so. *)
LEMMA TellsOne ==
  ASSUME TypeOK, ToldInv, pc = "sync", file' = file,
         NEW t, NEW action, NEW reason, Emit(action, t, reason),
         EventsOn(t) = {}, Difference(t)' = action, action # "none",
         DOMAIN data'.tickets = DOMAIN data.tickets \cup {t},
         \A u \in DOMAIN data.tickets \ {t} : data'.tickets[u] = data.tickets[u],
         OpenTickets(data') \ matched' \subseteq (OpenTickets(data) \ matched) \ {t}
  PROVE  ToldInv'
<1> DEFINE n == Len(events) + 1
<1>1. /\ DOMAIN events' = DOMAIN events \cup {n} /\ n \notin DOMAIN events
      /\ \A j \in DOMAIN events : events'[j] = events[j]
      /\ events'[n].ticket_id = t /\ events'[n].action = action
      /\ EventsOn(t)' = {n}
      /\ \A u : u # t => EventsOn(u)' = EventsOn(u)
  <2>1. EventsOn(t)' = EventsOn(t) \cup {n}
    BY EmitAdds
  <2>2. EventsOn(t)' = {n}
    BY <2>1
  <2> QED
    BY <2>2, EmitAdds
<1> HIDE DEF n
<1>2. DOMAIN file'.tickets \subseteq DOMAIN data'.tickets
  BY DEF ToldInv
<1>3. ASSUME NEW u \in DOMAIN data'.tickets PROVE ToldOf(u)'
  <2>1. CASE u = t
    BY <1>1, <2>1 DEF ToldOf
  <2>2. CASE u # t
    <3>1. u \in DOMAIN data.tickets /\ data'.tickets[u] = data.tickets[u] /\ ToldOf(u)
      BY <2>2 DEF ToldInv
    <3>2. Difference(u)' = Difference(u)
      BY <3>1 DEF Difference
    <3>3. EventsOn(u)' = EventsOn(u) /\ EventsOn(u) \subseteq DOMAIN events
      BY <1>1, <2>2 DEF EventsOn
    <3> QED
      BY <1>1, <3>1, <3>2, <3>3 DEF ToldOf
  <2> QED
    BY <2>1, <2>2
<1>4. Untouched'
  BY OpenInDomain DEF ToldInv, Untouched
<1>5. EventsKnown'
  BY <1>1 DEF ToldInv, EventsKnown
<1> QED
  BY <1>2, <1>3, <1>4, <1>5 DEF ToldInv

(* Closing an open ticket that is as it was in the file. *)
LEMMA ClosesTold ==
  ASSUME TypeOK, IndexInv(data), ToldInv, pc = "sync", file' = file,
         NEW t \in OpenTickets(data) \ matched, NEW reason,
         data' = Close(data, t, reason), Emit("closed", t, reason),
         matched \subseteq matched'
  PROVE  ToldInv'
<1>0. IsStore(data)
  BY DEF TypeOK
<1>1. /\ OpenTickets(data') = OpenTickets(data) \ {t}
      /\ DOMAIN data'.tickets = DOMAIN data.tickets
      /\ \A u \in DOMAIN data.tickets \ {t} : data'.tickets[u] = data.tickets[u]
  BY <1>0, CloseIndex
<1>2. t \in DOMAIN data.tickets /\ data.tickets[t] \in Ticket /\ data.tickets[t].status = "open"
  BY <1>0 DEF OpenTickets, IsStore
<1>3. data'.tickets[t].status = "closed"
  BY <1>2 DEF Close, Store, Ticket
<1>4. t \in DOMAIN file.tickets /\ data.tickets[t] = file.tickets[t] /\ EventsOn(t) = {}
  BY UntouchedIsUntold
<1>5. Difference(t)' = "closed"
  BY <1>2, <1>3, <1>4 DEF Difference
<1>6. DOMAIN data'.tickets = DOMAIN data.tickets \cup {t}
  BY <1>1, <1>2
<1> QED
  BY <1>1, <1>4, <1>5, <1>6, TellsOne

(* A step that leaves the tickets and the events alone. *)
LEMMA TellsNothing ==
  ASSUME ToldInv, file' = file, data' = data, events' = events, pc' = pc,
         matched \subseteq matched'
  PROVE  ToldInv'
<1>1. \A u : ToldOf(u)' = ToldOf(u)
  BY DEF ToldOf, Difference, EventsOn
<1> QED
  BY <1>1 DEF ToldInv, Untouched, EventsKnown

LEMMA StepTold ==
  ASSUME ~ ReadMayFail, WellFormedPolls, PassInv, ToldInv, [Next]_vars
  PROVE  ToldInv'
<1>0. StoreInv /\ TypeInv /\ TypeOK /\ IsStore(data) /\ IsStore(file) /\ IndexInv(data)
  BY DEF PassInv, StoreInv, TypeInv, TypeOK
<1>1. ASSUME NEW p \in Polls, BeginPass(p) PROVE ToldInv'
  <2>1. data' = file /\ file' = file /\ events' = <<>>
    BY <1>0, <1>1 DEF BeginPass, Loaded, TypeInv, IdleReset, Idle
  <2>2. DOMAIN events' = {} /\ \A u : EventsOn(u)' = {}
    BY <2>1 DEF EventsOn
  <2> QED
    BY <2>1, <2>2, OpenInDomain DEF ToldInv, ToldOf, Difference, Untouched, EventsKnown
<1>2. CASE CloseCleared
  <2>1. PICK t \in Match(data, poll[next]) : /\ data' = Close(data, t, "all_cleared")
                                              /\ matched' = matched \cup {t}
                                              /\ Emit("closed", t, "all_cleared")
    BY <1>2 DEF CloseCleared
  <2>2. Matching /\ pc = "sync" /\ file' = file
    BY <1>2 DEF CloseCleared, Matching, TakeGroup
  <2>3. t \in OpenTickets(data) \ matched
    BY <2>2, MatchUnheld DEF Held
  <2> QED
    BY <1>0, <2>1, <2>2, <2>3, ClosesTold
<1>3. CASE SkipCleared
  BY <1>3, TellsNothing DEF SkipCleared, TakeGroup
<1>4. CASE CreateTicket
  <2>0. PICK n : n = data.next_seq
    OBVIOUS
  <2>1. /\ pc = "sync" /\ file' = file /\ poll[next] \in Group
        /\ matched' = matched \cup {n}
        /\ Emit("created", n, "none")
    BY <1>0, <1>4, <2>0, PollGroup DEF CreateTicket, TakeGroup, Matching
  <2>2. /\ OpenTickets(data') = OpenTickets(data) \cup {n}
        /\ DOMAIN data'.tickets = DOMAIN data.tickets \cup {n}
        /\ \A u \in DOMAIN data.tickets : data'.tickets[u] = data.tickets[u]
    BY <1>0, <1>4, <2>0, <2>1, CreateIndex DEF CreateTicket
  <2>3. n \notin DOMAIN data.tickets
    BY <1>0, <2>0 DEF IndexInv, Numbered, IsStore, TicketId
  <2>4. EventsOn(n) = {} /\ n \notin DOMAIN file.tickets
    BY <2>1, <2>3 DEF ToldInv, EventsKnown, EventsOn
  <2>5. Difference(n)' = "created"
    BY <2>1, <2>4 DEF Difference
  <2> QED
    BY <1>0, <2>1, <2>2, <2>3, <2>4, <2>5, TellsOne
<1>5. CASE UpdateTicket
  <2>1. PICK t \in Match(data, poll[next]) : /\ Differs(data.tickets[t], poll[next])
                                              /\ data' = Update(data, t, poll[next])
                                              /\ matched' = matched \cup {t}
                                              /\ Emit("updated", t, "none")
    BY <1>5 DEF UpdateTicket
  <2>2. Matching /\ pc = "sync" /\ file' = file
    BY <1>5 DEF UpdateTicket, Matching, TakeGroup
  <2>3. t \in OpenTickets(data) \ matched /\ poll[next] \in Group
    BY <1>0, <2>2, MatchUnheld, PollGroup DEF Held
  <2>4. /\ OpenTickets(data') = OpenTickets(data)
        /\ DOMAIN data'.tickets = DOMAIN data.tickets
        /\ Shows(data'.tickets[t]) = Shows(OpenTicket(poll[next]))
        /\ \A u \in DOMAIN data.tickets \ {t} : data'.tickets[u] = data.tickets[u]
    BY <1>0, <2>1, <2>3, UpdateIndex
  <2>5. t \in DOMAIN file.tickets /\ data.tickets[t] = file.tickets[t] /\ EventsOn(t) = {}
    BY <2>2, <2>3, UntouchedIsUntold
  <2>6. data'.tickets[t] # data.tickets[t]
    <3>1. Shows(data'.tickets[t]) = Shows(poll[next])
      BY <2>3, <2>4, ShowsOpen
    <3> QED
      BY <2>1, <3>1, DiffersShows
  <2>7. data'.tickets[t].status = "open"
    BY <2>3, <2>4 DEF OpenTickets
  <2>8. Difference(t)' = "updated"
    BY <2>2, <2>5, <2>6, <2>7 DEF Difference
  <2>9. t \in DOMAIN data.tickets
    BY <2>3, OpenInDomain
  <2> QED
    BY <1>0, <2>1, <2>2, <2>4, <2>5, <2>8, <2>9, TellsOne
<1>6. CASE KeepTicket
  BY <1>6, TellsNothing DEF KeepTicket, TakeGroup
<1>7. CASE SweepTicket
  <2>1. PICK t \in Unmatched :
          LET reason == CloseReason(data.tickets[t], poll)
          IN  data' = Close(data, t, reason) /\ Emit("closed", t, reason)
    BY <1>7 DEF SweepTicket
  <2> DEFINE reason == CloseReason(data.tickets[t], poll)
  <2>2. pc = "sync" /\ file' = file /\ matched' = matched
    BY <1>7 DEF SweepTicket, Sweeping
  <2>3. t \in OpenTickets(data) \ matched
    BY DEF Unmatched
  <2> QED
    BY <1>0, <2>1, <2>2, <2>3, ClosesTold
<1>8. CASE Save
  BY <1>8 DEF Save, Reset, ToldInv
<1>9. CASE AbortPass
  BY <1>9 DEF AbortPass, Reset, ToldInv
<1>10. CASE UNCHANGED vars
  BY <1>10, TellsNothing DEF vars
<1> QED
  BY <1>1, <1>2, <1>3, <1>4, <1>5, <1>6, <1>7, <1>8, <1>9, <1>10 DEF Next

(***************************************************************************)
(* The events of a pass are the difference between the file it has read    *)
(* and the file it is about to write.                                      *)
(***************************************************************************)
THEOREM EventsCorrect ==
  ASSUME ~ ReadMayFail, WellFormedPolls
  PROVE  Spec => []EventsTellTheDifference
<1>1. Init => PassInv /\ ToldInv
  BY InitPass DEF ToldInv, Init, Idle
<1>2. PassInv /\ ToldInv /\ [Next]_vars => (PassInv /\ ToldInv)'
  BY StepPass, StepTold
<1>3. ToldInv => EventsTellTheDifference
  BY DEF ToldInv, EventsTellTheDifference, ReadyToSave, Sweeping
<1> QED
  BY <1>1, <1>2, <1>3, PTL DEF Spec

=============================================================================
