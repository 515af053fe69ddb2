------------------------ MODULE SaymonClientProofs ------------------------
(***************************************************************************)
(* Proofs about SaymonClient, for any number of coroutines, any lists and  *)
(* limits, and any failures: its types, that there is one login at a time  *)
(* and no request without a session, that limits are kept, and what pages  *)
(* taken by offset can miss or bring twice while the list changes.         *)
(***************************************************************************)
EXTENDS SaymonClient, SequenceTheorems, FunctionTheorems, FiniteSetTheorems, TLAPS

-----------------------------------------------------------------------------
(***************************************************************************)
(* The operators of a page.                                                *)
(***************************************************************************)
LEMMA PageSizeType ==
  ASSUME NEW ask \in Asks, ask.limit > 0
  PROVE  PageSize(ask) \in Nat \ {0}
<1>1. ask.limit \in Int /\ ask.page \in Nat /\ DefaultPage \in Nat
  BY ClientAssumption
<1>2. QED
  BY <1>1 DEF PageSize, Lesser, Greater

(* A page is no longer than was asked for. *)
LEMMA BatchProperties ==
  ASSUME list \in Seq(Incident), NEW r \in ReadState, BatchLimit(r) \in Nat
  PROVE  /\ Batch(r) \in Seq(Incident)
         /\ Len(Batch(r)) <= BatchLimit(r)
         /\ Len(Batch(r)) = IF r.skip + 1 <= Lesser(r.skip + BatchLimit(r), Len(list))
                            THEN Lesser(r.skip + BatchLimit(r), Len(list)) - r.skip ELSE 0
         /\ \A j \in 1..Len(Batch(r)) : Batch(r)[j] = list[r.skip + j]
<1> DEFINE last == Lesser(r.skip + BatchLimit(r), Len(list))
<1>1. r.skip \in Nat /\ Len(list) \in Nat
  BY DEF ReadState
<1>2. last \in Int /\ last <= Len(list) /\ last <= r.skip + BatchLimit(r)
  BY <1>1 DEF Lesser
<1>3. \A i \in (r.skip + 1)..last : list[i] \in Incident
  BY <1>1, <1>2
<1> HIDE DEF last
<1>4. /\ SubSeq(list, r.skip + 1, last) \in Seq(Incident)
      /\ Len(SubSeq(list, r.skip + 1, last)) = IF r.skip + 1 <= last THEN last - (r.skip + 1) + 1 ELSE 0
      /\ \A i \in 1..(last - (r.skip + 1) + 1) :
           SubSeq(list, r.skip + 1, last)[i] = list[r.skip + 1 + i - 1]
  BY <1>1, <1>2, <1>3, SubSeqProperties
<1>5. Batch(r) = SubSeq(list, r.skip + 1, last)
  BY DEF Batch, last
<1>6. Len(Batch(r)) = IF r.skip + 1 <= last THEN last - r.skip ELSE 0
  BY <1>1, <1>2, <1>4, <1>5
<1>7. \A j \in 1..Len(Batch(r)) : Batch(r)[j] = list[r.skip + j]
  <2> TAKE j \in 1..Len(Batch(r))
  <2>1. r.skip + 1 <= last /\ j \in 1..(last - (r.skip + 1) + 1)
    BY <1>1, <1>2, <1>6
  <2>2. r.skip + 1 + j - 1 = r.skip + j
    BY <1>1, <2>1
  <2> QED  BY <1>4, <1>5, <2>1, <2>2
<1>8. Len(Batch(r)) <= BatchLimit(r)
  BY <1>1, <1>2, <1>6
<1> QED  BY <1>4, <1>5, <1>6, <1>7, <1>8 DEF last

-----------------------------------------------------------------------------
(***************************************************************************)
(* The types.                                                              *)
(***************************************************************************)
Asking(c) == read[c].pc \in {"lock", "login", "redirect", "page"}

(* A read that is under way stands where its results end, and below its limit. *)
ReadInv(r) ==
  /\ r.pc \in {"lock", "login", "redirect", "page"} =>
       /\ r.skip = Len(r.results)
       /\ r.skip < r.limit
       /\ r.page # 0
  /\ r.pc = "done" /\ r.results # <<>> => Len(r.results) <= r.limit

PageInv == \A c \in Reader : ReadInv(read[c])

TypeInv == TypeOK /\ PageInv

(* Who logs in holds the lock, and nobody has succeeded yet. *)
LockInv == \A c \in Reader : LoggingIn(c) => Holds(c) /\ ~ authenticated

LEMMA NoReadType == NoRead \in ReadState
BY DEF NoRead, ReadState, States

LEMMA NewPc ==
  ASSUME NEW r \in ReadState, NEW pc \in States
  PROVE  LET n == [r EXCEPT !.pc = pc]
         IN  /\ n \in ReadState /\ n.pc = pc /\ n.skip = r.skip
             /\ n.limit = r.limit /\ n.page = r.page /\ n.results = r.results
BY DEF ReadState

LEMMA BatchLimitType ==
  ASSUME TypeInv, NEW c \in Reader, Asking(c)
  PROVE  /\ BatchLimit(read[c]) \in Nat \ {0}
         /\ BatchLimit(read[c]) <= read[c].limit - read[c].skip
<1>1. /\ read[c].page \in Nat \ {0} /\ read[c].limit \in Int /\ read[c].skip \in Nat
      /\ read[c].skip = Len(read[c].results) /\ read[c].skip < read[c].limit
  BY DEF TypeInv, TypeOK, PageInv, ReadInv, Asking, ReadState
<1> QED  BY <1>1 DEF BatchLimit, Lesser

(* What a page makes of a read. *)
LEMMA WithBatchProperties ==
  ASSUME TypeInv, NEW c \in Reader, read[c].pc = "page",
         NEW r, r = read[c], NEW n, n = WithBatch(r)
  PROVE  /\ n \in ReadState
         /\ n.pc \in {"page", "done"}
         /\ n.limit = r.limit /\ n.page = r.page
         /\ n.results = r.results \o Batch(r)
         /\ Len(n.results) <= r.limit
         /\ n.pc = "page" => /\ n.skip = Len(n.results) /\ n.skip < n.limit
                             /\ n.skip = r.skip + BatchLimit(r)
                             /\ Len(Batch(r)) = BatchLimit(r)
         /\ n.pc = "done" => Len(Batch(r)) < BatchLimit(r) \/ r.skip + Len(Batch(r)) >= r.limit
<1> DEFINE b == Batch(r)
<1>1. r \in ReadState
  BY DEF TypeInv, TypeOK
<1>2. /\ r.results \in Seq(Incident) /\ r.skip \in Nat /\ r.limit \in Int /\ r.page \in Nat
      /\ r.skip = Len(r.results)
  BY <1>1 DEF TypeInv, PageInv, ReadInv, Asking, ReadState
<1>3. BatchLimit(r) \in Nat \ {0} /\ BatchLimit(r) <= r.limit - r.skip
  BY BatchLimitType DEF Asking
<1>4. b \in Seq(Incident) /\ Len(b) <= BatchLimit(r) /\ Len(b) \in Nat
  <2>1. list \in Seq(Incident)
    BY DEF TypeInv, TypeOK
  <2>2. b \in Seq(Incident) /\ Len(b) <= BatchLimit(r)
    BY <1>1, <1>3, <2>1, BatchProperties
  <2> QED  BY <2>2, LenProperties
<1>5. /\ r.results \o b \in Seq(Incident)
      /\ Len(r.results \o b) = r.skip + Len(b)
  BY <1>2, <1>4, ConcatProperties
<1>6. b = <<>> => r.results \o b = r.results /\ Len(b) = 0
  BY <1>2, ConcatEmptySeq
<1> HIDE DEF b
<1>8. CASE b = <<>>
  <2>1. n = [r EXCEPT !.pc = "done"]
    BY <1>8 DEF WithBatch, b
  <2>2. n \in ReadState /\ n.pc = "done" /\ n.limit = r.limit /\ n.page = r.page /\ n.results = r.results
    BY <1>1, <2>1 DEF ReadState, States
  <2> QED
    BY <1>2, <1>3, <1>4, <1>5, <1>6, <1>8, <2>2 DEF b
<1>9. CASE b # <<>> /\ Len(b) < BatchLimit(r)
  <2>1. n = [r EXCEPT !.pc = "done", !.results = r.results \o b]
    BY <1>9 DEF WithBatch, b
  <2>2. n \in ReadState /\ n.pc = "done" /\ n.limit = r.limit /\ n.page = r.page /\ n.results = r.results \o b
    BY <1>1, <1>5, <2>1 DEF ReadState, States
  <2>3. Len(n.results) <= r.limit
    BY <1>2, <1>3, <1>4, <1>5, <2>2
  <2> QED
    BY <1>9, <2>2, <2>3 DEF b
<1>10. CASE b # <<>> /\ ~ (Len(b) < BatchLimit(r))
  <2>1. n = [r EXCEPT !.pc      = IF Len(r.results \o b) < r.limit THEN "page" ELSE "done",
                      !.results = r.results \o b,
                      !.skip    = @ + Len(b)]
    BY <1>10 DEF WithBatch, b
  <2>2. (IF Len(r.results \o b) < r.limit THEN "page" ELSE "done") \in States
    BY DEF States
  <2>3. /\ n.limit = r.limit /\ n.page = r.page /\ n.results = r.results \o b
        /\ n.skip = r.skip + Len(b)
        /\ n.pc = IF Len(r.results \o b) < r.limit THEN "page" ELSE "done"
    BY <1>1, <2>1 DEF ReadState
  <2>4. n \in ReadState
    <3>1. r.skip + Len(b) \in Nat
      BY <1>2, <1>4
    <3> QED  BY <1>1, <1>5, <2>1, <2>2, <3>1 DEF ReadState
  <2>5. Len(b) = BatchLimit(r)
    BY <1>3, <1>4, <1>10
  <2>6. Len(n.results) = r.skip + Len(b) /\ Len(n.results) <= r.limit
    BY <1>2, <1>3, <1>4, <1>5, <2>3
  <2>7. n.pc = "page" => n.skip < n.limit
    BY <1>5, <2>3
  <2>8. n.pc = "done" => r.skip + Len(b) >= r.limit
    BY <1>2, <1>4, <1>5, <2>3
  <2> QED
    BY <2>3, <2>4, <2>5, <2>6, <2>7, <2>8 DEF b
<1> QED  BY <1>8, <1>9, <1>10

(* A step that changes the read of one coroutine. *)
LEMMA OneReadChanges ==
  ASSUME TypeInv, NEW c \in Reader, NEW r \in ReadState, ReadInv(r),
         read' = [read EXCEPT ![c] = r]
  PROVE  read' \in [Reader -> ReadState] /\ \A x \in Reader : ReadInv(read'[x])
<1>1. read \in [Reader -> ReadState] /\ \A x \in Reader : ReadInv(read[x])
  BY DEF TypeInv, TypeOK, PageInv
<1>2. read' \in [Reader -> ReadState]
  BY <1>1
<1>3. \A x \in Reader : read'[x] = r \/ read'[x] = read[x]
  BY <1>1
<1> QED  BY <1>1, <1>2, <1>3

LEMMA NoReadInv == ReadInv(NoRead)
BY EmptySeq DEF NoRead, ReadInv

(* The step of a coroutine that only goes on. *)
LEMMA GoOn ==
  ASSUME TypeInv, NEW c \in Reader, read[c].pc \in {"lock", "login", "redirect"},
         NEW pc \in {"login", "redirect", "page"},
         read' = [read EXCEPT ![c].pc = pc]
  PROVE  read' \in [Reader -> ReadState] /\ \A x \in Reader : ReadInv(read'[x])
<1> DEFINE r == [read[c] EXCEPT !.pc = pc]
<1>1. read[c] \in ReadState /\ ReadInv(read[c])
  BY DEF TypeInv, TypeOK, PageInv
<1>2. r \in ReadState
  BY <1>1 DEF ReadState, States
<1>3. r.skip = read[c].skip /\ r.limit = read[c].limit /\ r.results = read[c].results
      /\ r.page = read[c].page /\ r.pc = pc
  BY <1>1 DEF ReadState
<1>4. ReadInv(r)
  BY <1>1, <1>3 DEF ReadInv
<1>5. read' = [read EXCEPT ![c] = r]
  OBVIOUS
<1> HIDE DEF r
<1> QED  BY <1>2, <1>4, <1>5, OneReadChanges

Seen == [there : SUBSET Incident, raised : Nat, cleared : Nat]

LEMMA SeenChanges ==
  ASSUME NEW r \in Seen, NEW S
  PROVE  /\ [r EXCEPT !.raised = @ + 1] \in Seen
         /\ [r EXCEPT !.there = @ \ S, !.cleared = @ + 1] \in Seen
<1>1. r.there \subseteq Incident /\ r.raised \in Nat /\ r.cleared \in Nat
  BY DEF Seen
<1>2. r.there \ S \subseteq Incident /\ r.raised + 1 \in Nat /\ r.cleared + 1 \in Nat
  BY <1>1
<1> QED  BY <1>2 DEF Seen

LEMMA NothingSeenType == NothingSeen \in Seen
BY DEF NothingSeen, Seen

LEMMA LeaveTypes ==
  ASSUME TypeInv, NEW c \in Reader, Leave(c)
  PROVE  /\ read' \in [Reader -> ReadState] /\ \A x \in Reader : ReadInv(read'[x])
         /\ seen' \in [Reader -> Seen]
<1>1. read' \in [Reader -> ReadState] /\ \A x \in Reader : ReadInv(read'[x])
  BY OneReadChanges, NoReadType, NoReadInv DEF Leave
<1>2. seen \in [Reader -> Seen]
  BY DEF TypeInv, TypeOK, Seen
<1> QED  BY <1>1, <1>2, NothingSeenType DEF Leave

LEMMA ListedType ==
  ASSUME list \in Seq(Incident)
  PROVE  Listed \subseteq Incident
BY ElementOfSeq DEF Listed

(* The list when an incident is raised, and when one is cleared. *)
Put(s, i, p) == SubSeq(s, 1, p) \o <<i>> \o SubSeq(s, p + 1, Len(s))
Drop(s, p)   == SubSeq(s, 1, p - 1) \o SubSeq(s, p + 1, Len(s))

LEMMA RaisedElements ==
  ASSUME NEW s \in Seq(Incident), NEW i \in Incident, NEW p \in 0..Len(s)
  PROVE  LET t == Put(s, i, p) IN
         /\ t \in Seq(Incident) /\ Len(t) = Len(s) + 1
         /\ \A j \in 1..(Len(s) + 1) :
              t[j] = IF j <= p THEN s[j] ELSE IF j = p + 1 THEN i ELSE s[j - 1]
<1> DEFINE t == Put(s, i, p)
           u == SubSeq(s, 1, p)
           v == u \o <<i>>
           w == SubSeq(s, p + 1, Len(s))
<1>1. Len(s) \in Nat /\ \A j \in 1..Len(s) : s[j] \in Incident
  BY LenProperties, ElementOfSeq
<1>2. /\ u \in Seq(Incident) /\ Len(u) = p
      /\ \A j \in 1..p : u[j] = s[j]
  <2>1. \A j \in 1..p : s[j] \in Incident
    BY <1>1
  <2>2. /\ u \in Seq(Incident) /\ Len(u) = IF 1 <= p THEN p - 1 + 1 ELSE 0
        /\ \A j \in 1..(p - 1 + 1) : u[j] = s[1 + j - 1]
    BY <1>1, <2>1, SubSeqProperties
  <2>3. \A j \in 1..p : 1 + j - 1 = j /\ j \in 1..(p - 1 + 1)
    OBVIOUS
  <2> QED  BY <2>2, <2>3
<1>3. /\ w \in Seq(Incident) /\ Len(w) = Len(s) - p
      /\ \A j \in 1..(Len(s) - p) : w[j] = s[p + j]
  <2>1. \A j \in (p + 1)..Len(s) : s[j] \in Incident
    BY <1>1
  <2>2. /\ w \in Seq(Incident) /\ Len(w) = IF p + 1 <= Len(s) THEN Len(s) - (p + 1) + 1 ELSE 0
        /\ \A j \in 1..(Len(s) - (p + 1) + 1) : w[j] = s[p + 1 + j - 1]
    BY <1>1, <2>1, SubSeqProperties
  <2>3. \A j \in 1..(Len(s) - p) : p + 1 + j - 1 = p + j /\ j \in 1..(Len(s) - (p + 1) + 1)
    BY <1>1
  <2> QED  BY <1>1, <2>2, <2>3
<1>4. <<i>> \in Seq(Incident) /\ Len(<<i>>) = 1
  OBVIOUS
<1> HIDE DEF u, w
<1>5. /\ v \in Seq(Incident) /\ Len(v) = p + 1
      /\ \A j \in 1..(p + 1) : v[j] = IF j <= p THEN u[j] ELSE <<i>>[j - p]
  BY <1>1, <1>2, <1>4, ConcatProperties
<1> HIDE DEF v
<1>6. /\ v \o w \in Seq(Incident) /\ Len(v \o w) = Len(s) + 1
      /\ \A j \in 1..(Len(s) + 1) : (v \o w)[j] = IF j <= p + 1 THEN v[j] ELSE w[j - (p + 1)]
  <2>1. /\ v \o w \in Seq(Incident) /\ Len(v \o w) = Len(v) + Len(w)
        /\ \A j \in 1..(Len(v) + Len(w)) : (v \o w)[j] = IF j <= Len(v) THEN v[j] ELSE w[j - Len(v)]
    BY <1>3, <1>5, ConcatProperties
  <2>2. Len(v) + Len(w) = Len(s) + 1
    <3>1. p \in Int /\ (p + 1) + (Len(s) - p) = Len(s) + 1
      BY <1>1
    <3> QED  BY <1>3, <1>5, <3>1
  <2> QED  BY <1>5, <2>1, <2>2
<1>7. t = v \o w
  BY DEF u, v, w, Put
<1>8. ASSUME NEW j \in 1..(Len(s) + 1)
      PROVE  t[j] = IF j <= p THEN s[j] ELSE IF j = p + 1 THEN i ELSE s[j - 1]
  <2>1. CASE j <= p
    <3>1. j \in 1..p /\ j \in 1..(p + 1) /\ j <= p + 1
      BY <2>1
    <3> QED  BY <1>2, <1>5, <1>6, <1>7, <2>1, <3>1
  <2>2. CASE j = p + 1
    <3>1. j \in 1..(p + 1) /\ j <= p + 1 /\ ~ (j <= p) /\ j - p = 1
      BY <1>1, <2>2
    <3>2. <<i>>[j - p] = i
      BY <3>1
    <3> QED  BY <1>5, <1>6, <1>7, <2>2, <3>1, <3>2
  <2>3. CASE j > p + 1
    <3>1. ~ (j <= p + 1) /\ ~ (j <= p) /\ j # p + 1 /\ j - (p + 1) \in 1..(Len(s) - p)
          /\ p + (j - (p + 1)) = j - 1
      BY <1>1, <2>3
    <3>2. w[j - (p + 1)] = s[j - 1]
      BY <1>3, <3>1
    <3> QED  BY <1>6, <1>7, <3>1, <3>2
  <2>4. j <= p \/ j = p + 1 \/ j > p + 1
    BY <1>1
  <2> HIDE DEF v, w
  <2> QED  BY <2>1, <2>2, <2>3, <2>4, Zenon
<1> HIDE DEF t
<1>9. t \in Seq(Incident) /\ Len(t) = Len(s) + 1
  BY <1>6, <1>7
<1> QED  BY <1>8, <1>9 DEF t

LEMMA ClearedElements ==
  ASSUME NEW s \in Seq(Incident), NEW p \in DOMAIN s
  PROVE  LET t == Drop(s, p) IN
         /\ t \in Seq(Incident) /\ Len(t) = Len(s) - 1
         /\ \A j \in 1..(Len(s) - 1) : t[j] = IF j < p THEN s[j] ELSE s[j + 1]
<1> DEFINE t == Drop(s, p)
           u == SubSeq(s, 1, p - 1)
           w == SubSeq(s, p + 1, Len(s))
<1>1. p \in 1..Len(s) /\ Len(s) \in Nat /\ \A j \in 1..Len(s) : s[j] \in Incident
  BY LenProperties, ElementOfSeq
<1>2. /\ u \in Seq(Incident) /\ Len(u) = p - 1
      /\ \A j \in 1..(p - 1) : u[j] = s[j]
  <2>1. \A j \in 1..(p - 1) : s[j] \in Incident
    BY <1>1
  <2>2. /\ u \in Seq(Incident) /\ Len(u) = IF 1 <= p - 1 THEN p - 1 - 1 + 1 ELSE 0
        /\ \A j \in 1..(p - 1 - 1 + 1) : u[j] = s[1 + j - 1]
    BY <1>1, <2>1, SubSeqProperties
  <2>3. \A j \in 1..(p - 1) : 1 + j - 1 = j /\ j \in 1..(p - 1 - 1 + 1)
    BY <1>1
  <2> QED  BY <1>1, <2>2, <2>3
<1>3. /\ w \in Seq(Incident) /\ Len(w) = Len(s) - p
      /\ \A j \in 1..(Len(s) - p) : w[j] = s[p + j]
  <2>1. \A j \in (p + 1)..Len(s) : s[j] \in Incident
    BY <1>1
  <2>2. /\ w \in Seq(Incident) /\ Len(w) = IF p + 1 <= Len(s) THEN Len(s) - (p + 1) + 1 ELSE 0
        /\ \A j \in 1..(Len(s) - (p + 1) + 1) : w[j] = s[p + 1 + j - 1]
    BY <1>1, <2>1, SubSeqProperties
  <2>3. \A j \in 1..(Len(s) - p) : p + 1 + j - 1 = p + j /\ j \in 1..(Len(s) - (p + 1) + 1)
    BY <1>1
  <2> QED  BY <1>1, <2>2, <2>3
<1> HIDE DEF u, w
<1>4. /\ t \in Seq(Incident) /\ Len(t) = Len(s) - 1
      /\ \A j \in 1..(Len(s) - 1) : t[j] = IF j <= p - 1 THEN u[j] ELSE w[j - (p - 1)]
  <2>1. t = u \o w
    BY DEF u, w, Drop
  <2>2. /\ u \o w \in Seq(Incident) /\ Len(u \o w) = Len(u) + Len(w)
        /\ \A j \in 1..(Len(u) + Len(w)) : (u \o w)[j] = IF j <= Len(u) THEN u[j] ELSE w[j - Len(u)]
    BY <1>2, <1>3, ConcatProperties
  <2>3. Len(u) + Len(w) = Len(s) - 1
    BY <1>1, <1>2, <1>3
  <2> QED  BY <1>2, <2>1, <2>2, <2>3
<1>5. ASSUME NEW j \in 1..(Len(s) - 1)
      PROVE  t[j] = IF j < p THEN s[j] ELSE s[j + 1]
  <2>1. CASE j < p
    <3>1. j <= p - 1 /\ j \in 1..(p - 1)
      BY <1>1, <2>1
    <3> QED  BY <1>2, <1>4, <2>1, <3>1
  <2>2. CASE ~ (j < p)
    <3>1. ~ (j <= p - 1) /\ j - (p - 1) \in 1..(Len(s) - p) /\ p + (j - (p - 1)) = j + 1
      <4>1. p \in Int /\ j \in Int /\ Len(s) \in Int /\ j <= Len(s) - 1 /\ j >= p
        BY <1>1, <2>2
      <4> QED  BY ONLY <4>1, SMT
    <3>2. w[j - (p - 1)] = s[j + 1]
      BY <1>3, <3>1
    <3> QED  BY <1>4, <2>2, <3>1, <3>2
  <2> QED  BY <2>1, <2>2
<1> QED  BY <1>4, <1>5

LEMMA TypeInit == Init => TypeInv
<1> SUFFICES ASSUME Init PROVE TypeInv
  OBVIOUS
<1>1. list \in Seq(Incident) /\ queue \in Seq(Reader)
  BY ClientAssumption, EmptySeq DEF Init
<1>2. read \in [Reader -> ReadState] /\ PageInv
  BY NoReadType, NoReadInv DEF Init, PageInv
<1>3. seen \in [Reader -> Seen]
  BY NothingSeenType DEF Init
<1> QED  BY <1>1, <1>2, <1>3 DEF Init, TypeInv, TypeOK, Seen

LEMMA TypeStep == TypeInv /\ LockInv /\ [Next]_vars => TypeInv'
<1> SUFFICES ASSUME TypeInv, LockInv, [Next]_vars PROVE TypeInv'
  OBVIOUS
<1> USE DEF session
<1>0. /\ list \in Seq(Incident) /\ alive \in BOOLEAN /\ jar \subseteq Cookies
      /\ authenticated \in BOOLEAN /\ queue \in Seq(Reader)
      /\ read \in [Reader -> ReadState] /\ PageInv
      /\ changes \in Nat /\ seen \in [Reader -> Seen]
  BY DEF TypeInv, TypeOK, Seen
<1> DEFINE Types == /\ list' \in Seq(Incident) /\ alive' \in BOOLEAN /\ jar' \subseteq Cookies
                    /\ authenticated' \in BOOLEAN /\ queue' \in Seq(Reader)
                    /\ changes' \in Nat /\ seen' \in [Reader -> Seen]
           Reads == read' \in [Reader -> ReadState] /\ \A x \in Reader : ReadInv(read'[x])
<1>t. SUFFICES Types /\ Reads
  BY DEF TypeInv, TypeOK, PageInv, Seen
<1>q. \A c \in Reader : LoggingIn(c) => Tail(queue) \in Seq(Reader)
  BY <1>0, HeadTailProperties DEF LockInv, Holds
<1>h. \A c \in Reader : Holds(c) => Tail(queue) \in Seq(Reader)
  BY <1>0, HeadTailProperties DEF Holds
<1>1. CASE Raise
  <2>1. list' \in Seq(Incident)
    BY <1>0, <1>1, RaisedElements DEF Raise, Put
  <2>2. seen' \in [Reader -> Seen]
    BY <1>0, <1>1, SeenChanges DEF Raise
  <2> QED  BY <1>0, <1>1, <2>1, <2>2 DEF Raise, Change, PageInv
<1>2. CASE Clear
  <2>1. list' \in Seq(Incident)
    BY <1>0, <1>2, ClearedElements DEF Clear, Drop
  <2>2. seen' \in [Reader -> Seen]
    <3>1. PICK p \in DOMAIN list :
            seen' = [c \in Reader |->
                      IF Reading(c) THEN [seen[c] EXCEPT !.there   = @ \ {list[p]},
                                                         !.cleared = @ + 1]
                      ELSE seen[c]]
      BY <1>2 DEF Clear
    <3> QED  BY <1>0, <3>1, SeenChanges
  <2>3. Change
    BY <1>2 DEF Clear
  <2> QED  BY <1>0, <2>1, <2>2, <2>3 DEF Change, PageInv
<1>3. CASE Expire
  BY <1>0, <1>3 DEF Expire, PageInv
<1>4. CASE Restart
  <2>1. Reads
    BY <1>4, NoReadType, NoReadInv DEF Restart
  <2>2. seen' \in [Reader -> Seen]
    BY <1>4, NothingSeenType DEF Restart
  <2> QED  BY <1>0, <1>4, <2>1, <2>2, EmptySeq DEF Restart
<1>5. ASSUME NEW c \in Reader, Begin(c) PROVE Types /\ Reads
  <2>1. PICK ask \in Asks :
          IF ask.limit <= 0
          THEN /\ read' = [read EXCEPT ![c] = [NoRead EXCEPT !.pc = "done"]]
               /\ queue' = queue
          ELSE Toward(c, [NoRead EXCEPT !.limit = ask.limit, !.page = PageSize(ask)])
    BY <1>5 DEF Begin
  <2>2. ask.limit \in Int
    BY ClientAssumption
  <2>3. seen' \in [Reader -> Seen]
    <3>1. [NothingSeen EXCEPT !.there = Listed] \in Seen
      BY <1>0, ListedType DEF NothingSeen, Seen
    <3> QED  BY <1>0, <1>5, <3>1 DEF Begin
  <2>4. CASE ask.limit <= 0
    <3>1. "done" \in States /\ NoRead.results = <<>>
      BY DEF NoRead, States
    <3>2. /\ [NoRead EXCEPT !.pc = "done"] \in ReadState
          /\ ReadInv([NoRead EXCEPT !.pc = "done"])
      BY <3>1, NoReadType, NewPc DEF ReadInv
    <3>3. Reads
      BY <2>1, <2>4, <3>2, OneReadChanges
    <3> QED  BY <1>0, <1>5, <2>1, <2>3, <2>4, <3>3 DEF Begin
  <2>5. CASE ~ (ask.limit <= 0)
    <3> DEFINE pc == IF authenticated THEN "page" ELSE "lock"
               s  == [NoRead EXCEPT !.limit = ask.limit, !.page = PageSize(ask)]
               r  == [s EXCEPT !.pc = pc]
    <3>1. PageSize(ask) \in Nat \ {0}
      BY <2>2, <2>5, PageSizeType
    <3>2. pc \in {"page", "lock"} /\ pc \in States
      BY DEF States
    <3>7. s \in ReadState /\ s.limit = ask.limit /\ s.page = PageSize(ask)
          /\ s.skip = 0 /\ s.results = <<>>
      BY <2>2, <3>1, NoReadType DEF NoRead, ReadState
    <3>8. Toward(c, s)
      BY <2>1, <2>5
    <3> HIDE DEF s
    <3>5. read' = [read EXCEPT ![c] = r] /\ queue' \in Seq(Reader)
      BY <1>0, <3>8, AppendProperties DEF Toward
    <3> HIDE DEF pc
    <3>3. /\ r \in ReadState
          /\ r.limit = ask.limit /\ r.page = PageSize(ask) /\ r.skip = 0 /\ r.results = <<>>
          /\ r.pc = pc
      BY <3>2, <3>7, NewPc
    <3>4. ReadInv(r)
      BY <2>2, <2>5, <3>1, <3>2, <3>3, EmptySeq DEF ReadInv
    <3> HIDE DEF r
    <3>6. Reads
      BY <3>3, <3>4, <3>5, OneReadChanges
    <3> QED  BY <1>0, <1>5, <2>3, <3>5, <3>6 DEF Begin
  <2> QED  BY <2>4, <2>5
<1>6. ASSUME NEW c \in Reader, Enter(c) PROVE Types /\ Reads
  <2>1. Reads
    BY <1>6, GoOn DEF Enter
  <2> QED  BY <1>0, <1>6, <1>h, <2>1 DEF Enter
<1>7. ASSUME NEW c \in Reader, LoginAnswer(c) PROVE Types /\ Reads
  <2>0. LoggingIn(c)
    BY <1>7 DEF LoginAnswer, LoggingIn
  <2>1. jar' \subseteq Cookies /\ alive' \in BOOLEAN /\ list' = list /\ changes' = changes
    BY <1>0, <1>7 DEF LoginAnswer
  <2>2. CASE Leave(c) /\ queue' = Tail(queue) /\ UNCHANGED authenticated
    BY <1>0, <1>q, <2>0, <2>1, <2>2, LeaveTypes
  <2>3. CASE /\ read' = [read EXCEPT ![c].pc = IF HasRedirect THEN "redirect" ELSE "page"]
             /\ queue' = IF HasRedirect THEN queue ELSE Tail(queue)
             /\ authenticated' = ~ HasRedirect
             /\ UNCHANGED seen
    <3>1. (IF HasRedirect THEN "redirect" ELSE "page") \in {"login", "redirect", "page"}
      OBVIOUS
    <3>2. Reads
      BY <1>7, <2>3, <3>1, GoOn DEF LoginAnswer
    <3> QED  BY <1>0, <1>q, <2>0, <2>1, <2>3, <3>2
  <2> QED  BY <1>7, <2>2, <2>3 DEF LoginAnswer
<1>8. ASSUME NEW c \in Reader, LoginRefused(c) PROVE Types /\ Reads
  BY <1>0, <1>8, <1>q, LeaveTypes DEF LoginRefused, LoggingIn
<1>9. ASSUME NEW c \in Reader, RedirectAnswer(c) PROVE Types /\ Reads
  <2>1. Reads
    BY <1>9, GoOn DEF RedirectAnswer
  <2> QED  BY <1>0, <1>9, <1>q, <2>1 DEF RedirectAnswer, LoggingIn
<1>10. ASSUME NEW c \in Reader, PageAnswer(c) PROVE Types /\ Reads
  <2> DEFINE r == read[c]
             n == WithBatch(r)
  <2>1. read[c].pc = "page" /\ read' = [read EXCEPT ![c] = n]
    BY <1>10 DEF PageAnswer
  <2>2. /\ n \in ReadState /\ n.pc \in {"page", "done"} /\ n.limit = r.limit /\ n.page = r.page
        /\ Len(n.results) <= r.limit
        /\ n.pc = "page" => n.skip = Len(n.results) /\ n.skip < n.limit
    BY <2>1, WithBatchProperties
  <2>3. r.page # 0
    BY <1>0, <2>1 DEF PageInv, ReadInv
  <2>4. ReadInv(n)
    BY <2>2, <2>3 DEF ReadInv
  <2> HIDE DEF n
  <2>5. Reads
    BY <2>1, <2>2, <2>4, OneReadChanges
  <2> QED  BY <1>0, <1>10, <2>5 DEF PageAnswer
<1>11. ASSUME NEW c \in Reader, PageRefused(c) PROVE Types /\ Reads
  BY <1>0, <1>11, LeaveTypes DEF PageRefused
<1>12. ASSUME NEW c \in Reader, Return(c) PROVE Types /\ Reads
  BY <1>0, <1>12, LeaveTypes DEF Return
<1>13. CASE UNCHANGED vars
  BY <1>0, <1>13 DEF vars, PageInv
<1> QED
  BY <1>1, <1>2, <1>3, <1>4, <1>5, <1>6, <1>7, <1>8, <1>9, <1>10, <1>11, <1>12, <1>13 DEF Next, Runs

-----------------------------------------------------------------------------
(***************************************************************************)
(* The lock and the session.                                               *)
(***************************************************************************)

(* What a login that succeeded left behind. *)
SessionInv ==
  /\ authenticated => jar = Cookies
  /\ \A c \in Reader : /\ read[c].pc = "redirect" => jar = Cookies
                       /\ read[c].pc = "page" => authenticated

Others(c) == \A x \in Reader \ {c} : read'[x] = read[x]

LEMMA SomeoneMoves ==
  ASSUME TypeInv, NEW c \in Reader, Begin(c) \/ Runs(c)
  PROVE  Others(c)
BY DEF TypeInv, TypeOK, Others, Begin, Toward, Runs, Enter, LoginAnswer, LoginRefused,
       RedirectAnswer, PageAnswer, PageRefused, Return, Leave

LEMMA HeadStays ==
  ASSUME NEW q \in Seq(Reader), NEW c \in Reader, q # <<>>
  PROVE  Append(q, c) # <<>> /\ Head(Append(q, c)) = Head(q)
<1>1. Len(q) \in Nat \ {0}
  BY EmptySeq, LenProperties
<1>2. Len(Append(q, c)) = Len(q) + 1 /\ Append(q, c)[1] = q[1]
  BY <1>1, AppendProperties
<1> QED  BY <1>1, <1>2, EmptySeq, AppendProperties

(* The pc a coroutine goes to. *)
Goes(c, pc) == read'[c].pc = pc

LEMMA LockStep == TypeInv /\ LockInv /\ SessionInv /\ [Next]_vars => LockInv' /\ SessionInv'
<1> SUFFICES ASSUME TypeInv, LockInv, SessionInv, [Next]_vars PROVE LockInv' /\ SessionInv'
  OBVIOUS
<1> USE DEF session
<1>0. read \in [Reader -> ReadState] /\ queue \in Seq(Reader)
  BY DEF TypeInv, TypeOK
<1>l. \A x, y \in Reader : LoggingIn(x) /\ LoggingIn(y) => x = y /\ ~ authenticated
  BY DEF LockInv, Holds
<1>a. CASE Raise \/ Clear \/ Expire \/ UNCHANGED vars
  <2>1. UNCHANGED <<jar, authenticated, queue, read>>
    BY <1>a DEF Raise, Clear, Change, Expire, vars
  <2> QED  BY <2>1 DEF LockInv, SessionInv, LoggingIn, Holds
<1>b. CASE Restart
  BY <1>b DEF Restart, NoRead, LockInv, SessionInv, LoggingIn
<1>c. ASSUME NEW c \in Reader, Begin(c) PROVE LockInv' /\ SessionInv'
  <2>1. Others(c)
    BY <1>c, SomeoneMoves
  <2>2. UNCHANGED <<jar, authenticated>>
    BY <1>c DEF Begin
  <2>3. /\ read'[c].pc \in {"done", "page", "lock"}
        /\ read'[c].pc = "page" => authenticated
        /\ queue' \in {queue, Append(queue, c)}
    BY <1>0, <1>c DEF Begin, Toward, NoRead, ReadState
  <2>4. \A x \in Reader : LoggingIn(x) => Holds(x)'
    BY <1>0, <2>3, HeadStays DEF LockInv, Holds
  <2>5. \A x \in Reader : LoggingIn(x)' => LoggingIn(x)
    BY <2>1, <2>3 DEF Others, LoggingIn
  <2> QED  BY <2>1, <2>2, <2>3, <2>4, <2>5 DEF LockInv, SessionInv, Others
<1>d. ASSUME NEW c \in Reader, Enter(c) PROVE LockInv' /\ SessionInv'
  <2>1. Others(c)
    BY <1>d, SomeoneMoves DEF Runs
  <2>2. UNCHANGED <<jar, authenticated>> /\ Holds(c) /\ read[c].pc = "lock"
    BY <1>d DEF Enter
  <2>3. \A x \in Reader : ~ LoggingIn(x)
    BY <2>2 DEF LockInv, Holds, LoggingIn
  <2>4. CASE authenticated
    <3>1. read'[c].pc = "page"
      BY <1>0, <1>d, <2>4 DEF Enter, ReadState
    <3> QED  BY <2>1, <2>2, <2>3, <2>4, <3>1 DEF LockInv, SessionInv, Others, LoggingIn
  <2>5. CASE ~ authenticated
    <3>1. read'[c].pc = "login" /\ queue' = queue
      BY <1>0, <1>d, <2>5 DEF Enter, ReadState
    <3> QED  BY <2>1, <2>2, <2>3, <2>5, <3>1 DEF LockInv, SessionInv, Others, LoggingIn, Holds
  <2> QED  BY <2>4, <2>5
<1>e. ASSUME NEW c \in Reader, LoginAnswer(c) \/ LoginRefused(c) \/ RedirectAnswer(c)
      PROVE  LockInv' /\ SessionInv'
  <2>1. Others(c)
    BY <1>e, SomeoneMoves DEF Runs
  <2>2. LoggingIn(c) /\ ~ authenticated
    BY <1>e DEF LoginAnswer, LoginRefused, RedirectAnswer, LoggingIn, LockInv
  <2>3. \A x \in Reader \ {c} : ~ LoggingIn(x) /\ read[x].pc # "page"
    BY <1>l, <2>2 DEF SessionInv
  <2>4. \/ read'[c].pc = "idle" /\ UNCHANGED authenticated
        \/ read'[c].pc = "redirect" /\ UNCHANGED <<queue, authenticated>> /\ jar' = Cookies
        \/ read'[c].pc = "page" /\ authenticated' = TRUE /\ jar' = Cookies
    <3>1. CASE LoginAnswer(c)
      <4>1. CASE Leave(c) /\ UNCHANGED authenticated
        BY <1>0, <4>1 DEF Leave, NoRead
      <4>2. CASE /\ read' = [read EXCEPT ![c].pc = IF HasRedirect THEN "redirect" ELSE "page"]
                 /\ queue' = IF HasRedirect THEN queue ELSE Tail(queue)
                 /\ authenticated' = ~ HasRedirect
                 /\ jar' = Cookies
        <5>1. read'[c].pc = IF HasRedirect THEN "redirect" ELSE "page"
          BY <1>0, <4>2 DEF ReadState
        <5>2. HasRedirect \in BOOLEAN
          BY ClientAssumption
        <5>3. authenticated = FALSE
          BY <2>2 DEF TypeInv, TypeOK
        <5>4. CASE HasRedirect = TRUE
          BY <4>2, <5>1, <5>3, <5>4
        <5>5. CASE HasRedirect = FALSE
          BY <4>2, <5>1, <5>5
        <5> QED  BY <5>2, <5>4, <5>5
      <4> QED  BY <3>1, <4>1, <4>2 DEF LoginAnswer
    <3>2. CASE LoginRefused(c)
      BY <1>0, <3>2 DEF LoginRefused, Leave, NoRead
    <3>3. CASE RedirectAnswer(c)
      BY <1>0, <3>3 DEF RedirectAnswer, SessionInv, ReadState
    <3> QED  BY <1>e, <3>1, <3>2, <3>3
  <2> QED  BY <2>1, <2>2, <2>3, <2>4 DEF LockInv, SessionInv, Others, LoggingIn, Holds
<1>f. ASSUME NEW c \in Reader, PageAnswer(c) \/ PageRefused(c) \/ Return(c)
      PROVE  LockInv' /\ SessionInv'
  <2>1. Others(c)
    BY <1>f, SomeoneMoves DEF Runs
  <2>2. UNCHANGED <<jar, authenticated, queue>> /\ ~ LoggingIn(c)
    BY <1>f DEF PageAnswer, PageRefused, Return, LoggingIn
  <2>3. read'[c].pc \in {"idle", "page", "done"} /\ (read'[c].pc = "page" => read[c].pc = "page")
    <3>1. CASE PageAnswer(c)
      <4>1. read[c].pc = "page" /\ read'[c] = WithBatch(read[c])
        BY <1>0, <3>1 DEF PageAnswer
      <4>2. WithBatch(read[c]).pc \in {"page", "done"}
        BY <4>1, WithBatchProperties
      <4> QED  BY <4>1, <4>2
    <3>2. CASE PageRefused(c) \/ Return(c)
      BY <1>0, <3>2 DEF PageRefused, Return, Leave, NoRead
    <3> QED  BY <1>f, <3>1, <3>2
  <2> QED  BY <2>1, <2>2, <2>3 DEF LockInv, SessionInv, Others, LoggingIn, Holds
<1> QED
  BY <1>a, <1>b, <1>c, <1>d, <1>e, <1>f DEF Next, Runs

-----------------------------------------------------------------------------
(***************************************************************************)
(* What a read has passed and what lies before it.                         *)
(***************************************************************************)
Beyond(i, n) == \E p \in DOMAIN list : p > n /\ list[p] = i

(* While nothing is cleared, no incident gets behind the offset unread. *)
AheadInv ==
  \A c \in Reader : seen[c].cleared = 0 =>
    \A i \in seen[c].there :
      /\ Asking(c) => i \in Found(read[c]) \/ Beyond(i, read[c].skip)
      /\ read[c].pc = "done" => i \in Found(read[c]) \/ Beyond(i, read[c].limit)

(* An incident that is raised moves the others back or leaves them. *)
LEMMA RaisedPositions ==
  ASSUME NEW s \in Seq(Incident), NEW i \in Incident, NEW p \in 0..Len(s), NEW q \in DOMAIN s,
         NEW t, t = Put(s, i, p)
  PROVE  \E r \in DOMAIN t : r >= q /\ t[r] = s[q]
<1>1. q \in 1..Len(s) /\ Len(s) \in Nat
  BY LenProperties
<1>2. /\ t \in Seq(Incident) /\ Len(t) = Len(s) + 1
      /\ \A j \in 1..(Len(s) + 1) :
           t[j] = IF j <= p THEN s[j] ELSE IF j = p + 1 THEN i ELSE s[j - 1]
  BY RaisedElements, Zenon
<1>3. DOMAIN t = 1..(Len(s) + 1)
  BY <1>2, LenProperties
<1>4. CASE q <= p
  <2>1. q \in 1..(Len(s) + 1) /\ q >= q
    BY <1>1
  <2>2. t[q] = s[q]
    BY <1>2, <1>4, <2>1
  <2> QED  BY <1>3, <2>1, <2>2
<1>5. CASE ~ (q <= p)
  <2>1. q + 1 \in 1..(Len(s) + 1) /\ ~ (q + 1 <= p) /\ q + 1 # p + 1 /\ q + 1 - 1 = q /\ q + 1 >= q
    BY <1>1, <1>5
  <2>2. t[q + 1] = s[q]
    BY <1>2, <2>1
  <2> QED  BY <1>3, <2>1, <2>2
<1> QED  BY <1>4, <1>5

(* A page brings the incidents that follow the offset, m of them. *)
LEMMA PageBrings ==
  ASSUME TypeInv, NEW c \in Reader, read[c].pc = "page",
         NEW n, n = WithBatch(read[c]), NEW m, m = Len(Batch(read[c]))
  PROVE  /\ m \in Nat /\ read[c].skip \in Nat /\ read[c].limit \in Int
         /\ m > 0 => read[c].skip + m <= Len(list)
         /\ n.limit = read[c].limit
         /\ Len(read[c].results) = read[c].skip /\ Len(n.results) = read[c].skip + m
         /\ Found(n) = Found(read[c]) \cup {list[p] : p \in (read[c].skip + 1)..(read[c].skip + m)}
         /\ n.pc = "page" => n.skip = read[c].skip + m
         /\ n.pc = "done" => read[c].skip + m >= read[c].limit \/ read[c].skip + m >= Len(list)
<1> DEFINE r == read[c]
           b == Batch(r)
<1>1. r \in ReadState /\ list \in Seq(Incident) /\ Len(list) \in Nat
  BY LenProperties DEF TypeInv, TypeOK
<1>2. /\ r.results \in Seq(Incident) /\ r.skip \in Nat /\ r.limit \in Int
      /\ r.skip = Len(r.results)
  BY <1>1 DEF TypeInv, PageInv, ReadInv, ReadState
<1>3. BatchLimit(r) \in Nat \ {0}
  BY BatchLimitType DEF Asking
<1>4. /\ b \in Seq(Incident) /\ Len(b) <= BatchLimit(r)
      /\ Len(b) = IF r.skip + 1 <= Lesser(r.skip + BatchLimit(r), Len(list))
                  THEN Lesser(r.skip + BatchLimit(r), Len(list)) - r.skip ELSE 0
      /\ \A j \in 1..Len(b) : b[j] = list[r.skip + j]
  BY <1>1, <1>3, BatchProperties
<1>5. /\ n.results = r.results \o b /\ n.limit = r.limit
      /\ n.pc = "page" => n.skip = r.skip + BatchLimit(r) /\ Len(b) = BatchLimit(r)
      /\ n.pc = "done" => Len(b) < BatchLimit(r) \/ r.skip + Len(b) >= r.limit
  BY WithBatchProperties
<1>6. m = Len(b) /\ m \in Nat
  BY <1>4, LenProperties
<1>7. m > 0 => r.skip + m <= Len(list)
  BY <1>1, <1>2, <1>3, <1>4, <1>6 DEF Lesser
<1>8. m < BatchLimit(r) => r.skip + m >= Len(list)
  BY <1>1, <1>2, <1>3, <1>4, <1>6 DEF Lesser
<1> HIDE DEF b
<1>9. /\ n.results \in Seq(Incident) /\ Len(n.results) = r.skip + m
      /\ \A j \in 1..(r.skip + m) :
           n.results[j] = IF j <= r.skip THEN r.results[j] ELSE b[j - r.skip]
  <2> DEFINE s == r.results
  <2>1. s \in Seq(Incident) /\ b \in Seq(Incident) /\ n.results = s \o b
        /\ Len(s) = r.skip /\ Len(b) = m
    BY <1>2, <1>4, <1>5, <1>6
  <2> HIDE DEF s
  <2>2. /\ s \o b \in Seq(Incident) /\ Len(s \o b) = Len(s) + Len(b)
        /\ \A j \in 1..(Len(s) + Len(b)) :
             (s \o b)[j] = IF j <= Len(s) THEN s[j] ELSE b[j - Len(s)]
    BY <2>1, ConcatProperties
  <2>3. /\ n.results \in Seq(Incident) /\ Len(n.results) = r.skip + m
        /\ \A j \in 1..(r.skip + m) : n.results[j] = IF j <= r.skip THEN s[j] ELSE b[j - r.skip]
    BY <2>1, <2>2
  <2> QED  BY <2>3 DEF s
<1>10. DOMAIN n.results = 1..(r.skip + m) /\ DOMAIN r.results = 1..r.skip
  BY <1>2, <1>9, LenProperties
<1>11. Found(n) = Found(r) \cup {list[p] : p \in (r.skip + 1)..(r.skip + m)}
  <2>1. \A j \in 1..r.skip : j \in 1..(r.skip + m) /\ n.results[j] = r.results[j]
    BY <1>2, <1>6, <1>9
  <2>2. \A j \in (r.skip + 1)..(r.skip + m) : j \in 1..(r.skip + m) /\ n.results[j] = list[j]
    <3> TAKE j \in (r.skip + 1)..(r.skip + m)
    <3>1. j \in 1..(r.skip + m) /\ ~ (j <= r.skip) /\ j - r.skip \in 1..m /\ r.skip + (j - r.skip) = j
      BY <1>2, <1>6
    <3> QED  BY <1>4, <1>6, <1>9, <3>1
  <2>3. \A j \in 1..(r.skip + m) : j \in 1..r.skip \/ j \in (r.skip + 1)..(r.skip + m)
    BY <1>2, <1>6
  <2> QED  BY <1>10, <2>1, <2>2, <2>3 DEF Found
<1> QED
  BY <1>2, <1>5, <1>6, <1>7, <1>8, <1>9, <1>11

(* A page takes what comes next, or all there is. *)
LEMMA PageTakesNext ==
  ASSUME TypeInv, NEW c \in Reader, read[c].pc = "page", NEW i,
         i \in Found(read[c]) \/ Beyond(i, read[c].skip),
         NEW n, n = WithBatch(read[c])
  PROVE  /\ n.pc = "page" => i \in Found(n) \/ Beyond(i, n.skip)
         /\ n.pc = "done" => i \in Found(n) \/ Beyond(i, n.limit)
<1> DEFINE r == read[c]
           m == Len(Batch(r))
<1>1. /\ m \in Nat /\ r.skip \in Nat /\ r.limit \in Int /\ n.limit = r.limit
      /\ Found(n) = Found(r) \cup {list[p] : p \in (r.skip + 1)..(r.skip + m)}
      /\ n.pc = "page" => n.skip = r.skip + m
      /\ n.pc = "done" => r.skip + m >= r.limit \/ r.skip + m >= Len(list)
  BY PageBrings
<1>2. DOMAIN list = 1..Len(list) /\ Len(list) \in Nat
  BY LenProperties DEF TypeInv, TypeOK
<1> HIDE DEF m
<1>3. ASSUME Beyond(i, r.skip), i \notin Found(n)
      PROVE  /\ n.pc = "page" => Beyond(i, n.skip)
             /\ n.pc = "done" => Beyond(i, n.limit)
  <2>1. PICK p \in 1..Len(list) : p > r.skip /\ list[p] = i
    BY <1>2, <1>3 DEF Beyond
  <2>2. p > r.skip + m
    BY <1>1, <1>2, <1>3, <2>1
  <2>3. n.pc = "page" => p > n.skip
    BY <1>1, <2>2
  <2>4. n.pc = "done" => p > n.limit
    BY <1>1, <1>2, <2>1, <2>2
  <2> QED  BY <1>2, <2>1, <2>3, <2>4 DEF Beyond
<1> QED  BY <1>1, <1>3

(***************************************************************************)
(* What the step of a coroutine does to its read: it begins one, leaves    *)
(* it, goes on with it as it is, or takes a page.                          *)
(***************************************************************************)
Begins(c) ==
  /\ read'[c].skip = 0 /\ read'[c].results = <<>>
  /\ read'[c].pc = "done" => read'[c].limit = 0
  /\ seen'[c] = [NothingSeen EXCEPT !.there = Listed]

GoesOn(c) ==
  /\ Asking(c) /\ Asking(c)' /\ UNCHANGED seen
  /\ read'[c].skip = read[c].skip /\ read'[c].results = read[c].results

TakesPage(c) ==
  /\ read[c].pc = "page" /\ Asking(c) /\ read'[c] = WithBatch(read[c]) /\ UNCHANGED seen
  /\ read'[c].pc \in {"page", "done"}

LEMMA CoroutineStep ==
  ASSUME TypeInv, NEW c \in Reader, Begin(c) \/ Runs(c)
  PROVE  /\ Others(c) /\ UNCHANGED list
         /\ \A x \in Reader \ {c} : seen'[x] = seen[x]
         /\ \/ Begins(c)
            \/ read'[c].pc = "idle"
            \/ GoesOn(c)
            \/ TakesPage(c)
<1>0. read \in [Reader -> ReadState] /\ seen \in [Reader -> Seen]
  BY DEF TypeInv, TypeOK, Seen
<1>1. Others(c) /\ UNCHANGED list
  BY SomeoneMoves DEF Begin, Runs, Enter, LoginAnswer, LoginRefused, RedirectAnswer,
                      PageAnswer, PageRefused, Return
<1>2. \A x \in Reader \ {c} : seen'[x] = seen[x]
  BY <1>0 DEF Begin, Runs, Enter, LoginAnswer, LoginRefused, RedirectAnswer,
              PageAnswer, PageRefused, Return, Leave
<1>3. CASE Begin(c)
  <2>1. seen'[c] = [NothingSeen EXCEPT !.there = Listed]
    BY <1>0, <1>3 DEF Begin
  <2>2. /\ read'[c].skip = 0 /\ read'[c].results = <<>>
        /\ read'[c].pc = "done" => read'[c].limit = 0
    <3>1. PICK ask \in Asks :
            IF ask.limit <= 0
            THEN read' = [read EXCEPT ![c] = [NoRead EXCEPT !.pc = "done"]]
            ELSE Toward(c, [NoRead EXCEPT !.limit = ask.limit, !.page = PageSize(ask)])
      BY <1>3 DEF Begin
    <3>2. CASE ask.limit <= 0
      BY <1>0, <3>1, <3>2 DEF NoRead
    <3>3. CASE ~ (ask.limit <= 0)
      <4> DEFINE r == [NoRead EXCEPT !.limit = ask.limit, !.page = PageSize(ask)]
      <4>1. read' = [read EXCEPT ![c] = [r EXCEPT !.pc = IF authenticated THEN "page" ELSE "lock"]]
        BY <3>1, <3>3 DEF Toward
      <4>2. ask.limit \in Int /\ PageSize(ask) \in Nat
        BY <3>3, ClientAssumption, PageSizeType
      <4>3. r \in ReadState /\ r.skip = 0 /\ r.results = <<>>
        BY <4>2, NoReadType DEF NoRead, ReadState
      <4> HIDE DEF r
      <4> QED  BY <1>0, <4>1, <4>3 DEF ReadState
    <3> QED  BY <3>2, <3>3
  <2> QED  BY <1>1, <1>2, <2>1, <2>2 DEF Begins
<1>4. CASE Leave(c)
  BY <1>0, <1>1, <1>2, <1>4 DEF Leave, NoRead
<1>5. ASSUME NEW pc \in {"login", "redirect", "page"}, Asking(c), UNCHANGED seen,
             read' = [read EXCEPT ![c].pc = pc]
      PROVE  GoesOn(c)
  <2>1. read'[c].skip = read[c].skip /\ read'[c].results = read[c].results /\ read'[c].pc = pc
    BY <1>0, <1>5 DEF ReadState
  <2> QED  BY <1>5, <2>1 DEF GoesOn, Asking
<1>6. CASE Enter(c)
  BY <1>1, <1>2, <1>5, <1>6 DEF Enter, Asking
<1>7. CASE LoginAnswer(c)
  <2>1. (IF HasRedirect THEN "redirect" ELSE "page") \in {"login", "redirect", "page"}
    OBVIOUS
  <2> QED  BY <1>1, <1>2, <1>4, <1>5, <1>7, <2>1 DEF LoginAnswer, Asking
<1>8. CASE RedirectAnswer(c)
  BY <1>1, <1>2, <1>5, <1>8 DEF RedirectAnswer, Asking
<1>9. CASE PageAnswer(c)
  <2>1. read[c].pc = "page" /\ read'[c] = WithBatch(read[c]) /\ UNCHANGED seen /\ Asking(c)
    BY <1>0, <1>9 DEF PageAnswer, Asking
  <2>2. read'[c].pc \in {"page", "done"}
    BY <2>1, WithBatchProperties
  <2> QED  BY <1>1, <1>2, <2>1, <2>2 DEF TakesPage
<1> QED
  BY <1>3, <1>4, <1>6, <1>7, <1>8, <1>9 DEF Runs, LoginRefused, PageRefused, Return

LEMMA AheadStep == TypeInv /\ AheadInv /\ [Next]_vars => AheadInv'
<1> SUFFICES ASSUME TypeInv, AheadInv, [Next]_vars PROVE AheadInv'
  OBVIOUS
<1> USE DEF session
<1>0. read \in [Reader -> ReadState] /\ list \in Seq(Incident) /\ seen \in [Reader -> Seen]
  BY DEF TypeInv, TypeOK, Seen
<1>a. CASE Expire \/ UNCHANGED vars
  <2>1. UNCHANGED <<list, read, seen>>
    BY <1>a DEF Expire, vars
  <2> QED  BY <2>1 DEF AheadInv, Asking, Found, Beyond
<1>b. CASE Restart
  BY <1>b DEF Restart, NoRead, AheadInv, Asking
<1>c. CASE Raise
  <2>1. PICK i \in Incident, p \in 0..Len(list) :
          list' = Put(list, i, p)
    BY <1>c DEF Raise, Put
  <2>2. \A q \in DOMAIN list : \E r \in DOMAIN list' : r >= q /\ list'[r] = list[q]
    BY <1>0, <2>1, RaisedPositions
  <2>3. ASSUME NEW x, NEW n \in Int, Beyond(x, n) PROVE Beyond(x, n)'
    <3>1. PICK q \in DOMAIN list : q > n /\ list[q] = x
      BY <2>3 DEF Beyond
    <3>2. PICK r \in DOMAIN list' : r >= q /\ list'[r] = x
      BY <2>2, <3>1
    <3>3. r \in Nat /\ q \in Nat
      <4>1. list' \in Seq(Incident)
        BY <1>0, <2>1, RaisedElements
      <4> QED  BY <1>0, <3>1, <3>2, <4>1, LenProperties
    <3> QED  BY <3>1, <3>2, <3>3 DEF Beyond
  <2>4. UNCHANGED read /\ \A c \in Reader : seen'[c].there = seen[c].there
                                        /\ seen'[c].cleared = seen[c].cleared
    BY <1>0, <1>c DEF Raise, Change, Seen
  <2>5. \A c \in Reader : read[c].skip \in Int /\ read[c].limit \in Int
    BY <1>0 DEF ReadState
  <2> QED  BY <2>3, <2>4, <2>5 DEF AheadInv, Asking, Found
<1>d. CASE Clear
  <2>1. \A c \in Reader : Reading(c) => seen'[c].cleared # 0
    <3> TAKE x \in Reader
    <3>1. seen[x] \in Seen
      BY <1>0
    <3>2. PICK p \in DOMAIN list :
            seen' = [y \in Reader |-> IF Reading(y) THEN [seen[y] EXCEPT !.there   = @ \ {list[p]},
                                                                         !.cleared = @ + 1]
                                      ELSE seen[y]]
      BY <1>d DEF Clear
    <3>3. Reading(x) => seen'[x].cleared = seen[x].cleared + 1
      BY <3>1, <3>2 DEF Seen
    <3>4. seen[x].cleared \in Nat
      BY <3>1 DEF Seen
    <3> QED  BY <3>3, <3>4
  <2>2. UNCHANGED read
    BY <1>d DEF Clear, Change
  <2> QED  BY <2>1, <2>2 DEF AheadInv, Asking, Reading
<1>e. ASSUME NEW c \in Reader, Begin(c) \/ Runs(c) PROVE AheadInv'
  <2> DEFINE Ahead == seen'[c].cleared = 0 =>
                        \A i \in seen'[c].there :
                          /\ Asking(c)' => i \in Found(read'[c]) \/ Beyond(i, read'[c].skip)
                          /\ read'[c].pc = "done" => i \in Found(read'[c]) \/ Beyond(i, read'[c].limit)
  <2>1. Others(c) /\ UNCHANGED list /\ \A x \in Reader \ {c} : seen'[x] = seen[x]
    BY <1>e, CoroutineStep
  <2>2. SUFFICES Ahead
    BY <2>1 DEF AheadInv, Others, Asking, Beyond
  <2>3. CASE Begins(c)
    <3>1. \A i \in Listed : Beyond(i, 0)
      BY <1>0, LenProperties DEF Listed, Beyond
    <3> QED  BY <2>3, <3>1 DEF Begins, NothingSeen
  <2>4. CASE read'[c].pc = "idle"
    BY <2>4 DEF Asking
  <2>5. CASE GoesOn(c)
    <3>1. Found(read'[c]) = Found(read[c])
      BY <2>5 DEF GoesOn, Found
    <3> QED  BY <2>5, <3>1 DEF GoesOn, AheadInv, Asking
  <2>6. CASE TakesPage(c)
    BY <2>6, PageTakesNext DEF TakesPage, AheadInv, Asking
  <2> QED  BY <1>e, <2>3, <2>4, <2>5, <2>6, CoroutineStep
<1> QED
  BY <1>a, <1>b, <1>c, <1>d, <1>e DEF Next

-----------------------------------------------------------------------------
(***************************************************************************)
(* Counting what a read misses and what it takes twice.  A change of the   *)
(* list moves the incidents after it by one place: a clearing brings at    *)
(* most one incident from beyond the offset to before it, and a raising    *)
(* at most one back.                                                       *)
(***************************************************************************)
Upto(s, n)  == {s[p] : p \in {q \in DOMAIN s : q <= n}}
After(s, n) == {s[p] : p \in {q \in DOMAIN s : q > n}}

ListedIn(s)   == {s[q] : q \in DOMAIN s}
ListedOnce(s) == \A p, q \in DOMAIN s : s[p] = s[q] => p = q

LEMMA UptoDomain ==
  ASSUME NEW s \in Seq(Incident), NEW n \in Int
  PROVE  /\ \A i : i \in Upto(s, n) <=> \E q \in 1..Len(s) : q <= n /\ s[q] = i
         /\ \A i : i \in After(s, n) <=> \E q \in 1..Len(s) : q > n /\ s[q] = i
<1>1. DOMAIN s = 1..Len(s)
  BY LenProperties
<1> QED  BY <1>1 DEF Upto, After

(* Each place of the list after a raising holds what one before it held. *)
LEMMA RaisedPlaces ==
  ASSUME NEW s \in Seq(Incident), NEW i \in Incident, NEW p \in 0..Len(s)
  PROVE  /\ Put(s, i, p) \in Seq(Incident) /\ Len(Put(s, i, p)) = Len(s) + 1
         /\ Len(s) \in Nat /\ p \in Int
         /\ \A j \in 1..(Len(s) + 1) :
              \/ j <= p /\ j \in 1..Len(s) /\ Put(s, i, p)[j] = s[j]
              \/ j = p + 1 /\ Put(s, i, p)[j] = i
              \/ j > p + 1 /\ j - 1 \in 1..Len(s) /\ Put(s, i, p)[j] = s[j - 1]
<1> DEFINE t == Put(s, i, p)
<1>1. /\ t \in Seq(Incident) /\ Len(t) = Len(s) + 1
      /\ \A j \in 1..(Len(s) + 1) :
           t[j] = IF j <= p THEN s[j] ELSE IF j = p + 1 THEN i ELSE s[j - 1]
  BY RaisedElements
<1>2. Len(s) \in Nat /\ p \in Int
  BY LenProperties
<1> HIDE DEF t
<1>3. ASSUME NEW j \in 1..(Len(s) + 1)
      PROVE  \/ j <= p /\ j \in 1..Len(s) /\ t[j] = s[j]
             \/ j = p + 1 /\ t[j] = i
             \/ j > p + 1 /\ j - 1 \in 1..Len(s) /\ t[j] = s[j - 1]
  <2>1. \/ j <= p /\ j \in 1..Len(s)
        \/ j = p + 1 /\ ~ (j <= p)
        \/ j > p + 1 /\ j - 1 \in 1..Len(s) /\ ~ (j <= p) /\ j # p + 1
    BY <1>2
  <2> QED  BY <1>1, <2>1
<1> QED  BY <1>1, <1>2, <1>3 DEF t

LEMMA RaisingBefore ==
  ASSUME NEW s \in Seq(Incident), NEW i \in Incident, NEW p \in 0..Len(s), NEW n \in Int
  PROVE  Upto(Put(s, i, p), n) \subseteq Upto(s, n) \cup {i}
<1> DEFINE t == Put(s, i, p)
<1>1. /\ t \in Seq(Incident) /\ Len(t) = Len(s) + 1 /\ Len(s) \in Nat /\ p \in Int
      /\ \A j \in 1..(Len(s) + 1) :
           \/ j <= p /\ j \in 1..Len(s) /\ t[j] = s[j]
           \/ j = p + 1 /\ t[j] = i
           \/ j > p + 1 /\ j - 1 \in 1..Len(s) /\ t[j] = s[j - 1]
  BY RaisedPlaces
<1> HIDE DEF t
<1> SUFFICES ASSUME NEW x \in Upto(t, n), x # i PROVE x \in Upto(s, n)
  BY DEF t
<1>2. PICK j \in 1..(Len(s) + 1) : j <= n /\ t[j] = x
  <2>1. \E j \in 1..Len(t) : j <= n /\ t[j] = x
    <3>1. t \in Seq(Incident)
      BY <1>1
    <3> QED  BY <3>1, UptoDomain
  <2> QED  BY <1>1, <2>1
<1>3. CASE j \in 1..Len(s) /\ t[j] = s[j]
  BY <1>2, <1>3, UptoDomain
<1>4. CASE j - 1 \in 1..Len(s) /\ t[j] = s[j - 1]
  <2>1. j - 1 <= n
    BY <1>2
  <2> QED  BY <1>2, <1>4, <2>1, UptoDomain
<1> QED  BY <1>1, <1>2, <1>3, <1>4

LEMMA RaisingBehind ==
  ASSUME NEW s \in Seq(Incident), NEW i \in Incident, NEW p \in 0..Len(s), NEW n \in Int
  PROVE  \E x : After(Put(s, i, p), n) \subseteq After(s, n) \cup {x}
<1> DEFINE t == Put(s, i, p)
           x == IF p >= n THEN i ELSE s[n]
<1>1. /\ t \in Seq(Incident) /\ Len(t) = Len(s) + 1 /\ Len(s) \in Nat /\ p \in Int
      /\ \A j \in 1..(Len(s) + 1) :
           \/ j <= p /\ j \in 1..Len(s) /\ t[j] = s[j]
           \/ j = p + 1 /\ t[j] = i
           \/ j > p + 1 /\ j - 1 \in 1..Len(s) /\ t[j] = s[j - 1]
  BY RaisedPlaces
<1> HIDE DEF t
<1> SUFFICES ASSUME NEW y \in After(t, n), y # x PROVE y \in After(s, n)
  BY DEF t
<1>2. PICK j \in 1..(Len(s) + 1) : j > n /\ t[j] = y
  <2>1. \E j \in 1..Len(t) : j > n /\ t[j] = y
    <3>1. t \in Seq(Incident)
      BY <1>1
    <3> QED  BY <3>1, UptoDomain
  <2> QED  BY <1>1, <2>1
<1>3. CASE j \in 1..Len(s) /\ t[j] = s[j]
  BY <1>2, <1>3, UptoDomain
<1>4. CASE j = p + 1 /\ t[j] = i
  <2>1. p >= n
    BY <1>1, <1>2, <1>4
  <2> QED  BY <1>2, <1>4, <2>1
<1>5. CASE j > p + 1 /\ j - 1 \in 1..Len(s) /\ t[j] = s[j - 1]
  <2>1. j - 1 # n
    <3> SUFFICES ASSUME j - 1 = n PROVE FALSE
      OBVIOUS
    <3>1. ~ (p >= n)
      BY <1>1, <1>5
    <3> QED  BY <1>2, <1>5, <3>1
  <2>2. j - 1 > n
    BY <1>2, <2>1
  <2> QED  BY <1>2, <1>5, <2>2, UptoDomain
<1> QED  BY <1>1, <1>2, <1>3, <1>4, <1>5

LEMMA ClearingMoves ==
  ASSUME NEW s \in Seq(Incident), NEW p \in DOMAIN s, NEW n \in Int
  PROVE  LET t == Drop(s, p) IN
         /\ \E x : Upto(t, n) \subseteq Upto(s, n) \cup {x}
         /\ After(t, n) \subseteq After(s, n)
<1> DEFINE t == Drop(s, p)
<1>1. /\ t \in Seq(Incident) /\ Len(t) = Len(s) - 1
      /\ \A j \in 1..(Len(s) - 1) : t[j] = IF j < p THEN s[j] ELSE s[j + 1]
  BY ClearedElements
<1>2. Len(s) \in Nat /\ p \in 1..Len(s)
  BY LenProperties
<1> HIDE DEF t
<1>3. ASSUME NEW j \in 1..(Len(s) - 1)
      PROVE  j \in 1..Len(s) /\ j + 1 \in 1..Len(s) /\ t[j] \in {s[j], s[j + 1]}
  <2>1. j \in 1..Len(s) /\ j + 1 \in 1..Len(s)
    BY <1>2
  <2> QED  BY <1>1, <2>1
<1>4. \E x : Upto(t, n) \subseteq Upto(s, n) \cup {x}
  <2> DEFINE x == s[n + 1]
  <2> SUFFICES ASSUME NEW y \in Upto(t, n), y # x PROVE y \in Upto(s, n)
    OBVIOUS
  <2>1. PICK j \in 1..(Len(s) - 1) : j <= n /\ t[j] = y
    BY <1>1, UptoDomain
  <2>2. CASE y = s[j]
    BY <1>3, <2>1, <2>2, UptoDomain
  <2>3. CASE y = s[j + 1]
    <3>1. j # n
      BY <2>3
    <3>2. j + 1 <= n
      BY <2>1, <3>1
    <3> QED  BY <1>3, <2>3, <3>2, UptoDomain
  <2> QED  BY <1>3, <2>1, <2>2, <2>3
<1>5. After(t, n) \subseteq After(s, n)
  <2> SUFFICES ASSUME NEW y \in After(t, n) PROVE y \in After(s, n)
    OBVIOUS
  <2>1. PICK j \in 1..(Len(s) - 1) : j > n /\ t[j] = y
    BY <1>1, UptoDomain
  <2>2. j + 1 > n
    BY <2>1
  <2> QED  BY <1>3, <2>1, <2>2, UptoDomain
<1> QED  BY <1>4, <1>5 DEF t

(* The others stay listed, and what is listed once stays so. *)
LEMMA RaisingKeeps ==
  ASSUME NEW s \in Seq(Incident), NEW i \in Incident, NEW p \in 0..Len(s),
         NEW t, t = Put(s, i, p)
  PROVE  /\ ListedIn(s) \subseteq ListedIn(t)
         /\ ListedOnce(s) /\ i \notin ListedIn(s) => ListedOnce(t)
<1>1. /\ t \in Seq(Incident) /\ Len(t) = Len(s) + 1 /\ Len(s) \in Nat /\ p \in Int
      /\ \A j \in 1..(Len(s) + 1) :
           \/ j <= p /\ j \in 1..Len(s) /\ t[j] = s[j]
           \/ j = p + 1 /\ t[j] = i
           \/ j > p + 1 /\ j - 1 \in 1..Len(s) /\ t[j] = s[j - 1]
  BY RaisedPlaces
<1>2. DOMAIN t = 1..(Len(s) + 1) /\ DOMAIN s = 1..Len(s)
  BY <1>1, LenProperties
<1>3. ListedIn(s) \subseteq ListedIn(t)
  BY RaisedPositions DEF ListedIn
<1>4. ASSUME ListedOnce(s), i \notin ListedIn(s),
             NEW j \in 1..(Len(s) + 1), NEW k \in 1..(Len(s) + 1), t[j] = t[k], j # k
      PROVE  FALSE
  <2>1. \A q \in 1..Len(s) : s[q] # i
    BY <1>2, <1>4 DEF ListedIn
  <2>2. \A a, b \in 1..Len(s) : s[a] = s[b] => a = b
    BY <1>2, <1>4 DEF ListedOnce
  <2>3. ASSUME NEW q \in 1..(Len(s) + 1)
        PROVE  \/ q = p + 1 /\ t[q] = i
               \/ \E o \in 1..Len(s) : t[q] = s[o] /\ q = IF o <= p THEN o ELSE o + 1
    <3>1. CASE q <= p /\ q \in 1..Len(s) /\ t[q] = s[q]
      BY <3>1
    <3>2. CASE q > p + 1 /\ q - 1 \in 1..Len(s) /\ t[q] = s[q - 1]
      <4>1. q = IF q - 1 <= p THEN q - 1 ELSE q - 1 + 1
        BY <1>1, <3>2
      <4> QED  BY <3>2, <4>1
    <3> QED  BY <1>1, <3>1, <3>2
  <2>4. CASE t[j] = i
    <3>1. j = p + 1 /\ k = p + 1
      BY <1>4, <2>1, <2>3, <2>4
    <3> QED  BY <1>4, <3>1
  <2>5. CASE t[j] # i
    <3>1. PICK a \in 1..Len(s) : t[j] = s[a] /\ j = IF a <= p THEN a ELSE a + 1
      BY <2>3, <2>5
    <3>2. PICK b \in 1..Len(s) : t[k] = s[b] /\ k = IF b <= p THEN b ELSE b + 1
      BY <1>4, <2>3, <2>5
    <3>3. a = b
      BY <1>4, <2>2, <3>1, <3>2
    <3> QED  BY <1>4, <3>1, <3>2, <3>3
  <2> QED  BY <2>4, <2>5
<1> QED  BY <1>2, <1>3, <1>4 DEF ListedOnce

LEMMA ClearingKeeps ==
  ASSUME NEW s \in Seq(Incident), NEW p \in DOMAIN s, NEW t, t = Drop(s, p)
  PROVE  /\ ListedIn(s) \ {s[p]} \subseteq ListedIn(t)
         /\ ListedOnce(s) => ListedOnce(t)
<1>1. /\ t \in Seq(Incident) /\ Len(t) = Len(s) - 1
      /\ \A j \in 1..(Len(s) - 1) : t[j] = IF j < p THEN s[j] ELSE s[j + 1]
  BY ClearedElements, Zenon
<1>2. /\ DOMAIN t = 1..(Len(s) - 1) /\ DOMAIN s = 1..Len(s)
      /\ Len(s) \in Nat /\ p \in 1..Len(s)
  BY <1>1, LenProperties
<1>3. ASSUME NEW q \in 1..Len(s), q # p
      PROVE  \E j \in 1..(Len(s) - 1) : t[j] = s[q]
  <2>1. CASE q < p
    <3>1. q \in 1..(Len(s) - 1)
      BY <1>2, <2>1
    <3> QED  BY <1>1, <2>1, <3>1
  <2>2. CASE ~ (q < p)
    <3>1. q - 1 \in 1..(Len(s) - 1) /\ ~ (q - 1 < p) /\ q - 1 + 1 = q
      BY <1>2, <1>3, <2>2
    <3> QED  BY <1>1, <3>1
  <2> QED  BY <2>1, <2>2
<1>4. ASSUME ListedOnce(s), NEW j \in 1..(Len(s) - 1), NEW k \in 1..(Len(s) - 1), t[j] = t[k]
      PROVE  j = k
  <2>1. \A a, b \in 1..Len(s) : s[a] = s[b] => a = b
    BY <1>2, <1>4 DEF ListedOnce
  <2>2. /\ j \in 1..Len(s) /\ j + 1 \in 1..Len(s) /\ k \in 1..Len(s) /\ k + 1 \in 1..Len(s)
    BY <1>2
  <2> QED  BY <1>1, <1>2, <1>4, <2>1, <2>2
<1>5. ListedIn(s) \ {s[p]} \subseteq ListedIn(t)
  BY <1>2, <1>3 DEF ListedIn
<1>6. ListedOnce(s) => ListedOnce(t)
  BY <1>2, <1>4 DEF ListedOnce
<1> QED  BY <1>5, <1>6

Few(S, k) == IsFiniteSet(S) /\ Cardinality(S) <= k

LEMMA FewSubset ==
  ASSUME NEW S, NEW k \in Nat, Few(S, k), NEW T, T \subseteq S
  PROVE  Few(T, k)
<1>1. IsFiniteSet(T) /\ Cardinality(T) <= Cardinality(S)
  BY FS_Subset DEF Few
<1>2. Cardinality(T) \in Nat /\ Cardinality(S) \in Nat
  BY <1>1, FS_CardinalityType DEF Few
<1> QED  BY <1>1, <1>2 DEF Few

LEMMA FewAndOne ==
  ASSUME NEW S, NEW k \in Nat, Few(S, k), NEW T, NEW x, T \subseteq S \cup {x}
  PROVE  Few(T, k + 1)
<1>1. IsFiniteSet(S \cup {x}) /\ Cardinality(S \cup {x}) \in {Cardinality(S), Cardinality(S) + 1}
  BY FS_AddElement DEF Few
<1>2. Cardinality(S) \in Nat
  BY FS_CardinalityType DEF Few
<1>3. Few(S \cup {x}, k + 1)
  BY <1>1, <1>2 DEF Few
<1>4. k + 1 \in Nat
  OBVIOUS
<1> QED  BY <1>3, <1>4, FewSubset

LEMMA FewNone == \A k \in Nat : Few({}, k)
BY FS_EmptySet DEF Few

(* What was there all along, stands before the n-th place, and is not found. *)
Missed(there, s, n, r) == (there \cap Upto(s, n)) \ Found(r)

(* The incidents a read missed so far are at most those cleared. *)
MissedInv ==
  \A c \in Reader :
    /\ Reading(c) => seen[c].there \subseteq Listed
    /\ Asking(c) => Few(Missed(seen[c].there, list, read[c].skip, read[c]), seen[c].cleared)
    /\ read[c].pc = "done" => Few(Missed(seen[c].there, list, read[c].limit, read[c]), seen[c].cleared)

LEMMA MissedStep == TypeInv /\ MissedInv /\ [Next]_vars => MissedInv'
<1> SUFFICES ASSUME TypeInv, MissedInv, [Next]_vars PROVE MissedInv'
  OBVIOUS
<1> USE DEF session
<1>0. read \in [Reader -> ReadState] /\ list \in Seq(Incident) /\ seen \in [Reader -> Seen]
  BY DEF TypeInv, TypeOK, Seen
<1>1. \A c \in Reader : /\ read[c].skip \in Int /\ read[c].limit \in Int
                        /\ seen[c].cleared \in Nat /\ seen[c].there \subseteq Incident
  BY <1>0 DEF ReadState, Seen
<1>a. CASE Expire \/ UNCHANGED vars
  <2>1. UNCHANGED <<list, read, seen>>
    BY <1>a DEF Expire, vars
  <2> QED  BY <2>1 DEF MissedInv, Missed, Asking, Reading, Listed
<1>b. CASE Restart
  BY <1>b DEF Restart, NoRead, MissedInv, Asking, Reading
<1>c. CASE Raise
  <2>1. PICK i \in Incident \ Listed, p \in 0..Len(list) : list' = Put(list, i, p)
    BY <1>c DEF Raise, Put
  <2>2. UNCHANGED read /\ \A c \in Reader : seen'[c].there = seen[c].there
                                        /\ seen'[c].cleared = seen[c].cleared
    BY <1>0, <1>c DEF Raise, Change, Seen
  <2>3. Listed \subseteq Listed'
    <3>1. Listed = ListedIn(list) /\ Listed' = ListedIn(list')
      BY DEF Listed, ListedIn
    <3> QED  BY <1>0, <2>1, <3>1, RaisingKeeps
  <2>4. \A n \in Int : Upto(list', n) \subseteq Upto(list, n) \cup {i}
    BY <1>0, <2>1, RaisingBefore
  <2>5. ASSUME NEW c \in Reader, Reading(c), NEW n \in Int
        PROVE  Missed(seen'[c].there, list', n, read'[c]) \subseteq Missed(seen[c].there, list, n, read[c])
    <3>1. i \notin seen[c].there
      BY <2>1, <2>5 DEF MissedInv
    <3> QED  BY <2>2, <2>4, <3>1 DEF Missed
  <2>6. \A c \in Reader : (Asking(c) \/ read[c].pc = "done") => Reading(c)
    BY DEF Asking, Reading
  <2>7. ASSUME NEW c \in Reader
        PROVE  /\ Reading(c)' => seen'[c].there \subseteq Listed'
               /\ Asking(c)' => Few(Missed(seen'[c].there, list', read'[c].skip, read'[c]), seen'[c].cleared)
               /\ read'[c].pc = "done" =>
                    Few(Missed(seen'[c].there, list', read'[c].limit, read'[c]), seen'[c].cleared)
    <3>1. Reading(c)' => seen'[c].there \subseteq Listed'
      BY <2>2, <2>3 DEF MissedInv, Reading
    <3>2. ASSUME Asking(c)
          PROVE  Few(Missed(seen'[c].there, list', read'[c].skip, read'[c]), seen'[c].cleared)
      BY <1>1, <2>2, <2>5, <2>6, <3>2, FewSubset DEF MissedInv
    <3>3. ASSUME read[c].pc = "done"
          PROVE  Few(Missed(seen'[c].there, list', read'[c].limit, read'[c]), seen'[c].cleared)
      BY <1>1, <2>2, <2>5, <2>6, <3>3, FewSubset DEF MissedInv
    <3> QED  BY <2>2, <3>1, <3>2, <3>3 DEF Asking
  <2> QED  BY <2>7 DEF MissedInv
<1>d. CASE Clear
  <2>1. PICK p \in DOMAIN list :
          /\ list' = Drop(list, p)
          /\ seen' = [c \in Reader |->
                        IF Reading(c) THEN [seen[c] EXCEPT !.there   = @ \ {list[p]},
                                                           !.cleared = @ + 1]
                        ELSE seen[c]]
    BY <1>d DEF Clear, Drop
  <2>2. UNCHANGED read
    BY <1>d DEF Clear, Change
  <2>3. \A c \in Reader : Reading(c) => /\ seen'[c].there = seen[c].there \ {list[p]}
                                       /\ seen'[c].cleared = seen[c].cleared + 1
    BY <1>0, <2>1 DEF Seen
  <2>4. Listed \ {list[p]} \subseteq Listed'
    <3>1. Listed = ListedIn(list) /\ Listed' = ListedIn(list')
      BY DEF Listed, ListedIn
    <3> QED  BY <1>0, <2>1, <3>1, ClearingKeeps
  <2>5. \A n \in Int : \E x : Upto(list', n) \subseteq Upto(list, n) \cup {x}
    BY <1>0, <2>1, ClearingMoves
  <2>6. ASSUME NEW c \in Reader, Reading(c), NEW n \in Int,
               Few(Missed(seen[c].there, list, n, read[c]), seen[c].cleared)
        PROVE  Few(Missed(seen'[c].there, list', n, read'[c]), seen'[c].cleared)
    <3>1. PICK x : Upto(list', n) \subseteq Upto(list, n) \cup {x}
      BY <2>5
    <3>2. Missed(seen'[c].there, list', n, read'[c])
            \subseteq Missed(seen[c].there, list, n, read[c]) \cup {x}
      BY <2>2, <2>3, <2>6, <3>1 DEF Missed
    <3>3. Few(Missed(seen'[c].there, list', n, read'[c]), seen[c].cleared + 1)
      BY <1>1, <2>6, <3>2, FewAndOne
    <3> QED  BY <2>3, <2>6, <3>3
  <2>7. ASSUME NEW c \in Reader
        PROVE  /\ Reading(c)' => seen'[c].there \subseteq Listed'
               /\ Asking(c)' => Few(Missed(seen'[c].there, list', read'[c].skip, read'[c]), seen'[c].cleared)
               /\ read'[c].pc = "done" =>
                    Few(Missed(seen'[c].there, list', read'[c].limit, read'[c]), seen'[c].cleared)
    <3>1. Reading(c)' => seen'[c].there \subseteq Listed'
      BY <2>2, <2>3, <2>4 DEF MissedInv, Reading
    <3>2. ASSUME Asking(c)
          PROVE  Few(Missed(seen'[c].there, list', read'[c].skip, read'[c]), seen'[c].cleared)
      <4>1. Reading(c) /\ read'[c].skip = read[c].skip
        BY <2>2, <3>2 DEF Asking, Reading
      <4> QED  BY <1>1, <2>6, <3>2, <4>1 DEF MissedInv
    <3>3. ASSUME read[c].pc = "done"
          PROVE  Few(Missed(seen'[c].there, list', read'[c].limit, read'[c]), seen'[c].cleared)
      <4>1. Reading(c) /\ read'[c].limit = read[c].limit
        BY <2>2, <3>3 DEF Reading
      <4> QED  BY <1>1, <2>6, <3>3, <4>1 DEF MissedInv
    <3> QED  BY <2>2, <3>1, <3>2, <3>3 DEF Asking
  <2> QED  BY <2>7 DEF MissedInv
<1>e. ASSUME NEW c \in Reader, Begin(c) \/ Runs(c) PROVE MissedInv'
  <2> DEFINE Kept ==  /\ Reading(c)' => seen'[c].there \subseteq Listed
                      /\ Asking(c)' =>
                           Few(Missed(seen'[c].there, list, read'[c].skip, read'[c]), seen'[c].cleared)
                      /\ read'[c].pc = "done" =>
                           Few(Missed(seen'[c].there, list, read'[c].limit, read'[c]), seen'[c].cleared)
  <2>1. Others(c) /\ UNCHANGED list /\ \A x \in Reader \ {c} : seen'[x] = seen[x]
    BY <1>e, CoroutineStep
  <2>2. SUFFICES Kept
    BY <2>1 DEF MissedInv, Others, Asking, Reading, Listed
  <2>3. CASE Begins(c)
    <3>1. Upto(list, 0) = {}
      BY <1>0, UptoDomain
    <3>2. seen'[c].there = Listed /\ seen'[c].cleared = 0
      BY <2>3 DEF Begins, NothingSeen
    <3>3. Few(Missed(seen'[c].there, list, 0, read'[c]), seen'[c].cleared)
      BY <3>1, <3>2, FewNone DEF Missed
    <3> QED  BY <2>3, <3>2, <3>3 DEF Begins
  <2>4. CASE read'[c].pc = "idle"
    BY <2>4 DEF Asking, Reading
  <2>5. CASE GoesOn(c)
    <3>1. Found(read'[c]) = Found(read[c])
      BY <2>5 DEF GoesOn, Found
    <3>2. Reading(c)
      BY <2>5 DEF GoesOn, Asking, Reading
    <3> QED  BY <2>5, <3>1, <3>2 DEF GoesOn, MissedInv, Asking, Missed
  <2>6. CASE TakesPage(c)
    <3> DEFINE r == read[c]
               n == WithBatch(r)
               k == Len(Batch(r))
               u == IF n.pc = "page" THEN n.skip ELSE n.limit
    <3>1. /\ k \in Nat /\ r.skip \in Nat /\ r.limit \in Int /\ n.limit = r.limit
          /\ Found(n) = Found(r) \cup {list[p] : p \in (r.skip + 1)..(r.skip + k)}
          /\ n.pc = "page" => n.skip = r.skip + k
          /\ n.pc = "done" => r.skip + k >= r.limit \/ r.skip + k >= Len(list)
      BY <2>6, PageBrings DEF TakesPage
    <3>2. /\ read'[c] = n /\ n.pc \in {"page", "done"} /\ UNCHANGED seen /\ Asking(c)
          /\ Reading(c)
      BY <2>6 DEF TakesPage, Asking, Reading
    <3>3. Few(Missed(seen[c].there, list, r.skip, r), seen[c].cleared) /\ seen[c].there \subseteq Listed
      BY <3>2 DEF MissedInv
    <3> HIDE DEF n, k
    <3>4. Missed(seen[c].there, list, u, n) \subseteq Missed(seen[c].there, list, r.skip, r)
      <4> SUFFICES ASSUME NEW i \in Upto(list, u), i \notin Found(n)
                   PROVE  i \in Upto(list, r.skip) /\ i \notin Found(r)
        BY DEF Missed
      <4>1. u \in Int
        BY <3>1, <3>2
      <4>2. PICK q \in 1..Len(list) : q <= u /\ list[q] = i
        BY <1>0, <4>1, UptoDomain
      <4>3. Len(list) \in Nat
        BY <1>0, LenProperties
      <4>4. q <= r.skip + k
        BY <3>1, <3>2, <4>2, <4>3
      <4>5. q <= r.skip
        BY <3>1, <4>2, <4>4
      <4> QED  BY <1>0, <3>1, <4>2, <4>5, UptoDomain
    <3>5. Few(Missed(seen[c].there, list, u, n), seen[c].cleared)
      BY <1>1, <3>3, <3>4, FewSubset
    <3> QED  BY <3>2, <3>3, <3>5 DEF Asking
  <2> QED  BY <1>e, <2>3, <2>4, <2>5, <2>6, CoroutineStep
<1> QED
  BY <1>a, <1>b, <1>c, <1>d, <1>e DEF Next

(* What was found and stands where a page may still bring it. *)
Again(s, r) == Found(r) \cap After(s, r.skip)

(* What a read took twice, and may take twice, is at most what was raised. *)
TwiceInv ==
  \A c \in Reader :
    /\ Reading(c) => IsFiniteSet(Found(read[c]))
    /\ Asking(c) => Len(read[c].results) + Cardinality(Again(list, read[c]))
                       <= Cardinality(Found(read[c])) + seen[c].raised
    /\ read[c].pc = "done" => Len(read[c].results) - Cardinality(Found(read[c])) <= seen[c].raised

LEMMA AgainType ==
  ASSUME NEW s, NEW r, IsFiniteSet(Found(r))
  PROVE  IsFiniteSet(Again(s, r)) /\ Cardinality(Again(s, r)) \in Nat /\ Cardinality(Found(r)) \in Nat
<1>1. Again(s, r) \subseteq Found(r)
  BY DEF Again
<1> QED  BY <1>1, FS_Subset, FS_CardinalityType

(* A part of a list without repetitions has as many incidents as places. *)
LEMMA PartCardinality ==
  ASSUME NEW s \in Seq(Incident), ListedOnce(s), NEW k \in Nat, NEW m \in Nat,
         m > 0 => k + m <= Len(s)
  PROVE  LET part == {s[p] : p \in (k + 1)..(k + m)}
         IN  IsFiniteSet(part) /\ Cardinality(part) = m
<1> DEFINE places == (k + 1)..(k + m)
           part   == {s[p] : p \in places}
           f      == [p \in places |-> s[p]]
<1>1. IsFiniteSet(places) /\ Cardinality(places) = m
  <2>1. k + 1 \in Int /\ k + m \in Int /\ (k + 1 > k + m <=> m = 0) /\ k + m - (k + 1) + 1 = m
    OBVIOUS
  <2> QED  BY <2>1, FS_Interval
<1>2. DOMAIN s = 1..Len(s) /\ Len(s) \in Nat
  BY LenProperties
<1>3. places \subseteq DOMAIN s
  BY <1>2
<1> HIDE DEF places
<1>4. f \in Bijection(places, part)
  <2>1. \A a, b \in places : f[a] = f[b] => a = b
    BY <1>3 DEF ListedOnce
  <2> QED  BY <2>1, Fun_IsBij
<1>5. ExistsBijection(places, part)
  BY <1>4 DEF ExistsBijection
<1>6. IsFiniteSet(part) /\ Cardinality(part) = m
  BY <1>1, <1>5, FS_Bijection
<1> QED  BY <1>6 DEF places

(***************************************************************************)
(* The balance of a page: what it brings (P) was ahead (in A) and is no    *)
(* longer (not in B), whether it had been found (F) or not.                *)
(***************************************************************************)
LEMMA PageBalance ==
  ASSUME NEW F, IsFiniteSet(F), NEW P, IsFiniteSet(P), NEW A, NEW B, B \subseteq A, P \subseteq A,
         P \cap B = {}
  PROVE  /\ IsFiniteSet(F \cup P)
         /\ Cardinality(P) + Cardinality((F \cup P) \cap B) + Cardinality(F)
              <= Cardinality(F \cup P) + Cardinality(F \cap A)
<1> DEFINE both == F \cap P
           rest == (F \cup P) \cap B
<1>1. /\ IsFiniteSet(F \cup P)
      /\ Cardinality(F \cup P) = Cardinality(F) + Cardinality(P) - Cardinality(both)
  BY FS_Union
<1>2. both \subseteq F /\ rest \subseteq F /\ both \cup rest \subseteq F \cap A /\ both \cap rest = {}
      /\ F \cap A \subseteq F
  OBVIOUS
<1> HIDE DEF both, rest
<1>3. IsFiniteSet(both) /\ IsFiniteSet(rest) /\ IsFiniteSet(F \cap A)
  BY <1>2, FS_Subset
<1>4. Cardinality(both \cup rest) = Cardinality(both) + Cardinality(rest)
  <2>1. Cardinality(both \cup rest)
          = Cardinality(both) + Cardinality(rest) - Cardinality(both \cap rest)
    BY <1>3, FS_Union
  <2>2. Cardinality(both \cap rest) = 0
    BY <1>2, FS_EmptySet
  <2>3. Cardinality(both) \in Nat /\ Cardinality(rest) \in Nat
    BY <1>3, FS_CardinalityType
  <2> QED  BY <2>1, <2>2, <2>3
<1>5. Cardinality(both \cup rest) <= Cardinality(F \cap A)
  BY <1>2, <1>3, FS_Subset
<1>6. /\ Cardinality(both) \in Nat /\ Cardinality(rest) \in Nat /\ Cardinality(F) \in Nat
      /\ Cardinality(P) \in Nat /\ Cardinality(F \cap A) \in Nat
  BY <1>3, FS_CardinalityType
<1>7. Cardinality(P) + Cardinality(rest) + Cardinality(F)
        <= Cardinality(F \cup P) + Cardinality(F \cap A)
  BY <1>1, <1>4, <1>5, <1>6
<1> QED  BY <1>1, <1>7 DEF rest

LEMMA TwiceStep == TypeInv /\ ListedOnce(list) /\ TwiceInv /\ [Next]_vars => ListedOnce(list)' /\ TwiceInv'
<1> SUFFICES ASSUME TypeInv, ListedOnce(list), TwiceInv, [Next]_vars
             PROVE  ListedOnce(list)' /\ TwiceInv'
  OBVIOUS
<1> USE DEF session
<1>0. read \in [Reader -> ReadState] /\ list \in Seq(Incident) /\ seen \in [Reader -> Seen]
  BY DEF TypeInv, TypeOK, Seen
<1>1. \A c \in Reader : /\ read[c].skip \in Int /\ seen[c].raised \in Nat
                        /\ Len(read[c].results) \in Nat
  BY <1>0, LenProperties DEF ReadState, Seen
<1>2. \A c \in Reader : (Asking(c) \/ read[c].pc = "done") => Reading(c)
  BY DEF Asking, Reading
<1>a. CASE Expire \/ UNCHANGED vars
  <2>1. UNCHANGED <<list, read, seen>>
    BY <1>a DEF Expire, vars
  <2> QED  BY <2>1 DEF TwiceInv, Asking, Reading, ListedOnce
<1>b. CASE Restart
  BY <1>b DEF Restart, NoRead, TwiceInv, Asking, Reading, ListedOnce
<1>c. CASE Raise
  <2>1. PICK i \in Incident \ Listed, p \in 0..Len(list) : list' = Put(list, i, p)
    BY <1>c DEF Raise, Put
  <2>2. UNCHANGED read /\ \A c \in Reader : Reading(c) => seen'[c].raised = seen[c].raised + 1
    BY <1>0, <1>c DEF Raise, Change, Seen
  <2>3. ListedOnce(list')
    <3>1. Listed = ListedIn(list)
      BY DEF Listed, ListedIn
    <3> QED  BY <1>0, <2>1, <3>1, RaisingKeeps
  <2>4. \A n \in Int : \E x : After(list', n) \subseteq After(list, n) \cup {x}
    <3> TAKE n \in Int
    <3>1. \E x : After(Put(list, i, p), n) \subseteq After(list, n) \cup {x}
      BY <1>0, RaisingBehind
    <3> QED  BY <2>1, <3>1
  <2>5. ASSUME NEW c \in Reader
        PROVE  /\ Reading(c)' => IsFiniteSet(Found(read'[c]))
               /\ Asking(c)' => Len(read'[c].results) + Cardinality(Again(list', read'[c]))
                                  <= Cardinality(Found(read'[c])) + seen'[c].raised
               /\ read'[c].pc = "done" =>
                    Len(read'[c].results) - Cardinality(Found(read'[c])) <= seen'[c].raised
    <3>1. ASSUME Asking(c)
          PROVE  Cardinality(Again(list', read[c])) <= Cardinality(Again(list, read[c])) + 1
      <4>1. PICK x : After(list', read[c].skip) \subseteq After(list, read[c].skip) \cup {x}
        BY <1>1, <2>4
      <4>2. Again(list', read[c]) \subseteq Again(list, read[c]) \cup {x}
        BY <4>1 DEF Again
      <4>3. IsFiniteSet(Again(list, read[c])) /\ Cardinality(Again(list, read[c])) \in Nat
        BY <1>2, <3>1, AgainType DEF TwiceInv
      <4>4. Few(Again(list, read[c]), Cardinality(Again(list, read[c])))
        BY <4>3 DEF Few
      <4> QED  BY <4>2, <4>3, <4>4, FewAndOne DEF Few
    <3>2. ASSUME Reading(c) PROVE IsFiniteSet(Found(read[c])) /\ Cardinality(Found(read[c])) \in Nat
      BY <3>2, FS_CardinalityType DEF TwiceInv
    <3>3. ASSUME Asking(c)
          PROVE  Len(read[c].results) + Cardinality(Again(list', read[c]))
                   <= Cardinality(Found(read[c])) + seen'[c].raised
      <4>1. /\ Cardinality(Again(list, read[c])) \in Nat /\ Cardinality(Again(list', read[c])) \in Nat
            /\ Cardinality(Found(read[c])) \in Nat
        BY <1>2, <3>2, <3>3, AgainType
      <4>2. Len(read[c].results) + Cardinality(Again(list, read[c]))
              <= Cardinality(Found(read[c])) + seen[c].raised
        BY <3>3 DEF TwiceInv
      <4>3. seen'[c].raised = seen[c].raised + 1
        BY <1>2, <2>2, <3>3
      <4>4. Len(read[c].results) \in Nat /\ seen[c].raised \in Nat
        BY <1>1
      <4>5. Cardinality(Again(list', read[c])) <= Cardinality(Again(list, read[c])) + 1
        BY <3>1, <3>3
      <4> DEFINE l == Len(read[c].results)
                 x == Cardinality(Again(list, read[c]))
                 y == Cardinality(Again(list', read[c]))
                 f == Cardinality(Found(read[c]))
                 s == seen[c].raised
                 u == seen'[c].raised
      <4>6. /\ l \in Nat /\ x \in Nat /\ y \in Nat /\ f \in Nat /\ s \in Nat
            /\ l + x <= f + s /\ y <= x + 1 /\ u = s + 1
        BY <4>1, <4>2, <4>3, <4>4, <4>5
      <4> HIDE DEF l, x, y, f, s, u
      <4>7. l + y <= f + u
        BY <4>6
      <4> QED  BY <4>7 DEF l, y, f, u
    <3>4. ASSUME read[c].pc = "done"
          PROVE  Len(read[c].results) - Cardinality(Found(read[c])) <= seen'[c].raised
      <4>1. seen'[c].raised = seen[c].raised + 1 /\ Cardinality(Found(read[c])) \in Nat
        BY <1>2, <2>2, <3>2, <3>4
      <4>2. Len(read[c].results) - Cardinality(Found(read[c])) <= seen[c].raised
        BY <3>4 DEF TwiceInv
      <4> QED  BY <1>1, <4>1, <4>2
    <3>5. Reading(c)' = Reading(c) /\ Asking(c)' = Asking(c)
      BY <2>2 DEF Reading, Asking
    <3> QED  BY <2>2, <3>2, <3>3, <3>4, <3>5
  <2> QED  BY <2>3, <2>5 DEF TwiceInv
<1>d. CASE Clear
  <2>1. PICK p \in DOMAIN list : list' = Drop(list, p)
    BY <1>d DEF Clear, Drop
  <2>2. UNCHANGED read /\ \A c \in Reader : seen'[c].raised = seen[c].raised
    BY <1>0, <1>d DEF Clear, Change, Seen
  <2>3. ListedOnce(list')
    BY <1>0, <2>1, ClearingKeeps
  <2>4. \A n \in Int : After(list', n) \subseteq After(list, n)
    BY <1>0, <2>1, ClearingMoves
  <2>5. ASSUME NEW c \in Reader, Asking(c)
        PROVE  Len(read[c].results) + Cardinality(Again(list', read[c]))
                 <= Cardinality(Found(read[c])) + seen[c].raised
    <3>1. Again(list', read[c]) \subseteq Again(list, read[c])
      BY <1>1, <2>4 DEF Again
    <3>2. IsFiniteSet(Found(read[c])) /\ IsFiniteSet(Again(list, read[c]))
      BY <1>2, <2>5, AgainType DEF TwiceInv
    <3>3. Cardinality(Again(list', read[c])) <= Cardinality(Again(list, read[c]))
      BY <3>1, <3>2, FS_Subset
    <3>4. /\ Cardinality(Again(list, read[c])) \in Nat /\ Cardinality(Again(list', read[c])) \in Nat
          /\ Cardinality(Found(read[c])) \in Nat
      BY <3>2, AgainType
    <3>5. Len(read[c].results) + Cardinality(Again(list, read[c]))
            <= Cardinality(Found(read[c])) + seen[c].raised
      BY <2>5 DEF TwiceInv
    <3> QED  BY <1>1, <3>3, <3>4, <3>5
  <2>6. ASSUME NEW c \in Reader
        PROVE  /\ Reading(c)' => IsFiniteSet(Found(read'[c]))
               /\ Asking(c)' => Len(read'[c].results) + Cardinality(Again(list', read'[c]))
                                  <= Cardinality(Found(read'[c])) + seen'[c].raised
               /\ read'[c].pc = "done" =>
                    Len(read'[c].results) - Cardinality(Found(read'[c])) <= seen'[c].raised
    BY <2>2, <2>5 DEF TwiceInv, Reading, Asking
  <2> QED  BY <2>3, <2>6 DEF TwiceInv
<1>e. ASSUME NEW c \in Reader, Begin(c) \/ Runs(c) PROVE ListedOnce(list)' /\ TwiceInv'
  <2> DEFINE Kept == /\ Reading(c)' => IsFiniteSet(Found(read'[c]))
                     /\ Asking(c)' => Len(read'[c].results) + Cardinality(Again(list, read'[c]))
                                        <= Cardinality(Found(read'[c])) + seen'[c].raised
                     /\ read'[c].pc = "done" =>
                          Len(read'[c].results) - Cardinality(Found(read'[c])) <= seen'[c].raised
  <2>1. Others(c) /\ UNCHANGED list /\ \A x \in Reader \ {c} : seen'[x] = seen[x]
    BY <1>e, CoroutineStep
  <2>2. SUFFICES Kept
    BY <2>1 DEF TwiceInv, Others, Asking, Reading, ListedOnce
  <2>3. CASE Begins(c)
    <3>1. Found(read'[c]) = {} /\ Again(list, read'[c]) = {} /\ Len(read'[c].results) = 0
      BY <2>3, EmptySeq DEF Begins, Found, Again
    <3>2. seen'[c].raised = 0
      BY <2>3 DEF Begins, NothingSeen
    <3> QED  BY <3>1, <3>2, FS_EmptySet
  <2>4. CASE read'[c].pc = "idle"
    BY <2>4 DEF Asking, Reading
  <2>5. CASE GoesOn(c)
    <3>1. Found(read'[c]) = Found(read[c]) /\ Again(list, read'[c]) = Again(list, read[c])
      BY <2>5 DEF GoesOn, Found, Again
    <3> QED  BY <1>2, <2>5, <3>1 DEF GoesOn, TwiceInv, Asking
  <2>6. CASE TakesPage(c)
    <3> DEFINE r == read[c]
               n == WithBatch(r)
               k == Len(Batch(r))
               P == {list[p] : p \in (r.skip + 1)..(r.skip + k)}
    <3>1. /\ k \in Nat /\ r.skip \in Nat
          /\ k > 0 => r.skip + k <= Len(list)
          /\ Len(r.results) = r.skip /\ Len(n.results) = r.skip + k
          /\ Found(n) = Found(r) \cup P
          /\ n.pc = "page" => n.skip = r.skip + k
      BY <2>6, PageBrings DEF TakesPage
    <3>2. read'[c] = n /\ n.pc \in {"page", "done"} /\ UNCHANGED seen /\ Asking(c)
      BY <2>6 DEF TakesPage
    <3>3. /\ IsFiniteSet(Found(r))
          /\ Len(r.results) + Cardinality(Again(list, r)) <= Cardinality(Found(r)) + seen[c].raised
      BY <1>2, <3>2 DEF TwiceInv
    <3> DEFINE A == After(list, r.skip)
               B == After(list, r.skip + k)
    <3>4. IsFiniteSet(P) /\ Cardinality(P) = k
      BY <1>0, <3>1, PartCardinality
    <3>5. DOMAIN list = 1..Len(list) /\ Len(list) \in Nat
      BY <1>0, LenProperties
    <3> HIDE DEF n, k
    <3>6. \A p \in (r.skip + 1)..(r.skip + k) : p \in 1..Len(list) /\ p > r.skip /\ p <= r.skip + k
      BY <3>1, <3>5
    <3>7. B \subseteq A /\ P \subseteq A
      <4>1. ASSUME NEW x \in B PROVE x \in A
        <5>1. PICK q \in 1..Len(list) : q > r.skip + k /\ list[q] = x
          BY <3>5 DEF After
        <5>2. q > r.skip
          BY <3>1, <5>1
        <5> QED  BY <3>5, <5>1, <5>2 DEF After
      <4>2. P \subseteq A
        BY <3>5, <3>6 DEF After
      <4> QED  BY <4>1, <4>2
    <3>8. P \cap B = {}
      <4> SUFFICES ASSUME NEW x \in P, x \in B PROVE FALSE
        OBVIOUS
      <4>1. PICK q \in 1..Len(list) : q > r.skip + k /\ list[q] = x
        BY <3>5 DEF After
      <4>2. PICK p \in (r.skip + 1)..(r.skip + k) : list[p] = x
        OBVIOUS
      <4>3. p = q
        BY <3>5, <3>6, <4>1, <4>2 DEF ListedOnce
      <4> QED  BY <3>1, <3>6, <4>1, <4>2, <4>3
    <3> HIDE DEF A, B, P
    <3>9. /\ IsFiniteSet(Found(n))
          /\ k + Cardinality(Found(n) \cap B) + Cardinality(Found(r))
               <= Cardinality(Found(n)) + Cardinality(Found(r) \cap A)
      BY <3>1, <3>3, <3>4, <3>7, <3>8, PageBalance
    <3>10. Cardinality(Found(n) \cap B) \in Nat /\ Cardinality(Found(n)) \in Nat
           /\ Cardinality(Found(r)) \in Nat /\ Cardinality(Found(r) \cap A) \in Nat
      <4>1. IsFiniteSet(Found(n) \cap B) /\ IsFiniteSet(Found(r) \cap A)
        BY <3>3, <3>9, FS_Subset
      <4> QED  BY <3>3, <3>9, <4>1, FS_CardinalityType
    <3>11. Again(list, r) = Found(r) \cap A
      BY DEF Again, A
    <3>12. n.pc = "page" => Again(list, n) = Found(n) \cap B
      BY <3>1 DEF Again, B
    <3>13. seen[c].raised \in Nat
      BY <1>1
    <3>14. r.skip + Cardinality(Found(r) \cap A) <= Cardinality(Found(r)) + seen[c].raised
      BY <3>1, <3>3, <3>11
    <3>15. Len(n.results) + Cardinality(Found(n) \cap B) <= Cardinality(Found(n)) + seen[c].raised
      <4> DEFINE l == Len(n.results)
                 x == Cardinality(Found(r) \cap A)
                 y == Cardinality(Found(n) \cap B)
                 f == Cardinality(Found(r))
                 g == Cardinality(Found(n))
                 o == r.skip
                 s == seen[c].raised
      <4>1. /\ k \in Nat /\ o \in Nat /\ x \in Nat /\ y \in Nat /\ f \in Nat /\ g \in Nat /\ s \in Nat
            /\ l = o + k /\ o + x <= f + s /\ k + y + f <= g + x
        BY <3>1, <3>9, <3>10, <3>13, <3>14
      <4> HIDE DEF l, x, y, f, g, o, s
      <4>2. l + y <= g + s
        BY <4>1
      <4> QED  BY <4>2 DEF l, y, g, s
    <3>16. Len(n.results) - Cardinality(Found(n)) <= seen[c].raised
      <4> DEFINE l == Len(n.results)
                 y == Cardinality(Found(n) \cap B)
                 g == Cardinality(Found(n))
                 s == seen[c].raised
      <4>1. l \in Nat /\ y \in Nat /\ g \in Nat /\ s \in Nat /\ l + y <= g + s
        BY <3>1, <3>10, <3>13, <3>15
      <4> HIDE DEF l, y, g, s
      <4>2. l - g <= s
        BY <4>1
      <4> QED  BY <4>2 DEF l, g, s
    <3> QED  BY <3>2, <3>9, <3>12, <3>15, <3>16 DEF Asking
  <2> QED  BY <1>e, <2>3, <2>4, <2>5, <2>6, CoroutineStep
<1> QED
  BY <1>a, <1>b, <1>c, <1>d, <1>e DEF Next

-----------------------------------------------------------------------------
(***************************************************************************)
(* The theorems.                                                           *)
(***************************************************************************)
ClientInv == TypeInv /\ LockInv /\ SessionInv

LEMMA ClientInvHolds == Spec => []ClientInv
<1>1. Init => ClientInv
  <2>1. Init => LockInv /\ SessionInv
    BY DEF Init, NoRead, LockInv, SessionInv, LoggingIn
  <2> QED  BY <2>1, TypeInit DEF ClientInv
<1>2. ClientInv /\ [Next]_vars => ClientInv'
  BY TypeStep, LockStep DEF ClientInv
<1> QED  BY <1>1, <1>2, PTL DEF Spec

(* The client's fields and locals have their types, whatever SAYMON does. *)
THEOREM ClientTypeCorrect == Spec => []TypeOK
BY ClientInvHolds, PTL DEF ClientInv, TypeInv

(***************************************************************************)
(* However many coroutines share the client: they log in one at a time,    *)
(* and no longer once one has succeeded.                                   *)
(***************************************************************************)
THEOREM OneLoginAtATime == Spec => []OneLogin
<1>1. LockInv => OneLogin
  BY DEF LockInv, OneLogin, Holds
<1> QED  BY <1>1, ClientInvHolds, PTL DEF ClientInv

(* No page is asked for without both cookies of a session. *)
THEOREM SessionComesFirst == Spec => []NoRequestWithoutSession
<1>1. SessionInv => NoRequestWithoutSession
  BY DEF SessionInv, NoRequestWithoutSession
<1> QED  BY <1>1, ClientInvHolds, PTL DEF ClientInv

(* No read returns more than was asked for, whatever the size of a page. *)
THEOREM LimitIsKept == Spec => []LimitKept
<1>1. TypeInv => LimitKept
  <2> SUFFICES ASSUME TypeInv, NEW c \in Reader, Reading(c)
               PROVE  /\ read[c].results # <<>> => Len(read[c].results) <= read[c].limit
                      /\ read[c].pc = "page" => read[c].skip = Len(read[c].results)
    BY DEF LimitKept
  <2>1. read[c] \in ReadState /\ ReadInv(read[c])
    BY DEF TypeInv, TypeOK, PageInv
  <2>2. read[c].pc \in {"lock", "login", "redirect", "page", "done"}
    BY <2>1 DEF Reading, ReadState, States
  <2>3. read[c].skip \in Nat /\ read[c].limit \in Int
    BY <2>1 DEF ReadState
  <2> QED  BY <2>1, <2>2, <2>3 DEF ReadInv
<1> QED  BY <1>1, ClientInvHolds, PTL DEF ClientInv

(***************************************************************************)
(* Pages taken by offset, of any size: if nothing is cleared while a read  *)
(* goes on, it misses nothing within its limit.                            *)
(***************************************************************************)
THEOREM ReadsAreComplete == Spec => []NothingMissed
<1>1. Init => AheadInv
  BY DEF Init, NoRead, AheadInv, Asking
<1>2. TypeInv /\ AheadInv => NothingMissed
  BY DEF AheadInv, NothingMissed, Beyond
<1> QED  BY <1>1, <1>2, AheadStep, ClientInvHolds, PTL DEF ClientInv, Spec

(***************************************************************************)
(* And whatever is cleared while it goes on: the incidents it misses, of   *)
(* those that were there all along and stand within its limit, are no more *)
(* than were cleared.                                                      *)
(***************************************************************************)
THEOREM MissedAreCleared == Spec => []MissedAtMostCleared
<1>1. Init => MissedInv
  BY DEF Init, NoRead, MissedInv, Asking, Reading
<1>2. TypeInv /\ MissedInv => MissedAtMostCleared
  <2> SUFFICES ASSUME TypeInv, MissedInv, NEW c \in Reader, read[c].pc = "done"
               PROVE  Cardinality((seen[c].there \cap
                                   {list[p] : p \in {q \in DOMAIN list : q <= read[c].limit}})
                                  \ Found(read[c])) <= seen[c].cleared
    BY DEF MissedAtMostCleared
  <2>1. Few(Missed(seen[c].there, list, read[c].limit, read[c]), seen[c].cleared)
    BY DEF MissedInv
  <2> QED  BY <2>1 DEF Few, Missed, Upto
<1> QED  BY <1>1, <1>2, MissedStep, ClientInvHolds, PTL DEF ClientInv, Spec

(***************************************************************************)
(* If SAYMON lists an incident once, a read returns no more incidents      *)
(* again than were raised while it went on.                                *)
(***************************************************************************)
THEOREM TwiceAreRaised ==
  ASSUME \A s \in FirstLists : ListedOnce(s)
  PROVE  Spec => []TwiceAtMostRaised
<1>1. Init => ListedOnce(list) /\ TwiceInv
  BY DEF Init, NoRead, TwiceInv, Asking, Reading
<1>2. TwiceInv => TwiceAtMostRaised
  BY DEF TwiceInv, TwiceAtMostRaised
<1>3. Spec => [](TypeInv /\ ListedOnce(list) /\ TwiceInv)
  BY <1>1, TwiceStep, ClientInvHolds, PTL DEF ClientInv, Spec
<1> QED  BY <1>2, <1>3, PTL
=============================================================================
