------------------------ MODULE ProcessRequestProofs ------------------------
(***************************************************************************)
(* Proofs about ProcessRequest and the modules it is built on: which       *)
(* incidents a request reads page by page cannot be missed, and what the   *)
(* grouping of a report is like for every report, every hierarchy of       *)
(* objects and every content of the store.                                 *)
(*                                                                         *)
(* The grouping is computed by recursive functions over sequences (Those,  *)
(* the loops of MergeGroupings, SeedOwners). For each there is a lemma     *)
(* that such a function exists; what it computes is shown by taking a      *)
(* least length at which it would fail (Least).                            *)
(*                                                                         *)
(* Sound says of a grouping what the merge keeps, one lemma for each part: *)
(* Adopt keeps it because merge_groupings gives a head only children that  *)
(* have no parent and are no heads. RequestsOK carries it, with what the   *)
(* reads have found so far, through the requests; Types adds what the      *)
(* store holds.                                                            *)
(*                                                                         *)
(* A container is told from an incident by its id. The theorems that look  *)
(* at containers have the hypothesis ContainersHaveTheirOwnIds, which      *)
(* SYNTH_PREFIX is there for.                                              *)
(***************************************************************************)
EXTENDS ProcessRequest, SequenceTheorems, WellFoundedInduction, FiniteSetTheorems, TLAPS

(* A set of numbers has a least one. *)
LEMMA Least ==
  ASSUME NEW K \in SUBSET Nat, K # {}
  PROVE  \E m \in K : \A k \in K : ~ (k < m)
<1>1. \E m \in K : \A k \in K : <<k, m>> \notin OpToRel(<, Nat)
  BY NatLessThanWellFounded, WFMin
<1>2. \A k, m \in Nat : k < m => <<k, m>> \in OpToRel(<, Nat)
  BY DEF OpToRel
<1> QED
  BY <1>1, <1>2

(* f is the function by which Those(seq, T) is defined. *)
ThoseFun(f, seq, T) ==
  f = [n \in 0..Len(seq) |->
         IF n = 0 THEN <<>>
         ELSE IF seq[n] \in T THEN Append(f[n - 1], seq[n]) ELSE f[n - 1]]

LEMMA ThoseExists ==
  ASSUME NEW X, NEW seq \in Seq(X), NEW T
  PROVE  \E f : ThoseFun(f, seq, T)
<1> DEFINE G(g, m) ==
      g = [n \in 0..m |->
             IF n = 0 THEN <<>>
             ELSE IF seq[n] \in T THEN Append(g[n - 1], seq[n]) ELSE g[n - 1]]
<1> DEFINE K == {m \in Nat : ~ \E g : G(g, m)}
<1>1. K = {}
  <2> SUFFICES ASSUME K # {} PROVE FALSE
    OBVIOUS
  <2>1. PICK m \in K : \A k \in K : ~ (k < m)
    BY Least
  <2>2. m # 0
    <3> DEFINE g == [n \in {0} |-> <<>>]
    <3>1. G(g, 0)
      OBVIOUS
    <3> QED
      BY <3>1
  <2>3. m \in Nat /\ m - 1 \in Nat
    BY <2>2
  <2>4. PICK g : G(g, m - 1)
    <3> HIDE DEF G
    <3>1. m - 1 < m
      BY <2>3
    <3>2. m - 1 \notin K
      BY <2>1, <3>1
    <3> QED
      BY <2>3, <3>2
  <2> DEFINE h == [n \in 0..m |-> 
             IF n = 0 THEN <<>>
             ELSE IF seq[n] \in T THEN Append(g[n - 1], seq[n]) ELSE g[n - 1]]
  <2>5. ASSUME NEW n \in 0..(m - 1)
        PROVE  h[n] = g[n]
    <3>1. n \in 0..m
      BY <2>3
    <3> QED
      BY <2>4, <3>1
  <2>6. h = [n \in 0..m |->
             IF n = 0 THEN <<>>
             ELSE IF seq[n] \in T THEN Append(h[n - 1], seq[n]) ELSE h[n - 1]]
    <3>1. ASSUME NEW n \in 0..m, n # 0
          PROVE  h[n - 1] = g[n - 1]
      <4>1. n - 1 \in 0..(m - 1)
        BY <2>3, <3>1
      <4> HIDE DEF h
      <4> QED
        BY <2>5, <4>1
    <3> QED
      BY <3>1
  <2>7. G(h, m)
    BY <2>6
  <2> QED
    BY <2>7, <2>1
<1>2. Len(seq) \in Nat
  BY LenProperties
<1>3. \E f : G(f, Len(seq))
  BY <1>1, <1>2
<1> QED
  BY <1>3 DEF ThoseFun

LEMMA ThoseIs ==
  ASSUME NEW X, NEW seq \in Seq(X), NEW T
  PROVE  \E f : ThoseFun(f, seq, T) /\ Those(seq, T) = f[Len(seq)]
<1> DEFINE f == CHOOSE g : ThoseFun(g, seq, T)
<1>1. ThoseFun(f, seq, T)
  BY ThoseExists
<1>2. Those(seq, T) = f[Len(seq)]
  BY DEF Those, ThoseFun
<1> QED
  BY <1>1, <1>2

-----------------------------------------------------------------------------
(***************************************************************************)
(* Sequences.                                                              *)
(***************************************************************************)
LEMMA Elements ==
  ASSUME NEW X, NEW s \in Seq(X)
  PROVE  /\ ToSet(s) \subseteq X
         /\ \A x : x \in ToSet(s) <=> \E j \in 1..Len(s) : s[j] = x
<1>1. DOMAIN s = 1..Len(s) /\ \A j \in 1..Len(s) : s[j] \in X
  BY LenProperties, ElementOfSeq
<1> QED
  BY <1>1 DEF ToSet

LEMMA Empty ==
  ASSUME NEW X, NEW s \in Seq(X)
  PROVE  s = <<>> <=> ToSet(s) = {}
<1>1. s = <<>> => Len(s) = 0
  BY EmptySeq
<1>2. s # <<>> => Len(s) \in Nat \ {0}
  BY EmptySeq
<1>3. DOMAIN s = 1..Len(s)
  BY LenProperties
<1>4. CASE s = <<>>
  BY <1>1, <1>3, <1>4 DEF ToSet
<1>5. CASE s # <<>>
  <2>1. 1 \in DOMAIN s
    BY <1>2, <1>3, <1>5
  <2> QED
    BY <2>1, <1>5 DEF ToSet
<1> QED
  BY <1>4, <1>5

LEMMA HeadIsElement ==
  ASSUME NEW X, NEW s \in Seq(X), s # <<>>
  PROVE  Head(s) \in ToSet(s)
<1>1. Len(s) \in Nat \ {0} /\ DOMAIN s = 1..Len(s)
  BY EmptySeq, LenProperties
<1>2. Head(s) = s[1]
  BY <1>1
<1> QED
  BY <1>1, <1>2 DEF ToSet

LEMMA TwoElements ==
  ASSUME NEW X, NEW s \in Seq(X), NEW a \in ToSet(s), NEW b \in ToSet(s), a # b
  PROVE  Len(s) >= 2
<1>1. PICK p \in 1..Len(s), q \in 1..Len(s) : s[p] = a /\ s[q] = b
  BY Elements
<1>2. Len(s) \in Nat /\ p # q
  BY <1>1, LenProperties
<1> QED
  BY <1>2

LEMMA AppendElements ==
  ASSUME NEW X, NEW s \in Seq(X), NEW e \in X
  PROVE  /\ Append(s, e) \in Seq(X)
         /\ ToSet(Append(s, e)) = ToSet(s) \cup {e}
         /\ IsInjective(s) /\ e \notin ToSet(s) => IsInjective(Append(s, e))
<1> DEFINE t == Append(s, e)
<1>1. /\ t \in Seq(X) /\ Len(t) = Len(s) + 1 /\ Len(s) \in Nat
      /\ \A j \in 1..Len(s) : t[j] = s[j]
      /\ t[Len(s) + 1] = e
  BY AppendProperties, LenProperties
<1>2. DOMAIN t = 1..(Len(s) + 1) /\ DOMAIN s = 1..Len(s)
  BY <1>1, LenProperties
<1>3. \A j \in 1..(Len(s) + 1) : j \in 1..Len(s) \/ j = Len(s) + 1
  BY <1>1
<1>4. 1..Len(s) \subseteq 1..(Len(s) + 1) /\ Len(s) + 1 \in 1..(Len(s) + 1)
  BY <1>1
<1> HIDE DEF t
<1>5. ToSet(t) = ToSet(s) \cup {e}
  BY <1>1, <1>2, <1>3, <1>4 DEF ToSet
<1>6. ASSUME IsInjective(s), e \notin ToSet(s)
      PROVE  IsInjective(t)
  <2> SUFFICES ASSUME NEW a \in DOMAIN t, NEW b \in DOMAIN t, t[a] = t[b]
               PROVE  a = b
    BY DEF IsInjective
  <2>1. CASE a \in 1..Len(s) /\ b \in 1..Len(s)
    BY <2>1, <1>1, <1>2, <1>6 DEF IsInjective
  <2>2. CASE a \in 1..Len(s) /\ b = Len(s) + 1
    BY <2>2, <1>1, <1>2, <1>6 DEF ToSet
  <2>3. CASE b \in 1..Len(s) /\ a = Len(s) + 1
    BY <2>3, <1>1, <1>2, <1>6 DEF ToSet
  <2> QED
    BY <2>1, <2>2, <2>3, <1>2, <1>3
<1> QED
  BY <1>1, <1>5, <1>6 DEF t

LEMMA ConcatElements ==
  ASSUME NEW X, NEW s \in Seq(X), NEW t \in Seq(X)
  PROVE  /\ s \o t \in Seq(X)
         /\ ToSet(s \o t) = ToSet(s) \cup ToSet(t)
         /\ IsInjective(s) /\ IsInjective(t) /\ ToSet(s) \cap ToSet(t) = {}
            => IsInjective(s \o t)
<1> DEFINE u == s \o t
           m == Len(s)
           n == Len(t)
<1>1. /\ u \in Seq(X) /\ Len(u) = m + n /\ m \in Nat /\ n \in Nat
      /\ \A j \in 1..(m + n) : u[j] = IF j <= m THEN s[j] ELSE t[j - m]
  BY ConcatProperties, LenProperties
<1>2. DOMAIN u = 1..(m + n) /\ DOMAIN s = 1..m /\ DOMAIN t = 1..n
  BY <1>1, LenProperties
<1> HIDE DEF u, m, n
<1>3. \A j \in 1..m : j \in 1..(m + n) /\ u[j] = s[j]
  BY <1>1
<1>4. \A j \in 1..n : j + m \in 1..(m + n) /\ u[j + m] = t[j]
  BY <1>1
<1>5. \A j \in 1..(m + n) : \/ j \in 1..m /\ u[j] = s[j]
                            \/ j - m \in 1..n /\ u[j] = t[j - m]
  BY <1>1
<1>6. ToSet(u) = ToSet(s) \cup ToSet(t)
  BY <1>2, <1>3, <1>4, <1>5 DEF ToSet
<1>7. ASSUME IsInjective(s), IsInjective(t), ToSet(s) \cap ToSet(t) = {}
      PROVE  IsInjective(u)
  <2> SUFFICES ASSUME NEW a \in 1..(m + n), NEW b \in 1..(m + n), u[a] = u[b]
               PROVE  a = b
    BY <1>2 DEF IsInjective
  <2>0. \A j \in 1..m, k \in 1..n : s[j] # t[k]
    BY <1>7, <1>2 DEF ToSet
  <2>1. CASE a \in 1..m /\ b \in 1..m /\ u[a] = s[a] /\ u[b] = s[b]
    BY <2>1, <1>2, <1>7 DEF IsInjective
  <2>2. CASE a - m \in 1..n /\ b - m \in 1..n /\ u[a] = t[a - m] /\ u[b] = t[b - m]
    <3>1. a - m = b - m
      BY <2>2, <1>2, <1>7 DEF IsInjective
    <3> QED
      BY <3>1, <1>1
  <2> QED
    BY <1>5, <2>0, <2>1, <2>2
<1> QED
  BY <1>1, <1>6, <1>7 DEF u

-----------------------------------------------------------------------------
(***************************************************************************)
(* Those keeps the elements of the set, and each as often as it was there. *)
(***************************************************************************)
LEMMA ThoseElements ==
  ASSUME NEW X, NEW seq \in Seq(X), NEW T
  PROVE  /\ Those(seq, T) \in Seq(X)
         /\ ToSet(Those(seq, T)) = ToSet(seq) \cap T
         /\ IsInjective(seq) => IsInjective(Those(seq, T))
<1> DEFINE L == Len(seq)
           Upto(n) == {seq[j] : j \in 1..n}
<1>1. PICK f : ThoseFun(f, seq, T) /\ Those(seq, T) = f[L]
  BY ThoseIs
<1>2. L \in Nat /\ DOMAIN seq = 1..L /\ \A j \in 1..L : seq[j] \in X
  BY LenProperties, ElementOfSeq
<1>3. f[0] = <<>>
  BY <1>1, <1>2 DEF ThoseFun
<1>4. ASSUME NEW n \in 1..L
      PROVE  f[n] = IF seq[n] \in T THEN Append(f[n - 1], seq[n]) ELSE f[n - 1]
  <2>1. n \in 0..Len(seq) /\ n # 0
    BY <1>2
  <2> QED
    BY <2>1, <1>1 DEF ThoseFun
<1> DEFINE P(n) == /\ f[n] \in Seq(X)
                   /\ ToSet(f[n]) = Upto(n) \cap T
                   /\ IsInjective(seq) => IsInjective(f[n])
           K == {n \in 0..L : ~ P(n)}
<1>5. P(0)
  <2>1. Upto(0) = {}
    OBVIOUS
  <2>2. <<>> \in Seq(X) /\ ToSet(<<>>) = {} /\ IsInjective(<<>>)
    BY EmptySeq DEF ToSet, IsInjective
  <2> QED
    BY <1>3, <2>1, <2>2
<1>6. ASSUME NEW n \in 1..L, P(n - 1)
      PROVE  P(n)
  <2>1. Upto(n) = Upto(n - 1) \cup {seq[n]}
    <3>1. \A j \in 1..n : j \in 1..(n - 1) \/ j = n
      BY <1>2
    <3>2. n \in 1..n /\ 1..(n - 1) \subseteq 1..n
      BY <1>2
    <3> QED
      BY <3>1, <3>2
  <2>2. CASE seq[n] \notin T
    BY <2>1, <2>2, <1>4, <1>6
  <2>3. CASE seq[n] \in T
    <3>1. f[n] = Append(f[n - 1], seq[n])
      BY <2>3, <1>4
    <3>2. ASSUME IsInjective(seq)
          PROVE  seq[n] \notin ToSet(f[n - 1])
      <4>1. seq[n] \notin Upto(n - 1)
        <5> SUFFICES ASSUME NEW j \in 1..(n - 1), seq[j] = seq[n]
                     PROVE  FALSE
          OBVIOUS
        <5>1. j \in 1..L /\ j # n
          BY <1>2
        <5> QED
          BY <5>1, <3>2, <1>2 DEF IsInjective
      <4> QED
        BY <4>1, <1>6
    <3> HIDE DEF Upto
    <3>3. /\ f[n] \in Seq(X)
          /\ ToSet(f[n]) = ToSet(f[n - 1]) \cup {seq[n]}
          /\ IsInjective(f[n - 1]) /\ seq[n] \notin ToSet(f[n - 1]) => IsInjective(f[n])
      BY <3>1, <1>2, <1>6, AppendElements
    <3>4. ToSet(f[n]) = Upto(n) \cap T
      BY <3>3, <2>1, <2>3, <1>6
    <3> QED
      BY <3>2, <3>3, <3>4, <1>6
  <2> QED
    BY <2>2, <2>3
<1>7. K = {}
  <2> SUFFICES ASSUME K # {} PROVE FALSE
    OBVIOUS
  <2> HIDE DEF P
  <2>1. PICK n \in K : \A k \in K : ~ (k < n)
    <3>1. K \in SUBSET Nat
      BY <1>2
    <3> HIDE DEF K
    <3> QED
      BY <3>1, Least
  <2>2. n \in 0..L /\ ~ P(n) /\ n # 0
    BY <1>5
  <2>3. n \in 1..L /\ n - 1 \in 0..L /\ n - 1 < n
    BY <2>2, <1>2
  <2>4. P(n - 1)
    BY <2>1, <2>3
  <2> QED
    BY <1>6, <2>2, <2>3, <2>4
<1>8. P(L)
  <2> HIDE DEF P
  <2> QED
    BY <1>7, <1>2
<1>9. Upto(L) = ToSet(seq)
  BY <1>2 DEF ToSet
<1> QED
  BY <1>1, <1>8, <1>9

(* Distinct keeps every element, once. *)
LEMMA DistinctElements ==
  ASSUME NEW X, NEW seq \in Seq(X)
  PROVE  /\ Distinct(seq) \in Seq(X)
         /\ ToSet(Distinct(seq)) = ToSet(seq)
         /\ IsInjective(Distinct(seq))
<1> DEFINE L == Len(seq)
           places == [j \in DOMAIN seq |-> j]
           new == {j \in DOMAIN seq : \A m \in 1..(j - 1) : seq[m] # seq[j]}
           firsts == Those(places, new)
<1>1. L \in Nat /\ DOMAIN seq = 1..L /\ \A j \in 1..L : seq[j] \in X
  BY LenProperties, ElementOfSeq
<1>2. places \in Seq(1..L)
  BY <1>1
<1>3. ToSet(places) = 1..L /\ IsInjective(places)
  BY <1>1 DEF ToSet, IsInjective
<1>4. firsts \in Seq(1..L) /\ ToSet(firsts) = 1..L \cap new /\ IsInjective(firsts)
  <2> HIDE DEF places, new
  <2> QED
    BY <1>2, <1>3, ThoseElements
<1> DEFINE n == Len(firsts)
<1>5. n \in Nat /\ DOMAIN firsts = 1..n /\ \A k \in 1..n : firsts[k] \in 1..L
  BY <1>4, LenProperties, ElementOfSeq
<1>6. \A k \in 1..n : firsts[k] \in new
  BY <1>4, <1>5 DEF ToSet
<1> DEFINE d == [k \in 1..n |-> seq[firsts[k]]]
<1>7. Distinct(seq) = d
  BY <1>5 DEF Distinct
<1> HIDE DEF n, firsts
<1>8. d \in Seq(X)
  BY <1>1, <1>5
<1>9. IsInjective(d)
  <2> SUFFICES ASSUME NEW a \in 1..n, NEW b \in 1..n, seq[firsts[a]] = seq[firsts[b]]
               PROVE  a = b
    BY DEF IsInjective
  <2>1. firsts[a] \in new /\ firsts[b] \in new /\ firsts[a] \in 1..L /\ firsts[b] \in 1..L
    BY <1>5, <1>6
  <2>2. ~ (firsts[a] < firsts[b]) /\ ~ (firsts[b] < firsts[a])
    BY <2>1, <1>1
  <2>3. firsts[a] = firsts[b]
    BY <2>1, <2>2, <1>1
  <2> QED
    BY <2>3, <1>4, <1>5 DEF IsInjective
<1>10. ASSUME NEW j \in 1..L
       PROVE  \E k \in 1..n : seq[firsts[k]] = seq[j]
  <2> DEFINE same == {m \in 1..L : seq[m] = seq[j]}
  <2>1. PICK m \in same : \A k \in same : ~ (k < m)
    <3>1. same \in SUBSET Nat /\ same # {}
      BY <1>1
    <3> HIDE DEF same
    <3> QED
      BY <3>1, Least
  <2>2. m \in 1..L /\ seq[m] = seq[j]
    OBVIOUS
  <2>3. ASSUME NEW k \in 1..(m - 1)
        PROVE  seq[k] # seq[m]
    <3>1. k \in 1..L /\ k < m
      BY <2>2, <1>1
    <3> QED
      BY <3>1, <2>1, <2>2
  <2>4. m \in new
    BY <1>1, <2>2, <2>3
  <2>5. m \in ToSet(firsts)
    BY <2>2, <2>4, <1>4
  <2> QED
    BY <2>2, <2>5, <1>5 DEF ToSet
<1>11. ToSet(d) = ToSet(seq)
  <2>1. ToSet(d) \subseteq ToSet(seq)
    BY <1>1, <1>5 DEF ToSet
  <2>2. ToSet(seq) \subseteq ToSet(d)
    BY <1>1, <1>10 DEF ToSet
  <2> QED
    BY <2>1, <2>2
<1> QED
  BY <1>7, <1>8, <1>9, <1>11

-----------------------------------------------------------------------------
(***************************************************************************)
(* What a grouping of the report inc is like at every stage of the merge.  *)
(* Filed: children_of and parent_of are inverse to each other, no child is *)
(* listed twice, and the children are incidents of the report.             *)
(***************************************************************************)
Filed(g, inc) ==
  /\ \A h \in DOMAIN g.children_of :
       /\ g.children_of[h] \in Seq(DOMAIN inc)
       /\ g.children_of[h] # <<>>
       /\ IsInjective(g.children_of[h])
       /\ \A k \in ToSet(g.children_of[h]) : k \in DOMAIN g.parent_of /\ g.parent_of[k] = h
  /\ \A k \in DOMAIN g.parent_of :
       /\ k \in DOMAIN inc
       /\ g.parent_of[k] \in DOMAIN g.children_of
       /\ k \in ToSet(g.children_of[g.parent_of[k]])

(* No chain of parents runs in a circle. *)
NoCircle(g) ==
  ~ \E S \in (SUBSET DOMAIN g.parent_of) \ {{}} : \A k \in S : g.parent_of[k] \in S

(* No active incident is under a historical one. *)
NoneUnderHistory(g, inc) ==
  \A k \in DOMAIN g.parent_of :
    Active(inc[k]) /\ IsIncident(inc, g.parent_of[k]) => Active(inc[g.parent_of[k]])

(* What has children and is no incident, a container, has two. *)
ContainersHold(g, inc) ==
  \A h \in DOMAIN g.children_of \ DOMAIN inc : Len(g.children_of[h]) >= 2

(* The groups of owner are still there. *)
Keeps(owner, g) ==
  \A k \in DOMAIN owner.parent_of :
    k \in DOMAIN g.parent_of /\ g.parent_of[k] = owner.parent_of[k]

(* Kids that may be put under a head. *)
Free(g, inc, kids) ==
  /\ kids \in Seq(DOMAIN inc)
  /\ IsInjective(kids)
  /\ \A k \in ToSet(kids) : k \notin DOMAIN g.parent_of /\ k \notin DOMAIN g.children_of

LEMMA AdoptIs ==
  ASSUME NEW g, NEW head, NEW kids, kids # <<>>
  PROVE  /\ DOMAIN Adopt(g, head, kids).children_of = DOMAIN g.children_of \cup {head}
         /\ Adopt(g, head, kids).children_of[head] = Children(g, head) \o kids
         /\ \A h \in DOMAIN g.children_of \ {head} :
              Adopt(g, head, kids).children_of[h] = g.children_of[h]
         /\ DOMAIN Adopt(g, head, kids).parent_of = DOMAIN g.parent_of \cup ToSet(kids)
         /\ \A k \in ToSet(kids) : Adopt(g, head, kids).parent_of[k] = head
         /\ \A k \in DOMAIN g.parent_of \ ToSet(kids) :
              Adopt(g, head, kids).parent_of[k] = g.parent_of[k]
BY DEF Adopt, GroupingResult, SetEntry

LEMMA ChildrenAre ==
  ASSUME NEW g, NEW inc, Filed(g, inc), NEW h
  PROVE  /\ Children(g, h) \in Seq(DOMAIN inc)
         /\ IsInjective(Children(g, h))
         /\ \A k \in ToSet(Children(g, h)) : k \in DOMAIN g.parent_of /\ g.parent_of[k] = h
<1>1. CASE h \in DOMAIN g.children_of
  BY <1>1 DEF Filed, Children
<1>2. CASE h \notin DOMAIN g.children_of
  <2>1. <<>> \in Seq(DOMAIN inc) /\ ToSet(<<>>) = {} /\ IsInjective(<<>>)
    BY EmptySeq DEF ToSet, IsInjective
  <2> QED
    BY <1>2, <2>1 DEF Children
<1> QED
  BY <1>1, <1>2

LEMMA AdoptFiled ==
  ASSUME NEW g, NEW inc, NEW head, NEW kids,
         Filed(g, inc), Free(g, inc, kids)
  PROVE  Filed(Adopt(g, head, kids), inc)
<1>1. CASE kids = <<>>
  BY <1>1 DEF Adopt
<1>2. CASE kids # <<>>
  <2> DEFINE new == Adopt(g, head, kids)
             all == Children(g, head) \o kids
  <2>1. /\ kids \in Seq(DOMAIN inc) /\ IsInjective(kids) /\ ToSet(kids) # {}
        /\ \A k \in ToSet(kids) : k \notin DOMAIN g.parent_of
        /\ ToSet(kids) \subseteq DOMAIN inc
    BY <1>2, Empty, Elements DEF Free
  <2>2. /\ Children(g, head) \in Seq(DOMAIN inc) /\ IsInjective(Children(g, head))
        /\ \A k \in ToSet(Children(g, head)) : k \in DOMAIN g.parent_of /\ g.parent_of[k] = head
    BY ChildrenAre
  <2>3. /\ all \in Seq(DOMAIN inc)
        /\ ToSet(all) = ToSet(Children(g, head)) \cup ToSet(kids)
        /\ IsInjective(all)
    <3>1. ToSet(Children(g, head)) \cap ToSet(kids) = {}
      BY <2>1, <2>2
    <3> QED
      BY <2>1, <2>2, <3>1, ConcatElements
  <2>4. all # <<>>
    BY <2>1, <2>3, Empty
  <2>5. /\ DOMAIN new.children_of = DOMAIN g.children_of \cup {head}
        /\ new.children_of[head] = all
        /\ \A h \in DOMAIN g.children_of \ {head} : new.children_of[h] = g.children_of[h]
        /\ DOMAIN new.parent_of = DOMAIN g.parent_of \cup ToSet(kids)
        /\ \A k \in ToSet(kids) : new.parent_of[k] = head
        /\ \A k \in DOMAIN g.parent_of : new.parent_of[k] = g.parent_of[k]
    BY <1>2, <2>1, AdoptIs
  <2> HIDE DEF new, all
  <2>6. ASSUME NEW h \in DOMAIN new.children_of
        PROVE  /\ new.children_of[h] \in Seq(DOMAIN inc)
               /\ new.children_of[h] # <<>>
               /\ IsInjective(new.children_of[h])
               /\ \A k \in ToSet(new.children_of[h]) :
                    k \in DOMAIN new.parent_of /\ new.parent_of[k] = h
    <3>1. CASE h = head
      BY <3>1, <2>2, <2>3, <2>4, <2>5
    <3>2. CASE h # head
      <4>1. h \in DOMAIN g.children_of /\ new.children_of[h] = g.children_of[h]
        BY <3>2, <2>5, <2>6
      <4> QED
        BY <4>1, <2>5 DEF Filed
    <3> QED
      BY <3>1, <3>2
  <2>7. ASSUME NEW k \in DOMAIN new.parent_of
        PROVE  /\ k \in DOMAIN inc
               /\ new.parent_of[k] \in DOMAIN new.children_of
               /\ k \in ToSet(new.children_of[new.parent_of[k]])
    <3>1. CASE k \in ToSet(kids)
      BY <3>1, <2>1, <2>3, <2>5
    <3>2. CASE k \in DOMAIN g.parent_of
      <4>1. /\ k \in DOMAIN inc /\ g.parent_of[k] \in DOMAIN g.children_of
            /\ k \in ToSet(g.children_of[g.parent_of[k]])
            /\ new.parent_of[k] = g.parent_of[k]
        BY <3>2, <2>5 DEF Filed
      <4>2. CASE g.parent_of[k] = head
        <5>1. k \in ToSet(Children(g, head))
          BY <4>1, <4>2 DEF Children
        <5> QED
          BY <5>1, <4>1, <4>2, <2>3, <2>5
      <4>3. CASE g.parent_of[k] # head
        BY <4>1, <4>3, <2>5
      <4> QED
        BY <4>2, <4>3
    <3> QED
      BY <3>1, <3>2, <2>5
  <2>8. Filed(new, inc)
    BY <2>6, <2>7 DEF Filed
  <2> QED
    BY <2>8 DEF new
<1> QED
  BY <1>1, <1>2

LEMMA AdoptNoCircle ==
  ASSUME NEW g, NEW inc, NEW head, NEW kids,
         Filed(g, inc), NoCircle(g), Free(g, inc, kids), head \notin ToSet(kids)
  PROVE  NoCircle(Adopt(g, head, kids))
<1>1. CASE kids = <<>>
  BY <1>1 DEF Adopt
<1>2. CASE kids # <<>>
  <2> DEFINE new == Adopt(g, head, kids)
  <2>1. /\ DOMAIN new.parent_of = DOMAIN g.parent_of \cup ToSet(kids)
        /\ \A k \in ToSet(kids) : new.parent_of[k] = head
        /\ \A k \in DOMAIN g.parent_of : new.parent_of[k] = g.parent_of[k]
    BY <1>2, AdoptIs DEF Free
  <2> HIDE DEF new
  <2>2. SUFFICES ASSUME NEW S \in SUBSET DOMAIN new.parent_of, S # {},
                        \A k \in S : new.parent_of[k] \in S
                 PROVE  FALSE
    <3>1. NoCircle(new)
      BY <2>2 DEF NoCircle
    <3> QED
      BY <3>1 DEF new
  <2> DEFINE rest == S \ ToSet(kids)
  <2>3. rest \in SUBSET DOMAIN g.parent_of
    BY <2>1
  <2>4. ASSUME NEW k \in rest
        PROVE  g.parent_of[k] \in rest
    <3>1. k \in DOMAIN g.parent_of /\ g.parent_of[k] \in S
      BY <2>1, <2>2, <2>3
    <3>2. g.parent_of[k] \in DOMAIN g.children_of
      BY <3>1 DEF Filed
    <3>3. g.parent_of[k] \notin ToSet(kids)
      BY <3>2 DEF Free
    <3> QED
      BY <3>1, <3>3
  <2>5. CASE rest # {}
    BY <2>3, <2>4, <2>5 DEF NoCircle
  <2>6. CASE rest = {}
    <3>1. PICK k \in S : k \in ToSet(kids)
      BY <2>2, <2>6
    <3>2. head \in S
      BY <3>1, <2>1, <2>2
    <3> QED
      BY <3>2, <2>6
  <2> QED
    BY <2>5, <2>6
<1> QED
  BY <1>1, <1>2

LEMMA AdoptNoneUnderHistory ==
  ASSUME NEW g, NEW inc, NEW head, NEW kids,
         NoneUnderHistory(g, inc), Free(g, inc, kids),
         IsIncident(inc, head) =>
           \A k \in ToSet(kids) : Active(inc[k]) => Active(inc[head])
  PROVE  NoneUnderHistory(Adopt(g, head, kids), inc)
<1>1. CASE kids = <<>>
  BY <1>1 DEF Adopt
<1>2. CASE kids # <<>>
  <2> DEFINE new == Adopt(g, head, kids)
  <2>1. /\ DOMAIN new.parent_of = DOMAIN g.parent_of \cup ToSet(kids)
        /\ \A k \in ToSet(kids) : new.parent_of[k] = head
        /\ \A k \in DOMAIN g.parent_of : new.parent_of[k] = g.parent_of[k]
    BY <1>2, AdoptIs DEF Free
  <2> HIDE DEF new
  <2>2. NoneUnderHistory(new, inc)
    BY <2>1 DEF NoneUnderHistory
  <2> QED
    BY <2>2 DEF new
<1> QED
  BY <1>1, <1>2

LEMMA AdoptContainersHold ==
  ASSUME NEW g, NEW inc, NEW head, NEW kids,
         Filed(g, inc), ContainersHold(g, inc), Free(g, inc, kids),
         head \in DOMAIN inc \/ Len(kids) >= 2
  PROVE  ContainersHold(Adopt(g, head, kids), inc)
<1>1. CASE kids = <<>>
  BY <1>1 DEF Adopt
<1>2. CASE kids # <<>>
  <2> DEFINE new == Adopt(g, head, kids)
             all == Children(g, head) \o kids
  <2>1. /\ DOMAIN new.children_of = DOMAIN g.children_of \cup {head}
        /\ new.children_of[head] = all
        /\ \A h \in DOMAIN g.children_of \ {head} : new.children_of[h] = g.children_of[h]
    BY <1>2, AdoptIs
  <2>2. Len(all) = Len(Children(g, head)) + Len(kids)
        /\ Len(Children(g, head)) \in Nat /\ Len(kids) \in Nat
    BY ChildrenAre, ConcatProperties, LenProperties DEF Free
  <2>3. Len(all) >= Len(kids)
    <3> DEFINE x == Len(all)
               y == Len(Children(g, head))
               z == Len(kids)
    <3>1. x = y + z /\ y \in Nat /\ z \in Nat
      BY <2>2
    <3> HIDE DEF x, y, z
    <3>2. x >= z
      BY <3>1
    <3> QED
      BY <3>2 DEF x, z
  <2> HIDE DEF new, all
  <2>4. ASSUME NEW h \in DOMAIN new.children_of \ DOMAIN inc
        PROVE  Len(new.children_of[h]) >= 2
    <3>1. CASE h = head
      <4>1. Len(kids) >= 2
        BY <3>1, <2>4
      <4>2. Len(kids) \in Nat /\ Len(all) \in Nat
        BY <2>2
      <4> QED
        BY <3>1, <4>1, <4>2, <2>1, <2>3
    <3>2. CASE h # head
      BY <3>2, <2>1 DEF ContainersHold
    <3> QED
      BY <3>1, <3>2
  <2>5. ContainersHold(new, inc)
    BY <2>4 DEF ContainersHold
  <2> QED
    BY <2>5 DEF new
<1> QED
  BY <1>1, <1>2

LEMMA AdoptKeeps ==
  ASSUME NEW g, NEW inc, NEW head, NEW kids, NEW owner,
         Keeps(owner, g), Free(g, inc, kids)
  PROVE  Keeps(owner, Adopt(g, head, kids))
<1>1. CASE kids = <<>>
  BY <1>1 DEF Adopt
<1>2. CASE kids # <<>>
  <2> DEFINE new == Adopt(g, head, kids)
  <2>1. /\ DOMAIN new.parent_of = DOMAIN g.parent_of \cup ToSet(kids)
        /\ \A k \in DOMAIN g.parent_of : new.parent_of[k] = g.parent_of[k]
    BY <1>2, AdoptIs DEF Free
  <2> HIDE DEF new
  <2>2. Keeps(owner, new)
    BY <2>1 DEF Keeps
  <2> QED
    BY <2>2 DEF new
<1> QED
  BY <1>1, <1>2

-----------------------------------------------------------------------------
(***************************************************************************)
(* The three groupings that are merged.                                    *)
(***************************************************************************)
Report(order, inc) ==   \* order lists the incidents of the report, each once
  /\ order \in Seq(DOMAIN inc)
  /\ IsInjective(order)
  /\ ToSet(order) = DOMAIN inc

LEMMA FirstActiveIsOne ==
  ASSUME NEW X, NEW seq \in Seq(X), seq # <<>>, NEW inc
  PROVE  FirstActive(seq, inc) \in ToSet(seq)
<1> DEFINE live == {i \in DOMAIN inc : Active(inc[i])}
           active == Those(seq, live)
<1>1. active \in Seq(X) /\ ToSet(active) = ToSet(seq) \cap live
  <2> HIDE DEF live
  <2> QED
    BY ThoseElements
<1>2. FirstActive(seq, inc) = IF active = <<>> THEN Head(seq) ELSE Head(active)
  BY DEF FirstActive
<1>3. Head(seq) \in ToSet(seq)
  BY HeadIsElement
<1> HIDE DEF active
<1>4. active # <<>> => Head(active) \in ToSet(active)
  BY <1>1, HeadIsElement
<1> QED
  BY <1>1, <1>2, <1>3, <1>4

(* The bucket of an incident's owner and what becomes of it. *)
LEMMA BucketIs ==
  ASSUME NEW order, NEW inc, Report(order, inc), NEW key
  PROVE  /\ OwnerBucket(order, inc, key) \in Seq(DOMAIN inc)
         /\ IsInjective(OwnerBucket(order, inc, key))
         /\ ToSet(OwnerBucket(order, inc, key)) = {i \in DOMAIN inc : OwnerKey(inc[i]) = key}
<1> DEFINE own == {i \in DOMAIN inc : OwnerKey(inc[i]) = key}
<1>1. DOMAIN inc \cap own = own
  OBVIOUS
<1> HIDE DEF own
<1>2. /\ Those(order, own) \in Seq(DOMAIN inc)
      /\ IsInjective(Those(order, own))
      /\ ToSet(Those(order, own)) = own
  BY <1>1, ThoseElements DEF Report
<1> QED
  BY <1>2 DEF own, OwnerBucket

LEMMA OwnerChildrenAre ==
  ASSUME NEW bucket, NEW inc, bucket \in Seq(DOMAIN inc), IsInjective(bucket)
  PROVE  /\ OwnerChildren(bucket, inc) \in Seq(DOMAIN inc)
         /\ IsInjective(OwnerChildren(bucket, inc))
         /\ \A k \in ToSet(OwnerChildren(bucket, inc)) :
              /\ k \in ToSet(bucket)
              /\ k # OwnerHead(bucket, inc)
              /\ Active(inc[k]) => Active(inc[OwnerHead(bucket, inc)])
<1> DEFINE head == OwnerHead(bucket, inc)
           some == {i \in DOMAIN inc : i # head /\ (Active(inc[head]) \/ ~ Active(inc[i]))}
<1>1. OwnerChildren(bucket, inc) = Those(bucket, some)
  BY DEF OwnerChildren
<1>2. \A k \in some : k # head /\ (Active(inc[k]) => Active(inc[head]))
  OBVIOUS
<1> HIDE DEF some
<1>3. /\ Those(bucket, some) \in Seq(DOMAIN inc)
      /\ IsInjective(Those(bucket, some))
      /\ ToSet(Those(bucket, some)) = ToSet(bucket) \cap some
  BY ThoseElements
<1> QED
  BY <1>1, <1>2, <1>3

LEMMA OwnerGrouping ==
  ASSUME NEW order, NEW inc, Report(order, inc)
  PROVE  LET g == GroupByOwner(order, inc)
         IN  /\ Filed(g, inc)
             /\ NoCircle(g)
             /\ NoneUnderHistory(g, inc)
             /\ ContainersHold(g, inc)
<1> DEFINE g         == GroupByOwner(order, inc)
           keyed     == {i \in ToSet(order) : OwnerKey(inc[i]) # <<"none">>}
           bucket(i) == OwnerBucket(order, inc, OwnerKey(inc[i]))
           head(i)   == OwnerHead(bucket(i), inc)
           kids(i)   == OwnerChildren(bucket(i), inc)
           heads     == {head(i) : i \in {x \in keyed : kids(x) # <<>>}}
           all       == UNION {ToSet(kids(i)) : i \in keyed}
<1>1. /\ DOMAIN g.children_of = heads
      /\ \A h \in heads : g.children_of[h] = kids(h)
      /\ DOMAIN g.parent_of = all
      /\ \A k \in all : g.parent_of[k] = head(k)
  BY DEF GroupByOwner, GroupingResult
<1>2. ASSUME NEW i \in keyed
      PROVE  /\ i \in ToSet(bucket(i))
             /\ \A k \in ToSet(bucket(i)) : k \in keyed /\ bucket(k) = bucket(i)
             /\ head(i) \in ToSet(bucket(i))
             /\ kids(i) \in Seq(DOMAIN inc)
             /\ IsInjective(kids(i))
             /\ \A k \in ToSet(kids(i)) :
                  /\ k \in ToSet(bucket(i))
                  /\ k # head(i)
                  /\ Active(inc[k]) => Active(inc[head(i)])
  <2> DEFINE key == OwnerKey(inc[i])
  <2>1. i \in DOMAIN inc /\ key # <<"none">>
    BY DEF Report
  <2>2. /\ bucket(i) \in Seq(DOMAIN inc) /\ IsInjective(bucket(i))
        /\ ToSet(bucket(i)) = {x \in DOMAIN inc : OwnerKey(inc[x]) = key}
    BY BucketIs
  <2>3. i \in ToSet(bucket(i))
    BY <2>1, <2>2
  <2>4. ASSUME NEW k \in ToSet(bucket(i))
        PROVE  k \in keyed /\ bucket(k) = bucket(i)
    <3>1. k \in DOMAIN inc /\ OwnerKey(inc[k]) = key
      BY <2>2
    <3> QED
      BY <3>1, <2>1 DEF Report
  <2>5. bucket(i) # <<>>
    BY <2>2, <2>3, Empty
  <2>6. head(i) \in ToSet(bucket(i))
    BY <2>2, <2>5, FirstActiveIsOne DEF OwnerHead
  <2>7. /\ kids(i) \in Seq(DOMAIN inc)
        /\ IsInjective(kids(i))
        /\ \A k \in ToSet(kids(i)) :
             /\ k \in ToSet(bucket(i))
             /\ k # head(i)
             /\ Active(inc[k]) => Active(inc[head(i)])
    BY <2>2, OwnerChildrenAre
  <2> HIDE DEF bucket, head, kids
  <2> QED
    BY <2>3, <2>4, <2>6, <2>7
<1>3. ASSUME NEW i \in keyed, NEW k \in ToSet(bucket(i))
      PROVE  k \in keyed /\ head(k) = head(i) /\ kids(k) = kids(i)
  <2>1. k \in keyed /\ bucket(k) = bucket(i)
    BY <1>2
  <2> QED
    BY <2>1
<1>4. heads \subseteq DOMAIN inc
  <2>1. \A i \in keyed : ToSet(bucket(i)) \subseteq DOMAIN inc
    BY BucketIs
  <2> QED
    BY <1>2, <2>1
<1>h. \A i \in keyed : kids(i) # <<>> => head(i) \in heads
  OBVIOUS
<1>a. \A i \in keyed : ToSet(kids(i)) \subseteq all
  OBVIOUS
<1>b. \A h \in heads : \E i \in keyed : kids(i) # <<>> /\ h = head(i)
  OBVIOUS
<1>c. \A k \in all : \E i \in keyed : k \in ToSet(kids(i))
  OBVIOUS
<1>d. keyed \subseteq DOMAIN inc
  BY DEF Report
<1> HIDE DEF g, keyed, bucket, head, kids, heads, all
(* A head has the bucket of its children, and is none of them. *)
<1>5. ASSUME NEW h \in heads
      PROVE  /\ h \in keyed /\ head(h) = h
             /\ kids(h) \in Seq(DOMAIN inc) /\ kids(h) # <<>> /\ IsInjective(kids(h))
             /\ \A k \in ToSet(kids(h)) : k \in all /\ head(k) = h
  <2>1. PICK i \in keyed : kids(i) # <<>> /\ h = head(i)
    BY <1>b
  <2>2. h \in keyed /\ head(h) = h /\ kids(h) = kids(i)
    BY <2>1, <1>2, <1>3
  <2>3. \A k \in ToSet(kids(h)) : k \in all /\ k \in ToSet(bucket(h))
    BY <2>2, <1>2, <1>a
  <2>4. \A k \in ToSet(kids(h)) : head(k) = h
    BY <2>2, <2>3, <1>3
  <2> QED
    BY <2>1, <2>2, <2>3, <2>4, <1>2
<1>6. ASSUME NEW k \in all
      PROVE  /\ k \in keyed
             /\ head(k) # k /\ head(k) \in heads
             /\ head(head(k)) = head(k)
             /\ k \in ToSet(kids(head(k)))
             /\ Active(inc[k]) => Active(inc[head(k)])
  <2>1. PICK i \in keyed : k \in ToSet(kids(i))
    BY <1>c
  <2>2. k \in ToSet(bucket(i)) /\ k # head(i) /\ (Active(inc[k]) => Active(inc[head(i)]))
    BY <2>1, <1>2
  <2>3. k \in keyed /\ head(k) = head(i) /\ kids(k) = kids(i)
    BY <2>2, <1>3
  <2>4. kids(i) # <<>>
    <3>1. kids(i) \in Seq(DOMAIN inc)
      BY <1>2
    <3> QED
      BY <3>1, <2>1, Empty
  <2>5. head(i) \in heads
    BY <2>4, <1>h
  <2>6. head(head(i)) = head(i) /\ kids(head(i)) = kids(i)
    BY <1>2, <1>3
  <2> QED
    BY <2>1, <2>2, <2>3, <2>5, <2>6
<1>7. Filed(g, inc)
  BY <1>1, <1>5, <1>6, <1>d DEF Filed
<1>8. NoCircle(g)
  <2> SUFFICES ASSUME NEW S \in SUBSET DOMAIN g.parent_of, S # {},
                      \A k \in S : g.parent_of[k] \in S
               PROVE  FALSE
    BY DEF NoCircle
  <2>1. PICK k \in S : TRUE
    OBVIOUS
  <2>2. k \in all /\ head(k) \in S
    BY <1>1, <2>1
  <2>3. head(k) \in all
    BY <1>1, <2>2
  <2> QED
    BY <2>2, <2>3, <1>6
<1>9. NoneUnderHistory(g, inc)
  BY <1>1, <1>6 DEF NoneUnderHistory
<1>10. ContainersHold(g, inc)
  BY <1>1, <1>4 DEF ContainersHold
<1> QED
  BY <1>7, <1>8, <1>9, <1>10 DEF g

(* A parent by class is another incident, active if the child is. *)
LEMMA ClassParentIs ==
  ASSUME NEW order, NEW inc, Report(order, inc), NEW nodes, NEW i,
         ClassParent(order, inc, nodes, i) # None
  PROVE  /\ ClassParent(order, inc, nodes, i) \in DOMAIN inc
         /\ ClassParent(order, inc, nodes, i) # i
         /\ Active(inc[i]) => Active(inc[ClassParent(order, inc, nodes, i)])
<1> DEFINE o      == ClassAncestor(nodes, inc[i])
           parent == ClassParent(order, inc, nodes, i)
           onIt   == {x \in DOMAIN inc : ObjectId(inc[x]) = o}
           on     == Those(order, onIt)
<1>1. /\ o # None
      /\ parent = IncidentByEntity(order, inc, o)
      /\ parent # i
      /\ Active(inc[i]) => Active(inc[parent])
  BY DEF ClassParent
<1>2. on # <<>> /\ parent = FirstActive(on, inc)
  BY <1>1 DEF IncidentByEntity
<1>3. on \in Seq(DOMAIN inc) /\ ToSet(on) \subseteq DOMAIN inc
  <2> HIDE DEF onIt
  <2> QED
    BY ThoseElements, Elements DEF Report
<1> HIDE DEF on, parent
<1>4. parent \in ToSet(on)
  BY <1>2, <1>3, FirstActiveIsOne
<1> QED
  BY <1>1, <1>3, <1>4 DEF parent

(* Groups that merge_groupings may adopt. *)
ClassGroup(group, inc) ==
  /\ group.head \in DOMAIN inc
  /\ group.kids \in Seq(DOMAIN inc)
  /\ IsInjective(group.kids)
  /\ group.head \notin ToSet(group.kids)
  /\ \A k \in ToSet(group.kids) : Active(inc[k]) => Active(inc[group.head])

SyntheticGroup(group, inc) ==
  /\ \E o : group.head = SyntheticId(o)
  /\ group.kids \in Seq(DOMAIN inc)
  /\ IsInjective(group.kids)

LEMMA ClassGroups ==
  ASSUME NEW order, NEW inc, Report(order, inc), NEW nodes
  PROVE  LET groups == GroupByClass(order, inc, nodes)
         IN  \E n \in Nat : /\ DOMAIN groups = 1..n
                            /\ Len(groups) = n
                            /\ \A j \in 1..n : ClassGroup(groups[j], inc)
                            /\ \A j \in 1..n : \A k \in ToSet(groups[j].kids) :
                                 ClassParent(order, inc, nodes, k) = groups[j].head
                            /\ \A i \in DOMAIN inc :
                                 ClassParent(order, inc, nodes, i) # None =>
                                   \E j \in 1..n : i \in ToSet(groups[j].kids)
<1> DEFINE groups  == GroupByClass(order, inc, nodes)
           parent  == [i \in ToSet(order) |-> ClassParent(order, inc, nodes, i)]
           some    == {i \in ToSet(order) : parent[i] # None}
           nested  == Those(order, some)
           theirs  == [j \in DOMAIN nested |-> parent[nested[j]]]
           parents == Distinct(theirs)
           under(h) == {i \in ToSet(order) : parent[i] = h}
           n == Len(parents)
<1>1. nested \in Seq(DOMAIN inc) /\ IsInjective(nested) /\ ToSet(nested) = some
  <2>1. ToSet(order) \cap some = some
    OBVIOUS
  <2> HIDE DEF some
  <2> QED
    BY <2>1, ThoseElements DEF Report
<1>2. \A i \in some : /\ parent[i] \in DOMAIN inc /\ parent[i] # i
                      /\ Active(inc[i]) => Active(inc[parent[i]])
  BY ClassParentIs
<1>3. theirs \in Seq(DOMAIN inc) /\ ToSet(theirs) = {parent[i] : i \in ToSet(nested)}
  <2>1. DOMAIN nested = 1..Len(nested) /\ Len(nested) \in Nat
    BY <1>1, LenProperties
  <2>2. \A j \in 1..Len(nested) : nested[j] \in ToSet(nested)
    BY <2>1 DEF ToSet
  <2> HIDE DEF nested, parent, some
  <2>3. \A j \in 1..Len(nested) : parent[nested[j]] \in DOMAIN inc
    BY <2>2, <1>1, <1>2
  <2>4. theirs \in Seq(DOMAIN inc)
    BY <2>1, <2>3
  <2>5. ToSet(theirs) = {parent[i] : i \in ToSet(nested)}
    BY <2>1 DEF ToSet
  <2> QED
    BY <2>4, <2>5
<1>4. /\ parents \in Seq(DOMAIN inc)
      /\ ToSet(parents) = ToSet(theirs)
  <2> HIDE DEF theirs
  <2> QED
    BY <1>3, DistinctElements
<1>5. DOMAIN parents = 1..n /\ n \in Nat
  <2> HIDE DEF parents
  <2> QED
    BY <1>4, LenProperties
<1>6. groups = [j \in 1..n |-> [head |-> parents[j], kids |-> Those(nested, under(parents[j]))]]
  BY <1>5 DEF GroupByClass
<1>a. \A i \in ToSet(order) : parent[i] = ClassParent(order, inc, nodes, i)
  OBVIOUS
<1>b. \A i \in DOMAIN inc : ClassParent(order, inc, nodes, i) # None => i \in some
  BY DEF Report
<1>c. some \subseteq ToSet(order)
  OBVIOUS
<1> HIDE DEF groups, nested, theirs, parents, n
<1>7. DOMAIN groups = 1..n /\ Len(groups) = n
  BY <1>5, <1>6
<1>8. ASSUME NEW j \in 1..n
      PROVE  /\ ClassGroup(groups[j], inc)
             /\ \A k \in ToSet(groups[j].kids) :
                  ClassParent(order, inc, nodes, k) = groups[j].head
  <2> DEFINE h == parents[j]
             kids == Those(nested, under(h))
  <2>1. groups[j].head = h /\ groups[j].kids = kids
    BY <1>6
  <2>2. h \in DOMAIN inc
    BY <1>4, <1>5, ElementOfSeq
  <2>3. \A k \in under(h) : parent[k] = h
    OBVIOUS
  <2> HIDE DEF under, parent, h
  <2>4. kids \in Seq(DOMAIN inc) /\ IsInjective(kids) /\ ToSet(kids) = ToSet(nested) \cap under(h)
    BY <1>1, ThoseElements
  <2>5. \A k \in ToSet(kids) : parent[k] = h /\ k \in some
    BY <2>3, <2>4, <1>1
  <2>6. h \notin ToSet(kids) /\ \A k \in ToSet(kids) : Active(inc[k]) => Active(inc[h])
    <3> HIDE DEF some, kids
    <3> QED
      BY <2>5, <1>2
  <2>7. \A k \in ToSet(kids) : ClassParent(order, inc, nodes, k) = h
    <3> HIDE DEF some, kids
    <3> QED
      BY <2>5, <1>a, <1>c
  <2> QED
    BY <2>1, <2>2, <2>4, <2>6, <2>7 DEF ClassGroup
<1>9. ASSUME NEW i \in DOMAIN inc, ClassParent(order, inc, nodes, i) # None
      PROVE  \E j \in 1..n : i \in ToSet(groups[j].kids)
  <2>1. i \in ToSet(nested) /\ i \in ToSet(order)
    BY <1>9, <1>1, <1>b, <1>c
  <2>2. PICK j \in 1..n : parents[j] = parent[i]
    <3>1. parent[i] \in ToSet(parents)
      BY <2>1, <1>3, <1>4
    <3> HIDE DEF parent
    <3> QED
      BY <3>1, <1>5 DEF ToSet
  <2>3. i \in under(parents[j])
    BY <2>1, <2>2
  <2> HIDE DEF under
  <2>4. ToSet(Those(nested, under(parents[j]))) = ToSet(nested) \cap under(parents[j])
    BY <1>1, ThoseElements
  <2>5. i \in ToSet(groups[j].kids)
    BY <2>1, <2>3, <2>4, <1>6
  <2> QED
    BY <2>5
<1> QED
  BY <1>5, <1>7, <1>8, <1>9 DEF groups

(* Each container once, with children that are incidents of the report. *)
LEMMA SyntheticGroups ==
  ASSUME NEW order, NEW inc, Report(order, inc), NEW nodes
  PROVE  LET groups == BuildSynthetic(order, inc, nodes)
         IN  \E n \in Nat : /\ DOMAIN groups = 1..n
                            /\ Len(groups) = n
                            /\ \A j \in 1..n : SyntheticGroup(groups[j], inc)
                            /\ \A j, k \in 1..n : groups[j].head = groups[k].head => j = k
                            /\ \A a, b \in DOMAIN inc :
                                 /\ a # b
                                 /\ ClassAncestor(nodes, inc[a]) = ClassAncestor(nodes, inc[b])
                                 /\ ClassAncestor(nodes, inc[a]) # None
                                 /\ IncidentByEntity(order, inc, ClassAncestor(nodes, inc[a]))
                                      = None
                                 => \E j \in 1..n : {a, b} \subseteq ToSet(groups[j].kids)
<1> DEFINE groups   == BuildSynthetic(order, inc, nodes)
           ancestor == [i \in ToSet(order) |-> ClassAncestor(nodes, inc[i])]
           under(o) == {i \in ToSet(order) : ancestor[i] = o}
           below(o) == Those(order, under(o))
           some     == {i \in ToSet(order) :
                          /\ ancestor[i] # None
                          /\ IncidentByEntity(order, inc, ancestor[i]) = None
                          /\ Len(below(ancestor[i])) >= 2}
           seeded   == Those(order, some)
           theirs   == [j \in DOMAIN seeded |-> ancestor[seeded[j]]]
           objects_ == Distinct(theirs)
           X        == {ancestor[i] : i \in ToSet(order)}
           n        == Len(objects_)
<1>1. seeded \in Seq(DOMAIN inc) /\ ToSet(seeded) = ToSet(order) \cap some
  <2> HIDE DEF some
  <2> QED
    BY ThoseElements DEF Report
<1>2. theirs \in Seq(X) /\ \A i \in ToSet(seeded) : ancestor[i] \in ToSet(theirs)
  <2>1. DOMAIN seeded = 1..Len(seeded) /\ Len(seeded) \in Nat
    BY <1>1, LenProperties
  <2>2. \A j \in 1..Len(seeded) : seeded[j] \in ToSet(order)
    BY <1>1, <2>1 DEF ToSet
  <2> HIDE DEF seeded, ancestor
  <2>3. \A j \in 1..Len(seeded) : ancestor[seeded[j]] \in X
    BY <2>2
  <2>4. \A i \in ToSet(seeded) : ancestor[i] \in ToSet(theirs)
    BY <2>1 DEF ToSet
  <2> HIDE DEF X
  <2> QED
    BY <2>1, <2>3, <2>4
<1>3. objects_ \in Seq(X) /\ IsInjective(objects_) /\ ToSet(objects_) = ToSet(theirs)
  <2> HIDE DEF theirs, X
  <2> QED
    BY <1>2, DistinctElements
<1>4. DOMAIN objects_ = 1..n /\ n \in Nat
  <2> HIDE DEF objects_, X
  <2> QED
    BY <1>3, LenProperties
<1>5. groups = [j \in 1..n |-> [head |-> SyntheticId(objects_[j]), kids |-> below(objects_[j])]]
  BY <1>4 DEF BuildSynthetic
<1>a. \A i \in DOMAIN inc : i \in ToSet(order) /\ ancestor[i] = ClassAncestor(nodes, inc[i])
  BY DEF Report
<1> HIDE DEF groups, seeded, theirs, objects_, n, X
<1>6. DOMAIN groups = 1..n /\ Len(groups) = n
  BY <1>4, <1>5
<1>7. ASSUME NEW j \in 1..n
      PROVE  SyntheticGroup(groups[j], inc)
  <2>1. groups[j].head = SyntheticId(objects_[j]) /\ groups[j].kids = below(objects_[j])
    BY <1>5
  <2> HIDE DEF under
  <2>2. below(objects_[j]) \in Seq(DOMAIN inc) /\ IsInjective(below(objects_[j]))
    BY ThoseElements DEF Report
  <2> HIDE DEF below
  <2> QED
    BY <2>1, <2>2 DEF SyntheticGroup
<1>8. ASSUME NEW j \in 1..n, NEW k \in 1..n, groups[j].head = groups[k].head
      PROVE  j = k
  <2>1. SyntheticId(objects_[j]) = SyntheticId(objects_[k])
    BY <1>5, <1>8
  <2>2. objects_[j] = objects_[k]
    BY <2>1 DEF SyntheticId
  <2> QED
    BY <2>2, <1>3, <1>4 DEF IsInjective
<1>9. ASSUME NEW a \in DOMAIN inc, NEW b \in DOMAIN inc, a # b,
             ClassAncestor(nodes, inc[a]) = ClassAncestor(nodes, inc[b]),
             ClassAncestor(nodes, inc[a]) # None,
             IncidentByEntity(order, inc, ClassAncestor(nodes, inc[a])) = None
      PROVE  \E j \in 1..n : {a, b} \subseteq ToSet(groups[j].kids)
  <2> DEFINE o == ClassAncestor(nodes, inc[a])
  <2>1. ancestor[a] = o /\ ancestor[b] = o /\ a \in ToSet(order) /\ b \in ToSet(order)
    BY <1>9, <1>a
  <2>2. a \in under(o) /\ b \in under(o)
    BY <2>1
  <2>3. below(o) \in Seq(DOMAIN inc) /\ {a, b} \subseteq ToSet(below(o))
    <3> HIDE DEF under, o
    <3> QED
      BY <2>1, <2>2, ThoseElements DEF Report
  <2>4. Len(below(o)) >= 2
    <3> HIDE DEF below, o
    <3> QED
      BY <1>9, <2>3, TwoElements
  <2>5. a \in some
    <3> HIDE DEF below, ancestor
    <3> QED
      BY <1>9, <2>1, <2>4
  <2> HIDE DEF some, ancestor, o, below
  <2>6. o \in ToSet(objects_)
    BY <2>1, <2>5, <1>1, <1>2, <1>3
  <2>7. PICK j \in 1..n : objects_[j] = o
    BY <2>6, <1>4 DEF ToSet
  <2>8. {a, b} \subseteq ToSet(groups[j].kids)
    BY <2>3, <2>7, <1>5
  <2> QED
    BY <2>8
<1> QED
  BY <1>4, <1>6, <1>7, <1>8, <1>9 DEF groups

-----------------------------------------------------------------------------
(***************************************************************************)
(* The merge.                                                              *)
(***************************************************************************)
Sound(g, owner, inc) ==
  /\ Filed(g, inc)
  /\ NoCircle(g)
  /\ NoneUnderHistory(g, inc)
  /\ ContainersHold(g, inc)
  /\ Keeps(owner, g)

(* No container has the id of an incident of the report. *)
OwnIds(inc) == \A o : SyntheticId(o) \notin DOMAIN inc

LEMMA AdoptableIsFree ==
  ASSUME NEW g, NEW inc, NEW kids, kids \in Seq(DOMAIN inc), IsInjective(kids)
  PROVE  /\ Free(g, inc, Adoptable(g, kids))
         /\ ToSet(Adoptable(g, kids)) \subseteq ToSet(kids)
<1> DEFINE free == ToSet(kids) \ (DOMAIN g.parent_of \cup DOMAIN g.children_of)
<1>1. \A k \in free : k \notin DOMAIN g.parent_of /\ k \notin DOMAIN g.children_of
  OBVIOUS
<1> HIDE DEF free
<1>2. /\ Those(kids, free) \in Seq(DOMAIN inc)
      /\ IsInjective(Those(kids, free))
      /\ ToSet(Those(kids, free)) = ToSet(kids) \cap free
  BY ThoseElements
<1>3. Adoptable(g, kids) = Those(kids, free)
  BY DEF Adoptable, free
<1> QED
  BY <1>1, <1>2, <1>3 DEF Free

LEMMA AdoptIsSound ==
  ASSUME NEW g, NEW owner, NEW inc, NEW head, NEW kids,
         Sound(g, owner, inc), Free(g, inc, kids), head \notin ToSet(kids),
         IsIncident(inc, head) =>
           \A k \in ToSet(kids) : Active(inc[k]) => Active(inc[head]),
         head \in DOMAIN inc \/ Len(kids) >= 2
  PROVE  Sound(Adopt(g, head, kids), owner, inc)
BY AdoptFiled, AdoptNoCircle, AdoptNoneUnderHistory, AdoptContainersHold, AdoptKeeps DEF Sound

LEMMA AdoptClassIsSound ==
  ASSUME NEW g, NEW owner, NEW inc, NEW group,
         Sound(g, owner, inc), ClassGroup(group, inc)
  PROVE  Sound(AdoptClass(g, group), owner, inc)
<1> DEFINE kids == Adoptable(g, group.kids)
<1>1. Free(g, inc, kids) /\ ToSet(kids) \subseteq ToSet(group.kids)
  BY AdoptableIsFree DEF ClassGroup
<1>2. /\ group.head \in DOMAIN inc
      /\ group.head \notin ToSet(kids)
      /\ \A k \in ToSet(kids) : Active(inc[k]) => Active(inc[group.head])
  BY <1>1 DEF ClassGroup
<1> HIDE DEF kids
<1>3. Sound(Adopt(g, group.head, kids), owner, inc)
  BY <1>1, <1>2, AdoptIsSound
<1> QED
  BY <1>3 DEF AdoptClass, kids

LEMMA AdoptSyntheticIsSound ==
  ASSUME NEW g, NEW owner, NEW inc, OwnIds(inc), NEW group,
         Sound(g, owner, inc), SyntheticGroup(group, inc)
  PROVE  Sound(AdoptSynthetic(g, group), owner, inc)
<1> DEFINE kids == Adoptable(g, group.kids)
<1>1. Free(g, inc, kids) /\ ToSet(kids) \subseteq DOMAIN inc
  BY AdoptableIsFree, Elements DEF SyntheticGroup
<1>2. group.head \notin DOMAIN inc
  BY DEF SyntheticGroup, OwnIds
<1>3. CASE Len(kids) >= 2
  <2> HIDE DEF kids
  <2>1. Sound(Adopt(g, group.head, kids), owner, inc)
    BY <1>1, <1>2, <1>3, AdoptIsSound DEF IsIncident
  <2> QED
    BY <2>1, <1>3 DEF AdoptSynthetic, kids
<1>4. CASE ~ (Len(kids) >= 2)
  BY <1>4 DEF AdoptSynthetic
<1> QED
  BY <1>3, <1>4

(***************************************************************************)
(* The two loops of merge_groupings.                                       *)
(***************************************************************************)
NestedFun(f, owner, groups) ==
  f = [n \in 0..Len(groups) |-> IF n = 0 THEN owner ELSE AdoptClass(f[n - 1], groups[n])]

MergedFun(f, start, groups) ==
  f = [n \in 0..Len(groups) |-> IF n = 0 THEN start ELSE AdoptSynthetic(f[n - 1], groups[n])]

LEMMA NestedExists ==
  ASSUME NEW owner, NEW groups, Len(groups) \in Nat
  PROVE  \E f : NestedFun(f, owner, groups)
<1> DEFINE G(g, m) ==
      g = [n \in 0..m |-> IF n = 0 THEN owner ELSE AdoptClass(g[n - 1], groups[n])]
<1> DEFINE K == {m \in Nat : ~ \E g : G(g, m)}
<1>1. K = {}
  <2> SUFFICES ASSUME K # {} PROVE FALSE
    OBVIOUS
  <2>1. PICK m \in K : \A k \in K : ~ (k < m)
    BY Least
  <2>2. m # 0
    <3> DEFINE g == [n \in {0} |-> owner]
    <3>1. G(g, 0)
      OBVIOUS
    <3> QED
      BY <3>1
  <2>3. m \in Nat /\ m - 1 \in Nat
    BY <2>2
  <2>4. PICK g : G(g, m - 1)
    <3> HIDE DEF G
    <3>1. m - 1 < m
      BY <2>3
    <3>2. m - 1 \notin K
      BY <2>1, <3>1
    <3> QED
      BY <2>3, <3>2
  <2> DEFINE h == [n \in 0..m |-> IF n = 0 THEN owner ELSE AdoptClass(g[n - 1], groups[n])]
  <2>5. ASSUME NEW n \in 0..(m - 1)
        PROVE  h[n] = g[n]
    <3>1. n \in 0..m
      BY <2>3
    <3> QED
      BY <2>4, <3>1
  <2>6. h = [n \in 0..m |-> IF n = 0 THEN owner ELSE AdoptClass(h[n - 1], groups[n])]
    <3>1. ASSUME NEW n \in 0..m, n # 0
          PROVE  h[n - 1] = g[n - 1]
      <4>1. n - 1 \in 0..(m - 1)
        BY <2>3, <3>1
      <4> HIDE DEF h
      <4> QED
        BY <2>5, <4>1
    <3> QED
      BY <3>1
  <2>7. G(h, m)
    BY <2>6
  <2> QED
    BY <2>7, <2>1
<1>2. \E f : G(f, Len(groups))
  BY <1>1
<1> QED
  BY <1>2 DEF NestedFun

LEMMA MergedExists ==
  ASSUME NEW start, NEW groups, Len(groups) \in Nat
  PROVE  \E f : MergedFun(f, start, groups)
<1> DEFINE G(g, m) ==
      g = [n \in 0..m |-> IF n = 0 THEN start ELSE AdoptSynthetic(g[n - 1], groups[n])]
<1> DEFINE K == {m \in Nat : ~ \E g : G(g, m)}
<1>1. K = {}
  <2> SUFFICES ASSUME K # {} PROVE FALSE
    OBVIOUS
  <2>1. PICK m \in K : \A k \in K : ~ (k < m)
    BY Least
  <2>2. m # 0
    <3> DEFINE g == [n \in {0} |-> start]
    <3>1. G(g, 0)
      OBVIOUS
    <3> QED
      BY <3>1
  <2>3. m \in Nat /\ m - 1 \in Nat
    BY <2>2
  <2>4. PICK g : G(g, m - 1)
    <3> HIDE DEF G
    <3>1. m - 1 < m
      BY <2>3
    <3>2. m - 1 \notin K
      BY <2>1, <3>1
    <3> QED
      BY <2>3, <3>2
  <2> DEFINE h == [n \in 0..m |-> IF n = 0 THEN start ELSE AdoptSynthetic(g[n - 1], groups[n])]
  <2>5. ASSUME NEW n \in 0..(m - 1)
        PROVE  h[n] = g[n]
    <3>1. n \in 0..m
      BY <2>3
    <3> QED
      BY <2>4, <3>1
  <2>6. h = [n \in 0..m |-> IF n = 0 THEN start ELSE AdoptSynthetic(h[n - 1], groups[n])]
    <3>1. ASSUME NEW n \in 0..m, n # 0
          PROVE  h[n - 1] = g[n - 1]
      <4>1. n - 1 \in 0..(m - 1)
        BY <2>3, <3>1
      <4> HIDE DEF h
      <4> QED
        BY <2>5, <4>1
    <3> QED
      BY <3>1
  <2>7. G(h, m)
    BY <2>6
  <2> QED
    BY <2>7, <2>1
<1>2. \E f : G(f, Len(groups))
  BY <1>1
<1> QED
  BY <1>2 DEF MergedFun

LEMMA NestedIsSound ==
  ASSUME NEW owner, NEW start, NEW inc, Sound(start, owner, inc),
         NEW groups, NEW L \in Nat, Len(groups) = L,
         \A j \in 1..L : ClassGroup(groups[j], inc),
         NEW f, NestedFun(f, start, groups)
  PROVE  Sound(f[L], owner, inc)
<1> DEFINE K == {n \in 0..L : ~ Sound(f[n], owner, inc)}
<1>1. K = {}
  <2> SUFFICES ASSUME K # {} PROVE FALSE
    OBVIOUS
  <2>1. PICK n \in K : \A k \in K : ~ (k < n)
    <3>1. K \in SUBSET Nat
      OBVIOUS
    <3> HIDE DEF K
    <3> QED
      BY <3>1, Least
  <2>2. f[0] = start
    BY DEF NestedFun
  <2>3. n \in 1..L /\ n - 1 \in 0..L /\ n - 1 < n
    BY <2>2
  <2>4. Sound(f[n - 1], owner, inc)
    BY <2>1, <2>3
  <2>5. f[n] = AdoptClass(f[n - 1], groups[n])
    <3>1. n \in 0..Len(groups) /\ n # 0
      BY <2>3
    <3> QED
      BY <3>1 DEF NestedFun
  <2> QED
    BY <2>3, <2>4, <2>5, AdoptClassIsSound
<1> QED
  BY <1>1

LEMMA MergedIsSound ==
  ASSUME NEW owner, NEW start, NEW inc, Sound(start, owner, inc), OwnIds(inc),
         NEW groups, NEW L \in Nat, Len(groups) = L,
         \A j \in 1..L : SyntheticGroup(groups[j], inc),
         NEW f, MergedFun(f, start, groups)
  PROVE  Sound(f[L], owner, inc)
<1> DEFINE K == {n \in 0..L : ~ Sound(f[n], owner, inc)}
<1>1. K = {}
  <2> SUFFICES ASSUME K # {} PROVE FALSE
    OBVIOUS
  <2>1. PICK n \in K : \A k \in K : ~ (k < n)
    <3>1. K \in SUBSET Nat
      OBVIOUS
    <3> HIDE DEF K
    <3> QED
      BY <3>1, Least
  <2>2. f[0] = start
    BY DEF MergedFun
  <2>3. n \in 1..L /\ n - 1 \in 0..L /\ n - 1 < n
    BY <2>2
  <2>4. Sound(f[n - 1], owner, inc)
    BY <2>1, <2>3
  <2>5. f[n] = AdoptSynthetic(f[n - 1], groups[n])
    <3>1. n \in 0..Len(groups) /\ n # 0
      BY <2>3
    <3> QED
      BY <3>1 DEF MergedFun
  <2> QED
    BY <2>3, <2>4, <2>5, AdoptSyntheticIsSound
<1> QED
  BY <1>1

(* What merge_groupings returns is what its second loop ends with. *)
LEMMA MergeIs ==
  ASSUME NEW owner, NEW class_groups, NEW synthetic_groups,
         Len(class_groups) \in Nat, Len(synthetic_groups) \in Nat
  PROVE  \E f, g : /\ NestedFun(f, owner, class_groups)
                   /\ MergedFun(g, f[Len(class_groups)], synthetic_groups)
                   /\ MergeGroupings(owner, class_groups, synthetic_groups)
                        = g[Len(synthetic_groups)]
<1> DEFINE f == CHOOSE x : NestedFun(x, owner, class_groups)
           g == CHOOSE x : MergedFun(x, f[Len(class_groups)], synthetic_groups)
<1>1. NestedFun(f, owner, class_groups)
  BY NestedExists
<1>2. MergedFun(g, f[Len(class_groups)], synthetic_groups)
  <2> HIDE DEF f
  <2> QED
    BY MergedExists
<1>3. MergeGroupings(owner, class_groups, synthetic_groups) = g[Len(synthetic_groups)]
  BY DEF MergeGroupings, NestedFun, MergedFun
<1> QED
  BY <1>1, <1>2, <1>3

LEMMA ComputeGroupingIsSound ==
  ASSUME NEW order, NEW inc, Report(order, inc), OwnIds(inc), NEW nodes
  PROVE  Sound(ComputeGrouping(order, inc, nodes), GroupByOwner(order, inc), inc)
<1> DEFINE owner     == GroupByOwner(order, inc)
           classes   == GroupByClass(order, inc, nodes)
           synthetic == BuildSynthetic(order, inc, nodes)
<1>1. Sound(owner, owner, inc)
  BY OwnerGrouping DEF Sound, Keeps
<1>2. PICK m \in Nat : Len(classes) = m /\ \A j \in 1..m : ClassGroup(classes[j], inc)
  BY ClassGroups
<1>3. PICK n \in Nat : Len(synthetic) = n /\ \A j \in 1..n : SyntheticGroup(synthetic[j], inc)
  BY SyntheticGroups
<1> HIDE DEF owner, classes, synthetic
<1>4. PICK f, g : /\ NestedFun(f, owner, classes)
                  /\ MergedFun(g, f[m], synthetic)
                  /\ MergeGroupings(owner, classes, synthetic) = g[n]
  BY <1>2, <1>3, MergeIs
<1>5. Sound(f[m], owner, inc)
  BY <1>1, <1>2, <1>4, NestedIsSound
<1>6. Sound(g[n], owner, inc)
  BY <1>3, <1>4, <1>5, MergedIsSound
<1> QED
  BY <1>4, <1>6 DEF ComputeGrouping, owner, classes, synthetic

(***************************************************************************)
(* What merge_groupings may not drop. A step of it only adds: who has a    *)
(* parent keeps it, and a head stays one.                                  *)
(***************************************************************************)
Grows(g, new) ==
  /\ DOMAIN g.children_of \subseteq DOMAIN new.children_of
  /\ \A k \in DOMAIN g.parent_of : k \in DOMAIN new.parent_of /\ new.parent_of[k] = g.parent_of[k]

(* Who has a place in a grouping. *)
Placed(g) == DOMAIN g.parent_of \cup DOMAIN g.children_of

LEMMA AdoptableAre ==
  ASSUME NEW g, NEW X, NEW kids \in Seq(X)
  PROVE  /\ Adoptable(g, kids) \in Seq(X)
         /\ ToSet(Adoptable(g, kids)) = ToSet(kids) \ Placed(g)
<1> DEFINE free == ToSet(kids) \ (DOMAIN g.parent_of \cup DOMAIN g.children_of)
<1>1. ToSet(kids) \cap free = ToSet(kids) \ Placed(g)
  BY DEF Placed
<1> HIDE DEF free
<1>2. Those(kids, free) \in Seq(X) /\ ToSet(Those(kids, free)) = ToSet(kids) \cap free
  BY ThoseElements
<1> QED
  BY <1>1, <1>2 DEF Adoptable, free

LEMMA AdoptGrows ==
  ASSUME NEW g, NEW X, NEW head, NEW kids \in Seq(X), ToSet(kids) \cap Placed(g) = {}
  PROVE  /\ Grows(g, Adopt(g, head, kids))
         /\ \A k \in ToSet(kids) : k \in DOMAIN Adopt(g, head, kids).parent_of
         /\ \A k \in DOMAIN Adopt(g, head, kids).parent_of :
              \/ k \in DOMAIN g.parent_of
              \/ k \in ToSet(kids) /\ Adopt(g, head, kids).parent_of[k] = head
<1>1. CASE kids = <<>>
  <2>1. ToSet(kids) = {} /\ Adopt(g, head, kids) = g
    BY <1>1, Empty DEF Adopt
  <2> QED
    BY <2>1 DEF Grows
<1>2. CASE kids # <<>>
  <2> DEFINE new == Adopt(g, head, kids)
  <2>1. /\ DOMAIN new.children_of = DOMAIN g.children_of \cup {head}
        /\ DOMAIN new.parent_of = DOMAIN g.parent_of \cup ToSet(kids)
        /\ \A k \in ToSet(kids) : new.parent_of[k] = head
        /\ \A k \in DOMAIN g.parent_of \ ToSet(kids) : new.parent_of[k] = g.parent_of[k]
    BY <1>2, AdoptIs
  <2>2. \A k \in DOMAIN g.parent_of : k \notin ToSet(kids)
    BY DEF Placed
  <2> HIDE DEF new
  <2>3. /\ Grows(g, new)
        /\ \A k \in ToSet(kids) : k \in DOMAIN new.parent_of
        /\ \A k \in DOMAIN new.parent_of :
             k \in DOMAIN g.parent_of \/ (k \in ToSet(kids) /\ new.parent_of[k] = head)
    BY <2>1, <2>2 DEF Grows
  <2> QED
    BY <2>3 DEF new
<1> QED
  BY <1>1, <1>2

LEMMA GrowsPlaced ==
  ASSUME NEW g, NEW new, Grows(g, new)
  PROVE  Placed(g) \subseteq Placed(new)
BY DEF Grows, Placed

(* A class group: each of its kids has a place then, and by it if by none. *)
LEMMA AdoptClassPlaces ==
  ASSUME NEW g, NEW X, NEW group, group.kids \in Seq(X)
  PROVE  /\ Grows(g, AdoptClass(g, group))
         /\ ToSet(group.kids) \subseteq Placed(AdoptClass(g, group))
         /\ \A k \in DOMAIN AdoptClass(g, group).parent_of :
              \/ k \in DOMAIN g.parent_of
              \/ k \in ToSet(group.kids) /\ AdoptClass(g, group).parent_of[k] = group.head
<1> DEFINE kids == Adoptable(g, group.kids)
           new  == Adopt(g, group.head, kids)
<1>1. kids \in Seq(X) /\ ToSet(kids) = ToSet(group.kids) \ Placed(g)
  BY AdoptableAre
<1> HIDE DEF kids
<1>2. /\ Grows(g, new)
      /\ \A k \in ToSet(kids) : k \in DOMAIN new.parent_of
      /\ \A k \in DOMAIN new.parent_of :
           k \in DOMAIN g.parent_of \/ (k \in ToSet(kids) /\ new.parent_of[k] = group.head)
  BY <1>1, AdoptGrows
<1> HIDE DEF new
<1>3. Placed(g) \subseteq Placed(new)
  BY <1>2, GrowsPlaced
<1>4. ToSet(group.kids) \subseteq Placed(new)
  BY <1>1, <1>2, <1>3 DEF Placed
<1>5. AdoptClass(g, group) = new
  BY DEF AdoptClass, new, kids
<1> QED
  BY <1>1, <1>2, <1>4, <1>5

(* Of two kids of a container one at least has a place then. *)
LEMMA AdoptSyntheticPlaces ==
  ASSUME NEW g, NEW X, NEW group, group.kids \in Seq(X)
  PROVE  /\ Grows(g, AdoptSynthetic(g, group))
         /\ \A a, b \in ToSet(group.kids) :
              a # b => {a, b} \cap Placed(AdoptSynthetic(g, group)) # {}
<1> DEFINE kids == Adoptable(g, group.kids)
           new  == AdoptSynthetic(g, group)
<1>1. kids \in Seq(X) /\ ToSet(kids) = ToSet(group.kids) \ Placed(g)
  BY AdoptableAre
<1>2. new = IF Len(kids) >= 2 THEN Adopt(g, group.head, kids) ELSE g
  BY DEF AdoptSynthetic
<1> HIDE DEF kids, new
<1>3. Grows(g, new)
  <2>1. CASE Len(kids) >= 2
    BY <2>1, <1>1, <1>2, AdoptGrows
  <2>2. CASE ~ (Len(kids) >= 2)
    BY <2>2, <1>2 DEF Grows
  <2> QED
    BY <2>1, <2>2
<1>4. ASSUME NEW a \in ToSet(group.kids), NEW b \in ToSet(group.kids), a # b
      PROVE  {a, b} \cap Placed(new) # {}
  <2>1. CASE {a, b} \cap Placed(g) # {}
    BY <2>1, <1>3, GrowsPlaced
  <2>2. CASE {a, b} \cap Placed(g) = {}
    <3>1. a \in ToSet(kids) /\ b \in ToSet(kids)
      BY <2>2, <1>1
    <3>2. Len(kids) >= 2
      BY <3>1, <1>1, <1>4, TwoElements
    <3>3. \A k \in ToSet(kids) : k \in DOMAIN Adopt(g, group.head, kids).parent_of
      BY <1>1, AdoptGrows
    <3>4. a \in DOMAIN new.parent_of
      BY <3>1, <3>2, <3>3, <1>2
    <3> QED
      BY <3>4 DEF Placed
  <2> QED
    BY <2>1, <2>2
<1> QED
  BY <1>3, <1>4 DEF new

(* The first loop: parent is the parent by class of every incident.        *)
NestedHolds(g, start, parent, groups, n) ==
  /\ Grows(start, g)
  /\ \A k \in DOMAIN g.parent_of :
       k \in DOMAIN start.parent_of \/ g.parent_of[k] = parent[k]
  /\ \A j \in 1..n : ToSet(groups[j].kids) \subseteq Placed(g)

LEMMA NestedPlaces ==
  ASSUME NEW start, NEW X, NEW parent, NEW groups, NEW L \in Nat, Len(groups) = L,
         \A j \in 1..L : /\ groups[j].kids \in Seq(X)
                         /\ \A k \in ToSet(groups[j].kids) : parent[k] = groups[j].head,
         NEW f, NestedFun(f, start, groups)
  PROVE  NestedHolds(f[L], start, parent, groups, L)
<1> DEFINE P(n) == NestedHolds(f[n], start, parent, groups, n)
           K    == {n \in 0..L : ~ P(n)}
<1>1. f[0] = start
  BY DEF NestedFun
<1>2. P(0)
  <2>1. 1..0 = {}
    OBVIOUS
  <2> QED
    BY <1>1, <2>1 DEF NestedHolds, Grows
<1>3. ASSUME NEW n \in 1..L, P(n - 1)
      PROVE  P(n)
  <2> DEFINE g   == f[n - 1]
             new == f[n]
  <2>1. new = AdoptClass(g, groups[n])
    <3>1. n \in 0..Len(groups) /\ n # 0
      OBVIOUS
    <3> QED
      BY <3>1 DEF NestedFun
  <2>2. NestedHolds(g, start, parent, groups, n - 1)
    BY <1>3
  <2> HIDE DEF g, new
  <2>3. /\ Grows(g, new)
        /\ ToSet(groups[n].kids) \subseteq Placed(new)
        /\ \A k \in DOMAIN new.parent_of :
             \/ k \in DOMAIN g.parent_of
             \/ k \in ToSet(groups[n].kids) /\ new.parent_of[k] = groups[n].head
    <3> DEFINE group == groups[n]
    <3>1. group.kids \in Seq(X) /\ new = AdoptClass(g, group)
      BY <2>1
    <3> HIDE DEF group
    <3>2. /\ Grows(g, new)
          /\ ToSet(group.kids) \subseteq Placed(new)
          /\ \A k \in DOMAIN new.parent_of :
               k \in DOMAIN g.parent_of \/ (k \in ToSet(group.kids) /\ new.parent_of[k] = group.head)
      BY <3>1, AdoptClassPlaces
    <3> QED
      BY <3>2 DEF group
  <2>4. Grows(start, new)
    BY <2>2, <2>3 DEF NestedHolds, Grows
  <2>5. \A k \in DOMAIN new.parent_of :
          k \in DOMAIN start.parent_of \/ new.parent_of[k] = parent[k]
    BY <2>2, <2>3 DEF NestedHolds, Grows
  <2>6. ASSUME NEW j \in 1..n
        PROVE  ToSet(groups[j].kids) \subseteq Placed(new)
    <3>1. CASE j = n
      BY <3>1, <2>3
    <3>2. CASE j # n
      <4>1. j \in 1..(n - 1)
        BY <3>2
      <4>2. ToSet(groups[j].kids) \subseteq Placed(g)
        BY <4>1, <2>2 DEF NestedHolds
      <4> QED
        BY <4>2, <2>3, GrowsPlaced
    <3> QED
      BY <3>1, <3>2
  <2>7. NestedHolds(new, start, parent, groups, n)
    BY <2>4, <2>5, <2>6 DEF NestedHolds
  <2> QED
    BY <2>7 DEF new
<1> HIDE DEF P
<1>4. K = {}
  <2> SUFFICES ASSUME K # {} PROVE FALSE
    OBVIOUS
  <2>1. PICK n \in K : \A k \in K : ~ (k < n)
    <3>1. K \in SUBSET Nat
      OBVIOUS
    <3> HIDE DEF K
    <3> QED
      BY <3>1, Least
  <2>2. n \in 1..L /\ n - 1 \in 0..L /\ n - 1 < n
    BY <1>2
  <2>3. P(n - 1)
    BY <2>1, <2>2
  <2> QED
    BY <1>3, <2>2, <2>3
<1>5. P(L)
  BY <1>4
<1> QED
  BY <1>5 DEF P

(* The second loop. *)
MergedHolds(g, start, groups, n) ==
  /\ Grows(start, g)
  /\ \A j \in 1..n : \A a, b \in ToSet(groups[j].kids) : a # b => {a, b} \cap Placed(g) # {}

LEMMA MergedPlaces ==
  ASSUME NEW start, NEW X, NEW groups, NEW L \in Nat, Len(groups) = L,
         \A j \in 1..L : groups[j].kids \in Seq(X),
         NEW f, MergedFun(f, start, groups)
  PROVE  MergedHolds(f[L], start, groups, L)
<1> DEFINE P(n) == MergedHolds(f[n], start, groups, n)
           K    == {n \in 0..L : ~ P(n)}
<1>1. f[0] = start
  BY DEF MergedFun
<1>2. P(0)
  <2>1. 1..0 = {}
    OBVIOUS
  <2> QED
    BY <1>1, <2>1 DEF MergedHolds, Grows
<1>3. ASSUME NEW n \in 1..L, P(n - 1)
      PROVE  P(n)
  <2> DEFINE g   == f[n - 1]
             new == f[n]
  <2>1. new = AdoptSynthetic(g, groups[n])
    <3>1. n \in 0..Len(groups) /\ n # 0
      OBVIOUS
    <3> QED
      BY <3>1 DEF MergedFun
  <2>2. /\ Grows(g, new)
        /\ \A a, b \in ToSet(groups[n].kids) : a # b => {a, b} \cap Placed(new) # {}
    BY <2>1, AdoptSyntheticPlaces
  <2>3. MergedHolds(g, start, groups, n - 1)
    BY <1>3
  <2> HIDE DEF g, new
  <2>4. Grows(start, new)
    BY <2>2, <2>3 DEF MergedHolds, Grows
  <2>5. ASSUME NEW j \in 1..n, NEW a \in ToSet(groups[j].kids), NEW b \in ToSet(groups[j].kids),
               a # b
        PROVE  {a, b} \cap Placed(new) # {}
    <3>1. CASE j = n
      BY <3>1, <2>2, <2>5
    <3>2. CASE j # n
      <4>1. j \in 1..(n - 1)
        BY <3>2
      <4>2. {a, b} \cap Placed(g) # {}
        BY <4>1, <2>3, <2>5 DEF MergedHolds
      <4> QED
        BY <4>2, <2>2, GrowsPlaced
    <3> QED
      BY <3>1, <3>2
  <2>6. MergedHolds(new, start, groups, n)
    BY <2>4, <2>5 DEF MergedHolds
  <2> QED
    BY <2>6 DEF new
<1> HIDE DEF P
<1>4. K = {}
  <2> SUFFICES ASSUME K # {} PROVE FALSE
    OBVIOUS
  <2>1. PICK n \in K : \A k \in K : ~ (k < n)
    <3>1. K \in SUBSET Nat
      OBVIOUS
    <3> HIDE DEF K
    <3> QED
      BY <3>1, Least
  <2>2. n \in 1..L /\ n - 1 \in 0..L /\ n - 1 < n
    BY <1>2
  <2>3. P(n - 1)
    BY <2>1, <2>2
  <2> QED
    BY <1>3, <2>2, <2>3
<1>5. P(L)
  BY <1>4
<1> QED
  BY <1>5 DEF P

(* What the merge owes to the class groups and to the containers. *)
LEMMA ComputeGroupingKeepsClasses ==
  ASSUME NEW order, NEW inc, Report(order, inc), NEW nodes
  PROVE  LET ancestor(i) == ClassAncestor(nodes, inc[i])
             parent(i)   == ClassParent(order, inc, nodes, i)
             owner       == GroupByOwner(order, inc)
             g           == ComputeGrouping(order, inc, nodes)
         IN  /\ \A i \in DOMAIN inc : parent(i) # None =>
                  \/ i \in DOMAIN g.children_of \cup DOMAIN owner.parent_of
                  \/ i \in DOMAIN g.parent_of /\ g.parent_of[i] = parent(i)
             /\ \A i, j \in DOMAIN inc :
                  /\ i # j
                  /\ ancestor(i) = ancestor(j)
                  /\ ancestor(i) # None
                  /\ IncidentByEntity(order, inc, ancestor(i)) = None
                  => {i, j} \cap (DOMAIN g.parent_of \cup DOMAIN g.children_of) # {}
<1> DEFINE owner     == GroupByOwner(order, inc)
           classes   == GroupByClass(order, inc, nodes)
           synthetic == BuildSynthetic(order, inc, nodes)
           result    == ComputeGrouping(order, inc, nodes)
           by        == [i \in DOMAIN inc |-> ClassParent(order, inc, nodes, i)]
<1>1. PICK m \in Nat :
        /\ Len(classes) = m
        /\ \A j \in 1..m : /\ ClassGroup(classes[j], inc)
                           /\ \A k \in ToSet(classes[j].kids) :
                                ClassParent(order, inc, nodes, k) = classes[j].head
        /\ \A i \in DOMAIN inc : ClassParent(order, inc, nodes, i) # None =>
             \E j \in 1..m : i \in ToSet(classes[j].kids)
  BY ClassGroups
<1>2. PICK n \in Nat :
        /\ Len(synthetic) = n
        /\ \A j \in 1..n : SyntheticGroup(synthetic[j], inc)
        /\ \A a, b \in DOMAIN inc :
             /\ a # b
             /\ ClassAncestor(nodes, inc[a]) = ClassAncestor(nodes, inc[b])
             /\ ClassAncestor(nodes, inc[a]) # None
             /\ IncidentByEntity(order, inc, ClassAncestor(nodes, inc[a])) = None
             => \E j \in 1..n : {a, b} \subseteq ToSet(synthetic[j].kids)
  BY SyntheticGroups
<1>3. /\ \A j \in 1..m : classes[j].kids \in Seq(DOMAIN inc)
      /\ \A j \in 1..n : synthetic[j].kids \in Seq(DOMAIN inc)
  BY <1>1, <1>2 DEF ClassGroup, SyntheticGroup
<1>4. result = MergeGroupings(owner, classes, synthetic)
  BY DEF ComputeGrouping
<1> HIDE DEF owner, classes, synthetic, result
<1>5. \A j \in 1..m : \A k \in ToSet(classes[j].kids) : by[k] = classes[j].head
  <2>1. \A j \in 1..m : ToSet(classes[j].kids) \subseteq DOMAIN inc
    BY <1>3, Elements
  <2> QED
    BY <1>1, <2>1
<1>6. PICK f, g : /\ NestedFun(f, owner, classes)
                  /\ MergedFun(g, f[m], synthetic)
                  /\ result = g[n]
  BY <1>1, <1>2, <1>4, MergeIs
<1>b. \A i \in DOMAIN inc : by[i] = ClassParent(order, inc, nodes, i)
  OBVIOUS
<1> HIDE DEF by
<1>7. NestedHolds(f[m], owner, by, classes, m)
  BY <1>1, <1>3, <1>5, <1>6, NestedPlaces
<1>8. MergedHolds(result, f[m], synthetic, n)
  BY <1>2, <1>3, <1>6, MergedPlaces
<1>9. ASSUME NEW i \in DOMAIN inc, ClassParent(order, inc, nodes, i) # None
      PROVE  \/ i \in DOMAIN result.children_of \cup DOMAIN owner.parent_of
             \/ /\ i \in DOMAIN result.parent_of
                /\ result.parent_of[i] = ClassParent(order, inc, nodes, i)
  <2>1. PICK j \in 1..m : i \in ToSet(classes[j].kids)
    BY <1>1, <1>9
  <2>2. i \in Placed(f[m])
    BY <2>1, <1>7 DEF NestedHolds
  <2>3. Grows(f[m], result)
    BY <1>8 DEF MergedHolds
  <2>4. CASE i \in DOMAIN f[m].children_of
    BY <2>3, <2>4 DEF Grows
  <2>5. CASE i \in DOMAIN f[m].parent_of
    <3>1. i \in DOMAIN owner.parent_of \/ f[m].parent_of[i] = by[i]
      BY <2>5, <1>7 DEF NestedHolds
    <3>2. i \in DOMAIN result.parent_of /\ result.parent_of[i] = f[m].parent_of[i]
      BY <2>3, <2>5 DEF Grows
    <3> QED
      BY <3>1, <3>2, <1>b
  <2> QED
    BY <2>2, <2>4, <2>5 DEF Placed
<1>10. ASSUME NEW a \in DOMAIN inc, NEW b \in DOMAIN inc, a # b,
              ClassAncestor(nodes, inc[a]) = ClassAncestor(nodes, inc[b]),
              ClassAncestor(nodes, inc[a]) # None,
              IncidentByEntity(order, inc, ClassAncestor(nodes, inc[a])) = None
       PROVE  {a, b} \cap (DOMAIN result.parent_of \cup DOMAIN result.children_of) # {}
  <2>1. PICK j \in 1..n : {a, b} \subseteq ToSet(synthetic[j].kids)
    BY <1>2, <1>10
  <2>2. {a, b} \cap Placed(result) # {}
    BY <2>1, <1>8, <1>10 DEF MergedHolds
  <2> QED
    BY <2>2 DEF Placed
<1> QED
  BY <1>9, <1>10 DEF owner, result

-----------------------------------------------------------------------------
(***************************************************************************)
(* The groups of a response.                                               *)
(***************************************************************************)
LEMMA MembersAre ==
  ASSUME NEW g, NEW inc, Filed(g, inc), NEW row
  PROVE  /\ \E Y : MemberRows(inc, g, row) \in Seq(Y)
         /\ ToSet(MemberRows(inc, g, row)) =
              ({row} \cup ToSet(Children(g, row))) \cap DOMAIN inc
         /\ row \notin DOMAIN g.parent_of => IsInjective(MemberRows(inc, g, row))
<1> DEFINE Y == {row} \cup DOMAIN inc
           one == <<row>>
           all == one \o Children(g, row)
<1>1. /\ Children(g, row) \in Seq(DOMAIN inc) /\ IsInjective(Children(g, row))
      /\ \A k \in ToSet(Children(g, row)) : k \in DOMAIN g.parent_of
  BY ChildrenAre
<1>2. Children(g, row) \in Seq(Y)
  BY <1>1, SeqMonotonic
<1>3. one \in Seq(Y) /\ ToSet(one) = {row} /\ IsInjective(one)
  <2>1. <<row>> \in Seq(Y)
    OBVIOUS
  <2>2. DOMAIN <<row>> = {1} /\ <<row>>[1] = row
    OBVIOUS
  <2> QED
    BY <2>1, <2>2 DEF ToSet, IsInjective
<1>4. /\ all \in Seq(Y) /\ ToSet(all) = {row} \cup ToSet(Children(g, row))
      /\ row \notin DOMAIN g.parent_of => IsInjective(all)
  <2> HIDE DEF Y, one
  <2>1. row \notin DOMAIN g.parent_of => ToSet(one) \cap ToSet(Children(g, row)) = {}
    BY <1>1, <1>3
  <2> QED
    BY <1>1, <1>2, <1>3, <2>1, ConcatElements
<1> HIDE DEF Y, all
<1>5. /\ Those(all, DOMAIN inc) \in Seq(Y)
      /\ ToSet(Those(all, DOMAIN inc)) = ToSet(all) \cap DOMAIN inc
      /\ IsInjective(all) => IsInjective(Those(all, DOMAIN inc))
  BY <1>4, ThoseElements
<1> QED
  BY <1>4, <1>5 DEF MemberRows, all

(* The groups specs have each incident of the report for a member, and once. *)
ShowsEachOnce(specs, inc) ==
  LET places   == UNION {{j} \X DOMAIN specs[j].members : j \in DOMAIN specs}
      shown(p) == specs[p[1]].members[p[2]]
  IN  /\ {shown(p) : p \in places} = DOMAIN inc
      /\ \A p, q \in places : shown(p) = shown(q) => p = q

LEMMA SpecsShowEachOnce ==
  ASSUME NEW g, NEW inc, Filed(g, inc),
         NEW X, NEW rows \in Seq(X), IsInjective(rows), DOMAIN inc \subseteq ToSet(rows)
  PROVE  ShowsEachOnce(IterGroupSpecs(rows, inc, g), inc)
<1> DEFINE specs    == IterGroupSpecs(rows, inc, g)
           places   == UNION {{j} \X DOMAIN specs[j].members : j \in DOMAIN specs}
           at(p)    == specs[p[1]].members[p[2]]
           mem(row) == MemberRows(inc, g, row)
           heading  == {row \in ToSet(rows) \ DOMAIN g.parent_of : mem(row) # <<>>}
           heads    == Those(rows, heading)
           m        == Len(heads)
           shown    == UNION {ToSet(mem(heads[j])) : j \in DOMAIN heads}
           others   == DOMAIN inc \ shown
           rest     == Those(rows, others)
           n        == Len(rest)
           A        == [j \in 1..m |-> [head |-> heads[j], members |-> mem(heads[j])]]
           B        == [j \in 1..n |-> [head |-> rest[j], members |-> <<rest[j]>>]]
<1>1. /\ heads \in Seq(X) /\ IsInjective(heads) /\ ToSet(heads) = ToSet(rows) \cap heading
  <2> HIDE DEF heading
  <2> QED
    BY ThoseElements
<1>2. /\ rest \in Seq(X) /\ IsInjective(rest) /\ ToSet(rest) = ToSet(rows) \cap others
  <2> HIDE DEF others
  <2> QED
    BY ThoseElements
<1>3. /\ m \in Nat /\ DOMAIN heads = 1..m
      /\ n \in Nat /\ DOMAIN rest = 1..n
  <2> HIDE DEF heads, rest
  <2> QED
    BY <1>1, <1>2, LenProperties
<1>4. specs = A \o B
  BY <1>3 DEF IterGroupSpecs
<1>5. ASSUME NEW j \in 1..m
      PROVE  /\ heads[j] \notin DOMAIN g.parent_of
             /\ IsInjective(mem(heads[j]))
             /\ \E Y : mem(heads[j]) \in Seq(Y)
             /\ ToSet(mem(heads[j])) =
                  ({heads[j]} \cup ToSet(Children(g, heads[j]))) \cap DOMAIN inc
  <2>1. heads[j] \in ToSet(heads)
    BY <1>3 DEF ToSet
  <2>2. heads[j] \in heading
    BY <1>1, <2>1
  <2>3. heads[j] \notin DOMAIN g.parent_of
    BY <2>2
  <2> HIDE DEF heads
  <2> QED
    BY <2>3, MembersAre
<1>6. \A j \in 1..n : rest[j] \in others
  BY <1>2, <1>3 DEF ToSet
<1>7. others \subseteq ToSet(rest)
  BY <1>2
<1>8. /\ shown \subseteq DOMAIN inc
      /\ \A j \in 1..m : ToSet(mem(heads[j])) \subseteq shown
      /\ \A i \in shown : \E j \in 1..m : i \in ToSet(mem(heads[j]))
  BY <1>3, <1>5
<1>9. others = DOMAIN inc \ shown
  OBVIOUS
(* No incident is a member of two heads. *)
<1>10. ASSUME NEW j \in 1..m, NEW k \in 1..m, NEW i,
              i \in ToSet(mem(heads[j])), i \in ToSet(mem(heads[k]))
       PROVE  j = k
  <2> HIDE DEF heads, mem
  <2>1. \A h : \A x \in ToSet(Children(g, h)) : x \in DOMAIN g.parent_of /\ g.parent_of[x] = h
    BY ChildrenAre
  <2>2. /\ i = heads[j] \/ i \in ToSet(Children(g, heads[j]))
        /\ heads[j] \notin DOMAIN g.parent_of
    BY <1>5, <1>10
  <2>3. /\ i = heads[k] \/ i \in ToSet(Children(g, heads[k]))
        /\ heads[k] \notin DOMAIN g.parent_of
    BY <1>5, <1>10
  <2>4. heads[j] = heads[k]
    BY <2>1, <2>2, <2>3
  <2> QED
    BY <2>4, <1>1, <1>3 DEF IsInjective
<1> HIDE DEF heads, rest, others, shown, mem, m, n
<1>11. /\ DOMAIN specs = 1..(m + n)
       /\ \A j \in 1..m : j \in 1..(m + n) /\ specs[j].members = mem(heads[j])
       /\ \A j \in 1..n : j + m \in 1..(m + n) /\ specs[j + m].members = <<rest[j]>>
  <2> DEFINE Y == {A[j] : j \in 1..m} \cup {B[j] : j \in 1..n}
  <2>1. A \in Seq(Y) /\ Len(A) = m
    BY <1>3
  <2>2. B \in Seq(Y) /\ Len(B) = n
    BY <1>3
  <2>3. (\A j \in 1..m : A[j].members = mem(heads[j])) /\ (\A j \in 1..n : B[j].members = <<rest[j]>>)
    OBVIOUS
  <2> HIDE DEF A, B, Y, specs
  <2>4. /\ specs \in Seq(Y) /\ Len(specs) = m + n
        /\ \A j \in 1..(m + n) : specs[j] = IF j <= m THEN A[j] ELSE B[j - m]
    BY <1>4, <2>1, <2>2, ConcatProperties
  <2>5. DOMAIN specs = 1..(m + n)
    BY <2>4, LenProperties
  <2>6. \A j \in 1..m : j \in 1..(m + n) /\ specs[j] = A[j]
    BY <1>3, <2>4
  <2>7. \A j \in 1..n : j + m \in 1..(m + n) /\ specs[j + m] = B[j]
    <3> TAKE j \in 1..n
    <3>1. j + m \in 1..(m + n) /\ ~ (j + m <= m) /\ (j + m) - m = j
      BY <1>3
    <3> QED
      BY <3>1, <2>4
  <2> QED
    BY <2>3, <2>5, <2>6, <2>7
<1>12. \A j \in 1..(m + n) : j \in 1..m \/ \E k \in 1..n : j = k + m
  <2> TAKE j \in 1..(m + n)
  <2>1. j \in 1..m \/ (j - m \in 1..n /\ j = (j - m) + m)
    BY <1>3
  <2> QED
    BY <2>1
<1> HIDE DEF specs
(* Where an incident is shown. *)
<1>13. ASSUME NEW p \in places
       PROVE  \/ /\ p[1] \in 1..m /\ p[2] \in DOMAIN mem(heads[p[1]])
                 /\ at(p) = mem(heads[p[1]])[p[2]]
                 /\ at(p) \in ToSet(mem(heads[p[1]]))
              \/ \E k \in 1..n : p[1] = k + m /\ p[2] = 1 /\ at(p) = rest[k]
  <2>1. /\ p[1] \in 1..(m + n)
        /\ p[2] \in DOMAIN specs[p[1]].members
    BY <1>11
  <2>2. CASE p[1] \in 1..m
    BY <2>1, <2>2, <1>11 DEF ToSet
  <2>3. ASSUME NEW k \in 1..n, p[1] = k + m
        PROVE  p[2] = 1 /\ at(p) = rest[k]
    <3>1. specs[p[1]].members = <<rest[k]>>
      BY <2>3, <1>11
    <3>2. DOMAIN <<rest[k]>> = {1} /\ <<rest[k]>>[1] = rest[k]
      OBVIOUS
    <3> QED
      BY <2>1, <3>1, <3>2
  <2> QED
    BY <2>1, <2>2, <2>3, <1>12
<1>14. \A p \in places : p = <<p[1], p[2]>>
  OBVIOUS
<1>15. \A j \in 1..(m + n) : \A x \in DOMAIN specs[j].members : <<j, x>> \in places
  BY <1>11
<1>16. {at(p) : p \in places} = DOMAIN inc
  <2>1. ASSUME NEW p \in places
        PROVE  at(p) \in DOMAIN inc
    BY <1>6, <1>8, <1>9, <1>13
  <2>2. ASSUME NEW i \in DOMAIN inc
        PROVE  \E p \in places : at(p) = i
    <3>1. CASE i \in shown
      <4>1. PICK j \in 1..m : i \in ToSet(mem(heads[j]))
        BY <3>1, <1>8
      <4>2. PICK x \in DOMAIN mem(heads[j]) : mem(heads[j])[x] = i
        BY <4>1 DEF ToSet
      <4>3. <<j, x>> \in places /\ at(<<j, x>>) = i
        BY <4>2, <1>11, <1>15
      <4> QED
        BY <4>3
    <3>2. CASE i \notin shown
      <4>1. PICK k \in 1..n : rest[k] = i
        BY <3>2, <1>3, <1>7, <1>9 DEF ToSet
      <4>2. 1 \in DOMAIN <<rest[k]>> /\ <<rest[k]>>[1] = i
        BY <4>1
      <4>3. <<k + m, 1>> \in places /\ at(<<k + m, 1>>) = i
        BY <4>2, <1>11, <1>15
      <4> QED
        BY <4>3
    <3> QED
      BY <3>1, <3>2
  <2> QED
    BY <2>1, <2>2
<1>17. ASSUME NEW p \in places, NEW q \in places, at(p) = at(q)
       PROVE  p = q
  <2> DEFINE head(x) == /\ x[1] \in 1..m /\ x[2] \in DOMAIN mem(heads[x[1]])
                        /\ at(x) = mem(heads[x[1]])[x[2]]
                        /\ at(x) \in ToSet(mem(heads[x[1]]))
             alone(x) == \E k \in 1..n : x[1] = k + m /\ x[2] = 1 /\ at(x) = rest[k]
  <2>1. (head(p) \/ alone(p)) /\ (head(q) \/ alone(q))
    BY <1>13
  <2>2. \A x : head(x) => at(x) \in shown
    BY <1>8
  <2>3. \A x : alone(x) => at(x) \notin shown
    BY <1>6, <1>9
  <2>4. CASE head(p) /\ head(q)
    <3>1. p[1] = q[1]
      BY <2>4, <1>10, <1>17
    <3>2. p[2] = q[2]
      BY <2>4, <3>1, <1>5, <1>17 DEF IsInjective
    <3> QED
      BY <3>1, <3>2, <1>14
  <2>5. CASE alone(p) /\ alone(q)
    <3>1. PICK k \in 1..n : p[1] = k + m /\ p[2] = 1 /\ at(p) = rest[k]
      BY <2>5
    <3>2. PICK l \in 1..n : q[1] = l + m /\ q[2] = 1 /\ at(q) = rest[l]
      BY <2>5
    <3>3. k = l
      BY <3>1, <3>2, <1>2, <1>3, <1>17 DEF IsInjective
    <3> QED
      BY <3>1, <3>2, <3>3, <1>14
  <2> HIDE DEF head, alone
  <2> QED
    BY <2>1, <2>2, <2>3, <2>4, <2>5, <1>17
<1> QED
  BY <1>16, <1>17 DEF specs, ShowsEachOnce

(* Rows without repetition that contain the report. *)
Rows(rows, inc) ==
  /\ \E X : rows \in Seq(X)
  /\ IsInjective(rows)
  /\ DOMAIN inc \subseteq ToSet(rows)

LEMMA ProcessedRowsAre ==
  ASSUME NEW order, NEW inc, Report(order, inc), OwnIds(inc), NEW nodes
  PROVE  Rows(ProcessedRows(order, inc, nodes), inc)
<1> DEFINE containers == BuildSynthetic(order, inc, nodes)
<1>1. PICK n \in Nat : /\ DOMAIN containers = 1..n
                       /\ \A j \in 1..n : SyntheticGroup(containers[j], inc)
                       /\ \A j, k \in 1..n : containers[j].head = containers[k].head => j = k
  BY SyntheticGroups
<1> DEFINE heads == [j \in 1..n |-> containers[j].head]
           H     == {containers[j].head : j \in 1..n}
           X     == H \cup DOMAIN inc
<1>2. ProcessedRows(order, inc, nodes) = heads \o order
  BY <1>1 DEF ProcessedRows
<1>3. H \cap DOMAIN inc = {}
  BY <1>1 DEF SyntheticGroup, OwnIds
<1> HIDE DEF containers
<1>4. IsInjective(heads) /\ ToSet(heads) = H
  BY <1>1 DEF IsInjective, ToSet
<1>5. heads \in Seq(X)
  OBVIOUS
<1> HIDE DEF heads, H
<1>6. /\ order \in Seq(X)
      /\ IsInjective(order)
      /\ ToSet(order) = DOMAIN inc
  BY SeqMonotonic DEF Report
<1> HIDE DEF X
<1>7. /\ heads \o order \in Seq(X)
      /\ ToSet(heads \o order) = H \cup DOMAIN inc
      /\ IsInjective(heads \o order)
  BY <1>3, <1>4, <1>5, <1>6, ConcatElements
<1> QED
  BY <1>2, <1>7 DEF Rows

-----------------------------------------------------------------------------
(***************************************************************************)
(* The lists of SAYMON and the pages of them.                              *)
(***************************************************************************)
LEMMA PieceIs ==
  ASSUME NEW X, NEW l \in Seq(X), NEW m \in Nat \ {0}, NEW n \in Nat, n <= Len(l)
  PROVE  /\ SubSeq(l, m, n) \in Seq(X)
         /\ Len(SubSeq(l, m, n)) = IF m <= n THEN n - m + 1 ELSE 0
         /\ \A j \in 1..(n - m + 1) : SubSeq(l, m, n)[j] = l[m + j - 1]
<1>1. Len(l) \in Nat /\ \A j \in 1..Len(l) : l[j] \in X
  BY LenProperties, ElementOfSeq
<1>2. \A j \in m..n : l[j] \in X
  BY <1>1
<1> QED
  BY <1>2, SubSeqProperties

(* The elements of a sequence that stand behind position n. *)
Behind(l, n) == {l[j] : j \in {k \in DOMAIN l : k > n}}

(* An entry that comes into a list moves nothing forward. *)
LEMMA InsertedIs ==
  ASSUME NEW X, NEW l \in Seq(X), NEW e \in X, NEW q \in 1..(Len(l) + 1)
  PROVE  LET t == InsertAt(l, q, e)
         IN  /\ t \in Seq(X)
             /\ ToSet(t) = ToSet(l) \cup {e}
             /\ \A n \in Nat : Behind(l, n) \subseteq Behind(t, n)
<1> DEFINE u == SubSeq(l, 1, q - 1)
           v == SubSeq(l, q, Len(l))
           N == Len(l)
<1>1. N \in Nat /\ DOMAIN l = 1..N /\ q \in Nat \ {0} /\ q - 1 \in Nat /\ q <= N + 1
  BY LenProperties
<1>2. /\ u \in Seq(X) /\ Len(u) = q - 1
      /\ \A j \in 1..(q - 1) : u[j] = l[j]
  <2>1. /\ u \in Seq(X) /\ Len(u) = IF 1 <= q - 1 THEN q - 1 - 1 + 1 ELSE 0
        /\ \A j \in 1..(q - 1 - 1 + 1) : u[j] = l[1 + j - 1]
    BY <1>1, PieceIs
  <2>2. q - 1 - 1 + 1 = q - 1 /\ \A j \in 1..(q - 1) : 1 + j - 1 = j
    BY <1>1
  <2> QED
    BY <1>1, <2>1, <2>2
<1>3. /\ v \in Seq(X) /\ Len(v) = N - q + 1
      /\ \A j \in 1..(N - q + 1) : v[j] = l[q + j - 1]
  BY <1>1, PieceIs
<1>4. <<e>> \in Seq(X) /\ Len(<<e>>) = 1 /\ <<e>>[1] = e /\ ToSet(<<e>>) = {e}
  BY DEF ToSet
<1> HIDE DEF u, v
<1> DEFINE w == u \o <<e>>
           t == w \o v
<1>5. InsertAt(l, q, e) = t
  BY DEF InsertAt, u, v
<1>6. /\ w \in Seq(X) /\ Len(w) = q
      /\ \A j \in 1..(q - 1) : w[j] = u[j]
      /\ ToSet(w) = ToSet(u) \cup {e}
  <2>1. /\ w \in Seq(X) /\ Len(w) = Len(u) + 1
        /\ \A j \in 1..(Len(u) + 1) : w[j] = IF j <= Len(u) THEN u[j] ELSE <<e>>[j - Len(u)]
    BY <1>2, <1>4, ConcatProperties
  <2>2. ToSet(w) = ToSet(u) \cup {e}
    <3>1. ToSet(u \o <<e>>) = ToSet(u) \cup ToSet(<<e>>)
      BY <1>2, <1>4, ConcatElements
    <3> QED
      BY <3>1, <1>4
  <2> QED
    BY <1>1, <1>2, <2>1, <2>2
<1> HIDE DEF w
<1>7. /\ t \in Seq(X) /\ Len(t) = N + 1
      /\ \A j \in 1..(N + 1) : t[j] = IF j <= q THEN w[j] ELSE v[j - q]
      /\ ToSet(t) = ToSet(u) \cup {e} \cup ToSet(v)
  <2>1. /\ t \in Seq(X) /\ Len(t) = Len(w) + Len(v)
        /\ \A j \in 1..(Len(w) + Len(v)) : t[j] = IF j <= Len(w) THEN w[j] ELSE v[j - Len(w)]
    BY <1>3, <1>6, ConcatProperties
  <2>2. ToSet(t) = ToSet(w) \cup ToSet(v)
    BY <1>3, <1>6, ConcatElements
  <2> QED
    BY <1>1, <1>3, <1>6, <2>1, <2>2
<1> HIDE DEF t
<1>8. DOMAIN t = 1..(N + 1)
  BY <1>7, LenProperties
<1>9. ASSUME NEW j \in 1..N
      PROVE  \E k \in 1..(N + 1) : k >= j /\ t[k] = l[j]
  <2>1. CASE j < q
    <3>1. j \in 1..(q - 1) /\ j \in 1..(N + 1) /\ j <= q /\ j >= j
      BY <1>1, <2>1
    <3> QED
      BY <1>2, <1>6, <1>7, <3>1
  <2>2. CASE ~ (j < q)
    <3>1. /\ j + 1 \in 1..(N + 1) /\ ~ (j + 1 <= q) /\ j + 1 >= j
          /\ j + 1 - q \in 1..(N - q + 1) /\ q + (j + 1 - q) - 1 = j
      BY <1>1, <2>2
    <3>2. t[j + 1] = v[j + 1 - q] /\ v[j + 1 - q] = l[q + (j + 1 - q) - 1]
      BY <1>3, <1>7, <3>1
    <3> QED
      BY <3>1, <3>2
  <2> QED
    BY <2>1, <2>2
<1>10. ToSet(u) \subseteq ToSet(l) /\ ToSet(v) \subseteq ToSet(l)
  <2>1. \A j \in 1..(q - 1) : j \in 1..N
    BY <1>1
  <2>2. \A j \in 1..(N - q + 1) : q + j - 1 \in 1..N
    BY <1>1
  <2>3. ToSet(u) \subseteq ToSet(l)
    BY <1>1, <1>2, <2>1, Elements
  <2>4. ASSUME NEW x \in ToSet(v)
        PROVE  x \in ToSet(l)
    <3>1. PICK j \in 1..(N - q + 1) : v[j] = x
      BY <1>3, Elements
    <3>2. q + j - 1 \in 1..N /\ l[q + j - 1] = x
      BY <1>3, <2>2, <3>1
    <3> QED
      BY <3>2, Elements
  <2> QED
    BY <2>3, <2>4
<1>11. ToSet(l) \subseteq ToSet(t)
  <2> SUFFICES ASSUME NEW x \in ToSet(l)
               PROVE  x \in ToSet(t)
    OBVIOUS
  <2>1. PICK j \in 1..N : l[j] = x
    BY <1>1 DEF ToSet
  <2> QED
    BY <1>8, <1>9, <2>1 DEF ToSet
<1>12. ASSUME NEW n \in Nat
       PROVE  Behind(l, n) \subseteq Behind(t, n)
  <2> SUFFICES ASSUME NEW j \in 1..N, j > n
               PROVE  l[j] \in Behind(t, n)
    BY <1>1 DEF Behind
  <2>1. PICK k \in 1..(N + 1) : k >= j /\ t[k] = l[j]
    BY <1>9
  <2>2. k > n
    BY <1>1, <2>1
  <2> QED
    BY <1>8, <2>1, <2>2 DEF Behind
<1> QED
  BY <1>5, <1>7, <1>10, <1>11, <1>12

(* One that goes leaves those before it where they are. *)
LEMMA RemovedIs ==
  ASSUME NEW X, NEW l \in Seq(X), NEW p \in 1..Len(l)
  PROVE  LET t == RemoveAt(l, p)
         IN  /\ t \in Seq(X)
             /\ \A x \in ToSet(l) : x \in ToSet(t) \/ x = l[p]
             /\ \A n \in Nat : Behind(l, n) \subseteq Behind(t, n) \cup {l[p]} \cup Behind(l, p)
<1> DEFINE u == SubSeq(l, 1, p - 1)
           v == SubSeq(l, p + 1, Len(l))
           N == Len(l)
<1>1. N \in Nat /\ DOMAIN l = 1..N /\ p \in Nat \ {0} /\ p - 1 \in Nat /\ p <= N
      /\ p + 1 \in Nat \ {0}
  BY LenProperties
<1>2. /\ u \in Seq(X) /\ Len(u) = p - 1
      /\ \A j \in 1..(p - 1) : u[j] = l[j]
  <2>1. /\ u \in Seq(X) /\ Len(u) = IF 1 <= p - 1 THEN p - 1 - 1 + 1 ELSE 0
        /\ \A j \in 1..(p - 1 - 1 + 1) : u[j] = l[1 + j - 1]
    BY <1>1, PieceIs
  <2>2. p - 1 - 1 + 1 = p - 1 /\ \A j \in 1..(p - 1) : 1 + j - 1 = j
    BY <1>1
  <2> QED
    BY <1>1, <2>1, <2>2
<1>3. /\ v \in Seq(X) /\ Len(v) = N - p
      /\ \A j \in 1..(N - p) : v[j] = l[p + j]
  <2>1. /\ v \in Seq(X) /\ Len(v) = IF p + 1 <= N THEN N - (p + 1) + 1 ELSE 0
        /\ \A j \in 1..(N - (p + 1) + 1) : v[j] = l[(p + 1) + j - 1]
    BY <1>1, PieceIs
  <2>2. N - (p + 1) + 1 = N - p /\ \A j \in 1..(N - p) : (p + 1) + j - 1 = p + j
    BY <1>1
  <2>3. Len(v) = N - p
    <3>1. p \in Nat /\ N \in Nat /\ p <= N
      BY <1>1
    <3> HIDE DEF N
    <3>2. ~ (p + 1 <= N) => N - p = 0
      BY <3>1
    <3> QED
      BY <2>1, <2>2, <3>2
  <2>4. ASSUME NEW j \in 1..(N - p)
        PROVE  v[j] = l[p + j]
    <3>1. j \in 1..(N - (p + 1) + 1) /\ (p + 1) + j - 1 = p + j
      BY <2>2
    <3> QED
      BY <2>1, <3>1
  <2> QED
    BY <2>1, <2>3, <2>4
<1> HIDE DEF u, v
<1> DEFINE t == u \o v
<1>4. RemoveAt(l, p) = t
  BY DEF RemoveAt, u, v
<1>5. /\ t \in Seq(X) /\ Len(t) = N - 1
      /\ \A j \in 1..(p - 1) : t[j] = u[j]
      /\ ToSet(t) = ToSet(u) \cup ToSet(v)
  <2>1. /\ t \in Seq(X) /\ Len(t) = Len(u) + Len(v)
        /\ \A j \in 1..(Len(u) + Len(v)) : t[j] = IF j <= Len(u) THEN u[j] ELSE v[j - Len(u)]
    BY <1>2, <1>3, ConcatProperties
  <2>2. ToSet(t) = ToSet(u) \cup ToSet(v)
    BY <1>2, <1>3, ConcatElements
  <2> QED
    BY <1>1, <1>2, <1>3, <2>1, <2>2
<1> HIDE DEF t
<1>6. DOMAIN t = 1..(N - 1)
  BY <1>5, LenProperties
<1>7. ASSUME NEW x \in ToSet(l), x # l[p]
      PROVE  x \in ToSet(t)
  <2>1. PICK j \in 1..N : l[j] = x
    BY <1>1 DEF ToSet
  <2>2. CASE j < p
    <3>1. j \in 1..(p - 1)
      BY <1>1, <2>2
    <3>2. x \in ToSet(u)
      BY <1>2, <2>1, <3>1, Elements
    <3> QED
      BY <1>5, <3>2
  <2>3. CASE j > p
    <3>1. j - p \in 1..(N - p) /\ p + (j - p) = j
      BY <1>1, <2>3
    <3>2. v[j - p] = x
      BY <1>3, <2>1, <3>1
    <3>3. x \in ToSet(v)
      BY <1>3, <3>1, <3>2, Elements
    <3> QED
      BY <1>5, <3>3
  <2> QED
    BY <1>1, <1>7, <2>1, <2>2, <2>3
<1>8. ASSUME NEW n \in Nat
      PROVE  Behind(l, n) \subseteq Behind(t, n) \cup {l[p]} \cup Behind(l, p)
  <2> SUFFICES ASSUME NEW j \in 1..N, j > n, j < p
               PROVE  l[j] \in Behind(t, n)
    <3>1. \A j \in 1..N : j < p \/ j = p \/ j > p
      BY <1>1
    <3> QED
      BY <1>1, <3>1 DEF Behind
  <2>1. j \in 1..(p - 1) /\ j \in 1..(N - 1)
    BY <1>1
  <2>2. t[j] = l[j]
    BY <1>2, <1>5, <2>1
  <2> QED
    BY <1>6, <2>1, <2>2 DEF Behind
<1> QED
  BY <1>4, <1>5, <1>7, <1>8

(***************************************************************************)
(* What stands behind the records a read has is in the next page or stands *)
(* behind what it has then; when that page is the last, beyond the limit.  *)
(***************************************************************************)
Lists == listed \in [Endpoints -> Seq(Incident)]

LEMMA PageIs ==
  ASSUME Lists, NEW e \in Endpoints, NEW got \in Seq(Incident)
  PROVE  LET l == listed[e]
             more == WithPage(e, got)
         IN  /\ more \in Seq(Incident)
             /\ ToSet(got) \subseteq ToSet(more)
             /\ Behind(l, Len(got)) \subseteq ToSet(more) \cup Behind(l, Len(more))
             /\ IsLast(e, got) => Behind(l, Len(more)) \subseteq Beyond(e)
<1> DEFINE l    == listed[e]
           N    == Len(l)
           n    == Len(got)
           b    == BatchLimit(e, got)
           last == Lesser(n + b, N)
           page == Page(e, got)
           more == WithPage(e, got)
<1>1. /\ l \in Seq(Incident) /\ N \in Nat /\ DOMAIN l = 1..N /\ n \in Nat
      /\ Limit(e) \in Nat \ {0} /\ PageSize \in Nat \ {0}
  BY LenProperties, LimitAssumption DEF Lists, Limit
<1>2. b = IF PageSize <= Limit(e) - n THEN PageSize ELSE Limit(e) - n
  BY DEF BatchLimit, Lesser
<1>3. last = IF n + b <= N THEN n + b ELSE N
  BY DEF Lesser
<1>4. b \in Int /\ last \in Int /\ last <= N /\ last <= n + b
  <2>1. b \in Int
    BY <1>1, <1>2
  <2> HIDE DEF b
  <2> QED
    BY <1>1, <1>3, <2>1
<1>5. page = SubSeq(l, n + 1, last) /\ more = got \o page
  BY DEF Page, WithPage
<1> HIDE DEF b, last, page, more, l, n, N
<1>6. /\ page \in Seq(Incident)
      /\ Len(page) = IF n + 1 <= last THEN last - n ELSE 0
      /\ \A j \in 1..(last - n) : page[j] = l[n + j]
  <2>1. \A j \in (n + 1)..last : l[j] \in Incident
    <3>1. \A j \in 1..N : l[j] \in Incident
      BY <1>1, ElementOfSeq DEF N
    <3> QED
      BY <1>1, <1>4, <3>1
  <2>2. /\ page \in Seq(Incident)
        /\ Len(page) = IF n + 1 <= last THEN last - (n + 1) + 1 ELSE 0
        /\ \A j \in 1..(last - (n + 1) + 1) : page[j] = l[(n + 1) + j - 1]
    <3>1. n + 1 \in Int
      BY <1>1
    <3> QED
      BY <1>4, <1>5, <2>1, <3>1, SubSeqProperties
  <2>3. last - (n + 1) + 1 = last - n /\ \A j \in 1..(last - n) : (n + 1) + j - 1 = n + j
    BY <1>1, <1>4
  <2> QED
    BY <2>2, <2>3
<1>7. /\ more \in Seq(Incident) /\ Len(more) = n + Len(page) /\ Len(page) \in Nat
      /\ ToSet(more) = ToSet(got) \cup ToSet(page)
  BY <1>5, <1>6, ConcatProperties, ConcatElements, LenProperties DEF n
<1>8. ASSUME NEW j \in 1..N, j > n, ~ (j > Len(more))
      PROVE  l[j] \in ToSet(page)
  <2>1. j - n \in 1..Len(page) /\ j - n \in 1..(last - n) /\ n + (j - n) = j
    BY <1>1, <1>4, <1>6, <1>7, <1>8
  <2>2. page[j - n] = l[j]
    BY <1>6, <2>1
  <2> QED
    BY <1>6, <2>1, <2>2, Elements
<1>9. Behind(l, n) \subseteq ToSet(more) \cup Behind(l, Len(more))
  BY <1>1, <1>7, <1>8 DEF Behind
<1>10. ASSUME IsLast(e, got), NEW j \in 1..N, j > Len(more)
       PROVE  j > Limit(e)
  <2>1. Len(page) < b \/ Len(more) >= Limit(e)
    BY <1>10 DEF IsLast, page, more, b
  <2>2. CASE Len(page) < b
    BY <1>1, <1>3, <1>4, <1>6, <1>7, <1>10, <2>2
  <2>3. CASE Len(more) >= Limit(e)
    BY <1>1, <1>7, <1>10, <2>3
  <2> QED
    BY <2>1, <2>2, <2>3
<1>11. IsLast(e, got) => Behind(l, Len(more)) \subseteq Beyond(e)
  BY <1>1, <1>10 DEF Behind, Beyond, l
<1> QED
  BY <1>7, <1>9, <1>11 DEF l, n, more

-----------------------------------------------------------------------------
(***************************************************************************)
(* The requests. ContainersHaveTheirOwnIds: SYNTH_PREFIX (merge.py) gives  *)
(* a container an id that no incident has.                                 *)
(***************************************************************************)
ContainersHaveTheirOwnIds == \A o : SyntheticId(o) \notin Incident

(* x has the fields of a request. *)
IsRequest(x) ==
  x \in [pc : {x.pc}, due : {x.due}, shifted : {x.shifted}, got : {x.got}, first : {x.first},
         inc : {x.inc}, grouping : {x.grouping}, naming : {x.naming}, rows : {x.rows}]

LEMMA RecordIsRequest ==
  ASSUME NEW p, NEW d, NEW s, NEW t, NEW f, NEW i, NEW g, NEW n, NEW w
  PROVE  IsRequest([pc |-> p, due |-> d, shifted |-> s, got |-> t, first |-> f,
                    inc |-> i, grouping |-> g, naming |-> n, rows |-> w])
BY DEF IsRequest

(* One field of a request changed. *)
LEMMA UpdatePc ==
  ASSUME NEW y, IsRequest(y), NEW p
  PROVE  [y EXCEPT !.pc = p] =
           [pc |-> p, due |-> y.due, shifted |-> y.shifted, got |-> y.got, first |-> y.first,
            inc |-> y.inc, grouping |-> y.grouping, naming |-> y.naming, rows |-> y.rows]
BY DEF IsRequest

LEMMA UpdateDue ==
  ASSUME NEW y, IsRequest(y), NEW d
  PROVE  [y EXCEPT !.due = d] =
           [pc |-> y.pc, due |-> d, shifted |-> y.shifted, got |-> y.got, first |-> y.first,
            inc |-> y.inc, grouping |-> y.grouping, naming |-> y.naming, rows |-> y.rows]
BY DEF IsRequest

LEMMA UpdateShifted ==
  ASSUME NEW y, IsRequest(y), NEW s
  PROVE  [y EXCEPT !.shifted = s] =
           [pc |-> y.pc, due |-> y.due, shifted |-> s, got |-> y.got, first |-> y.first,
            inc |-> y.inc, grouping |-> y.grouping, naming |-> y.naming, rows |-> y.rows]
BY DEF IsRequest

LEMMA UpdateGot ==
  ASSUME NEW y, IsRequest(y), NEW t
  PROVE  [y EXCEPT !.got = t] =
           [pc |-> y.pc, due |-> y.due, shifted |-> y.shifted, got |-> t, first |-> y.first,
            inc |-> y.inc, grouping |-> y.grouping, naming |-> y.naming, rows |-> y.rows]
BY DEF IsRequest

LEMMA UpdateFirst ==
  ASSUME NEW y, IsRequest(y), NEW f
  PROVE  [y EXCEPT !.first = f] =
           [pc |-> y.pc, due |-> y.due, shifted |-> y.shifted, got |-> y.got, first |-> f,
            inc |-> y.inc, grouping |-> y.grouping, naming |-> y.naming, rows |-> y.rows]
BY DEF IsRequest

LEMMA UpdateInc ==
  ASSUME NEW y, IsRequest(y), NEW i
  PROVE  [y EXCEPT !.inc = i] =
           [pc |-> y.pc, due |-> y.due, shifted |-> y.shifted, got |-> y.got, first |-> y.first,
            inc |-> i, grouping |-> y.grouping, naming |-> y.naming, rows |-> y.rows]
BY DEF IsRequest

LEMMA UpdateGrouping ==
  ASSUME NEW y, IsRequest(y), NEW g
  PROVE  [y EXCEPT !.grouping = g] =
           [pc |-> y.pc, due |-> y.due, shifted |-> y.shifted, got |-> y.got, first |-> y.first,
            inc |-> y.inc, grouping |-> g, naming |-> y.naming, rows |-> y.rows]
BY DEF IsRequest

LEMMA UpdateNaming ==
  ASSUME NEW y, IsRequest(y), NEW n
  PROVE  [y EXCEPT !.naming = n] =
           [pc |-> y.pc, due |-> y.due, shifted |-> y.shifted, got |-> y.got, first |-> y.first,
            inc |-> y.inc, grouping |-> y.grouping, naming |-> n, rows |-> y.rows]
BY DEF IsRequest

LEMMA UpdateRows ==
  ASSUME NEW y, IsRequest(y), NEW w
  PROVE  [y EXCEPT !.rows = w] =
           [pc |-> y.pc, due |-> y.due, shifted |-> y.shifted, got |-> y.got, first |-> y.first,
            inc |-> y.inc, grouping |-> y.grouping, naming |-> y.naming, rows |-> w]
BY DEF IsRequest

(* Several fields changed. *)
LEMMA ToFirst ==
  ASSUME NEW y, IsRequest(y), NEW p, NEW d, NEW t
  PROVE  [y EXCEPT !.pc = p, !.due = d, !.got = t] =
           [pc |-> p, due |-> d, shifted |-> y.shifted, got |-> t, first |-> y.first,
            inc |-> y.inc, grouping |-> y.grouping, naming |-> y.naming, rows |-> y.rows]
<1> DEFINE z1 == [y EXCEPT !.pc = p]
<1> DEFINE z2 == [z1 EXCEPT !.due = d]
<1> DEFINE z3 == [z2 EXCEPT !.got = t]
<1>0. [y EXCEPT !.pc = p, !.due = d, !.got = t] = z3
  BY DEF IsRequest
<1>1. /\ z1 = [pc |-> p, due |-> y.due, shifted |-> y.shifted, got |-> y.got, first |-> y.first,
               inc |-> y.inc, grouping |-> y.grouping, naming |-> y.naming, rows |-> y.rows]
      /\ IsRequest(z1)
  BY UpdatePc, RecordIsRequest
<1> HIDE DEF z1
<1>2. /\ z2 = [pc |-> p, due |-> d, shifted |-> y.shifted, got |-> y.got, first |-> y.first,
               inc |-> y.inc, grouping |-> y.grouping, naming |-> y.naming, rows |-> y.rows]
      /\ IsRequest(z2)
  BY <1>1, UpdateDue, RecordIsRequest
<1> HIDE DEF z2
<1>3. /\ z3 = [pc |-> p, due |-> d, shifted |-> y.shifted, got |-> t, first |-> y.first,
               inc |-> y.inc, grouping |-> y.grouping, naming |-> y.naming, rows |-> y.rows]
      /\ IsRequest(z3)
  BY <1>2, UpdateGot, RecordIsRequest
<1> HIDE DEF z3
<1> QED
  BY <1>0, <1>3

(* What the last page of the first endpoint makes of a request. *)
SecondFrom(y, p, d, s, t, f) ==
  [y EXCEPT !.pc = p, !.due = d, !.shifted = s, !.got = t, !.first = f]

LEMMA ToSecond ==
  ASSUME NEW y, IsRequest(y), NEW p, NEW d, NEW s, NEW t, NEW f
  PROVE  SecondFrom(y, p, d, s, t, f) =
           [pc |-> p, due |-> d, shifted |-> s, got |-> t, first |-> f,
            inc |-> y.inc, grouping |-> y.grouping, naming |-> y.naming, rows |-> y.rows]
<1> DEFINE z1 == [y EXCEPT !.pc = p]
<1> DEFINE z2 == [z1 EXCEPT !.due = d]
<1> DEFINE z3 == [z2 EXCEPT !.shifted = s]
<1> DEFINE z4 == [z3 EXCEPT !.got = t]
<1> DEFINE z5 == [z4 EXCEPT !.first = f]
<1>0. SecondFrom(y, p, d, s, t, f) = z5
  BY DEF IsRequest, SecondFrom
<1>1. /\ z1 = [pc |-> p, due |-> y.due, shifted |-> y.shifted, got |-> y.got, first |-> y.first,
               inc |-> y.inc, grouping |-> y.grouping, naming |-> y.naming, rows |-> y.rows]
      /\ IsRequest(z1)
  BY UpdatePc, RecordIsRequest
<1> HIDE DEF z1
<1>2. /\ z2 = [pc |-> p, due |-> d, shifted |-> y.shifted, got |-> y.got, first |-> y.first,
               inc |-> y.inc, grouping |-> y.grouping, naming |-> y.naming, rows |-> y.rows]
      /\ IsRequest(z2)
  BY <1>1, UpdateDue, RecordIsRequest
<1> HIDE DEF z2
<1>3. /\ z3 = [pc |-> p, due |-> d, shifted |-> s, got |-> y.got, first |-> y.first,
               inc |-> y.inc, grouping |-> y.grouping, naming |-> y.naming, rows |-> y.rows]
      /\ IsRequest(z3)
  BY <1>2, UpdateShifted, RecordIsRequest
<1> HIDE DEF z3
<1>4. /\ z4 = [pc |-> p, due |-> d, shifted |-> s, got |-> t, first |-> y.first,
               inc |-> y.inc, grouping |-> y.grouping, naming |-> y.naming, rows |-> y.rows]
      /\ IsRequest(z4)
  BY <1>3, UpdateGot, RecordIsRequest
<1> HIDE DEF z4
<1>5. /\ z5 = [pc |-> p, due |-> d, shifted |-> s, got |-> t, first |-> f,
               inc |-> y.inc, grouping |-> y.grouping, naming |-> y.naming, rows |-> y.rows]
      /\ IsRequest(z5)
  BY <1>4, UpdateFirst, RecordIsRequest
<1> HIDE DEF z5
<1> QED
  BY <1>0, <1>5

(* What the last page of the second endpoint makes of it. *)
FetchedFrom(y, p, d, t, f, i) ==
  [y EXCEPT !.pc = p, !.due = d, !.got = t, !.first = f, !.inc = i]

LEMMA ToFetched ==
  ASSUME NEW y, IsRequest(y), NEW p, NEW d, NEW t, NEW f, NEW i
  PROVE  FetchedFrom(y, p, d, t, f, i) =
           [pc |-> p, due |-> d, shifted |-> y.shifted, got |-> t, first |-> f,
            inc |-> i, grouping |-> y.grouping, naming |-> y.naming, rows |-> y.rows]
<1> DEFINE z1 == [y EXCEPT !.pc = p]
<1> DEFINE z2 == [z1 EXCEPT !.due = d]
<1> DEFINE z3 == [z2 EXCEPT !.got = t]
<1> DEFINE z4 == [z3 EXCEPT !.first = f]
<1> DEFINE z5 == [z4 EXCEPT !.inc = i]
<1>0. FetchedFrom(y, p, d, t, f, i) = z5
  BY DEF IsRequest, FetchedFrom
<1>1. /\ z1 = [pc |-> p, due |-> y.due, shifted |-> y.shifted, got |-> y.got, first |-> y.first,
               inc |-> y.inc, grouping |-> y.grouping, naming |-> y.naming, rows |-> y.rows]
      /\ IsRequest(z1)
  BY UpdatePc, RecordIsRequest
<1> HIDE DEF z1
<1>2. /\ z2 = [pc |-> p, due |-> d, shifted |-> y.shifted, got |-> y.got, first |-> y.first,
               inc |-> y.inc, grouping |-> y.grouping, naming |-> y.naming, rows |-> y.rows]
      /\ IsRequest(z2)
  BY <1>1, UpdateDue, RecordIsRequest
<1> HIDE DEF z2
<1>3. /\ z3 = [pc |-> p, due |-> d, shifted |-> y.shifted, got |-> t, first |-> y.first,
               inc |-> y.inc, grouping |-> y.grouping, naming |-> y.naming, rows |-> y.rows]
      /\ IsRequest(z3)
  BY <1>2, UpdateGot, RecordIsRequest
<1> HIDE DEF z3
<1>4. /\ z4 = [pc |-> p, due |-> d, shifted |-> y.shifted, got |-> t, first |-> f,
               inc |-> y.inc, grouping |-> y.grouping, naming |-> y.naming, rows |-> y.rows]
      /\ IsRequest(z4)
  BY <1>3, UpdateFirst, RecordIsRequest
<1> HIDE DEF z4
<1>5. /\ z5 = [pc |-> p, due |-> d, shifted |-> y.shifted, got |-> t, first |-> f,
               inc |-> i, grouping |-> y.grouping, naming |-> y.naming, rows |-> y.rows]
      /\ IsRequest(z5)
  BY <1>4, UpdateInc, RecordIsRequest
<1> HIDE DEF z5
<1> QED
  BY <1>0, <1>5

(* What GroupReport makes of a request. *)
GroupedFrom(y, p, d, g, n) ==
  [y EXCEPT !.pc = p, !.due = d, !.grouping = g, !.naming = n]

LEMMA ToGrouped ==
  ASSUME NEW y, IsRequest(y), NEW p, NEW d, NEW g, NEW n
  PROVE  GroupedFrom(y, p, d, g, n) =
           [pc |-> p, due |-> d, shifted |-> y.shifted, got |-> y.got, first |-> y.first,
            inc |-> y.inc, grouping |-> g, naming |-> n, rows |-> y.rows]
<1> DEFINE z1 == [y EXCEPT !.pc = p]
<1> DEFINE z2 == [z1 EXCEPT !.due = d]
<1> DEFINE z3 == [z2 EXCEPT !.grouping = g]
<1> DEFINE z4 == [z3 EXCEPT !.naming = n]
<1>0. GroupedFrom(y, p, d, g, n) = z4
  BY DEF IsRequest, GroupedFrom
<1>1. /\ z1 = [pc |-> p, due |-> y.due, shifted |-> y.shifted, got |-> y.got, first |-> y.first,
               inc |-> y.inc, grouping |-> y.grouping, naming |-> y.naming, rows |-> y.rows]
      /\ IsRequest(z1)
  BY UpdatePc, RecordIsRequest
<1> HIDE DEF z1
<1>2. /\ z2 = [pc |-> p, due |-> d, shifted |-> y.shifted, got |-> y.got, first |-> y.first,
               inc |-> y.inc, grouping |-> y.grouping, naming |-> y.naming, rows |-> y.rows]
      /\ IsRequest(z2)
  BY <1>1, UpdateDue, RecordIsRequest
<1> HIDE DEF z2
<1>3. /\ z3 = [pc |-> p, due |-> d, shifted |-> y.shifted, got |-> y.got, first |-> y.first,
               inc |-> y.inc, grouping |-> g, naming |-> y.naming, rows |-> y.rows]
      /\ IsRequest(z3)
  BY <1>2, UpdateGrouping, RecordIsRequest
<1> HIDE DEF z3
<1>4. /\ z4 = [pc |-> p, due |-> d, shifted |-> y.shifted, got |-> y.got, first |-> y.first,
               inc |-> y.inc, grouping |-> g, naming |-> n, rows |-> y.rows]
      /\ IsRequest(z4)
  BY <1>3, UpdateNaming, RecordIsRequest
<1> HIDE DEF z4
<1> QED
  BY <1>0, <1>4

LEMMA ToFound ==
  ASSUME NEW y, IsRequest(y), NEW p, NEW n, NEW w
  PROVE  [y EXCEPT !.pc = p, !.naming = n, !.rows = w] =
           [pc |-> p, due |-> y.due, shifted |-> y.shifted, got |-> y.got, first |-> y.first,
            inc |-> y.inc, grouping |-> y.grouping, naming |-> n, rows |-> w]
<1> DEFINE z1 == [y EXCEPT !.pc = p]
<1> DEFINE z2 == [z1 EXCEPT !.naming = n]
<1> DEFINE z3 == [z2 EXCEPT !.rows = w]
<1>0. [y EXCEPT !.pc = p, !.naming = n, !.rows = w] = z3
  BY DEF IsRequest
<1>1. /\ z1 = [pc |-> p, due |-> y.due, shifted |-> y.shifted, got |-> y.got, first |-> y.first,
               inc |-> y.inc, grouping |-> y.grouping, naming |-> y.naming, rows |-> y.rows]
      /\ IsRequest(z1)
  BY UpdatePc, RecordIsRequest
<1> HIDE DEF z1
<1>2. /\ z2 = [pc |-> p, due |-> y.due, shifted |-> y.shifted, got |-> y.got, first |-> y.first,
               inc |-> y.inc, grouping |-> y.grouping, naming |-> n, rows |-> y.rows]
      /\ IsRequest(z2)
  BY <1>1, UpdateNaming, RecordIsRequest
<1> HIDE DEF z2
<1>3. /\ z3 = [pc |-> p, due |-> y.due, shifted |-> y.shifted, got |-> y.got, first |-> y.first,
               inc |-> y.inc, grouping |-> y.grouping, naming |-> n, rows |-> w]
      /\ IsRequest(z3)
  BY <1>2, UpdateRows, RecordIsRequest
<1> HIDE DEF z3
<1> QED
  BY <1>0, <1>3

(***************************************************************************)
(* What a request still has to show. While the first endpoint is read it   *)
(* is in the history, or has been got, or was moved forward, or stands     *)
(* behind the offset of the next page. While the second is read, it has    *)
(* been got from either, or stands behind that offset in the history.      *)
(***************************************************************************)
NoneLost(x) ==
  /\ x.pc = "first" =>
       \A i \in x.due :
         \/ i \in ToSet(listed["history"]) \cup ToSet(x.got) \cup x.shifted
         \/ i \in Behind(listed["active"], Len(x.got))
  /\ x.pc = "second" =>
       \A i \in x.due :
         \/ i \in ToSet(x.first) \cup ToSet(x.got)
         \/ i \in Behind(listed["history"], Len(x.got))

(* With the last page it is in the report. *)
NoneMissing(x) == x.pc = "fetched" => x.due \subseteq DOMAIN x.inc

ReportOrder(inc) == Those(NewestOrder, DOMAIN inc)

(* The grouping of a request is sound, and its rows contain the report. *)
SoundResult(x) ==
  /\ x.pc \in {"grouped", "found"} =>
       Sound(x.grouping, GroupByOwner(ReportOrder(x.inc), x.inc), x.inc)
  /\ x.pc = "found" => Rows(x.rows, x.inc)

RequestOK(x) ==
  /\ IsRequest(x)
  /\ x.due \subseteq Incident
  /\ x.shifted \subseteq Incident
  /\ x.got \in Seq(Incident)
  /\ x.first \in Seq(Incident)
  /\ DOMAIN x.inc \subseteq Incident
  /\ x.pc = "idle" => x.got = <<>>
  /\ NoneLost(x)
  /\ NoneMissing(x)
  /\ ContainersHaveTheirOwnIds => SoundResult(x)

(***************************************************************************)
(* The inductive invariant. NoneLost is its strengthening for the reads:   *)
(* an entry that comes into a list moves nothing out from behind the       *)
(* offset, and what a clearing moves is in the history then, or among      *)
(* those moved forward.                                                    *)
(***************************************************************************)
RequestsOK ==
  /\ Lists
  /\ req = [r \in Request |-> req[r]]
  /\ \A r \in Request : RequestOK(req[r])

LEMMA ReportOrderIsReport ==
  ASSUME NEW inc, DOMAIN inc \subseteq Incident
  PROVE  Report(ReportOrder(inc), inc)
<1> DEFINE order == Those(NewestOrder, DOMAIN inc)
<1>1. /\ order \in Seq(Incident)
      /\ ToSet(order) = DOMAIN inc
      /\ IsInjective(order)
  <2>1. /\ NewestOrder \in Seq(Incident) /\ IsInjective(NewestOrder)
        /\ ToSet(NewestOrder) = Incident
    BY NewestOrderAssumption
  <2>2. /\ order \in Seq(Incident)
        /\ ToSet(order) = ToSet(NewestOrder) \cap DOMAIN inc
        /\ IsInjective(order)
    BY <2>1, ThoseElements
  <2> QED
    BY <2>1, <2>2
<1> HIDE DEF order
<1>2. order \in Seq(DOMAIN inc)
  <2>1. Len(order) \in Nat /\ order \in [1..Len(order) -> Incident] /\ DOMAIN order = 1..Len(order)
    BY <1>1, LenProperties
  <2>2. \A j \in 1..Len(order) : order[j] \in DOMAIN inc
    BY <1>1, <2>1 DEF ToSet
  <2>3. order = [j \in 1..Len(order) |-> order[j]]
    BY <2>1
  <2>4. order \in [1..Len(order) -> DOMAIN inc]
    BY <2>2, <2>3
  <2> QED
    BY <2>1, <2>4
<1> QED
  BY <1>1, <1>2 DEF Report, ReportOrder, order

(* How an action that changes one request leaves the invariant true. *)
LEMMA OneRequest ==
  ASSUME RequestsOK, NEW r \in Request, NEW x, req' = [req EXCEPT ![r] = x],
         listed' = listed, RequestOK(x)
  PROVE  RequestsOK'
<1>1. req' = [q \in Request |-> IF q = r THEN x ELSE req[q]]
  BY DEF RequestsOK
<1>2. ASSUME NEW q \in Request
      PROVE  RequestOK(req[q])'
  <2>1. RequestOK(req'[q])
    BY <1>1 DEF RequestsOK
  <2> QED
    BY <2>1 DEF RequestOK, NoneLost, NoneMissing, SoundResult
<1>3. Lists'
  BY DEF RequestsOK, Lists
<1>4. req' = [q \in Request |-> req'[q]]
  BY <1>1
<1> QED
  BY <1>2, <1>3, <1>4 DEF RequestsOK

LEMMA IdleOK == RequestOK(IdleRequest)
<1>1. DOMAIN NoEntries = {}
  BY DEF NoEntries
<1> QED
  BY <1>1 DEF RequestOK, IdleRequest, IsRequest, NoneLost, NoneMissing, SoundResult

LEMMA InitOK == Init => RequestsOK
<1> SUFFICES ASSUME Init PROVE RequestsOK
  OBVIOUS
<1>1. req = [r \in Request |-> IdleRequest]
  BY DEF Init
<1>2. \A r \in Request : RequestOK(req[r])
  BY <1>1, IdleOK
<1>3. req = [r \in Request |-> req[r]]
  BY <1>1
<1>4. Lists
  BY DEF Init, Lists
<1> QED
  BY <1>2, <1>3, <1>4 DEF RequestsOK

LEMMA RaiseStep ==
  ASSUME RequestsOK, NEW i \in Incident, Raise(i)
  PROVE  RequestsOK'
<1> DEFINE active == listed["active"]
<1>1. active \in Seq(Incident) /\ listed["history"] \in Seq(Incident)
  BY DEF RequestsOK, Lists, Endpoints
<1>2. PICK p \in 1..(Len(active) + 1) : listed' = [listed EXCEPT !["active"] = InsertAt(active, p, i)]
  BY DEF Raise
<1>3. /\ InsertAt(active, p, i) \in Seq(Incident)
      /\ \A n \in Nat : Behind(active, n) \subseteq Behind(InsertAt(active, p, i), n)
  BY <1>1, InsertedIs
<1>4. /\ Lists' /\ listed'["history"] = listed["history"]
      /\ \A n \in Nat : Behind(active, n) \subseteq Behind(listed'["active"], n)
  BY <1>2, <1>3 DEF RequestsOK, Lists, Endpoints
<1>5. req' = req
  BY DEF Raise
<1>6. ASSUME NEW r \in Request
      PROVE  RequestOK(req[r])'
  <2>1. RequestOK(req[r])
    BY DEF RequestsOK
  <2>2. Len(req[r].got) \in Nat
    BY <2>1, LenProperties DEF RequestOK
  <2>3. NoneLost(req[r])'
    BY <2>1, <2>2, <1>4, <1>5 DEF RequestOK, NoneLost
  <2> QED
    BY <2>1, <2>3, <1>5 DEF RequestOK, NoneMissing, SoundResult
<1> QED
  BY <1>4, <1>5, <1>6 DEF RequestsOK

(* One that is cleared is in the history then; those behind it are shifted. *)
LEMMA ClearStep ==
  ASSUME RequestsOK, NEW p \in DOMAIN listed["active"], Clear(p)
  PROVE  RequestsOK'
<1> DEFINE active  == listed["active"]
           history == listed["history"]
<1>1. /\ active \in Seq(Incident) /\ history \in Seq(Incident)
      /\ p \in 1..Len(active) /\ active[p] \in Incident
  BY LenProperties, ElementOfSeq DEF RequestsOK, Lists, Endpoints
<1>2. PICK q \in 1..(Len(history) + 1) :
        listed' = [listed EXCEPT !["active"]  = RemoveAt(active, p),
                                 !["history"] = InsertAt(history, q, active[p])]
  BY DEF Clear
<1>3. /\ RemoveAt(active, p) \in Seq(Incident)
      /\ \A n \in Nat : Behind(active, n)
                          \subseteq Behind(RemoveAt(active, p), n) \cup {active[p]} \cup Behind(active, p)
  BY <1>1, RemovedIs
<1>4. /\ InsertAt(history, q, active[p]) \in Seq(Incident)
      /\ ToSet(InsertAt(history, q, active[p])) = ToSet(history) \cup {active[p]}
      /\ \A n \in Nat : Behind(history, n) \subseteq Behind(InsertAt(history, q, active[p]), n)
  BY <1>1, InsertedIs
<1>5. /\ listed'["active"] = RemoveAt(active, p)
      /\ listed'["history"] = InsertAt(history, q, active[p])
      /\ Lists'
  BY <1>2, <1>3, <1>4 DEF RequestsOK, Lists, Endpoints
<1>6. req' = [r \in Request |->
                IF req[r].pc = "first"
                THEN [req[r] EXCEPT !.shifted = @ \cup Behind(active, p)]
                ELSE req[r]]
  BY DEF Clear, Behind
<1>7. Behind(active, p) \subseteq Incident
  <2>1. \A j \in DOMAIN active : active[j] \in Incident
    BY <1>1, LenProperties, ElementOfSeq
  <2> QED
    BY <2>1 DEF Behind
<1>8. ASSUME NEW r \in Request
      PROVE  RequestOK(req[r])'
  <2>1. RequestOK(req[r]) /\ IsRequest(req[r])
    BY DEF RequestsOK, RequestOK
  <2>2. Len(req[r].got) \in Nat
    BY <2>1, LenProperties DEF RequestOK
  <2>3. CASE req[r].pc = "first"
    <3> DEFINE S == req[r].shifted \cup Behind(active, p)
               x == [req[r] EXCEPT !.shifted = S]
    <3>1. req'[r] = x
      BY <1>6, <2>3
    <3> HIDE DEF S
    <3>2. x = [pc |-> "first", due |-> req[r].due, shifted |-> S, got |-> req[r].got,
               first |-> req[r].first, inc |-> req[r].inc, grouping |-> req[r].grouping,
               naming |-> req[r].naming, rows |-> req[r].rows]
      BY <2>1, <2>3, UpdateShifted
    <3> HIDE DEF x
    <3>3. IsRequest(x) /\ S \subseteq Incident
      BY <3>2, <2>1, <1>7 DEF IsRequest, S, RequestOK
    <3>4. ASSUME NEW i \in req[r].due
          PROVE  \/ i \in ToSet(listed'["history"]) \cup ToSet(req[r].got) \cup S
                 \/ i \in Behind(listed'["active"], Len(req[r].got))
      <4>1. \/ i \in ToSet(history) \cup ToSet(req[r].got) \cup req[r].shifted
            \/ i \in Behind(active, Len(req[r].got))
        BY <2>1, <2>3 DEF RequestOK, NoneLost
      <4>2. i \in Behind(active, Len(req[r].got)) =>
              \/ i \in Behind(listed'["active"], Len(req[r].got)) \cup Behind(active, p)
              \/ i \in ToSet(listed'["history"])
        BY <1>3, <1>4, <1>5, <2>2
      <4> QED
        BY <1>4, <1>5, <4>1, <4>2 DEF S
    <3>5. NoneLost(req[r])'
      BY <3>1, <3>2, <3>4 DEF NoneLost
    <3> QED
      BY <2>1, <3>1, <3>2, <3>3, <3>5 DEF RequestOK, NoneMissing, SoundResult
  <2>4. CASE req[r].pc # "first"
    <3>1. req'[r] = req[r]
      BY <1>6, <2>4
    <3>2. NoneLost(req[r])'
      BY <1>4, <1>5, <2>1, <2>2, <2>4, <3>1 DEF RequestOK, NoneLost
    <3> QED
      BY <2>1, <3>1, <3>2 DEF RequestOK, NoneMissing, SoundResult
  <2> QED
    BY <2>3, <2>4
<1>9. req' = [r \in Request |-> req'[r]]
  BY <1>6
<1> QED
  BY <1>5, <1>8, <1>9 DEF RequestsOK

(* Nothing stands before the first element. *)
LEMMA AllAreBehind ==
  ASSUME NEW X, NEW l \in Seq(X)
  PROVE  ToSet(l) = Behind(l, Len(<<>>))
<1>1. /\ Len(l) \in Nat /\ DOMAIN l = 1..Len(l) /\ Len(<<>>) = 0
  BY LenProperties
<1>2. \A k \in DOMAIN l : k > 0
  BY <1>1
<1> QED
  BY <1>1, <1>2 DEF ToSet, Behind

(* A page of /incidents, the last one or not. *)
LEMMA ReadFirstStep ==
  ASSUME RequestsOK, NEW r \in Request, ReadFirst(r)
  PROVE  RequestsOK'
<1> DEFINE y       == req[r]
           none    == {}
           empty   == <<>>
           active  == listed["active"]
           history == listed["history"]
           more    == WithPage("active", y.got)
           due     == IF y.pc = "idle" THEN Present ELSE y.due
           left    == DueAfterFirst(due, y.shifted)
           here    == [y EXCEPT !.pc = "first", !.due = due, !.got = more]
           on      == SecondFrom(y, "second", left, none, empty, more)
<1>1. /\ y.pc \in {"idle", "first"} /\ listed' = listed
      /\ req' = [req EXCEPT ![r] = IF IsLast("active", y.got) THEN on ELSE here]
  BY DEF ReadFirst, FetchOrder, Runs, SecondFrom
<1>2. /\ RequestOK(y) /\ IsRequest(y) /\ y.got \in Seq(Incident)
      /\ Lists /\ active \in Seq(Incident) /\ history \in Seq(Incident)
  BY DEF RequestsOK, RequestOK, Lists, Endpoints
<1>3. /\ more \in Seq(Incident)
      /\ ToSet(y.got) \subseteq ToSet(more)
      /\ Behind(active, Len(y.got)) \subseteq ToSet(more) \cup Behind(active, Len(more))
      /\ IsLast("active", y.got) => Behind(active, Len(more)) \subseteq Beyond("active")
  BY <1>2, PageIs DEF Endpoints
<1>4. due \subseteq Incident
  <2>1. Present \subseteq Incident
    BY <1>2, Elements, LenProperties, ElementOfSeq DEF Present
  <2> QED
    BY <2>1, <1>2 DEF RequestOK
<1>5. ASSUME NEW i \in due
      PROVE  \/ i \in ToSet(history) \cup ToSet(y.got) \cup y.shifted
             \/ i \in Behind(active, Len(y.got))
  <2>1. CASE y.pc = "idle"
    <3>1. i \in ToSet(active) \cup ToSet(history) /\ y.got = <<>>
      BY <2>1, <1>2 DEF Present, RequestOK
    <3> QED
      BY <3>1, <1>2, AllAreBehind
  <2>2. CASE y.pc = "first"
    BY <2>2, <1>2 DEF RequestOK, NoneLost
  <2> QED
    BY <1>1, <2>1, <2>2
<1>6. none \subseteq Incident /\ empty \in Seq(Incident)
  OBVIOUS
<1>7. left \subseteq due
      /\ \A i \in left : i \in y.shifted \cup Beyond("active") => i \in ToSet(history)
  BY DEF DueAfterFirst
<1>8. ToSet(history) = Behind(history, Len(empty))
  BY <1>2, AllAreBehind
<1> HIDE DEF due, more, left, none, empty
<1>9. ASSUME ~ IsLast("active", y.got)
      PROVE  RequestOK(here)
  <2>1. here = [pc |-> "first", due |-> due, shifted |-> y.shifted, got |-> more,
                first |-> y.first, inc |-> y.inc, grouping |-> y.grouping, naming |-> y.naming,
                rows |-> y.rows]
    BY <1>2, ToFirst
  <2> HIDE DEF here
  <2>2. IsRequest(here)
    BY <2>1 DEF IsRequest
  <2>3. NoneLost(here)
    BY <1>3, <1>5, <2>1 DEF NoneLost
  <2> QED
    BY <1>2, <1>3, <1>4, <2>1, <2>2, <2>3 DEF RequestOK, NoneMissing, SoundResult
<1>10. ASSUME IsLast("active", y.got)
       PROVE  RequestOK(on)
  <2>1. on = [pc |-> "second", due |-> left, shifted |-> none, got |-> empty,
              first |-> more, inc |-> y.inc, grouping |-> y.grouping, naming |-> y.naming,
              rows |-> y.rows]
    BY <1>2, ToSecond
  <2> HIDE DEF on
  <2>2. IsRequest(on)
    BY <2>1 DEF IsRequest
  <2>3. ASSUME NEW i \in left
        PROVE  i \in ToSet(more) \/ i \in Behind(history, Len(empty))
    BY <1>3, <1>5, <1>7, <1>8, <1>10
  <2>4. NoneLost(on)
    BY <2>1, <2>3 DEF NoneLost
  <2> QED
    BY <1>2, <1>3, <1>4, <1>6, <1>7, <2>1, <2>2, <2>4 DEF RequestOK, NoneMissing, SoundResult
<1> HIDE DEF here, on
<1> QED
  BY <1>1, <1>9, <1>10, OneRequest

LEMMA ReadSecondStep ==
  ASSUME RequestsOK, NEW r \in Request, ReadSecond(r)
  PROVE  RequestsOK'
<1> DEFINE y       == req[r]
           history == listed["history"]
           more    == WithPage("history", y.got)
           x       == [y EXCEPT !.got = more]
<1>2. /\ RequestOK(y) /\ IsRequest(y) /\ y.got \in Seq(Incident) /\ Lists
      /\ req = [q \in Request |-> req[q]]
  BY DEF RequestsOK, RequestOK
<1>1. req' = [req EXCEPT ![r] = x] /\ listed' = listed /\ y.pc = "second"
  <2>1. req' = [req EXCEPT ![r].got = WithPage("history", @)]
    BY DEF ReadSecond, FetchOrder
  <2> QED
    BY <2>1, <1>2 DEF ReadSecond, Runs
<1>3. /\ more \in Seq(Incident)
      /\ ToSet(y.got) \subseteq ToSet(more)
      /\ Behind(history, Len(y.got)) \subseteq ToSet(more) \cup Behind(history, Len(more))
  BY <1>2, PageIs DEF Endpoints
<1> HIDE DEF more
<1>4. x = [pc |-> "second", due |-> y.due, shifted |-> y.shifted, got |-> more,
           first |-> y.first, inc |-> y.inc, grouping |-> y.grouping, naming |-> y.naming,
           rows |-> y.rows]
  BY <1>1, <1>2, UpdateGot
<1> HIDE DEF x
<1>5. IsRequest(x)
  BY <1>4 DEF IsRequest
<1>6. \A i \in y.due : \/ i \in ToSet(y.first) \cup ToSet(y.got)
                       \/ i \in Behind(history, Len(y.got))
  BY <1>1, <1>2 DEF RequestOK, NoneLost
<1>7. NoneLost(x)
  BY <1>3, <1>4, <1>6 DEF NoneLost
<1>8. RequestOK(x)
  BY <1>2, <1>3, <1>4, <1>5, <1>7 DEF RequestOK, NoneMissing, SoundResult
<1> QED
  BY <1>1, <1>8, OneRequest

(* What is read last is merged with what was read first. *)
LEMMA FinishedIs ==
  ASSUME RequestsOK, NEW r \in Request, FinishReading(r)
  PROVE  LET y    == req[r]
             more == WithPage("history", y.got)
         IN  /\ y.pc = "second" /\ IsLast("history", y.got)
             /\ listed' = listed /\ loop' \in {r, None}
             /\ req' = [req EXCEPT ![r] =
                          FetchedFrom(y, "fetched", y.due \ Beyond("history"), <<>>, <<>>,
                                      MergeActiveAndHistory(Records(y.first, "active"),
                                                            Records(more, "history")))]
             /\ objects' = SeedOwners(objects, Records(y.first, "active"), y.first)
  BY DEF FinishReading, FetchOrder, Runs, RequestsOK, FetchedFrom

(***************************************************************************)
(* The report has what either endpoint returned; what stood behind the     *)
(* offset in the history is in the last page, or beyond the limit.         *)
(***************************************************************************)
LEMMA FinishReadingStep ==
  ASSUME RequestsOK, NEW r \in Request, FinishReading(r)
  PROVE  RequestsOK'
<1> DEFINE y       == req[r]
           empty   == <<>>
           history == listed["history"]
           more    == WithPage("history", y.got)
           left    == y.due \ Beyond("history")
           merged  == MergeActiveAndHistory(Records(y.first, "active"), Records(more, "history"))
           x       == FetchedFrom(y, "fetched", left, empty, empty, merged)
<1>1. /\ RequestOK(y) /\ IsRequest(y) /\ y.got \in Seq(Incident) /\ Lists
      /\ req = [q \in Request |-> req[q]]
  BY DEF RequestsOK, RequestOK
<1>2. /\ req' = [req EXCEPT ![r] = x] /\ listed' = listed /\ y.pc = "second"
      /\ IsLast("history", y.got)
  BY FinishedIs
<1>3. /\ more \in Seq(Incident)
      /\ ToSet(y.got) \subseteq ToSet(more)
      /\ Behind(history, Len(y.got)) \subseteq ToSet(more) \cup Beyond("history")
  BY <1>1, <1>2, PageIs DEF Endpoints
<1>4. DOMAIN merged = ToSet(y.first) \cup ToSet(more)
  BY DEF MergeActiveAndHistory, Records
<1>5. DOMAIN merged \subseteq Incident
  <2>1. \A l \in Seq(Incident) : ToSet(l) \subseteq Incident
    BY Elements, LenProperties, ElementOfSeq
  <2> HIDE DEF merged, more
  <2> QED
    BY <2>1, <1>1, <1>3, <1>4 DEF RequestOK
<1>6. empty \in Seq(Incident)
  OBVIOUS
<1> HIDE DEF more, merged, empty
<1>7. left \subseteq DOMAIN merged
  <2>1. \A i \in y.due : \/ i \in ToSet(y.first) \cup ToSet(y.got)
                         \/ i \in Behind(history, Len(y.got))
    BY <1>1, <1>2 DEF RequestOK, NoneLost
  <2> QED
    BY <1>3, <1>4, <2>1
<1>8. left \subseteq Incident
  BY <1>1 DEF RequestOK
<1> HIDE DEF left
<1>9. x = [pc |-> "fetched", due |-> left, shifted |-> y.shifted, got |-> empty,
           first |-> empty, inc |-> merged, grouping |-> y.grouping, naming |-> y.naming,
           rows |-> y.rows]
  BY <1>1, ToFetched
<1> HIDE DEF x
<1>10. IsRequest(x)
  BY <1>9 DEF IsRequest
<1>11. RequestOK(x)
  BY <1>1, <1>5, <1>6, <1>7, <1>8, <1>9, <1>10 DEF RequestOK, NoneLost, NoneMissing, SoundResult
<1> QED
  BY <1>2, <1>11, OneRequest

LEMMA GroupReportStep ==
  ASSUME RequestsOK, NEW r \in Request, GroupReport(r)
  PROVE  RequestsOK'
<1> DEFINE g == ComputeGrouping(Order(r), req[r].inc, PeekNodes(objects))
           objs == ContainerObjects(r)
           none == {}
           x == GroupedFrom(req[r], "grouped", none, g, objs)
<1>1. req' = [req EXCEPT ![r] = x] /\ listed' = listed
  BY DEF GroupReport, GroupedFrom
<1>2. RequestOK(req[r]) /\ IsRequest(req[r])
  BY DEF RequestsOK, RequestOK
<1>3. DOMAIN req[r].inc \subseteq Incident
  BY <1>2 DEF RequestOK
<1>4. Order(r) = ReportOrder(req[r].inc)
  BY DEF Order, ReportOrder
<1>5. ContainersHaveTheirOwnIds =>
        Sound(g, GroupByOwner(ReportOrder(req[r].inc), req[r].inc), req[r].inc)
  <2>1. Report(Order(r), req[r].inc)
    BY <1>3, <1>4, ReportOrderIsReport
  <2>2. ContainersHaveTheirOwnIds => OwnIds(req[r].inc)
    BY <1>3 DEF ContainersHaveTheirOwnIds, OwnIds
  <2> QED
    BY <2>1, <2>2, <1>4, ComputeGroupingIsSound
<1>9. none \subseteq Incident
  OBVIOUS
<1> HIDE DEF g, objs, none
<1>6. x = [pc |-> "grouped", due |-> none, shifted |-> req[r].shifted, got |-> req[r].got,
           first |-> req[r].first, inc |-> req[r].inc, grouping |-> g, naming |-> objs,
           rows |-> req[r].rows]
  BY <1>2, ToGrouped
<1> HIDE DEF x
<1>7. IsRequest(x)
  BY <1>6 DEF IsRequest
<1>8. RequestOK(x)
  BY <1>2, <1>3, <1>5, <1>6, <1>7, <1>9 DEF RequestOK, NoneLost, NoneMissing, SoundResult
<1> QED
  BY <1>1, <1>8, OneRequest

LEMMA FindContainersStep ==
  ASSUME RequestsOK, NEW r \in Request, FindContainers(r)
  PROVE  RequestsOK'
<1> DEFINE rows == ProcessedRows(Order(r), req[r].inc, PeekNodes(objects))
           objs == ContainerObjects(r)
           x == [req[r] EXCEPT !.pc = "found", !.naming = objs, !.rows = rows]
<1>1. req' = [req EXCEPT ![r] = x] /\ listed' = listed /\ req[r].pc = "grouped"
  BY DEF FindContainers, Runs
<1>2. RequestOK(req[r]) /\ IsRequest(req[r])
  BY DEF RequestsOK, RequestOK
<1>3. DOMAIN req[r].inc \subseteq Incident
  BY <1>2 DEF RequestOK
<1>4. Order(r) = ReportOrder(req[r].inc)
  BY DEF Order, ReportOrder
<1>5. ContainersHaveTheirOwnIds => Rows(rows, req[r].inc)
  <2>1. Report(Order(r), req[r].inc)
    BY <1>3, <1>4, ReportOrderIsReport
  <2>2. ContainersHaveTheirOwnIds => OwnIds(req[r].inc)
    BY <1>3 DEF ContainersHaveTheirOwnIds, OwnIds
  <2> QED
    BY <2>1, <2>2, ProcessedRowsAre
<1> HIDE DEF rows, objs
<1>6. x = [pc |-> "found", due |-> req[r].due, shifted |-> req[r].shifted, got |-> req[r].got,
           first |-> req[r].first, inc |-> req[r].inc, grouping |-> req[r].grouping,
           naming |-> objs, rows |-> rows]
  BY <1>2, ToFound
<1> HIDE DEF x
<1>7. IsRequest(x)
  BY <1>6 DEF IsRequest
<1>8. RequestOK(x)
  BY <1>1, <1>2, <1>3, <1>5, <1>6, <1>7 DEF RequestOK, NoneLost, NoneMissing, SoundResult
<1> QED
  BY <1>1, <1>8, OneRequest

LEMMA EndStep ==
  ASSUME RequestsOK, NEW r \in Request, Respond(r) \/ Fail(r)
  PROVE  RequestsOK'
<1>1. req' = [req EXCEPT ![r] = IdleRequest] /\ listed' = listed
  BY DEF Respond, Fail
<1> QED
  BY <1>1, IdleOK, OneRequest

LEMMA UnchangedStep ==
  ASSUME RequestsOK, UNCHANGED <<listed, req>>
  PROVE  RequestsOK'
<1>1. listed' = listed /\ req' = req
  OBVIOUS
<1> QED
  BY <1>1 DEF RequestsOK, Lists, RequestOK, NoneLost, NoneMissing, SoundResult

(***************************************************************************)
(* For all requests interleaved at their awaits, all incidents raised and  *)
(* cleared meanwhile and everything the store may hold, each request keeps *)
(* what it has found: RequestsOK is an invariant.                          *)
(***************************************************************************)
THEOREM RequestsSound == Spec => []RequestsOK
<1>1. Init => RequestsOK
  BY InitOK
<1>2. RequestsOK /\ [Next]_vars => RequestsOK'
  <2> SUFFICES ASSUME RequestsOK, [Next]_vars
               PROVE  RequestsOK'
    OBVIOUS
  <2>1. ASSUME NEW i \in Incident, Raise(i)
        PROVE  RequestsOK'
    BY <2>1, RaiseStep
  <2>9. ASSUME NEW p \in DOMAIN listed["active"], Clear(p)
        PROVE  RequestsOK'
    BY <2>9, ClearStep
  <2>2. ASSUME NEW r \in Request, ReadFirst(r)
        PROVE  RequestsOK'
    BY <2>2, ReadFirstStep
  <2>3. ASSUME NEW r \in Request, ReadSecond(r)
        PROVE  RequestsOK'
    BY <2>3, ReadSecondStep
  <2>10. ASSUME NEW r \in Request, FinishReading(r)
         PROVE  RequestsOK'
    BY <2>10, FinishReadingStep
  <2>4. ASSUME NEW r \in Request, GroupReport(r)
        PROVE  RequestsOK'
    BY <2>4, GroupReportStep
  <2>5. ASSUME NEW r \in Request, FindContainers(r)
        PROVE  RequestsOK'
    BY <2>5, FindContainersStep
  <2>6. ASSUME NEW r \in Request, FetchObject(r)
        PROVE  RequestsOK'
    BY <2>6, UnchangedStep DEF FetchObject
  <2>7. ASSUME NEW r \in Request, Respond(r) \/ Fail(r)
        PROVE  RequestsOK'
    BY <2>7, EndStep
  <2>8. CASE UNCHANGED vars
    BY <2>8, UnchangedStep DEF vars
  <2> QED
    BY <2>1, <2>2, <2>3, <2>4, <2>5, <2>6, <2>7, <2>8, <2>9, <2>10 DEF Next
<1> QED
  BY <1>1, <1>2, PTL DEF Spec

(***************************************************************************)
(* The properties.                                                         *)
(***************************************************************************)

(***************************************************************************)
(* The report shows every incident that was listed at the first page of    *)
(* /incidents, also one that is cleared while the endpoints are read page  *)
(* by page, for all limits, sizes of a page and places where entries come  *)
(* into the lists; but for those an endpoint lists beyond its limit, and   *)
(* for those of /incidents that the clearing of another one moves forward  *)
(* while its pages are read.                                               *)
(***************************************************************************)
THEOREM NoneMissed == Spec => []NoIncidentMissed
<1>1. RequestsOK => NoIncidentMissed
  BY DEF RequestsOK, RequestOK, NoneMissing, NoIncidentMissed
<1> QED
  BY <1>1, RequestsSound, PTL

(***************************************************************************)
(* The groups the worker makes of a response (iter_group_specs) show each  *)
(* of its incidents exactly once, even if the containers among the rows    *)
(* were computed from another content of the store than those of the       *)
(* grouping.                                                               *)
(***************************************************************************)
THEOREM ShownOnce ==
  ASSUME ContainersHaveTheirOwnIds
  PROVE  Spec => []EachIncidentOnce
<1>1. RequestsOK => EachIncidentOnce
  <2> SUFFICES ASSUME RequestsOK, NEW r \in Request, req[r].pc = "found"
               PROVE  ShowsEachOnce(Specs(r), req[r].inc)
    BY DEF EachIncidentOnce, ShowsEachOnce
  <2>1. Filed(req[r].grouping, req[r].inc)
    BY DEF RequestsOK, RequestOK, SoundResult, Sound
  <2>2. Rows(req[r].rows, req[r].inc)
    BY DEF RequestsOK, RequestOK, SoundResult
  <2>3. PICK X : req[r].rows \in Seq(X)
    BY <2>2 DEF Rows
  <2>4. IsInjective(req[r].rows) /\ DOMAIN req[r].inc \subseteq ToSet(req[r].rows)
    BY <2>2 DEF Rows
  <2> QED
    BY <2>1, <2>3, <2>4, SpecsShowEachOnce DEF Specs
<1> QED
  BY <1>1, RequestsSound, PTL

(***************************************************************************)
(* What merge_groupings returns is a forest: children_of and parent_of are *)
(* inverse to each other, nobody is listed twice, and no chain of parents  *)
(* is a circle, for all hierarchies and grouping classes, circular         *)
(* hierarchies included.                                                   *)
(***************************************************************************)
THEOREM GroupingsAreForests ==
  ASSUME ContainersHaveTheirOwnIds
  PROVE  Spec => []GroupingIsForest
<1>1. RequestsOK => GroupingIsForest
  <2> SUFFICES ASSUME RequestsOK, NEW r \in Request, Grouped(r)
               PROVE  LET g == req[r].grouping
                      IN  /\ \A k \in DOMAIN g.parent_of : Contains(Children(g, g.parent_of[k]), k)
                          /\ \A h \in DOMAIN g.children_of :
                               /\ g.children_of[h] # <<>>
                               /\ IsInjective(g.children_of[h])
                               /\ \A k \in ToSet(g.children_of[h]) :
                                    k \in DOMAIN g.parent_of /\ g.parent_of[k] = h
                          /\ ~ \E S \in (SUBSET DOMAIN g.parent_of) \ {{}} :
                                 \A k \in S : g.parent_of[k] \in S
    BY DEF GroupingIsForest
  <2> DEFINE g == req[r].grouping
             inc == req[r].inc
  <2>1. Filed(g, inc) /\ NoCircle(g)
    BY DEF RequestsOK, RequestOK, SoundResult, Sound, Grouped
  <2> HIDE DEF g, inc
  <2>2. ASSUME NEW k \in DOMAIN g.parent_of
        PROVE  Contains(Children(g, g.parent_of[k]), k)
    <3>1. /\ g.parent_of[k] \in DOMAIN g.children_of
          /\ k \in ToSet(g.children_of[g.parent_of[k]])
          /\ g.children_of[g.parent_of[k]] \in Seq(DOMAIN inc)
      BY <2>1 DEF Filed
    <3> QED
      BY <3>1, Elements DEF Contains, Children
  <2>3. \A h \in DOMAIN g.children_of :
          /\ g.children_of[h] # <<>>
          /\ IsInjective(g.children_of[h])
          /\ \A k \in ToSet(g.children_of[h]) : k \in DOMAIN g.parent_of /\ g.parent_of[k] = h
    BY <2>1 DEF Filed
  <2>4. ~ \E S \in (SUBSET DOMAIN g.parent_of) \ {{}} : \A k \in S : g.parent_of[k] \in S
    BY <2>1 DEF NoCircle
  <2> QED
    BY <2>2, <2>3, <2>4 DEF g
<1> QED
  BY <1>1, RequestsSound, PTL

(***************************************************************************)
(* No grouping and no merge puts an active incident under a historical     *)
(* one.                                                                    *)
(***************************************************************************)
THEOREM ActiveUnderActive ==
  ASSUME ContainersHaveTheirOwnIds
  PROVE  Spec => []ActiveNotUnderHistory
<1>1. RequestsOK => ActiveNotUnderHistory
  BY DEF RequestsOK, RequestOK, SoundResult, Sound, NoneUnderHistory, Grouped,
         ActiveNotUnderHistory
<1> QED
  BY <1>1, RequestsSound, PTL

(***************************************************************************)
(* Owner groups take priority: whatever merge_groupings adds from the      *)
(* other two groupings, an incident stays under the head of its owner's    *)
(* group.                                                                  *)
(***************************************************************************)
THEOREM OwnersComeFirst ==
  ASSUME ContainersHaveTheirOwnIds
  PROVE  Spec => []OwnerFirst
<1>1. RequestsOK => OwnerFirst
  <2>1. \A r \in Request : Order(r) = ReportOrder(req[r].inc)
    BY DEF Order, ReportOrder
  <2> QED
    BY <2>1 DEF RequestsOK, RequestOK, SoundResult, Sound, Keeps, Grouped, OwnerFirst
<1> QED
  BY <1>1, RequestsSound, PTL

(***************************************************************************)
(* A synthetic container has at least two children, also after those that  *)
(* have a group of their own were taken from it.                           *)
(***************************************************************************)
THEOREM ContainersHaveTwo ==
  ASSUME ContainersHaveTheirOwnIds
  PROVE  Spec => []ContainersHoldTwo
<1>1. RequestsOK => ContainersHoldTwo
  BY DEF RequestsOK, RequestOK, SoundResult, Sound, ContainersHold, Grouped, ContainersHoldTwo
<1> QED
  BY <1>1, RequestsSound, PTL

(***************************************************************************)
(* The merge drops no class group, whatever the order in which the groups  *)
(* are merged: an incident with an incident at its ancestor comes under    *)
(* that unless its owner's group has it or it is a head, and of two below  *)
(* an ancestor without an incident one at least is in a group.             *)
(***************************************************************************)
THEOREM ClassGroupsHonoured == Spec => ClassGroupsAreKept
<1> DEFINE Kept(r) ==
      req[r].pc = "fetched" /\ req'[r].pc = "grouped" =>
        LET inc         == req[r].inc
            nodes       == PeekNodes(objects)
            ancestor(i) == ClassAncestor(nodes, inc[i])
            parent(i)   == ClassParent(Order(r), inc, nodes, i)
            owner       == GroupByOwner(Order(r), inc)
            g           == req'[r].grouping
        IN  /\ \A i \in DOMAIN inc : parent(i) # None =>
                 \/ i \in DOMAIN g.children_of \cup DOMAIN owner.parent_of
                 \/ i \in DOMAIN g.parent_of /\ g.parent_of[i] = parent(i)
            /\ \A i, j \in DOMAIN inc :
                 /\ i # j
                 /\ ancestor(i) = ancestor(j)
                 /\ ancestor(i) # None
                 /\ IncidentByEntity(Order(r), inc, ancestor(i)) = None
                 => {i, j} \cap (DOMAIN g.parent_of \cup DOMAIN g.children_of) # {}
<1>1. RequestsOK /\ [Next]_vars => [\A r \in Request : Kept(r)]_vars
  <2> SUFFICES ASSUME RequestsOK, [Next]_vars, ~ UNCHANGED vars, NEW r \in Request,
                      req[r].pc = "fetched", req'[r].pc = "grouped"
               PROVE  Kept(r)
    OBVIOUS
  <2> HIDE DEF Kept
  <2>1. RequestOK(req[r]) /\ IsRequest(req[r]) /\ req = [q \in Request |-> req[q]]
    BY DEF RequestsOK, RequestOK
  <2>2. GroupReport(r)
    <3>1. ASSUME NEW i \in Incident, Raise(i)
          PROVE  FALSE
      BY <3>1 DEF Raise
    <3>6. ASSUME NEW p \in DOMAIN listed["active"], Clear(p)
          PROVE  FALSE
      <4>1. req'[r] = req[r]
        BY <3>6 DEF Clear
      <4> QED
        BY <4>1
    <3>2. ASSUME NEW q \in Request, q # r,
                 \/ ReadFirst(q) \/ ReadSecond(q) \/ FinishReading(q)
                 \/ GroupReport(q) \/ FindContainers(q)
          PROVE  FALSE
      <4>1. req'[r] = req[r]
        BY <2>1, <3>2 DEF ReadFirst, ReadSecond, FinishReading, GroupReport, FindContainers
      <4> QED
        BY <4>1
    <3>3. ReadFirst(r) \/ ReadSecond(r) \/ FinishReading(r) \/ FindContainers(r) => FALSE
      BY DEF ReadFirst, ReadSecond, FinishReading, FindContainers, Runs
    <3>4. ASSUME NEW q \in Request, FetchObject(q)
          PROVE  FALSE
      BY <3>4 DEF FetchObject
    <3>5. ASSUME NEW q \in Request, Respond(q) \/ Fail(q)
          PROVE  FALSE
      <4>1. req'[r] = IF r = q THEN IdleRequest ELSE req[r]
        BY <2>1, <3>5 DEF Respond, Fail
      <4> QED
        BY <4>1 DEF IdleRequest
    <3> QED
      BY <3>1, <3>2, <3>3, <3>4, <3>5, <3>6 DEF Next
  <2>3. req'[r].grouping = ComputeGrouping(Order(r), req[r].inc, PeekNodes(objects))
    <3> DEFINE g == ComputeGrouping(Order(r), req[r].inc, PeekNodes(objects))
               objs == ContainerObjects(r)
               none == {}
               x == GroupedFrom(req[r], "grouped", none, g, objs)
    <3>1. req' = [req EXCEPT ![r] = x]
      BY <2>2 DEF GroupReport, GroupedFrom
    <3> HIDE DEF g, objs, none
    <3>2. x.grouping = g
      BY <2>1, ToGrouped
    <3> HIDE DEF x
    <3>3. req'[r] = x
      BY <2>1, <3>1
    <3> QED
      BY <3>2, <3>3 DEF g
  <2>4. Report(Order(r), req[r].inc)
    <3>1. DOMAIN req[r].inc \subseteq Incident
      BY <2>1 DEF RequestOK
    <3>2. Order(r) = ReportOrder(req[r].inc)
      BY DEF Order, ReportOrder
    <3> QED
      BY <3>1, <3>2, ReportOrderIsReport
  <2> DEFINE order == Order(r)
             inc   == req[r].inc
             nodes == PeekNodes(objects)
  <2> QED
    BY <2>3, <2>4, ComputeGroupingKeepsClasses DEF Kept
<1> QED
  BY <1>1, RequestsSound, PTL DEF Spec, ClassGroupsAreKept

-----------------------------------------------------------------------------
(***************************************************************************)
(* What the store holds: objects that there are, with parents that there   *)
(* are.                                                                    *)
(***************************************************************************)
IsObject(e) == e \in [class : {e.class}, parents : {e.parents}, named : {e.named}]

ObjectOK(e) ==
  IsObject(e) /\ (e.parents = None \/ ToSet(e.parents) \subseteq DOMAIN Topology)

ObjectsOK(objs) ==
  /\ DOMAIN objs \subseteq DOMAIN Topology
  /\ \A x \in DOMAIN objs : ObjectOK(objs[x])

(* Sets of objects that lead nowhere else. *)
Closed(nodes) == \A x : ToSet(Parents(nodes, x)) \subseteq DOMAIN Topology

LEMMA NoneIsEmpty == ToSet(<<>>) = {}
  BY DEF ToSet

LEMMA TopologyParents ==
  ASSUME NEW o \in DOMAIN Topology
  PROVE  /\ Topology[o].parents \in Seq(DOMAIN Topology)
         /\ ToSet(Topology[o].parents) \subseteq DOMAIN Topology
<1>1. Topology[o].parents \in Seq(DOMAIN Topology)
  BY TopologyAssumption
<1> QED
  BY <1>1, Elements

LEMMA TopologyIsClosed == Closed(Topology)
  BY TopologyParents, NoneIsEmpty DEF Closed, Parents

LEMMA PeekedIsClosed ==
  ASSUME NEW objs, ObjectsOK(objs)
  PROVE  Closed(PeekNodes(objs))
<1> SUFFICES ASSUME NEW x
             PROVE  ToSet(Parents(PeekNodes(objs), x)) \subseteq DOMAIN Topology
  BY DEF Closed
<1>1. CASE x \in DOMAIN PeekNodes(objs)
  <2>1. x \in DOMAIN objs /\ Parents(PeekNodes(objs), x) =
          IF objs[x].parents = None THEN <<>> ELSE objs[x].parents
    BY <1>1 DEF PeekNodes, Parents
  <2> QED
    BY <2>1, NoneIsEmpty DEF ObjectsOK, ObjectOK
<1>2. CASE x \notin DOMAIN PeekNodes(objs)
  BY <1>2, NoneIsEmpty DEF Parents
<1> QED
  BY <1>1, <1>2

(* The generations that Above collects. *)
Grown(nodes, S) == S \cup UNION {ToSet(Parents(nodes, x)) : x \in S}

UpFun(f, nodes, o, N) ==
  f = [n \in 0..N |-> IF n = 0 THEN {o} ELSE Grown(nodes, f[n - 1])]

LEMMA UpExists ==
  ASSUME NEW nodes, NEW o, NEW N \in Nat
  PROVE  \E f : UpFun(f, nodes, o, N)
<1> DEFINE G(g, m) ==
      g = [n \in 0..m |-> IF n = 0 THEN {o} ELSE Grown(nodes, g[n - 1])]
<1> DEFINE K == {m \in Nat : ~ \E g : G(g, m)}
<1>1. K = {}
  <2> SUFFICES ASSUME K # {} PROVE FALSE
    OBVIOUS
  <2>1. PICK m \in K : \A k \in K : ~ (k < m)
    BY Least
  <2>2. m # 0
    <3> DEFINE g == [n \in {0} |-> {o}]
    <3>1. G(g, 0)
      OBVIOUS
    <3> QED
      BY <3>1
  <2>3. m \in Nat /\ m - 1 \in Nat
    BY <2>2
  <2>4. PICK g : G(g, m - 1)
    <3> HIDE DEF G
    <3>1. m - 1 < m
      BY <2>3
    <3>2. m - 1 \notin K
      BY <2>1, <3>1
    <3> QED
      BY <2>3, <3>2
  <2> DEFINE h == [n \in 0..m |-> IF n = 0 THEN {o} ELSE Grown(nodes, g[n - 1])]
  <2>5. ASSUME NEW n \in 0..(m - 1)
        PROVE  h[n] = g[n]
    <3>1. n \in 0..m
      BY <2>3
    <3> QED
      BY <2>4, <3>1
  <2>6. h = [n \in 0..m |-> IF n = 0 THEN {o} ELSE Grown(nodes, h[n - 1])]
    <3>1. ASSUME NEW n \in 0..m, n # 0
          PROVE  h[n - 1] = g[n - 1]
      <4>1. n - 1 \in 0..(m - 1)
        BY <2>3, <3>1
      <4> HIDE DEF h
      <4> QED
        BY <2>5, <4>1
    <3> QED
      BY <3>1
  <2>7. G(h, m)
    BY <2>6
  <2> QED
    BY <2>7, <2>1
<1>2. \E f : G(f, N)
  BY <1>1
<1> QED
  BY <1>2 DEF UpFun

LEMMA AboveIsIn ==
  ASSUME NEW nodes, Closed(nodes), NEW o \in DOMAIN Topology
  PROVE  Above(nodes, o) \subseteq DOMAIN Topology
<1> DEFINE N == Cardinality(DOMAIN Topology)
           f == CHOOSE x : UpFun(x, nodes, o, N)
<1>1. N \in Nat
  BY TopologyAssumption, FS_CardinalityType
<1>2. UpFun(f, nodes, o, N)
  <2> HIDE DEF N
  <2> QED
    BY <1>1, UpExists
<1>3. Above(nodes, o) = f[N]
  BY DEF Above, UpFun, Grown
<1> HIDE DEF f, N
<1> DEFINE K == {n \in 0..N : ~ (f[n] \subseteq DOMAIN Topology)}
<1>4. K = {}
  <2> SUFFICES ASSUME K # {} PROVE FALSE
    OBVIOUS
  <2>1. PICK n \in K : \A k \in K : ~ (k < n)
    <3>1. K \in SUBSET Nat
      BY <1>1
    <3> HIDE DEF K
    <3> QED
      BY <3>1, Least
  <2>2. f[0] = {o}
    BY <1>1, <1>2 DEF UpFun
  <2>3. n # 0
    BY <2>2
  <2>4. n \in 1..N /\ n - 1 \in 0..N /\ n - 1 < n
    BY <2>3, <1>1
  <2>5. f[n - 1] \subseteq DOMAIN Topology
    BY <2>1, <2>4
  <2>6. f[n] = Grown(nodes, f[n - 1])
    <3>1. n \in 0..N /\ n # 0
      BY <2>4
    <3> QED
      BY <3>1, <1>2 DEF UpFun
  <2>7. f[n] \subseteq DOMAIN Topology
    BY <2>5, <2>6 DEF Grown, Closed
  <2> QED
    BY <2>7
<1> QED
  BY <1>1, <1>3, <1>4

LEMMA WithParents ==
  ASSUME NEW e, ObjectOK(e), NEW p, ToSet(p) \subseteq DOMAIN Topology
  PROVE  ObjectOK([e EXCEPT !.parents = p])
<1> DEFINE z == [e EXCEPT !.parents = p]
<1>1. z = [class |-> e.class, parents |-> p, named |-> e.named]
  BY DEF ObjectOK, IsObject
<1> HIDE DEF z
<1>2. IsObject(z) /\ z.parents = p
  BY <1>1 DEF IsObject
<1> QED
  BY <1>2 DEF ObjectOK, z

LEMMA EntryOK ==
  ASSUME NEW objs, ObjectsOK(objs), NEW o
  PROVE  ObjectOK(Entry(objs, o))
BY DEF ObjectsOK, Entry, Unknown, ObjectOK, IsObject

LEMMA SetEntryOK ==
  ASSUME NEW objs, ObjectsOK(objs), NEW o \in DOMAIN Topology, NEW e, ObjectOK(e)
  PROVE  ObjectsOK(SetEntry(objs, o, e))
BY DEF ObjectsOK, SetEntry

LEMMA UpsertObjectOK ==
  ASSUME NEW objs, ObjectsOK(objs), NEW o \in DOMAIN Topology
  PROVE  ObjectsOK(UpsertObject(objs, o, Topology[o]))
<1> DEFINE e == [class |-> Topology[o].class, parents |-> Topology[o].parents, named |-> TRUE]
<1>1. IsObject(e) /\ e.parents = Topology[o].parents
  BY DEF IsObject
<1>2. ObjectOK(e)
  BY <1>1, TopologyParents DEF ObjectOK
<1> HIDE DEF e
<1>3. ObjectsOK(SetEntry(objs, o, e))
  BY <1>2, SetEntryOK
<1> QED
  BY <1>3 DEF UpsertObject, e

LEMMA UpsertParentsOK ==
  ASSUME NEW objs, ObjectsOK(objs), NEW o \in DOMAIN Topology,
         NEW p, ToSet(p) \subseteq DOMAIN Topology
  PROVE  ObjectsOK(UpsertParents(objs, o, p))
BY EntryOK, WithParents, SetEntryOK DEF UpsertParents

LEMMA SeedPathsOK ==
  ASSUME NEW objs, ObjectsOK(objs), NEW o \in DOMAIN Topology
  PROVE  ObjectsOK(SeedPaths(objs, o))
<1> DEFINE steps == {x \in Above(Topology, o) : Topology[x].parents # <<>>}
           new(x) == [Entry(objs, x) EXCEPT !.parents = Topology[x].parents]
           all == SeedPaths(objs, o)
<1>1. all = [x \in DOMAIN objs \cup steps |-> IF x \in steps THEN new(x) ELSE objs[x]]
  BY DEF SeedPaths
<1>2. steps \subseteq DOMAIN Topology
  BY TopologyIsClosed, AboveIsIn
<1>3. \A x \in steps : ObjectOK(new(x))
  BY <1>2, TopologyParents, EntryOK, WithParents
<1> HIDE DEF all, steps, new
<1>4. ObjectsOK(all)
  BY <1>1, <1>2, <1>3 DEF ObjectsOK
<1> QED
  BY <1>4 DEF all

(***************************************************************************)
(* The chain of an owner and its parents, one link after the other.        *)
(***************************************************************************)
Link(chain, n) == IF n = Len(chain) THEN <<>> ELSE <<chain[n + 1]>>

LinkedFun(f, objs, chain) ==
  f = [n \in 0..Len(chain) |->
         IF n = 0 THEN objs ELSE UpsertParents(f[n - 1], chain[n], Link(chain, n))]

LEMMA LinkedExists ==
  ASSUME NEW objs, NEW chain, Len(chain) \in Nat
  PROVE  \E f : LinkedFun(f, objs, chain)
<1> DEFINE G(g, m) ==
      g = [n \in 0..m |-> IF n = 0 THEN objs ELSE UpsertParents(g[n - 1], chain[n], Link(chain, n))]
<1> DEFINE K == {m \in Nat : ~ \E g : G(g, m)}
<1>1. K = {}
  <2> SUFFICES ASSUME K # {} PROVE FALSE
    OBVIOUS
  <2>1. PICK m \in K : \A k \in K : ~ (k < m)
    BY Least
  <2>2. m # 0
    <3> DEFINE g == [n \in {0} |-> objs]
    <3>1. G(g, 0)
      OBVIOUS
    <3> QED
      BY <3>1
  <2>3. m \in Nat /\ m - 1 \in Nat
    BY <2>2
  <2>4. PICK g : G(g, m - 1)
    <3> HIDE DEF G
    <3>1. m - 1 < m
      BY <2>3
    <3>2. m - 1 \notin K
      BY <2>1, <3>1
    <3> QED
      BY <2>3, <3>2
  <2> DEFINE h == [n \in 0..m |-> IF n = 0 THEN objs ELSE UpsertParents(g[n - 1], chain[n], Link(chain, n))]
  <2>5. ASSUME NEW n \in 0..(m - 1)
        PROVE  h[n] = g[n]
    <3>1. n \in 0..m
      BY <2>3
    <3> QED
      BY <2>4, <3>1
  <2>6. h = [n \in 0..m |-> IF n = 0 THEN objs ELSE UpsertParents(h[n - 1], chain[n], Link(chain, n))]
    <3>1. ASSUME NEW n \in 0..m, n # 0
          PROVE  h[n - 1] = g[n - 1]
      <4>1. n - 1 \in 0..(m - 1)
        BY <2>3, <3>1
      <4> HIDE DEF h
      <4> QED
        BY <2>5, <4>1
    <3> QED
      BY <3>1
  <2>7. G(h, m)
    BY <2>6
  <2> QED
    BY <2>7, <2>1
<1>2. \E f : G(f, Len(chain))
  BY <1>1
<1> QED
  BY <1>2 DEF LinkedFun

LEMMA SeedChainOK ==
  ASSUME NEW objs, ObjectsOK(objs), NEW o \in DOMAIN Topology
  PROVE  ObjectsOK(SeedChain(objs, o))
<1> DEFINE chain == <<o>> \o Topology[o].parents
           L == Len(chain)
           f == CHOOSE x : LinkedFun(x, objs, chain)
<1>1. chain \in Seq(DOMAIN Topology)
  <2>1. <<o>> \in Seq(DOMAIN Topology)
    OBVIOUS
  <2> QED
    BY <2>1, TopologyParents, ConcatProperties
<1>2. SeedChain(objs, o) = IF Topology[o].parents = <<>> THEN objs ELSE f[L]
  BY DEF SeedChain, LinkedFun, Link
<1> HIDE DEF chain
<1>3. L \in Nat /\ \A j \in 1..L : chain[j] \in DOMAIN Topology
  BY <1>1, LenProperties, ElementOfSeq
<1>4. LinkedFun(f, objs, chain)
  BY <1>3, LinkedExists
<1> HIDE DEF f
<1>5. ASSUME NEW n \in 1..L
      PROVE  ToSet(Link(chain, n)) \subseteq DOMAIN Topology
  <2>1. CASE n = L
    BY <2>1, NoneIsEmpty DEF Link
  <2>2. CASE n # L
    <3>1. n + 1 \in 1..L
      BY <2>2, <1>3
    <3>2. chain[n + 1] \in DOMAIN Topology
      BY <3>1, <1>3
    <3>3. ToSet(<<chain[n + 1]>>) = {chain[n + 1]}
      BY DEF ToSet
    <3> QED
      BY <2>2, <3>2, <3>3 DEF Link
  <2> QED
    BY <2>1, <2>2
<1> DEFINE K == {n \in 0..L : ~ ObjectsOK(f[n])}
<1>6. K = {}
  <2> SUFFICES ASSUME K # {} PROVE FALSE
    OBVIOUS
  <2>1. PICK n \in K : \A k \in K : ~ (k < n)
    <3>1. K \in SUBSET Nat
      BY <1>3
    <3> HIDE DEF K
    <3> QED
      BY <3>1, Least
  <2>2. f[0] = objs
    BY <1>3, <1>4 DEF LinkedFun
  <2>3. n # 0
    BY <2>2
  <2>4. n \in 1..L /\ n - 1 \in 0..L /\ n - 1 < n
    BY <2>3, <1>3
  <2>5. ObjectsOK(f[n - 1])
    BY <2>1, <2>4
  <2>6. f[n] = UpsertParents(f[n - 1], chain[n], Link(chain, n))
    <3>1. n \in 0..Len(chain) /\ n # 0
      BY <2>4
    <3> QED
      BY <3>1, <1>4 DEF LinkedFun
  <2>7. ObjectsOK(f[n])
    BY <2>4, <2>5, <2>6, <1>3, <1>5, UpsertParentsOK
  <2> QED
    BY <2>7
<1>7. ObjectsOK(f[L])
  BY <1>3, <1>6
<1> QED
  BY <1>2, <1>7

LEMMA SeedOK ==
  ASSUME NEW objs, ObjectsOK(objs), NEW o \in DOMAIN Topology
  PROVE  ObjectsOK(Seed(objs, o))
BY UpsertObjectOK, SeedPathsOK, SeedChainOK DEF Seed

(***************************************************************************)
(* The owners of a list of incidents, one after the other.                 *)
(***************************************************************************)
SeededFun(f, objs, inc, list) ==
  f = [n \in 0..Len(list) |-> IF n = 0 THEN objs ELSE Seed(f[n - 1], inc[list[n]].owner)]

LEMMA SeededExists ==
  ASSUME NEW objs, NEW inc, NEW list, Len(list) \in Nat
  PROVE  \E f : SeededFun(f, objs, inc, list)
<1> DEFINE G(g, m) ==
      g = [n \in 0..m |-> IF n = 0 THEN objs ELSE Seed(g[n - 1], inc[list[n]].owner)]
<1> DEFINE K == {m \in Nat : ~ \E g : G(g, m)}
<1>1. K = {}
  <2> SUFFICES ASSUME K # {} PROVE FALSE
    OBVIOUS
  <2>1. PICK m \in K : \A k \in K : ~ (k < m)
    BY Least
  <2>2. m # 0
    <3> DEFINE g == [n \in {0} |-> objs]
    <3>1. G(g, 0)
      OBVIOUS
    <3> QED
      BY <3>1
  <2>3. m \in Nat /\ m - 1 \in Nat
    BY <2>2
  <2>4. PICK g : G(g, m - 1)
    <3> HIDE DEF G
    <3>1. m - 1 < m
      BY <2>3
    <3>2. m - 1 \notin K
      BY <2>1, <3>1
    <3> QED
      BY <2>3, <3>2
  <2> DEFINE h == [n \in 0..m |-> IF n = 0 THEN objs ELSE Seed(g[n - 1], inc[list[n]].owner)]
  <2>5. ASSUME NEW n \in 0..(m - 1)
        PROVE  h[n] = g[n]
    <3>1. n \in 0..m
      BY <2>3
    <3> QED
      BY <2>4, <3>1
  <2>6. h = [n \in 0..m |-> IF n = 0 THEN objs ELSE Seed(h[n - 1], inc[list[n]].owner)]
    <3>1. ASSUME NEW n \in 0..m, n # 0
          PROVE  h[n - 1] = g[n - 1]
      <4>1. n - 1 \in 0..(m - 1)
        BY <2>3, <3>1
      <4> HIDE DEF h
      <4> QED
        BY <2>5, <4>1
    <3> QED
      BY <3>1
  <2>7. G(h, m)
    BY <2>6
  <2> QED
    BY <2>7, <2>1
<1>2. \E f : G(f, Len(list))
  BY <1>1
<1> QED
  BY <1>2 DEF SeededFun

LEMMA SeedOwnersOK ==
  ASSUME NEW objs, ObjectsOK(objs), NEW inc, NEW list, NEW L \in Nat, Len(list) = L,
         \A j \in 1..L : inc[list[j]].owner \in DOMAIN Topology
  PROVE  ObjectsOK(SeedOwners(objs, inc, list))
<1> DEFINE f == CHOOSE x : SeededFun(x, objs, inc, list)
<1>1. SeededFun(f, objs, inc, list)
  BY SeededExists
<1>2. SeedOwners(objs, inc, list) = f[L]
  BY DEF SeedOwners, SeededFun
<1> HIDE DEF f
<1> DEFINE K == {n \in 0..L : ~ ObjectsOK(f[n])}
<1>3. K = {}
  <2> SUFFICES ASSUME K # {} PROVE FALSE
    OBVIOUS
  <2>1. PICK n \in K : \A k \in K : ~ (k < n)
    <3>1. K \in SUBSET Nat
      OBVIOUS
    <3> HIDE DEF K
    <3> QED
      BY <3>1, Least
  <2>2. f[0] = objs
    BY <1>1 DEF SeededFun
  <2>3. n # 0
    BY <2>2
  <2>4. n \in 1..L /\ n - 1 \in 0..L /\ n - 1 < n
    BY <2>3
  <2>5. ObjectsOK(f[n - 1])
    BY <2>1, <2>4
  <2>6. f[n] = Seed(f[n - 1], inc[list[n]].owner)
    <3>1. n \in 0..Len(list) /\ n # 0
      BY <2>4
    <3> QED
      BY <3>1, <1>1 DEF SeededFun
  <2>7. ObjectsOK(f[n])
    BY <2>4, <2>5, <2>6, SeedOK
  <2> QED
    BY <2>7
<1>4. ObjectsOK(f[L])
  BY <1>3
<1> QED
  BY <1>2, <1>4

-----------------------------------------------------------------------------
(***************************************************************************)
(* Type correctness.                                                       *)
(***************************************************************************)
(* The records of a report are SAYMON's, and names are wanted of objects. *)
RequestTyped(x) ==
  /\ x.pc \in {"idle", "first", "second", "fetched", "grouped", "found"}
  /\ \A i \in DOMAIN x.inc : \E endpoint : x.inc[i] = Record(i, endpoint)
  /\ x.naming \subseteq DOMAIN Topology

(* The inductive invariant of type correctness. *)
Types ==
  /\ RequestsOK
  /\ loop \in Request \cup {None}
  /\ ObjectsOK(objects)
  /\ \A r \in Request : RequestTyped(req[r])

LEMMA OneTyped ==
  ASSUME Types, RequestsOK', NEW r \in Request, NEW x, req' = [req EXCEPT ![r] = x],
         RequestTyped(x), loop' \in Request \cup {None}, ObjectsOK(objects')
  PROVE  Types'
<1>1. req' = [q \in Request |-> IF q = r THEN x ELSE req[q]]
  BY DEF Types, RequestsOK
<1>2. \A q \in Request : RequestTyped(req'[q])
  BY <1>1 DEF Types
<1> QED
  BY <1>2 DEF Types, RequestTyped

LEMMA IdleTyped == RequestTyped(IdleRequest)
<1>1. DOMAIN NoEntries = {}
  BY DEF NoEntries
<1> QED
  BY <1>1 DEF RequestTyped, IdleRequest

LEMMA InitTyped == Init => Types
<1> SUFFICES ASSUME Init PROVE Types
  OBVIOUS
<1>1. DOMAIN NoEntries = {}
  BY DEF NoEntries
<1>2. ObjectsOK(objects)
  BY <1>1 DEF Init, ObjectsOK
<1>3. \A r \in Request : RequestTyped(req[r])
  BY IdleTyped DEF Init
<1> QED
  BY <1>2, <1>3, InitOK DEF Types, Init

(* A record tells the object of its incident, and its owner only that.     *)
LEMMA RecordsTell ==
  ASSUME NEW i \in Incident, NEW endpoint
  PROVE  /\ ObjectId(Record(i, endpoint)) \in DOMAIN Topology
         /\ Record(i, endpoint).owner # None => Record(i, endpoint).owner \in DOMAIN Topology
         /\ Record(i, "active").owner \in DOMAIN Topology
<1>1. EntityOf[i] \in DOMAIN Topology
  BY EntityAssumption
<1>2. /\ Record(i, endpoint).entity = EntityOf[i]
      /\ Record(i, endpoint).owner = IF endpoint = "active" THEN EntityOf[i] ELSE None
      /\ Record(i, "active").owner = EntityOf[i]
  BY DEF Record
<1> QED
  BY <1>1, <1>2 DEF ObjectId

LEMMA ReadFirstTyped ==
  ASSUME Types, NEW r \in Request, ReadFirst(r)
  PROVE  Types'
<1> DEFINE y     == req[r]
           none  == {}
           empty == <<>>
           more  == WithPage("active", y.got)
           due   == IF y.pc = "idle" THEN Present ELSE y.due
           left  == DueAfterFirst(due, y.shifted)
           here  == [y EXCEPT !.pc = "first", !.due = due, !.got = more]
           on    == SecondFrom(y, "second", left, none, empty, more)
<1>1. /\ loop' = None /\ objects' = objects
      /\ req' = [req EXCEPT ![r] = IF IsLast("active", y.got) THEN on ELSE here]
  BY DEF ReadFirst, FetchOrder, SecondFrom
<1>2. IsRequest(y) /\ RequestTyped(y)
  BY DEF Types, RequestsOK, RequestOK
<1> HIDE DEF due, more, left, none, empty
<1>3. RequestTyped(here)
  <2>1. here = [pc |-> "first", due |-> due, shifted |-> y.shifted, got |-> more,
                first |-> y.first, inc |-> y.inc, grouping |-> y.grouping, naming |-> y.naming,
                rows |-> y.rows]
    BY <1>2, ToFirst
  <2> HIDE DEF here
  <2> QED
    BY <1>2, <2>1 DEF RequestTyped
<1>4. RequestTyped(on)
  <2>1. on = [pc |-> "second", due |-> left, shifted |-> none, got |-> empty,
              first |-> more, inc |-> y.inc, grouping |-> y.grouping, naming |-> y.naming,
              rows |-> y.rows]
    BY <1>2, ToSecond
  <2> HIDE DEF on
  <2> QED
    BY <1>2, <2>1 DEF RequestTyped
<1>5. RequestsOK'
  BY ReadFirstStep DEF Types
<1> HIDE DEF here, on
<1> QED
  BY <1>1, <1>3, <1>4, <1>5, OneTyped DEF Types

LEMMA ReadSecondTyped ==
  ASSUME Types, NEW r \in Request, ReadSecond(r)
  PROVE  Types'
<1> DEFINE y    == req[r]
           more == WithPage("history", y.got)
           x    == [y EXCEPT !.got = more]
<1>1. /\ IsRequest(y) /\ RequestTyped(y)
      /\ req = [q \in Request |-> req[q]]
  BY DEF Types, RequestsOK, RequestOK
<1>2. req' = [req EXCEPT ![r] = x] /\ loop' = None /\ objects' = objects
  <2>1. req' = [req EXCEPT ![r].got = WithPage("history", @)]
    BY DEF ReadSecond, FetchOrder
  <2> QED
    BY <2>1, <1>1 DEF ReadSecond
<1> HIDE DEF more
<1>3. x = [pc |-> y.pc, due |-> y.due, shifted |-> y.shifted, got |-> more,
           first |-> y.first, inc |-> y.inc, grouping |-> y.grouping, naming |-> y.naming,
           rows |-> y.rows]
  BY <1>1, UpdateGot
<1> HIDE DEF x
<1>4. RequestTyped(x)
  BY <1>1, <1>3 DEF RequestTyped
<1>5. RequestsOK'
  BY ReadSecondStep DEF Types
<1> QED
  BY <1>2, <1>4, <1>5, OneTyped DEF Types

(* The owners in the records of /incidents are what the store is seeded with. *)
LEMMA FinishReadingTyped ==
  ASSUME Types, NEW r \in Request, FinishReading(r)
  PROVE  Types'
<1> DEFINE y      == req[r]
           empty  == <<>>
           more   == WithPage("history", y.got)
           left   == y.due \ Beyond("history")
           active == Records(y.first, "active")
           merged == MergeActiveAndHistory(active, Records(more, "history"))
           x      == FetchedFrom(y, "fetched", left, empty, empty, merged)
<1>1. /\ IsRequest(y) /\ RequestTyped(y) /\ y.first \in Seq(Incident)
      /\ req = [q \in Request |-> req[q]]
  BY DEF Types, RequestsOK, RequestOK
<1>2. /\ req' = [req EXCEPT ![r] = x] /\ loop' \in {r, None}
      /\ objects' = SeedOwners(objects, active, y.first)
  BY FinishedIs DEF Types
<1>3. ASSUME NEW i \in DOMAIN merged
      PROVE  \E endpoint : merged[i] = Record(i, endpoint)
  BY DEF MergeActiveAndHistory, Records
<1>4. ObjectsOK(objects')
  <2>1. Len(y.first) \in Nat /\ \A j \in 1..Len(y.first) : y.first[j] \in Incident
    BY <1>1, LenProperties, ElementOfSeq
  <2>2. ASSUME NEW j \in 1..Len(y.first)
        PROVE  active[y.first[j]].owner \in DOMAIN Topology
    <3>1. y.first[j] \in ToSet(y.first)
      BY <1>1, Elements
    <3>2. active[y.first[j]] = Record(y.first[j], "active")
      BY <3>1 DEF Records
    <3> QED
      BY <3>2, <2>1, RecordsTell
  <2> HIDE DEF active
  <2> QED
    BY <1>2, <2>1, <2>2, SeedOwnersOK DEF Types
<1> HIDE DEF merged, left, empty
<1>5. x = [pc |-> "fetched", due |-> left, shifted |-> y.shifted, got |-> empty,
           first |-> empty, inc |-> merged, grouping |-> y.grouping, naming |-> y.naming,
           rows |-> y.rows]
  BY <1>1, ToFetched
<1> HIDE DEF x
<1>6. RequestTyped(x)
  BY <1>1, <1>3, <1>5 DEF RequestTyped
<1>7. RequestsOK'
  BY FinishReadingStep DEF Types
<1> QED
  BY <1>2, <1>4, <1>6, <1>7, OneTyped DEF Types

LEMMA GroupReportTyped ==
  ASSUME Types, NEW r \in Request, GroupReport(r)
  PROVE  Types'
<1> DEFINE g == ComputeGrouping(Order(r), req[r].inc, PeekNodes(objects))
           objs == ContainerObjects(r)
           none == {}
           x == GroupedFrom(req[r], "grouped", none, g, objs)
<1>1. /\ req' = [req EXCEPT ![r] = x] /\ loop' \in {r, None} /\ objects' = objects
  BY DEF GroupReport, GroupedFrom
<1>2. IsRequest(req[r]) /\ RequestTyped(req[r])
  BY DEF Types, RequestsOK, RequestOK
<1>3. objs \subseteq DOMAIN Topology
  BY DEF ContainerObjects
<1> HIDE DEF g, objs, none
<1>4. x = [pc |-> "grouped", due |-> none, shifted |-> req[r].shifted, got |-> req[r].got,
           first |-> req[r].first, inc |-> req[r].inc, grouping |-> g, naming |-> objs,
           rows |-> req[r].rows]
  BY <1>2, ToGrouped
<1> HIDE DEF x
<1>5. RequestTyped(x)
  BY <1>2, <1>3, <1>4 DEF RequestTyped
<1>6. RequestsOK'
  BY GroupReportStep DEF Types
<1> QED
  BY <1>1, <1>5, <1>6, OneTyped DEF Types

LEMMA FindContainersTyped ==
  ASSUME Types, NEW r \in Request, FindContainers(r)
  PROVE  Types'
<1> DEFINE rows == ProcessedRows(Order(r), req[r].inc, PeekNodes(objects))
           objs == ContainerObjects(r)
           x == [req[r] EXCEPT !.pc = "found", !.naming = objs, !.rows = rows]
<1>1. req' = [req EXCEPT ![r] = x] /\ loop' = None /\ objects' = objects
  BY DEF FindContainers
<1>2. IsRequest(req[r]) /\ RequestTyped(req[r])
  BY DEF Types, RequestsOK, RequestOK
<1>3. objs \subseteq DOMAIN Topology
  BY DEF ContainerObjects
<1> HIDE DEF rows, objs
<1>4. x = [pc |-> "found", due |-> req[r].due, shifted |-> req[r].shifted, got |-> req[r].got,
           first |-> req[r].first, inc |-> req[r].inc, grouping |-> req[r].grouping,
           naming |-> objs, rows |-> rows]
  BY <1>2, ToFound
<1> HIDE DEF x
<1>5. RequestTyped(x)
  BY <1>2, <1>3, <1>4 DEF RequestTyped
<1>6. RequestsOK'
  BY FindContainersStep DEF Types
<1> QED
  BY <1>1, <1>5, <1>6, OneTyped DEF Types

(* What a request asks for are objects that there are.                     *)
LEMMA WantedExist ==
  ASSUME Types, NEW r \in Request
  PROVE  Wanted(r) \subseteq DOMAIN Topology
<1> DEFINE inc == req[r].inc
<1>1. /\ RequestTyped(req[r]) /\ DOMAIN inc \subseteq Incident
      /\ req[r].naming \subseteq DOMAIN Topology /\ ObjectsOK(objects)
  BY DEF Types, RequestsOK, RequestOK, RequestTyped
<1>2. ASSUME NEW i \in DOMAIN inc
      PROVE  /\ ObjectId(inc[i]) \in DOMAIN Topology
             /\ inc[i].owner # None => inc[i].owner \in DOMAIN Topology
  <2>1. PICK endpoint : inc[i] = Record(i, endpoint)
    BY <1>1 DEF RequestTyped
  <2> QED
    BY <2>1, <1>1, RecordsTell
<1>3. \A i \in DOMAIN inc : MissingAbove(objects, ObjectId(inc[i])) \subseteq DOMAIN Topology
  BY <1>1, <1>2, PeekedIsClosed, AboveIsIn DEF MissingAbove
<1>4. \A o \in DOMAIN Topology : OnlyParent(o) \subseteq DOMAIN Topology
  BY TopologyParents DEF OnlyParent
<1>5. Shown(r) \subseteq DOMAIN Topology
  <2>1. {ObjectId(inc[i]) : i \in DOMAIN inc} \subseteq DOMAIN Topology
    BY <1>2
  <2>2. \A i \in {x \in DOMAIN inc : inc[x].owner # None} :
          OnlyParent(inc[i].owner) \subseteq DOMAIN Topology
    BY <1>2, <1>4
  <2> QED
    BY <2>1, <2>2 DEF Shown
<1>6. \A S : Unnamed(objects, S) \subseteq S
  BY DEF Unnamed
<1>7. Unnamed(objects, req[r].naming) \subseteq DOMAIN Topology
      /\ Unnamed(objects, Shown(r)) \subseteq DOMAIN Topology
  BY <1>1, <1>5, <1>6
<1>8. UNION {MissingAbove(objects, ObjectId(inc[i])) : i \in DOMAIN inc} \subseteq DOMAIN Topology
  BY <1>3
<1> QED
  BY <1>7, <1>8 DEF Wanted

LEMMA FetchObjectTyped ==
  ASSUME Types, NEW r \in Request, FetchObject(r)
  PROVE  Types'
<1>1. PICK o \in Wanted(r) : objects' = UpsertFromApi(objects, o)
  BY DEF FetchObject
<1>2. req' = req /\ listed' = listed /\ loop' = None
  BY DEF FetchObject
<1>3. o \in DOMAIN Topology
  BY WantedExist
<1>4. ObjectsOK(objects')
  BY <1>1, <1>3, UpsertObjectOK DEF UpsertFromApi, Types
<1>5. RequestsOK'
  BY <1>2, UnchangedStep DEF Types
<1> QED
  BY <1>2, <1>4, <1>5 DEF Types, RequestTyped

LEMMA RestTyped ==
  ASSUME Types, NEW r \in Request, Respond(r) \/ Fail(r)
  PROVE  Types'
<1>1. /\ req' = [req EXCEPT ![r] = IdleRequest] /\ objects' = objects
      /\ loop' = None \/ loop' = loop
  BY DEF Respond, Fail
<1>2. RequestsOK'
  BY EndStep DEF Types
<1> QED
  BY <1>1, <1>2, IdleTyped, OneTyped DEF Types

LEMMA SameTyped ==
  ASSUME Types, RequestsOK', req' = req, objects' = objects, loop' = loop
  PROVE  Types'
BY DEF Types, RequestTyped

LEMMA ClearTyped ==
  ASSUME Types, NEW p \in DOMAIN listed["active"], Clear(p)
  PROVE  Types'
<1>1. loop' = loop /\ objects' = objects
  BY DEF Clear
<1>2. ASSUME NEW r \in Request
      PROVE  RequestTyped(req'[r])
  <2> DEFINE S == req[r].shifted
                    \cup {listed["active"][m] : m \in {n \in DOMAIN listed["active"] : n > p}}
             x == [req[r] EXCEPT !.shifted = S]
  <2>1. IsRequest(req[r]) /\ RequestTyped(req[r])
    BY DEF Types, RequestsOK, RequestOK
  <2>2. req'[r] = req[r] \/ req'[r] = x
    BY DEF Clear
  <2> HIDE DEF S
  <2>3. x = [pc |-> req[r].pc, due |-> req[r].due, shifted |-> S, got |-> req[r].got,
             first |-> req[r].first, inc |-> req[r].inc, grouping |-> req[r].grouping,
             naming |-> req[r].naming, rows |-> req[r].rows]
    BY <2>1, UpdateShifted
  <2> HIDE DEF x
  <2>4. RequestTyped(x)
    BY <2>1, <2>3 DEF RequestTyped
  <2> QED
    BY <2>1, <2>2, <2>4
<1>3. RequestsOK'
  BY ClearStep DEF Types
<1> QED
  BY <1>1, <1>2, <1>3 DEF Types, RequestTyped

(***************************************************************************)
(* The variables hold what the code's objects can hold: the store holds    *)
(* only objects that SAYMON has, whichever owners seeded it and whatever   *)
(* was fetched.                                                            *)
(***************************************************************************)
THEOREM ProcessTypeCorrect == Spec => []TypeOK
<1>1. Init => Types
  BY InitTyped
<1>2. Types /\ [Next]_vars => Types'
  <2> SUFFICES ASSUME Types, [Next]_vars
               PROVE  Types'
    OBVIOUS
  <2>1. ASSUME NEW i \in Incident, Raise(i)
        PROVE  Types'
    <3>1. req' = req /\ objects' = objects /\ loop' = loop
      BY <2>1 DEF Raise
    <3>2. RequestsOK'
      BY <2>1, RaiseStep DEF Types
    <3> QED
      BY <3>1, <3>2, SameTyped
  <2>9. ASSUME NEW p \in DOMAIN listed["active"], Clear(p)
        PROVE  Types'
    BY <2>9, ClearTyped
  <2>2. ASSUME NEW r \in Request, ReadFirst(r)
        PROVE  Types'
    BY <2>2, ReadFirstTyped
  <2>3. ASSUME NEW r \in Request, ReadSecond(r)
        PROVE  Types'
    BY <2>3, ReadSecondTyped
  <2>10. ASSUME NEW r \in Request, FinishReading(r)
         PROVE  Types'
    BY <2>10, FinishReadingTyped
  <2>4. ASSUME NEW r \in Request, GroupReport(r)
        PROVE  Types'
    BY <2>4, GroupReportTyped
  <2>5. ASSUME NEW r \in Request, FindContainers(r)
        PROVE  Types'
    BY <2>5, FindContainersTyped
  <2>6. ASSUME NEW r \in Request, FetchObject(r)
        PROVE  Types'
    BY <2>6, FetchObjectTyped
  <2>7. ASSUME NEW r \in Request, Respond(r) \/ Fail(r)
        PROVE  Types'
    BY <2>7, RestTyped
  <2>8. CASE UNCHANGED vars
    <3>1. RequestsOK'
      BY <2>8, UnchangedStep DEF vars, Types
    <3> QED
      BY <2>8, <3>1, SameTyped DEF vars
  <2> QED
    BY <2>1, <2>2, <2>3, <2>4, <2>5, <2>6, <2>7, <2>8, <2>9, <2>10 DEF Next
<1>3. Types => TypeOK
  <2> SUFFICES ASSUME Types PROVE TypeOK
    OBVIOUS
  <2>1. /\ listed \in [Endpoints -> Seq(Incident)]
        /\ DOMAIN objects \subseteq DOMAIN Topology
        /\ loop \in Request \cup {None}
    BY DEF Types, RequestsOK, Lists, ObjectsOK
  <2>2. ASSUME NEW r \in Request
        PROVE  /\ req[r].pc \in {"idle", "first", "second", "fetched", "grouped", "found"}
               /\ DOMAIN req[r].inc \cup req[r].due \cup req[r].shifted \subseteq Incident
               /\ req[r].got \in Seq(Incident) /\ req[r].first \in Seq(Incident)
               /\ req[r].naming \subseteq DOMAIN Topology
    BY DEF Types, RequestsOK, RequestOK, RequestTyped
  <2> QED
    BY <2>1, <2>2 DEF TypeOK
<1> QED
  BY <1>1, <1>2, <1>3, PTL DEF Spec
=============================================================================
