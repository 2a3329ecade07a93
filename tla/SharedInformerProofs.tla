------------------------- MODULE SharedInformerProofs -------------------------
(***************************************************************************)
(* Lemmas about the shared informer, for every set of keys, listeners and  *)
(* Runs.  They say what queueActionLocked, Replace, Resync and Rest do to  *)
(* a queue, without its order of keys, and that every step of the informer *)
(* keeps three invariants:                                                 *)
(*   InformerInv   what is queued says of a version what the log says;     *)
(*   OrderInv      with one Run and current lists, the deltas of a key get *)
(*                 newer from the cache to the end of the queue;           *)
(*   AgreeInv      cache and queue together know what the Run has seen.    *)
(***************************************************************************)
EXTENDS SharedInformer, SequenceTheorems, FiniteSetTheorems, TLAPS

(* What a queue holds for one key.                                         *)
Item == [key : Keys, deltas : Seq(Delta) \ {<<>>}]

(* A DeltaFIFO has one item per key.                                       *)
QueueOK(q) == q \in Seq(Item) /\ \A i, j \in DOMAIN q : q[i].key = q[j].key => i = j

(* The deltas of k in the queue q are s.                                   *)
Has(q, k, s) == \E i \in DOMAIN q : q[i].key = k /\ q[i].deltas = s

(* queueActionLocked takes the delta d of k.                               *)
Takes(q, k, d) == ~(d.type = "Sync" /\ WillBeDeleted(q, k))

(* s is t with d at the end, where the delta before d may have made way.   *)
Extends(s, t, d) ==
  /\ Len(s) \in 1..(Len(t) + 1) /\ s[Len(s)] = d
  /\ \A j \in 1..(Len(s) - 1) : s[j] = t[j]

(* What has been queued for k before a delta is appended. *)
Before(q, k, t) == Has(q, k, t) \/ (~Queued(q, k) /\ t = <<>>)

(* SetToSeq enumerates a finite set.                                       *)
LEMMA Enumeration ==
  ASSUME NEW S, IsFiniteSet(S)
  PROVE  /\ SetToSeq(S) \in Seq(S) /\ IsInjective(SetToSeq(S))
         /\ \A x \in S : \E i \in DOMAIN SetToSeq(S) : SetToSeq(S)[i] = x
<1> DEFINE D == 1..Cardinality(S)
<1>1. Cardinality(S) \in Nat /\ ExistsBijection(D, S)
  BY FS_CardinalityType
<1>2. \E f \in [D -> S] : IsInjective(f)
  BY <1>1 DEF ExistsBijection, Bijection, Injection
<1>3. SetToSeq(S) \in [D -> S] /\ IsInjective(SetToSeq(S))
  BY <1>2 DEF SetToSeq
<1>4. SetToSeq(S) \in Injection(D, S) /\ IsFiniteSet(D) /\ Cardinality(D) = Cardinality(S)
  BY <1>1, <1>3, FS_Interval DEF Injection
<1>5. SetToSeq(S) \in Surjection(D, S)
  BY <1>4, FS_Injection
<1>6. SetToSeq(S) \in Seq(S)
  BY <1>1, <1>3
<1> QED BY <1>1, <1>3, <1>5, <1>6 DEF Surjection

(* Appending a delta and removing a duplicate.                             *)
LEMMA DedupExtends ==
  ASSUME NEW t \in Seq(Delta), NEW d \in Delta
  PROVE  /\ Dedup(Append(t, d)) \in Seq(Delta) \ {<<>>}
         /\ Extends(Dedup(Append(t, d)), t, d)
<1> DEFINE a == Append(t, d)
<1>1. /\ a \in Seq(Delta) /\ Len(a) = Len(t) + 1 /\ a[Len(a)] = d
      /\ \A j \in 1..Len(t) : a[j] = t[j]
      /\ Len(t) \in Nat
  BY AppendProperties, LenProperties
<1> HIDE DEF a
<1>2. CASE Dedup(a) = a
  <2>1. Extends(a, t, d) /\ a # <<>>
    BY <1>1, EmptySeq DEF Extends
  <2> QED BY <1>1, <1>2, <2>1 DEF a
<1>3. CASE Dedup(a) # a
  <2>1. Len(a) > 1 /\ Dedup(a) = Append(SubSeq(a, 1, Len(a) - 2), a[Len(a)])
    BY <1>3 DEF Dedup
  <2> DEFINE n == Len(a) - 2
             u == SubSeq(a, 1, n)
             b == Append(u, d)
  <2>2. n \in Nat /\ \A i \in 1..n : a[i] \in Delta
    BY <1>1, <2>1, ElementOfSeq
  <2> HIDE DEF n
  <2>3. /\ u \in Seq(Delta) /\ Len(u) = IF 1 <= n THEN n - 1 + 1 ELSE 0
        /\ \A j \in 1..(n - 1 + 1) : u[j] = a[1 + j - 1]
    BY <2>2, SubSeqProperties
  <2>4. Dedup(a) = b
    BY <1>1, <2>1 DEF n
  <2> HIDE DEF u
  <2>5. /\ b \in Seq(Delta) /\ Len(b) = Len(u) + 1 /\ b[Len(b)] = d
        /\ \A j \in 1..Len(u) : b[j] = u[j]
    BY <2>3, AppendProperties
  <2> HIDE DEF b
  <2>6. Extends(b, t, d) /\ b # <<>>
    BY <1>1, <2>1, <2>2, <2>3, <2>5, EmptySeq DEF Extends, n
  <2> QED BY <2>4, <2>5, <2>6 DEF a
<1> QED BY <1>2, <1>3

(* What queueActionLocked does to the items of a queue.                    *)
Adds(q, q2, K, ds) ==
  /\ QueueOK(q2)
  /\ \A k \in Keys : Queued(q2, k) <=> Queued(q, k) \/ (k \in K /\ Takes(q, k, ds[k]))
  /\ \A k \in Keys : \A s : Has(q2, k, s) =>
       \/ Has(q, k, s) /\ ~(k \in K /\ Takes(q, k, ds[k]))
       \/ /\ k \in K /\ Takes(q, k, ds[k])
          /\ s \in Seq(Delta) /\ s # <<>>
          /\ \E t \in Seq(Delta) : Before(q, k, t) /\ Extends(s, t, ds[k])

(* Every key keeps one item.                                               *)
LEMMA QueueAction ==
  ASSUME NEW q, QueueOK(q), NEW K \in SUBSET Keys, IsFiniteSet(K), NEW ds \in [K -> Delta]
  PROVE  Adds(q, queueActionLocked(q, ds), K, ds)
<1> DEFINE T == {k \in K : Takes(q, k, ds[k])}
           f == [i \in DOMAIN q |->
                   IF q[i].key \in T
                   THEN [q[i] EXCEPT !.deltas = Dedup(Append(@, ds[q[i].key]))] ELSE q[i]]
           new == {[key |-> k, deltas |-> <<ds[k]>>] : k \in {j \in T : ~Queued(q, j)}}
           n == SetToSeq(new)
           q2 == f \o n
<1>1. queueActionLocked(q, ds) = q2
  BY DEF queueActionLocked, Takes
<1>2. /\ q \in Seq(Item) /\ DOMAIN q = 1..Len(q) /\ Len(q) \in Nat
      /\ \A i \in DOMAIN q : /\ q[i] \in Item /\ q[i].key \in Keys
                            /\ q[i].deltas \in Seq(Delta) \ {<<>>}
      /\ \A i, j \in DOMAIN q : q[i].key = q[j].key => i = j
  <2>1. /\ q \in Seq(Item) /\ \A i, j \in DOMAIN q : q[i].key = q[j].key => i = j
    BY DEF QueueOK
  <2>2. DOMAIN q = 1..Len(q) /\ Len(q) \in Nat
    BY <2>1, LenProperties
  <2>3. \A i \in DOMAIN q : q[i] \in Item
    BY <2>1, <2>2, ElementOfSeq
  <2>4. \A e \in Item : e.key \in Keys /\ e.deltas \in Seq(Delta) \ {<<>>}
    BY DEF Item
  <2> QED BY <2>1, <2>2, <2>3, <2>4
<1>3. \A i \in DOMAIN q : q[i].key \in T =>
        /\ f[i] \in Item /\ f[i].key = q[i].key
        /\ Extends(f[i].deltas, q[i].deltas, ds[q[i].key])
  <2> SUFFICES ASSUME NEW i \in DOMAIN q, q[i].key \in T
               PROVE  /\ f[i] \in Item /\ f[i].key = q[i].key
                      /\ Extends(f[i].deltas, q[i].deltas, ds[q[i].key])
    OBVIOUS
  <2> DEFINE s == Dedup(Append(q[i].deltas, ds[q[i].key]))
  <2>1. s \in Seq(Delta) \ {<<>>} /\ Extends(s, q[i].deltas, ds[q[i].key])
    BY <1>2, DedupExtends
  <2>2. f[i] = [q[i] EXCEPT !.deltas = s]
    OBVIOUS
  <2> HIDE DEF s, f
  <2> QED BY <1>2, <2>1, <2>2 DEF Item
<1>4. \A i \in DOMAIN q : q[i].key \notin T => f[i] = q[i]
  OBVIOUS
<1>5. DOMAIN f = DOMAIN q
  OBVIOUS
<1>6. IsFiniteSet(new)
  <2> DEFINE J == {j \in T : ~Queued(q, j)}
             g == [k \in J |-> [key |-> k, deltas |-> <<ds[k]>>]]
  <2>1. IsFiniteSet(J)
    BY FS_Subset
  <2>2. g \in Surjection(J, new)
    BY DEF Surjection
  <2> QED BY <2>1, <2>2, FS_Surjection
<1>7. \A e \in new : /\ e \in Item /\ e.key \in T /\ ~Queued(q, e.key) /\ e.deltas = <<ds[e.key]>>
  <2>1. \A k \in T : k \in Keys /\ <<ds[k]>> \in Seq(Delta) \ {<<>>}
    OBVIOUS
  <2> HIDE DEF T
  <2> SUFFICES ASSUME NEW e \in new
               PROVE  e \in Item /\ e.key \in T /\ ~Queued(q, e.key) /\ e.deltas = <<ds[e.key]>>
    OBVIOUS
  <2>2. PICK k \in T : ~Queued(q, k) /\ e = [key |-> k, deltas |-> <<ds[k]>>]
    OBVIOUS
  <2> DEFINE s == <<ds[k]>>
  <2>3. k \in Keys /\ s \in Seq(Delta) \ {<<>>} /\ e = [key |-> k, deltas |-> s] /\ s = <<ds[k]>>
    BY <2>1, <2>2
  <2> HIDE DEF s, f, new
  <2>4. e \in Item
    BY <2>3 DEF Item
  <2> QED BY <2>2, <2>3, <2>4
<1>8. \A k \in T : ~Queued(q, k) => \E e \in new : e.key = k
  <2> HIDE DEF T
  <2>1. \A k \in T : ~Queued(q, k) => [key |-> k, deltas |-> <<ds[k]>>] \in new
    OBVIOUS
  <2> HIDE DEF new
  <2> QED BY <2>1
<1> HIDE DEF new, f
<1>9. /\ n \in Seq(new) /\ IsInjective(n) /\ DOMAIN n = 1..Len(n) /\ Len(n) \in Nat
      /\ \A i \in DOMAIN n : n[i] \in new
      /\ \A e \in new : \E i \in DOMAIN n : n[i] = e
  BY <1>6, Enumeration, LenProperties, ElementOfSeq
<1> HIDE DEF n
<1>10. f \in Seq(Item) /\ Len(f) = Len(q)
  <2>1. f \in [1..Len(q) -> Item]
    <3>1. f = [i \in DOMAIN q |-> f[i]]
      BY DEF f
    <3>2. \A i \in DOMAIN q : f[i] \in Item
      BY <1>2, <1>3, <1>4
    <3> QED BY <1>2, <3>1, <3>2
  <2> QED BY <1>2, <2>1
<1>11. n \in Seq(Item)
  BY <1>7, <1>9, SeqMonotonic
<1>12. /\ q2 \in Seq(Item) /\ Len(q2) = Len(q) + Len(n) /\ DOMAIN q2 = 1..Len(q2)
       /\ \A i \in DOMAIN q2 : q2[i] = IF i <= Len(q) THEN f[i] ELSE n[i - Len(q)]
  <2>1. /\ q2 \in Seq(Item) /\ Len(q2) = Len(f) + Len(n)
        /\ \A i \in 1..(Len(f) + Len(n)) : q2[i] = IF i <= Len(f) THEN f[i] ELSE n[i - Len(f)]
    BY <1>10, <1>11, ConcatProperties
  <2> HIDE DEF q2
  <2>2. DOMAIN q2 = 1..Len(q2)
    BY <2>1, LenProperties
  <2> QED BY <1>10, <2>1, <2>2
<1> HIDE DEF q2
<1>13. \A i \in DOMAIN q2 :
         \/ i \in DOMAIN q /\ q2[i] = f[i] /\ q2[i].key = q[i].key
         \/ i - Len(q) \in DOMAIN n /\ q2[i] = n[i - Len(q)] /\ q2[i] \in new /\ i \notin DOMAIN q
  <2> SUFFICES ASSUME NEW i \in DOMAIN q2
               PROVE  \/ i \in DOMAIN q /\ q2[i] = f[i] /\ q2[i].key = q[i].key
                      \/ /\ i - Len(q) \in DOMAIN n /\ q2[i] = n[i - Len(q)] /\ q2[i] \in new
                         /\ i \notin DOMAIN q
    OBVIOUS
  <2>1. CASE i <= Len(q)
    BY <2>1, <1>2, <1>3, <1>4, <1>12
  <2>2. CASE ~(i <= Len(q))
    BY <2>2, <1>2, <1>9, <1>12
  <2> QED BY <2>1, <2>2
<1>14. QueueOK(q2)
  <2> SUFFICES ASSUME NEW i \in DOMAIN q2, NEW j \in DOMAIN q2, q2[i].key = q2[j].key
               PROVE  i = j
    BY <1>12 DEF QueueOK
  <2>1. CASE i \in DOMAIN q /\ j \in DOMAIN q
    BY <2>1, <1>2, <1>13
  <2>2. CASE i \in DOMAIN q /\ j \notin DOMAIN q
    BY <2>2, <1>7, <1>13 DEF Queued
  <2>3. CASE i \notin DOMAIN q /\ j \in DOMAIN q
    BY <2>3, <1>7, <1>13 DEF Queued
  <2>4. CASE i \notin DOMAIN q /\ j \notin DOMAIN q
    <3>1. /\ n[i - Len(q)].key = n[j - Len(q)].key
          /\ i - Len(q) \in DOMAIN n /\ j - Len(q) \in DOMAIN n
      BY <2>4, <1>13
    <3>2. n[i - Len(q)] = n[j - Len(q)]
      BY <3>1, <1>7, <1>9 DEF Item, new
    <3>3. i - Len(q) = j - Len(q)
      BY <3>1, <3>2, <1>9 DEF IsInjective
    <3> QED BY <3>3, <1>2, <1>12
  <2> QED BY <2>1, <2>2, <2>3, <2>4
<1>15. ASSUME NEW k \in Keys
       PROVE  Queued(q2, k) <=> Queued(q, k) \/ k \in T
  <2>1. ASSUME Queued(q2, k) PROVE Queued(q, k) \/ k \in T
    BY <2>1, <1>7, <1>13 DEF Queued
  <2>2. ASSUME Queued(q, k) PROVE Queued(q2, k)
    <3>1. PICK i \in DOMAIN q : q[i].key = k
      BY <2>2 DEF Queued
    <3>2. i \in DOMAIN q2
      BY <3>1, <1>2, <1>9, <1>12
    <3> QED BY <3>1, <3>2, <1>13 DEF Queued
  <2>3. ASSUME k \in T, ~Queued(q, k) PROVE Queued(q2, k)
    <3>1. PICK i \in DOMAIN n : n[i].key = k
      BY <2>3, <1>8, <1>9
    <3>2. Len(q) + i \in DOMAIN q2 /\ q2[Len(q) + i] = n[i]
      BY <1>2, <1>9, <1>12
    <3> QED BY <3>1, <3>2 DEF Queued
  <2> QED BY <2>1, <2>2, <2>3
<1>16. ASSUME NEW k \in Keys, NEW s, Has(q2, k, s)
       PROVE  \/ Has(q, k, s) /\ k \notin T
              \/ /\ k \in T /\ s \in Seq(Delta) /\ s # <<>>
                 /\ \E t \in Seq(Delta) : Before(q, k, t) /\ Extends(s, t, ds[k])
  <2>1. PICK i \in DOMAIN q2 : q2[i].key = k /\ q2[i].deltas = s
    BY <1>16 DEF Has
  <2>2. CASE i \in DOMAIN q /\ k \notin T
    BY <2>1, <2>2, <1>4, <1>13 DEF Has
  <2>3. CASE i \in DOMAIN q /\ k \in T
    <3>1. f[i] \in Item /\ f[i].key = k /\ f[i].deltas = s /\ Extends(s, q[i].deltas, ds[k])
      BY <2>1, <2>3, <1>3, <1>13
    <3>2. Before(q, k, q[i].deltas) /\ q[i].deltas \in Seq(Delta)
      BY <2>1, <2>3, <1>2, <1>13 DEF Before, Has
    <3> QED BY <2>3, <3>1, <3>2 DEF Item
  <2>4. CASE i \notin DOMAIN q
    <3>1. q2[i] \in new
      BY <2>1, <2>4, <1>13
    <3>2. k \in T /\ ~Queued(q, k) /\ s = <<ds[k]>>
      BY <2>1, <3>1, <1>7
    <3>3. Before(q, k, <<>>) /\ <<>> \in Seq(Delta) /\ Extends(s, <<>>, ds[k])
      BY <3>2 DEF Before, Extends
    <3>4. s \in Seq(Delta) /\ s # <<>>
      BY <2>1, <3>1, <1>7 DEF Item
    <3> QED BY <3>2, <3>3, <3>4
  <2> QED BY <2>2, <2>3, <2>4
<1> QED BY <1>1, <1>14, <1>15, <1>16 DEF Adds

-----------------------------------------------------------------------------
(* The log.                                                                *)
LogOK == log \in Seq([key : Keys, there : BOOLEAN])

(* n is a version of k, or none.                                           *)
VersionOf(k, n) == n \in 0..Len(log) /\ (n > 0 => log[n].key = k)

(* A delta of k says of a version what the log says.                       *)
Sound(k, d) ==
  d \in Delta /\ VersionOf(k, d.version) /\ (d.type = "Deleted" <=> ~There(d.version))

SoundQueue(q) == \A k \in Keys : \A s : Has(q, k, s) => \A j \in DOMAIN s : Sound(k, s[j])

(* A set of positions has a last one.                                      *)
LEMMA LastOne ==
  ASSUME NEW n \in Nat, NEW I \in SUBSET (1..n), I # {}
  PROVE  \E i \in I : \A j \in I : j <= i
<1> DEFINE T == {i..n : i \in I}
<1>1. T \subseteq FiniteSubsetsOf(1..n) /\ T # {}
  <2>1. \A i \in I : i \in Int /\ (i..n) \subseteq 1..n
    OBVIOUS
  <2>2. \A i \in I : IsFiniteSet(i..n)
    BY <2>1, FS_Interval
  <2> QED BY <2>1, <2>2 DEF FiniteSubsetsOf
<1>2. \E X \in T : \A Y \in T : ~(<<Y, X>> \in StrictSubsetOrdering(1..n))
  BY <1>1, FS_StrictSubsetOrderingWellFounded, WFMin
<1>3. PICK i \in I : \A j \in I : ~(<<j..n, i..n>> \in StrictSubsetOrdering(1..n))
  BY <1>2
<1>4. ASSUME NEW j \in I PROVE j <= i
  <2>1. CASE j > i
    <3>1. (j..n) \in SUBSET (1..n) /\ (i..n) \in SUBSET (1..n) /\ (j..n) \subseteq (i..n)
      BY <2>1
    <3>2. i \in i..n /\ i \notin j..n
      BY <2>1
    <3>3. <<j..n, i..n>> \in StrictSubsetOrdering(1..n)
      BY <3>1, <3>2 DEF StrictSubsetOrdering
    <3> QED BY <3>3, <1>3
  <2> QED BY <2>1
<1> QED BY <1>4

(* The entries of the log are well-typed. *)
LEMMA LogEntry ==
  ASSUME LogOK
  PROVE  /\ Len(log) \in Nat /\ DOMAIN log = 1..Len(log)
         /\ \A n \in 1..Len(log) : log[n].key \in Keys /\ log[n].there \in BOOLEAN
<1>1. Len(log) \in Nat /\ DOMAIN log = 1..Len(log)
  BY LenProperties DEF LogOK
<1>2. \A n \in 1..Len(log) : log[n] \in [key : Keys, there : BOOLEAN]
  BY ElementOfSeq DEF LogOK
<1> QED BY <1>1, <1>2

(* Version finds the latest write of a key.                                *)
LEMMA VersionIs ==
  ASSUME LogOK, NEW k \in Keys, NEW n \in 0..Len(log)
  PROVE  /\ VersionOf(k, Version(k, n)) /\ Version(k, n) \in 0..n
         /\ \A i \in 1..n : log[i].key = k => i <= Version(k, n)
<1>1. n \in Nat /\ Len(log) \in Nat
  BY LogEntry
<1> DEFINE I == {i \in 1..n : log[i].key = k}
<1>2. CASE I = {}
  BY <1>1, <1>2 DEF Version, VersionOf
<1>3. CASE I # {}
  <2>1. \E i \in 1..n : log[i].key = k /\ \A j \in (i + 1)..n : log[j].key # k
    <3>1. PICK i \in I : \A j \in I : j <= i
      BY <1>1, <1>3, LastOne
    <3> QED BY <1>1, <3>1
  <2>2. /\ Version(k, n) \in 1..n /\ log[Version(k, n)].key = k
        /\ \A j \in (Version(k, n) + 1)..n : log[j].key # k
    BY <1>3, <2>1 DEF Version
  <2> QED BY <1>1, <2>2 DEF VersionOf
<1> QED BY <1>2, <1>3

(* Only finitely many keys have been written.                              *)
LEMMA WrittenKeys ==
  ASSUME LogOK, NEW K, \A k \in K : \E i \in 1..Len(log) : log[i].key = k
  PROVE  IsFiniteSet(K)
<1> DEFINE I == 1..Len(log)
           W == {log[i].key : i \in I}
           g == [i \in I |-> log[i].key]
<1>1. g \in Surjection(I, W)
  BY DEF Surjection
<1>2. IsFiniteSet(I)
  BY LogEntry, FS_Interval
<1>3. IsFiniteSet(W)
  BY <1>1, <1>2, FS_Surjection
<1>4. K \subseteq W
  OBVIOUS
<1> QED BY <1>3, <1>4, FS_Subset

(* A delta of a queue is one that has been added or was there.             *)
LEMMA AddedDeltas ==
  ASSUME NEW q, NEW q2, NEW K, NEW ds, Adds(q, q2, K, ds),
         NEW k \in Keys, NEW s, Has(q2, k, s), NEW j \in DOMAIN s
  PROVE  \/ k \in K /\ s[j] = ds[k]
         \/ \E t : Has(q, k, t) /\ \E i \in DOMAIN t : s[j] = t[i]
<1>1. CASE Has(q, k, s)
  BY <1>1
<1>2. CASE ~Has(q, k, s)
  <2>1. k \in K /\ s \in Seq(Delta)
    BY <1>2 DEF Adds
  <2>2. PICK t \in Seq(Delta) : Before(q, k, t) /\ Extends(s, t, ds[k])
    BY <1>2 DEF Adds
  <2>3. DOMAIN s = 1..Len(s) /\ Len(s) \in Nat /\ DOMAIN t = 1..Len(t) /\ Len(t) \in Nat
    BY <2>1, LenProperties
  <2>4. CASE j = Len(s)
    BY <2>1, <2>2, <2>4 DEF Extends
  <2>5. CASE j # Len(s)
    <3>1. j \in DOMAIN t /\ s[j] = t[j]
      BY <2>2, <2>3, <2>5 DEF Extends
    <3>2. Has(q, k, t)
      BY <2>2, <2>3, <3>1 DEF Before
    <3> QED BY <3>1, <3>2
  <2> QED BY <2>4, <2>5
<1> QED BY <1>1, <1>2

(* What is added to a queue is what it then holds.                         *)
LEMMA AddsSound ==
  ASSUME NEW q, NEW q2, NEW K, NEW ds, Adds(q, q2, K, ds), SoundQueue(q),
         \A k \in K : Sound(k, ds[k])
  PROVE  SoundQueue(q2)
<1> SUFFICES ASSUME NEW k \in Keys, NEW s, Has(q2, k, s), NEW j \in DOMAIN s
             PROVE  Sound(k, s[j])
  BY DEF SoundQueue
<1>1. CASE k \in K /\ s[j] = ds[k]
  BY <1>1
<1>2. CASE \E t : Has(q, k, t) /\ \E i \in DOMAIN t : s[j] = t[i]
  BY <1>2 DEF SoundQueue
<1> QED BY <1>1, <1>2, AddedDeltas

-----------------------------------------------------------------------------
(* A version that may be in the cache.                                     *)
CacheInv == indexer \in [Keys -> Nat] /\ \A k \in Keys : VersionOf(k, indexer[k])

(* What Replace and Resync put into a queue.                               *)
Listed(n) == {k \in Keys : There(Version(k, n))}
Gone(n) == {k \in Keys \ Listed(n) : There(indexer[k])}
Unqueued(q) == {k \in Keys : There(indexer[k]) /\ ~Queued(q, k)}
Syncs(n) == [k \in Listed(n) |-> [type |-> "Sync", version |-> Version(k, n)]]
Deletes(n) == [k \in Gone(n) |-> [type |-> "Deleted", version |-> Version(k, n)]]
Resyncs(q) == [k \in Unqueued(q) |-> [type |-> "Sync", version |-> indexer[k]]]

(* Replace syncs what is listed and deletes what is gone.                  *)
LEMMA ReplaceAdds ==
  ASSUME LogOK, CacheInv, NEW q, QueueOK(q), SoundQueue(q), NEW n \in 0..Len(log)
  PROVE  /\ \E q1 : /\ Adds(q, q1, Listed(n), Syncs(n)) /\ SoundQueue(q1)
                   /\ Adds(q1, Replace(q, n), Gone(n), Deletes(n))
         /\ QueueOK(Replace(q, n)) /\ SoundQueue(Replace(q, n))
<1> DEFINE q1 == queueActionLocked(q, Syncs(n))
           q2 == queueActionLocked(q1, Deletes(n))
<1>1. Replace(q, n) = q2
  BY DEF Replace, Listed, Gone, Syncs, Deletes
<1>2. \A k \in Keys : Version(k, n) \in 0..n /\ VersionOf(k, Version(k, n))
  BY VersionIs
<1>3. \A k \in Listed(n) : /\ Syncs(n)[k] = [type |-> "Sync", version |-> Version(k, n)]
                           /\ Sound(k, Syncs(n)[k])
  BY <1>2 DEF Listed, Syncs, Sound, Delta
<1>4. \A k \in Gone(n) : /\ Deletes(n)[k] = [type |-> "Deleted", version |-> Version(k, n)]
                         /\ Sound(k, Deletes(n)[k])
  BY <1>2 DEF Listed, Gone, Deletes, Sound, Delta
<1>5. Syncs(n) \in [Listed(n) -> Delta] /\ Deletes(n) \in [Gone(n) -> Delta]
  <2>1. \A k \in Listed(n) : [type |-> "Sync", version |-> Version(k, n)] \in Delta
    BY <1>3 DEF Sound
  <2>2. \A k \in Gone(n) : [type |-> "Deleted", version |-> Version(k, n)] \in Delta
    BY <1>4 DEF Sound
  <2> QED BY <2>1, <2>2 DEF Syncs, Deletes
<1>6. IsFiniteSet(Listed(n)) /\ IsFiniteSet(Gone(n))
  <2>1. \A k \in Listed(n) : \E i \in 1..Len(log) : log[i].key = k
    BY <1>2, LogEntry DEF Listed, There, VersionOf
  <2>2. \A k \in Gone(n) : \E i \in 1..Len(log) : log[i].key = k
    BY LogEntry DEF Gone, There, VersionOf, CacheInv
  <2> QED BY <2>1, <2>2, WrittenKeys
<1>7. Listed(n) \in SUBSET Keys /\ Gone(n) \in SUBSET Keys
  BY DEF Listed, Gone
<1>8. Adds(q, q1, Listed(n), Syncs(n))
  BY <1>5, <1>6, <1>7, QueueAction
<1>9. QueueOK(q1) /\ SoundQueue(q1)
  BY <1>3, <1>8, AddsSound DEF Adds
<1> HIDE DEF q1
<1>10. Adds(q1, q2, Gone(n), Deletes(n))
  BY <1>5, <1>6, <1>7, <1>9, QueueAction
<1>11. QueueOK(q2) /\ SoundQueue(q2)
  BY <1>4, <1>9, <1>10, AddsSound DEF Adds
<1> HIDE DEF q2
<1> QED BY <1>1, <1>8, <1>9, <1>10, <1>11

(* Resync syncs what has nothing queued.                                   *)
LEMMA ResyncAdds ==
  ASSUME LogOK, CacheInv, NEW q, QueueOK(q), SoundQueue(q)
  PROVE  /\ Adds(q, Resync(q), Unqueued(q), Resyncs(q))
         /\ QueueOK(Resync(q)) /\ SoundQueue(Resync(q))
<1> DEFINE q2 == queueActionLocked(q, Resyncs(q))
<1>1. Resync(q) = q2
  BY DEF Resync, Unqueued, Resyncs
<1>2. \A k \in Unqueued(q) : /\ Resyncs(q)[k] = [type |-> "Sync", version |-> indexer[k]]
                             /\ Sound(k, Resyncs(q)[k])
  BY LogEntry DEF Unqueued, Resyncs, Sound, Delta, CacheInv, VersionOf
<1>3. Resyncs(q) \in [Unqueued(q) -> Delta]
  <2>1. \A k \in Unqueued(q) : [type |-> "Sync", version |-> indexer[k]] \in Delta
    BY <1>2 DEF Sound
  <2> QED BY <2>1 DEF Resyncs
<1>4. IsFiniteSet(Unqueued(q))
  <2>1. \A k \in Unqueued(q) : \E i \in 1..Len(log) : log[i].key = k
    BY LogEntry DEF Unqueued, There, VersionOf, CacheInv
  <2> QED BY <2>1, WrittenKeys
<1>5. Unqueued(q) \in SUBSET Keys
  BY DEF Unqueued
<1>6. Adds(q, q2, Unqueued(q), Resyncs(q))
  BY <1>3, <1>4, <1>5, QueueAction
<1>7. QueueOK(q2) /\ SoundQueue(q2)
  BY <1>2, <1>6, AddsSound DEF Adds
<1> HIDE DEF q2
<1> QED BY <1>1, <1>6, <1>7

(* The delta of the entry n of the log.                                    *)
EventDelta(n) == [type |-> IF log[n].there THEN "Put" ELSE "Deleted", version |-> n]

(* A watch event adds the delta of one key.                                *)
LEMMA EventAdds ==
  ASSUME LogOK, NEW q, QueueOK(q), SoundQueue(q), NEW n \in 1..Len(log)
  PROVE  LET k == log[n].key
             ds == [j \in {k} |-> EventDelta(n)]
             q2 == queueActionLocked(q, ds)
         IN  k \in Keys /\ Adds(q, q2, {k}, ds) /\ QueueOK(q2) /\ SoundQueue(q2)
<1> DEFINE k == log[n].key
           ds == [j \in {k} |-> EventDelta(n)]
           q2 == queueActionLocked(q, ds)
<1>1. k \in Keys /\ log[n].there \in BOOLEAN /\ n \in Nat
  BY LogEntry
<1>2. Sound(k, EventDelta(n)) /\ EventDelta(n) \in Delta
  BY <1>1, LogEntry DEF Sound, EventDelta, Delta, VersionOf, There
<1>3. ds \in [{k} -> Delta] /\ ds[k] = EventDelta(n)
  BY <1>2
<1>4. IsFiniteSet({k}) /\ {k} \in SUBSET Keys
  BY <1>1, FS_Singleton
<1> HIDE DEF ds, k
<1>5. Adds(q, q2, {k}, ds)
  BY <1>3, <1>4, QueueAction
<1> HIDE DEF q2
<1>6. QueueOK(q2)
  BY <1>5 DEF Adds
<1>7. \A j \in {k} : Sound(j, ds[j])
  BY <1>2, <1>3
<1>8. SoundQueue(q2)
  BY <1>5, <1>7, AddsSound
<1> QED BY <1>1, <1>5, <1>6, <1>8 DEF ds, k, q2

-----------------------------------------------------------------------------
(* Rest takes one delta, and no other key's.                               *)
LEMMA RestOfQueue ==
  ASSUME NEW q, QueueOK(q), q # <<>>
  PROVE  /\ QueueOK(Rest(q))
         /\ Head(q) = q[1] /\ q[1].key \in Keys /\ Has(q, q[1].key, q[1].deltas)
         /\ q[1].deltas \in Seq(Delta) /\ Len(q[1].deltas) \in Nat \ {0}
         /\ \A k \in Keys : k # q[1].key => Queued(Rest(q), k) = Queued(q, k)
         /\ \A k \in Keys : \A s : k # q[1].key /\ Has(Rest(q), k, s) => Has(q, k, s)
         /\ Queued(Rest(q), q[1].key) <=> Len(q[1].deltas) > 1
         /\ \A s : Has(Rest(q), q[1].key, s) => Len(q[1].deltas) > 1 /\ s = Tail(q[1].deltas)
<1> DEFINE k1 == q[1].key
           d1 == q[1].deltas
<1>1. /\ q \in Seq(Item) /\ DOMAIN q = 1..Len(q) /\ Len(q) \in Nat \ {0}
      /\ \A i, j \in DOMAIN q : q[i].key = q[j].key => i = j
  BY LenProperties, EmptySeq DEF QueueOK
<1>2. \A i \in DOMAIN q : q[i] \in Item
  BY <1>1, ElementOfSeq
<1>3. q[1] \in Item /\ 1 \in DOMAIN q /\ Head(q) = q[1]
  BY <1>1, <1>2
<1>4. k1 \in Keys /\ d1 \in Seq(Delta) /\ d1 # <<>>
  BY <1>3 DEF Item
<1>5. Has(q, k1, d1) /\ Len(d1) \in Nat \ {0}
  BY <1>3, <1>4, EmptySeq DEF Has
<1> HIDE DEF d1
<1>6. CASE Len(d1) = 1
  <2> DEFINE t == Tail(q)
  <2>1. Rest(q) = t
    BY <1>3, <1>6 DEF Rest, d1
  <2>2. t \in Seq(Item) /\ Len(t) = Len(q) - 1 /\ \A i \in 1..Len(t) : t[i] = q[i + 1]
    BY <1>1, HeadTailProperties
  <2> HIDE DEF t
  <2>3. DOMAIN t = 1..(Len(q) - 1)
    BY <2>2, LenProperties
  <2>4. \A i \in DOMAIN t : i + 1 \in DOMAIN q /\ i + 1 # 1 /\ t[i] = q[i + 1] /\ t[i].key # k1
    BY <1>1, <1>3, <2>2, <2>3
  <2>5. \A i \in DOMAIN q : i # 1 => i - 1 \in DOMAIN t /\ t[i - 1] = q[i]
    BY <1>1, <2>2, <2>3
  <2>6. QueueOK(t)
    <3>1. \A i, j \in DOMAIN t : t[i].key = t[j].key => i = j
      <4> SUFFICES ASSUME NEW i \in DOMAIN t, NEW j \in DOMAIN t, t[i].key = t[j].key PROVE i = j
        OBVIOUS
      <4>1. i + 1 = j + 1
        BY <1>1, <2>4
      <4> QED BY <4>1, <2>3
    <3> QED BY <2>2, <3>1 DEF QueueOK
  <2>7. ~Queued(t, k1) /\ \A s : ~Has(t, k1, s)
    BY <2>4 DEF Queued, Has
  <2>8. ASSUME NEW k \in Keys, k # k1
        PROVE  /\ Queued(t, k) = Queued(q, k)
               /\ \A s : Has(t, k, s) => Has(q, k, s)
    BY <2>4, <2>5, <2>8 DEF Queued, Has
  <2> QED BY <1>3, <1>4, <1>5, <1>6, <2>1, <2>6, <2>7, <2>8 DEF d1
<1>7. CASE Len(d1) # 1
  <2> DEFINE e == [q[1] EXCEPT !.deltas = Tail(d1)]
             t == [q EXCEPT ![1] = e]
  <2>1. Rest(q) = t
    BY <1>3, <1>7 DEF Rest, d1
  <2>2. Tail(d1) \in Seq(Delta) /\ Len(Tail(d1)) = Len(d1) - 1
    BY <1>4, HeadTailProperties
  <2>3. Tail(d1) # <<>>
    BY <1>4, <1>5, <1>7, <2>2, EmptySeq
  <2>4. e \in Item /\ e.key = k1 /\ e.deltas = Tail(d1)
    BY <1>3, <2>2, <2>3 DEF Item
  <2> HIDE DEF e
  <2>5. /\ t \in Seq(Item) /\ Len(t) = Len(q)
        /\ \A j \in 1..Len(q) : t[j] = IF j = 1 THEN e ELSE q[j]
    BY <1>1, <2>4, ExceptSeq
  <2> HIDE DEF t
  <2>6. DOMAIN t = DOMAIN q /\ t[1] = e /\ \A j \in DOMAIN q : j # 1 => t[j] = q[j] /\ t[j].key # k1
    BY <1>1, <1>3, <2>5, LenProperties
  <2>7. \A j \in DOMAIN q : t[j].key = q[j].key
    BY <2>4, <2>6
  <2>8. QueueOK(t)
    BY <1>1, <2>5, <2>6, <2>7 DEF QueueOK
  <2>9. Queued(t, k1) /\ \A s : Has(t, k1, s) => s = Tail(d1)
    BY <1>3, <2>4, <2>6 DEF Queued, Has
  <2>10. ASSUME NEW k \in Keys, k # k1
         PROVE  /\ Queued(t, k) = Queued(q, k)
                /\ \A s : Has(t, k, s) => Has(q, k, s)
    BY <2>4, <2>6, <2>10 DEF Queued, Has
  <2>11. Len(d1) > 1
    <3>1. \A n \in Nat \ {0} : n # 1 => n > 1
      OBVIOUS
    <3> QED BY <1>5, <1>7, <3>1
  <2> QED BY <1>3, <1>4, <1>5, <2>1, <2>8, <2>9, <2>10, <2>11 DEF d1
<1> QED BY <1>6, <1>7

(* A delta of the rest was there before.                                   *)
LEMMA RestDeltas ==
  ASSUME NEW q, QueueOK(q), q # <<>>, NEW k \in Keys, NEW s, Has(Rest(q), k, s), NEW j \in DOMAIN s
  PROVE  \E t : Has(q, k, t) /\ \E i \in DOMAIN t : s[j] = t[i]
<1>1. CASE k # q[1].key
  BY <1>1, RestOfQueue
<1>2. CASE k = q[1].key
  <2> DEFINE t == q[1].deltas
  <2>1. s = Tail(t) /\ Has(q, k, t) /\ t \in Seq(Delta) /\ Len(t) \in Nat \ {0}
    BY <1>2, RestOfQueue
  <2> HIDE DEF t
  <2>2. t # <<>>
    BY <2>1, EmptySeq
  <2>3. s \in Seq(Delta) /\ Len(s) = Len(t) - 1 /\ \A i \in 1..Len(s) : s[i] = t[i + 1]
    BY <2>1, <2>2, HeadTailProperties
  <2>4. DOMAIN s = 1..Len(s) /\ DOMAIN t = 1..Len(t)
    BY <2>1, <2>3, LenProperties
  <2>5. j + 1 \in DOMAIN t /\ s[j] = t[j + 1]
    BY <2>1, <2>3, <2>4
  <2> QED BY <2>1, <2>5
<1> QED BY <1>1, <1>2

-----------------------------------------------------------------------------
(* A Run has neither listed nor queued anything before it starts, and the  *)
(* cache is empty before the first does.                                   *)
ReflectorsInv ==
  /\ run \in [Runs -> {"no", "go", "started", "on"}]
  /\ watching \in SUBSET Runs
  /\ seen \in [Runs -> Nat] /\ \A r \in Runs : seen[r] <= Len(log)
  /\ \A r \in Runs : run[r] \in {"no", "go"} => r \notin watching /\ queue[r] = <<>>
  /\ ~Started => \A k \in Keys : indexer[k] = 0

(* What is queued is true. *)
QueuesInv ==
  /\ queue \in [Runs -> Seq(Item)]
  /\ \A r \in Runs : QueueOK(queue[r]) /\ SoundQueue(queue[r])
  /\ handling \in SUBSET Runs

(* Every Run has started the goroutines of a listener at most once, and    *)
(* AddEventHandler before them.                                            *)
ListenersInv ==
  /\ joined \in SUBSET Listeners /\ syncing \in SUBSET joined
  /\ goroutines \in [Listeners -> Nat]
  /\ \A l \in Listeners : goroutines[l] <= Cardinality({r \in Runs : run[r] = "on"}) + 1
  /\ pending \in [Listeners -> Seq(Nat)] /\ told \in [Listeners -> SUBSET Nat]

InformerInv == LogOK /\ ReflectorsInv /\ QueuesInv /\ CacheInv /\ ListenersInv

(* The first delta of the first key of the queue of r. *)
First(r) == queue[r][1].deltas[1]

(* What handling it does.                                                  *)
LEMMA HandleEffect ==
  ASSUME InformerInv, NEW r \in Runs, HandleDelta(r)
  PROVE  LET q == queue[r]
             k == q[1].key
             d == First(r)
         IN  /\ QueueOK(q) /\ q # <<>> /\ k \in Keys /\ d \in Delta /\ Sound(k, d)
             /\ Has(q, k, q[1].deltas) /\ Len(q[1].deltas) \in Nat \ {0}
             /\ indexer' = [indexer EXCEPT ![k] = d.version]
             /\ queue' = [queue EXCEPT ![r] = Rest(q)]
             /\ handling' \in SUBSET Runs
             /\ pending' = [l \in Listeners |->
                  IF l \in joined /\ Hears(l, d) THEN Append(pending[l], d.version) ELSE pending[l]]
             /\ told' = [l \in Listeners |->
                  IF l \in joined /\ Hears(l, d) THEN told[l] \cup {d.version} ELSE told[l]]
             /\ UNCHANGED <<serverVars, run, watching, seen, joined, syncing, goroutines>>
<1> DEFINE q == queue[r]
<1>1. QueueOK(q) /\ SoundQueue(q) /\ q # <<>>
  BY DEF HandleDelta, InformerInv, QueuesInv
<1> HIDE DEF q
<1>2. /\ Head(q) = q[1] /\ q[1].key \in Keys /\ Has(q, q[1].key, q[1].deltas)
      /\ q[1].deltas \in Seq(Delta) /\ Len(q[1].deltas) \in Nat \ {0}
  BY <1>1, RestOfQueue
<1>3. Head(q[1].deltas) = q[1].deltas[1] /\ 1 \in DOMAIN q[1].deltas
  BY <1>2, LenProperties
<1>4. Sound(q[1].key, q[1].deltas[1])
  BY <1>1, <1>2, <1>3 DEF SoundQueue
<1>5. q[1].deltas[1] \in Delta
  BY <1>4 DEF Sound
<1>6. handling' \in SUBSET Runs
  BY DEF HandleDelta
<1>7. queue' = [queue EXCEPT ![r] = Rest(q)]
  BY DEF HandleDelta, q
<1> DEFINE d == First(r)
<1>8. d = Head(Head(queue[r]).deltas) /\ Head(queue[r]).key = q[1].key
  BY <1>2, <1>3 DEF First, q
<1>9. /\ indexer' = [indexer EXCEPT ![q[1].key] = d.version]
      /\ pending' = [l \in Listeners |->
           IF l \in joined /\ Hears(l, d) THEN Append(pending[l], d.version) ELSE pending[l]]
      /\ told' = [l \in Listeners |->
           IF l \in joined /\ Hears(l, d) THEN told[l] \cup {d.version} ELSE told[l]]
      /\ UNCHANGED <<serverVars, run, watching, seen, joined, syncing, goroutines>>
  BY <1>8 DEF HandleDelta
<1>10. d = q[1].deltas[1]
  BY DEF First, q
<1> HIDE DEF d
<1>11. d \in Delta /\ Sound(q[1].key, d)
  BY <1>4, <1>5, <1>10
<1> QED BY <1>1, <1>2, <1>6, <1>7, <1>9, <1>11 DEF q, d

(* A write makes the log longer and changes nothing that was said of it.   *)
LEMMA WriteEffect ==
  ASSUME LogOK, NEW w \in Keys, NEW there \in BOOLEAN, Write(w, there)
  PROVE  /\ LogOK' /\ Len(log') = Len(log) + 1 /\ Len(log) \in Nat
         /\ \A n \in 1..Len(log) : log'[n] = log[n]
         /\ log'[Len(log) + 1] = [key |-> w, there |-> there]
         /\ \A k \in Keys, n \in Nat : VersionOf(k, n) => VersionOf(k, n)'
         /\ \A n \in 0..Len(log) : There(n)' = There(n)
         /\ \A k \in Keys : \A d : Sound(k, d) => Sound(k, d)'
<1> DEFINE e == [key |-> w, there |-> there]
<1>1. /\ log' = Append(log, e) /\ e \in [key : Keys, there : BOOLEAN]
      /\ log \in Seq([key : Keys, there : BOOLEAN])
  BY DEF Write, LogOK
<1>2. Len(log) \in Nat
  BY LogEntry
<1> HIDE DEF e
<1>3. /\ LogOK' /\ Len(log') = Len(log) + 1
      /\ \A n \in 1..Len(log) : log'[n] = log[n]
      /\ log'[Len(log) + 1] = e
  BY <1>1, AppendProperties DEF LogOK
<1>4. \A k \in Keys, n \in Nat : VersionOf(k, n) => VersionOf(k, n)'
  BY <1>2, <1>3 DEF VersionOf
<1>5. \A n \in 0..Len(log) : There(n)' = There(n)
  BY <1>2, <1>3 DEF There
<1>6. \A k \in Keys : \A d : Sound(k, d) => Sound(k, d)'
  <2> SUFFICES ASSUME NEW k \in Keys, NEW d, Sound(k, d) PROVE Sound(k, d)'
    OBVIOUS
  <2>1. d \in Delta /\ VersionOf(k, d.version) /\ d.version \in Nat
    BY DEF Sound, Delta
  <2>2. d.version \in 0..Len(log)
    BY <2>1 DEF VersionOf
  <2>3. There(d.version)' = There(d.version) /\ VersionOf(k, d.version)'
    BY <2>1, <2>2, <1>4, <1>5
  <2> QED BY <2>1, <2>3 DEF Sound
<1> QED BY <1>2, <1>3, <1>4, <1>5, <1>6 DEF e

-----------------------------------------------------------------------------
(* One queue changes.                                                      *)
LEMMA QueueChanges ==
  ASSUME QueuesInv, UNCHANGED log, NEW r \in Runs, NEW q, QueueOK(q), SoundQueue(q),
         queue' = [queue EXCEPT ![r] = q], handling' \in SUBSET Runs
  PROVE  QueuesInv'
<1>1. q \in Seq(Item)
  BY DEF QueueOK
<1>2. ASSUME NEW x \in Runs PROVE QueueOK(queue'[x]) /\ SoundQueue(queue'[x])
  BY DEF QueuesInv
<1>3. \A x \in Runs : SoundQueue(queue[x])'
  BY <1>2 DEF SoundQueue, Sound, VersionOf, There
<1>4. \A x \in Runs : QueueOK(queue[x])'
  BY <1>2
<1>5. queue' \in [Runs -> Seq(Item)]
  BY <1>1 DEF QueuesInv
<1> QED BY <1>3, <1>4, <1>5 DEF QueuesInv

(* No queue changes. *)
LEMMA QueuesStay ==
  ASSUME QueuesInv, UNCHANGED <<log, queue, handling>>
  PROVE  QueuesInv'
BY DEF QueuesInv, SoundQueue, Sound, VersionOf, There

(* Nothing changes that ListenersInv speaks of. *)
LEMMA ListenersStay ==
  ASSUME ListenersInv, UNCHANGED <<run, joined, syncing, goroutines, told>>,
         pending' \in [Listeners -> Seq(Nat)]
  PROVE  ListenersInv'
BY DEF ListenersInv

(* Writes. *)
LEMMA WriteStep ==
  ASSUME InformerInv, NEW w \in Keys, NEW there \in BOOLEAN, Write(w, there)
  PROVE  InformerInv'
<1>1. UNCHANGED <<run, watching, seen, queue, handling, indexer, joined, syncing, goroutines,
                  pending, told>>
  BY DEF Write, reflectorVars, listenerVars
<1>2. LogOK /\ LogOK' /\ Len(log') = Len(log) + 1 /\ Len(log) \in Nat
  BY WriteEffect DEF InformerInv
<1>3. \A k \in Keys : \A d : Sound(k, d) => Sound(k, d)'
  BY WriteEffect DEF InformerInv
<1>4. \A k \in Keys, n \in Nat : VersionOf(k, n) => VersionOf(k, n)'
  BY WriteEffect DEF InformerInv
<1>5. QueuesInv'
  <2>1. \A r \in Runs : SoundQueue(queue[r])'
    BY <1>1, <1>3 DEF InformerInv, QueuesInv, SoundQueue
  <2> QED BY <1>1, <2>1 DEF InformerInv, QueuesInv
<1>6. CacheInv'
  BY <1>1, <1>4 DEF InformerInv, CacheInv
<1>7. ReflectorsInv'
  BY <1>1, <1>2 DEF InformerInv, ReflectorsInv, Started
<1>8. ListenersInv'
  BY <1>1, ListenersStay DEF InformerInv, ListenersInv
<1> QED BY <1>2, <1>5, <1>6, <1>7, <1>8 DEF InformerInv

(* The reflectors: list, watch, and resync.                                *)
LEMMA ReflectorStep ==
  ASSUME InformerInv, NEW r \in Runs,
         ListAndWatch(r) \/ WatchEvent(r) \/ WatchEnds(r) \/ ResyncTimer(r)
  PROVE  InformerInv'
<1>1. /\ UNCHANGED <<log, run, indexer, joined, goroutines, pending, told>>
      /\ UNCHANGED handling
      /\ syncing' \in SUBSET joined
  BY DEF ListAndWatch, WatchEvent, WatchEnds, ResyncTimer, serverVars, listenerVars, InformerInv,
         ListenersInv
<1>2. LogOK' /\ CacheInv'
  BY <1>1 DEF InformerInv, LogOK, CacheInv, VersionOf
<1>3. ListenersInv'
  BY <1>1 DEF InformerInv, ListenersInv
<1>4. /\ QueueOK(queue[r]) /\ SoundQueue(queue[r]) /\ handling \in SUBSET Runs
      /\ queue \in [Runs -> Seq(Item)]
  BY DEF InformerInv, QueuesInv
<1>5. /\ run[r] \in {"started", "on"} /\ watching' \in SUBSET Runs
      /\ \A x \in watching' : x \in watching \/ x = r
      /\ seen' \in [Runs -> Nat] /\ \A x \in Runs : seen'[x] <= Len(log)
      /\ \A x \in Runs : x # r => queue'[x] = queue[x]
  <2>1. run[r] \in {"started", "on"}
    BY DEF ListAndWatch, WatchEvent, WatchEnds, ResyncTimer, InformerInv, ReflectorsInv
  <2>2. watching' \in SUBSET Runs /\ \A x \in watching' : x \in watching \/ x = r
    BY DEF ListAndWatch, WatchEvent, WatchEnds, ResyncTimer, InformerInv, ReflectorsInv
  <2>3. seen' \in [Runs -> Nat] /\ \A x \in Runs : seen'[x] <= Len(log)
    BY LogEntry DEF ListAndWatch, WatchEvent, WatchEnds, ResyncTimer, InformerInv, ReflectorsInv
  <2>4. \A x \in Runs : x # r => queue'[x] = queue[x]
    BY <1>4 DEF ListAndWatch, WatchEvent, WatchEnds, ResyncTimer
  <2> QED BY <2>1, <2>2, <2>3, <2>4
<1>6. ReflectorsInv'
  BY <1>1, <1>5 DEF InformerInv, ReflectorsInv, Started
<1> SUFFICES QueuesInv'
  BY <1>2, <1>3, <1>6 DEF InformerInv
<1>7. CASE UNCHANGED queue
  BY <1>1, <1>7, QueuesStay DEF InformerInv
<1>8. ASSUME NEW q, QueueOK(q), SoundQueue(q), queue' = [queue EXCEPT ![r] = q]
      PROVE  QueuesInv'
  BY <1>1, <1>4, <1>8, QueueChanges DEF InformerInv
<1>9. CASE ListAndWatch(r)
  <2>1. PICK n \in 0..Len(log) : queue' = [queue EXCEPT ![r] = Replace(queue[r], n)]
    BY <1>9 DEF ListAndWatch
  <2>2. QueueOK(Replace(queue[r], n)) /\ SoundQueue(Replace(queue[r], n))
    BY <1>4, ReplaceAdds DEF InformerInv
  <2> QED BY <1>8, <2>1, <2>2
<1>10. CASE WatchEvent(r)
  <2> DEFINE n == seen[r] + 1
             k == log[n].key
             q2 == queueActionLocked(queue[r], [j \in {k} |-> EventDelta(n)])
  <2>1. n \in 1..Len(log)
    BY <1>10, LogEntry DEF WatchEvent, InformerInv, ReflectorsInv
  <2>2. QueueOK(q2) /\ SoundQueue(q2)
    BY <1>4, <2>1, EventAdds DEF InformerInv
  <2>3. UNCHANGED queue \/ queue' = [queue EXCEPT ![r] = q2]
    BY <1>10 DEF WatchEvent, EventDelta
  <2> QED BY <1>7, <1>8, <2>2, <2>3
<1>11. CASE WatchEnds(r)
  BY <1>7, <1>11 DEF WatchEnds
<1>12. CASE ResyncTimer(r)
  <2>1. UNCHANGED queue \/ queue' = [queue EXCEPT ![r] = Resync(queue[r])]
    BY <1>12 DEF ResyncTimer
  <2>2. QueueOK(Resync(queue[r])) /\ SoundQueue(Resync(queue[r]))
    BY <1>4, ResyncAdds DEF InformerInv
  <2> QED BY <1>7, <1>8, <2>1, <2>2
<1> QED BY <1>9, <1>10, <1>11, <1>12

(* A delta is handled.                                                     *)
LEMMA HandleDeltaStep ==
  ASSUME InformerInv, NEW r \in Runs, HandleDelta(r)
  PROVE  InformerInv'
<1> DEFINE q == queue[r]
           k == q[1].key
           d == First(r)
<1>1. /\ QueueOK(q) /\ q # <<>> /\ k \in Keys /\ d \in Delta /\ Sound(k, d)
      /\ indexer' = [indexer EXCEPT ![k] = d.version]
      /\ queue' = [queue EXCEPT ![r] = Rest(q)]
      /\ handling' \in SUBSET Runs
      /\ UNCHANGED <<serverVars, run, watching, seen, joined, syncing, goroutines>>
  BY HandleEffect
<1>2. /\ pending' = [l \in Listeners |->
           IF l \in joined /\ Hears(l, d) THEN Append(pending[l], d.version) ELSE pending[l]]
      /\ told' = [l \in Listeners |->
           IF l \in joined /\ Hears(l, d) THEN told[l] \cup {d.version} ELSE told[l]]
  BY HandleEffect
<1>3. SoundQueue(q)
  BY DEF InformerInv, QueuesInv
<1>4. UNCHANGED log /\ VersionOf(k, d.version) /\ d.version \in Nat
  BY <1>1 DEF serverVars, Sound, Delta
<1> HIDE DEF q, d
<1>5. QueueOK(Rest(q)) /\ SoundQueue(Rest(q))
  <2>1. QueueOK(Rest(q))
    BY <1>1, RestOfQueue
  <2>2. ASSUME NEW j \in Keys, NEW s, Has(Rest(q), j, s), NEW m \in DOMAIN s
        PROVE  Sound(j, s[m])
    <3>1. PICK t : Has(q, j, t) /\ \E i \in DOMAIN t : s[m] = t[i]
      BY <1>1, <2>2, RestDeltas
    <3> QED BY <1>3, <3>1 DEF SoundQueue
  <2> QED BY <2>1, <2>2 DEF SoundQueue
<1>6. QueuesInv'
  BY <1>1, <1>4, <1>5, QueueChanges DEF InformerInv, q
<1>7. LogOK' /\ CacheInv'
  BY <1>1, <1>4 DEF InformerInv, LogOK, CacheInv, VersionOf
<1>8. ReflectorsInv'
  <2>1. run[r] \in {"started", "on"} /\ Started'
    BY <1>1 DEF q, InformerInv, ReflectorsInv, Started
  <2>2. \A x \in Runs : x # r => queue'[x] = queue[x]
    BY <1>1 DEF InformerInv, QueuesInv
  <2> QED BY <1>1, <1>4, <2>1, <2>2 DEF InformerInv, ReflectorsInv
<1>9. ListenersInv'
  <2>1. /\ pending \in [Listeners -> Seq(Nat)] /\ told \in [Listeners -> SUBSET Nat]
    BY DEF InformerInv, ListenersInv
  <2>2. \A l \in Listeners : Append(pending[l], d.version) \in Seq(Nat)
    BY <1>4, <2>1, AppendProperties
  <2>3. pending' \in [Listeners -> Seq(Nat)]
    BY <1>2, <2>1, <2>2
  <2>4. told' \in [Listeners -> SUBSET Nat]
    BY <1>2, <1>4, <2>1
  <2> QED BY <1>1, <2>3, <2>4 DEF InformerInv, ListenersInv
<1> QED BY <1>6, <1>7, <1>8, <1>9 DEF InformerInv

(* RemoveAt removes.                                                       *)
LEMMA Removed ==
  ASSUME NEW S, NEW s \in Seq(S), NEW i \in DOMAIN s
  PROVE  /\ RemoveAt(s, i) \in Seq(S)
         /\ \A j \in DOMAIN RemoveAt(s, i) : \E m \in DOMAIN s : RemoveAt(s, i)[j] = s[m]
<1> DEFINE a == SubSeq(s, 1, i - 1)
           b == SubSeq(s, i + 1, Len(s))
           T == {s[m] : m \in DOMAIN s}
           t == a \o b
<1>1. DOMAIN s = 1..Len(s) /\ Len(s) \in Nat /\ \A m \in 1..Len(s) : s[m] \in S /\ s[m] \in T
  BY LenProperties, ElementOfSeq
<1> HIDE DEF T
<1>2. a \in Seq(T)
  BY <1>1, SubSeqProperties
<1>3. b \in Seq(T)
  BY <1>1, SubSeqProperties
<1> HIDE DEF a, b
<1>4. t \in Seq(T)
  BY <1>2, <1>3, ConcatProperties
<1>5. RemoveAt(s, i) = t
  BY DEF RemoveAt, a, b
<1> HIDE DEF t
<1>6. \A j \in DOMAIN t : t[j] \in T
  BY <1>4, LenProperties, ElementOfSeq
<1>7. T \subseteq S
  BY <1>1 DEF T
<1>8. t \in Seq(S)
  BY <1>4, <1>7, SeqMonotonic
<1> QED BY <1>5, <1>6, <1>8 DEF T

(* A handler is called.                                                    *)
LEMMA HandlerStep ==
  ASSUME InformerInv, NEW l \in Listeners, Handle(l)
  PROVE  InformerInv'
<1>1. /\ UNCHANGED <<log, run, watching, seen, queue, handling, indexer, joined, syncing,
                     goroutines, told>>
      /\ \E i \in DOMAIN pending[l] : pending' = [pending EXCEPT ![l] = RemoveAt(pending[l], i)]
  BY DEF Handle, serverVars, reflectorVars
<1>2. pending \in [Listeners -> Seq(Nat)]
  BY DEF InformerInv, ListenersInv
<1>3. pending' \in [Listeners -> Seq(Nat)]
  BY <1>1, <1>2, Removed
<1>4. LogOK' /\ CacheInv' /\ ReflectorsInv'
  BY <1>1 DEF InformerInv, LogOK, CacheInv, ReflectorsInv, VersionOf, Started
<1> QED BY <1>1, <1>3, <1>4, QueuesStay, ListenersStay DEF InformerInv

-----------------------------------------------------------------------------
(* The deltas of a key get no older from first to last, none is older than *)
(* the cache, and none newer than n.                                       *)
Ordered(q, n) ==
  \A k \in Keys : \A s : Has(q, k, s) =>
    \A j \in DOMAIN s :
      /\ indexer[k] <= s[j].version /\ s[j].version <= n
      /\ \A i \in 1..j : s[i].version <= s[j].version

(* A delta that is at least as new as all that is known of its key.        *)
Newer(q, k, d, n) ==
  /\ indexer[k] <= d.version /\ d.version <= n
  /\ \A s : Has(q, k, s) => \A j \in DOMAIN s : s[j].version <= d.version

(* To add newer deltas keeps the order.                                    *)
LEMMA AddsOrdered ==
  ASSUME CacheInv, NEW q, SoundQueue(q), NEW q2, NEW K, NEW ds, Adds(q, q2, K, ds),
         NEW n \in Nat, NEW m \in Nat, n <= m, Ordered(q, n),
         \A k \in K : ds[k] \in Delta /\ Newer(q, k, ds[k], m)
  PROVE  Ordered(q2, m)
<1> SUFFICES ASSUME NEW k \in Keys, NEW s, Has(q2, k, s), NEW j \in DOMAIN s
             PROVE  /\ indexer[k] <= s[j].version /\ s[j].version <= m
                    /\ \A i \in 1..j : s[i].version <= s[j].version
  BY DEF Ordered
<1>1. \A t : Has(q, k, t) => \A i \in DOMAIN t : t[i].version \in Nat
  BY DEF SoundQueue, Sound, Delta
<1>2. CASE Has(q, k, s)
  BY <1>1, <1>2 DEF Ordered
<1>3. CASE ~Has(q, k, s)
  <2>1. k \in K /\ s \in Seq(Delta) /\ Takes(q, k, ds[k])
    BY <1>3 DEF Adds
  <2>2. PICK t \in Seq(Delta) : Before(q, k, t) /\ Extends(s, t, ds[k])
    BY <1>3 DEF Adds
  <2>3. DOMAIN s = 1..Len(s) /\ Len(s) \in Nat /\ DOMAIN t = 1..Len(t) /\ Len(t) \in Nat
    BY <2>1, LenProperties
  <2>4. \A i \in 1..(Len(s) - 1) : i \in DOMAIN t /\ s[i] = t[i] /\ Has(q, k, t)
    BY <2>2, <2>3 DEF Extends, Before
  <2>5. s[Len(s)] = ds[k] /\ ds[k].version \in Nat /\ Newer(q, k, ds[k], m)
    BY <2>1, <2>2 DEF Extends, Delta
  <2>6. CASE j = Len(s)
    <3>1. \A i \in 1..(Len(s) - 1) : s[i].version <= ds[k].version
      BY <2>4, <2>5 DEF Newer
    <3>2. \A i \in 1..j : i = Len(s) \/ i \in 1..(Len(s) - 1)
      <4>1. \A a \in Nat : \A i \in 1..a : i = a \/ i \in 1..(a - 1)
        OBVIOUS
      <4> QED BY <2>3, <2>6, <4>1
    <3> QED BY <2>5, <2>6, <3>1, <3>2 DEF Newer
  <2>7. CASE j # Len(s)
    <3>1. j \in 1..(Len(s) - 1) /\ \A i \in 1..j : i \in 1..(Len(s) - 1)
      BY <2>3, <2>7
    <3>2. /\ indexer[k] <= t[j].version /\ t[j].version <= n
          /\ \A i \in 1..j : t[i].version <= t[j].version
      BY <2>4, <3>1 DEF Ordered
    <3>3. \A i \in 1..j : s[i] = t[i]
      BY <2>4, <3>1
    <3>4. s[j] = t[j] /\ t[j].version \in Nat
      BY <1>1, <2>4, <3>1
    <3>5. t[j].version <= m
      BY <3>2, <3>4
    <3> QED BY <3>2, <3>3, <3>4, <3>5
  <2> QED BY <2>6, <2>7
<1> QED BY <1>2, <1>3

(* What the server lists is at least as new as all that is known.          *)
LEMMA ListIsNewest ==
  ASSUME LogOK, CacheInv, NEW q, SoundQueue(q), NEW k \in Keys, NEW type
  PROVE  Newer(q, k, [type |-> type, version |-> Version(k, Len(log))], Len(log))
<1> DEFINE v == Version(k, Len(log))
<1>1. Len(log) \in Nat
  BY LogEntry
<1>2. v \in 0..Len(log) /\ \A i \in 1..Len(log) : log[i].key = k => i <= v
  BY <1>1, VersionIs
<1> HIDE DEF v
<1>3. \A n : VersionOf(k, n) => n <= v
  BY <1>1, <1>2 DEF VersionOf
<1>4. VersionOf(k, indexer[k])
  BY DEF CacheInv
<1>5. \A s : Has(q, k, s) => \A j \in DOMAIN s : VersionOf(k, s[j].version)
  BY DEF SoundQueue, Sound
<1> QED BY <1>1, <1>2, <1>3, <1>4, <1>5 DEF Newer, v

(* So Replace keeps the order when the list is not late.                   *)
LEMMA ReplaceOrdered ==
  ASSUME LogOK, CacheInv, NEW q, QueueOK(q), SoundQueue(q), NEW n \in Nat, n <= Len(log),
         Ordered(q, n)
  PROVE  Ordered(Replace(q, Len(log)), Len(log))
<1> DEFINE m == Len(log)
<1>1. m \in Nat /\ m \in 0..Len(log)
  BY LogEntry
<1>2. PICK q1 : /\ Adds(q, q1, Listed(m), Syncs(m)) /\ SoundQueue(q1)
                /\ Adds(q1, Replace(q, m), Gone(m), Deletes(m))
  BY <1>1, ReplaceAdds
<1>3. \A k \in Keys : Version(k, m) \in Nat
  BY <1>1, VersionIs
<1>4. \A k \in Listed(m) : Syncs(m)[k] \in Delta /\ Newer(q, k, Syncs(m)[k], m)
  BY <1>3, ListIsNewest DEF Syncs, Listed, Delta
<1>5. \A k \in Gone(m) : Deletes(m)[k] \in Delta /\ Newer(q1, k, Deletes(m)[k], m)
  BY <1>2, <1>3, ListIsNewest DEF Deletes, Gone, Delta
<1> HIDE DEF m
<1>6. n <= m
  BY DEF m
<1>7. Ordered(q1, m)
  BY <1>1, <1>2, <1>4, <1>6, AddsOrdered
<1>8. Ordered(Replace(q, m), m)
  BY <1>1, <1>2, <1>5, <1>7, AddsOrdered
<1> QED BY <1>8 DEF m

(* Resync adds nothing to a key that has something queued.                 *)
LEMMA ResyncOrdered ==
  ASSUME LogOK, CacheInv, NEW q, QueueOK(q), SoundQueue(q), NEW n \in Nat,
         \A k \in Keys : indexer[k] <= n, Ordered(q, n)
  PROVE  Ordered(Resync(q), n)
<1>1. Adds(q, Resync(q), Unqueued(q), Resyncs(q))
  BY ResyncAdds
<1>2. \A k \in Unqueued(q) : Resyncs(q)[k] \in Delta /\ Newer(q, k, Resyncs(q)[k], n)
  BY DEF Unqueued, Resyncs, Delta, Newer, CacheInv, Queued, Has
<1> QED BY <1>1, <1>2, AddsOrdered

(* A watch event is newer than what the Run has seen.                      *)
LEMMA EventOrdered ==
  ASSUME LogOK, CacheInv, NEW q, QueueOK(q), SoundQueue(q), NEW n \in Nat, n + 1 <= Len(log),
         \A k \in Keys : indexer[k] <= n, Ordered(q, n)
  PROVE  Ordered(queueActionLocked(q, [j \in {log[n + 1].key} |-> EventDelta(n + 1)]), n + 1)
<1> DEFINE k == log[n + 1].key
           ds == [j \in {k} |-> EventDelta(n + 1)]
           q2 == queueActionLocked(q, ds)
<1>1. n + 1 \in 1..Len(log) /\ n + 1 \in Nat /\ n <= n + 1
  BY LogEntry
<1>2. k \in Keys /\ Adds(q, q2, {k}, ds)
  BY <1>1, EventAdds
<1>3. EventDelta(n + 1) \in Delta /\ EventDelta(n + 1).version = n + 1
  BY <1>1 DEF EventDelta, Delta
<1>4. \A s : Has(q, k, s) => \A j \in DOMAIN s : s[j].version \in Nat /\ s[j].version <= n
  BY <1>2 DEF SoundQueue, Sound, Delta, Ordered
<1>5. indexer[k] \in Nat /\ indexer[k] <= n
  BY <1>2 DEF CacheInv
<1>6. Newer(q, k, EventDelta(n + 1), n + 1)
  BY <1>1, <1>3, <1>4, <1>5 DEF Newer
<1>7. \A j \in {k} : ds[j] \in Delta /\ Newer(q, j, ds[j], n + 1)
  BY <1>3, <1>6
<1> HIDE DEF ds, q2
<1>8. Ordered(q2, n + 1)
  BY <1>1, <1>2, <1>7, AddsOrdered
<1> QED BY <1>8 DEF q2, ds, k

(* What a handler still has to hear of is in the cache, or something newer. *)
Noted(n) == n \in 1..Len(log) /\ n <= indexer[log[n].key]

NotesInv == \A l \in Listeners : \A i \in DOMAIN pending[l] : Noted(pending[l][i])

(* With one Run and lists that are not late nothing gets out of order.     *)
OrderInv(r) ==
  /\ \A k \in Keys : indexer[k] <= seen[r]
  /\ Ordered(queue[r], seen[r])
  /\ NotesInv

(* A longer log and a newer cache bear out what is noted.                  *)
LEMMA NotesKept ==
  ASSUME LogOK, CacheInv, NotesInv,
         Len(log') \in Nat, Len(log) <= Len(log'), \A n \in 1..Len(log) : log'[n] = log[n],
         indexer' \in [Keys -> Nat], \A k \in Keys : indexer[k] <= indexer'[k],
         \A l \in Listeners : \A i \in DOMAIN pending'[l] : \A n : pending'[l][i] = n =>
           (\E j \in DOMAIN pending[l] : n = pending[l][j]) \/ Noted(n)'
  PROVE  NotesInv'
<1>1. ASSUME NEW n, Noted(n) PROVE Noted(n)'
  <2>1. n \in 1..Len(log) /\ n \in Nat /\ n <= indexer[log[n].key] /\ log[n].key \in Keys
    BY <1>1, LogEntry DEF Noted
  <2>2. log'[n] = log[n] /\ n \in 1..Len(log')
    BY <2>1, LogEntry
  <2>3. n <= indexer'[log[n].key]
    BY <2>1 DEF CacheInv
  <2> QED BY <2>2, <2>3 DEF Noted
<1>2. ASSUME NEW l \in Listeners, NEW i \in DOMAIN pending'[l], NEW n, pending'[l][i] = n
      PROVE  Noted(n)'
  BY <1>1, <1>2 DEF NotesInv
<1> QED BY <1>2 DEF NotesInv

(* The reflector adds newer deltas only.                                   *)
LEMMA OrderReflectorStep ==
  ASSUME Lag = 0, NEW r \in Runs, InformerInv, OrderInv(r),
         ListAndWatch(r) \/ WatchEvent(r) \/ WatchEnds(r) \/ ResyncTimer(r)
  PROVE  OrderInv(r)'
<1>1. UNCHANGED <<log, indexer, pending>>
  BY DEF ListAndWatch, WatchEvent, WatchEnds, ResyncTimer, serverVars, listenerVars
<1>2. /\ LogOK /\ CacheInv /\ QueueOK(queue[r]) /\ SoundQueue(queue[r])
      /\ seen[r] \in Nat /\ seen[r] <= Len(log) /\ Len(log) \in Nat
      /\ seen \in [Runs -> Nat] /\ queue \in [Runs -> Seq(Item)]
  BY LogEntry DEF InformerInv, QueuesInv, ReflectorsInv
<1>3. \A k \in Keys : indexer[k] \in Nat /\ indexer[k] <= seen[r] /\ indexer[k] <= Len(log)
  BY <1>2 DEF OrderInv, CacheInv, VersionOf
<1>4. Ordered(queue[r], seen[r])
  BY DEF OrderInv
<1>5. NotesInv'
  BY <1>1 DEF OrderInv, NotesInv, Noted
<1>6. (\A k \in Keys : indexer[k] <= seen'[r]) /\ Ordered(queue'[r], seen'[r])
  <2>1. CASE ListAndWatch(r)
    <3>1. /\ queue' = [queue EXCEPT ![r] = Replace(queue[r], Len(log))]
          /\ seen' = [seen EXCEPT ![r] = Len(log)]
      <4>1. PICK n \in 0..Len(log) : /\ n + Lag >= Len(log)
                                     /\ queue' = [queue EXCEPT ![r] = Replace(queue[r], n)]
                                     /\ seen' = [seen EXCEPT ![r] = n]
        BY <2>1 DEF ListAndWatch
      <4>2. n = Len(log)
        BY <1>2, <4>1
      <4> QED BY <4>1, <4>2
    <3>2. Ordered(Replace(queue[r], Len(log)), Len(log))
      BY <1>2, <1>4, ReplaceOrdered
    <3> QED BY <1>2, <1>3, <3>1, <3>2
  <2>2. CASE WatchEvent(r)
    <3> DEFINE n == seen[r]
               q2 == queueActionLocked(queue[r], [j \in {log[n + 1].key} |-> EventDelta(n + 1)])
    <3>1. /\ n + 1 <= Len(log) /\ seen' = [seen EXCEPT ![r] = n + 1]
          /\ UNCHANGED queue \/ queue' = [queue EXCEPT ![r] = q2]
      BY <1>2, <2>2 DEF WatchEvent, EventDelta
    <3>2. Ordered(q2, n + 1)
      BY <1>2, <1>3, <1>4, <3>1, EventOrdered
    <3>3. Ordered(queue[r], n + 1)
      BY <1>2, <1>4 DEF Ordered, SoundQueue, Sound, Delta
    <3>4. seen'[r] = n + 1 /\ \A k \in Keys : indexer[k] <= n + 1
      BY <1>2, <1>3, <3>1
    <3> HIDE DEF q2
    <3>5. queue'[r] = queue[r] \/ queue'[r] = q2
      BY <1>2, <3>1
    <3> QED BY <3>2, <3>3, <3>4, <3>5
  <2>3. CASE WatchEnds(r)
    BY <2>3, <1>3, <1>4 DEF WatchEnds
  <2>4. CASE ResyncTimer(r)
    <3>1. UNCHANGED seen /\ (UNCHANGED queue \/ queue' = [queue EXCEPT ![r] = Resync(queue[r])])
      BY <2>4 DEF ResyncTimer
    <3>2. Ordered(Resync(queue[r]), seen[r])
      BY <1>2, <1>3, <1>4, ResyncOrdered
    <3> QED BY <1>2, <1>3, <1>4, <3>1, <3>2
  <2> QED BY <2>1, <2>2, <2>3, <2>4
<1> QED BY <1>1, <1>5, <1>6 DEF OrderInv, Ordered

(* The delta that is handled is newer than the cache, and older than those *)
(* behind it.                                                              *)
LEMMA OrderHandleStep ==
  ASSUME NEW r \in Runs, InformerInv, OrderInv(r), HandleDelta(r)
  PROVE  OrderInv(r)' /\ \A k \in Keys : indexer[k] <= indexer'[k]
<1> DEFINE q == queue[r]
           k == q[1].key
           d == First(r)
           t == q[1].deltas
<1>1. /\ QueueOK(q) /\ q # <<>> /\ k \in Keys /\ d \in Delta /\ Sound(k, d) /\ Has(q, k, t)
      /\ indexer' = [indexer EXCEPT ![k] = d.version]
      /\ queue' = [queue EXCEPT ![r] = Rest(q)]
      /\ pending' = [l \in Listeners |->
           IF l \in joined /\ Hears(l, d) THEN Append(pending[l], d.version) ELSE pending[l]]
      /\ UNCHANGED <<log, seen>>
  BY HandleEffect DEF serverVars
<1>2. /\ LogOK /\ CacheInv /\ SoundQueue(q) /\ queue \in [Runs -> Seq(Item)] /\ Len(log) \in Nat
      /\ seen \in [Runs -> Nat] /\ seen[r] \in Nat /\ Ordered(q, seen[r]) /\ NotesInv
      /\ pending \in [Listeners -> Seq(Nat)] /\ indexer \in [Keys -> Nat]
      /\ \A j \in Keys : indexer[j] <= seen[r]
  BY LogEntry DEF InformerInv, QueuesInv, ReflectorsInv, OrderInv, ListenersInv, CacheInv
<1>3. d = t[1]
  BY DEF First
<1> HIDE DEF q, d, k
<1>4. t \in Seq(Delta) /\ Len(t) \in Nat \ {0}
  BY <1>1, RestOfQueue DEF k
<1>5. 1 \in DOMAIN t /\ DOMAIN t = 1..Len(t)
  BY <1>4, LenProperties
<1> HIDE DEF t
<1>6. /\ d.version \in Nat /\ indexer[k] <= d.version /\ d.version <= seen[r]
      /\ VersionOf(k, d.version)
  BY <1>1, <1>2, <1>3, <1>5 DEF Ordered, Delta, Sound
<1>7. \A j \in Keys : indexer[j] <= indexer'[j] /\ indexer'[j] <= seen[r]
  BY <1>1, <1>2, <1>6
<1>8. Ordered(queue[r], seen[r])'
  <2> SUFFICES ASSUME NEW x \in Keys, NEW s, Has(Rest(q), x, s), NEW j \in DOMAIN s
               PROVE  /\ indexer'[x] <= s[j].version /\ s[j].version <= seen[r]
                      /\ \A i \in 1..j : s[i].version <= s[j].version
    BY <1>1, <1>2 DEF Ordered
  <2>1. CASE x # k
    BY <1>1, <1>2, <2>1, RestOfQueue DEF Ordered, k
  <2>2. CASE x = k
    <3>1. s = Tail(t)
      BY <1>1, <2>2, RestOfQueue DEF k, t
    <3>2. /\ s \in Seq(Delta) /\ Len(s) = Len(t) - 1 /\ \A i \in 1..Len(s) : s[i] = t[i + 1]
      BY <1>4, <3>1, EmptySeq, HeadTailProperties
    <3>3. DOMAIN s = 1..Len(s) /\ Len(s) \in Nat
      BY <3>2, LenProperties
    <3>4. \A i \in 1..j : s[i] = t[i + 1] /\ i + 1 \in 1..(j + 1)
      BY <3>2, <3>3
    <3>5. j + 1 \in DOMAIN t /\ s[j] = t[j + 1] /\ 1 \in 1..(j + 1)
      BY <1>4, <1>5, <3>2, <3>3
    <3>6. /\ t[j + 1].version <= seen[r] /\ \A i \in 1..(j + 1) : t[i].version <= t[j + 1].version
      BY <1>1, <1>2, <3>5 DEF Ordered
    <3> QED BY <1>1, <1>2, <1>3, <2>2, <3>4, <3>5, <3>6
  <2> QED BY <2>1, <2>2
<1>9. ASSUME NEW l \in Listeners, NEW i \in DOMAIN pending'[l], NEW n, pending'[l][i] = n
      PROVE  (\E j \in DOMAIN pending[l] : n = pending[l][j]) \/ Noted(n)'
  <2>1. CASE pending'[l] = pending[l]
    BY <1>9, <2>1
  <2>2. CASE pending'[l] # pending[l]
    <3>1. pending'[l] = Append(pending[l], d.version) /\ Hears(l, d)
      BY <1>1, <2>2
    <3> DEFINE a == Append(pending[l], d.version)
               p == pending[l]
    <3>2. p \in Seq(Nat)
      BY <1>2
    <3> HIDE DEF p
    <3>3. /\ a \in Seq(Nat) /\ Len(a) = Len(p) + 1 /\ a[Len(a)] = d.version
          /\ \A m \in 1..Len(p) : a[m] = p[m]
      BY <1>6, <3>2, AppendProperties DEF p
    <3> HIDE DEF a
    <3>4. DOMAIN a = 1..Len(a) /\ DOMAIN p = 1..Len(p) /\ Len(p) \in Nat
      BY <3>2, <3>3, LenProperties
    <3>5. d.version > 0 /\ d.version <= Len(log) /\ log[d.version].key = k
      BY <1>1, <1>6, <3>1 DEF Hears, Sound, There, VersionOf
    <3>6. \A m : m = d.version => Noted(m)'
      BY <1>1, <1>2, <1>6, <3>5 DEF Noted
    <3>7. i \in DOMAIN a
      BY <3>1 DEF a
    <3>8. i = Len(a) \/ i \in DOMAIN p
      BY <3>3, <3>4, <3>7
    <3>9. pending'[l][i] = a[i]
      BY <3>1 DEF a
    <3> QED BY <1>9, <3>3, <3>4, <3>6, <3>8, <3>9 DEF p
  <2> QED BY <2>1, <2>2
<1>10. NotesInv'
  <2>1. indexer' \in [Keys -> Nat]
    BY <1>1, <1>2, <1>6
  <2>2. Len(log') \in Nat /\ Len(log) <= Len(log') /\ \A n \in 1..Len(log) : log'[n] = log[n]
    BY <1>1, <1>2
  <2>3. \A j \in Keys : indexer[j] <= indexer'[j]
    BY <1>7
  <2>4. LogOK /\ CacheInv /\ NotesInv
    BY <1>2
  <2>5. \A l \in Listeners : \A i \in DOMAIN pending'[l] : \A n : pending'[l][i] = n =>
          (\E j \in DOMAIN pending[l] : n = pending[l][j]) \/ Noted(n)'
    BY <1>9
  <2> QED BY <2>1, <2>2, <2>3, <2>4, <2>5, NotesKept
<1> QED BY <1>1, <1>7, <1>8, <1>10 DEF OrderInv

-----------------------------------------------------------------------------
(* v is what the cache will say of k when everything is popped.            *)
Known(q, k, v) ==
  \/ \E s : Has(q, k, s) /\ v = s[Len(s)].version
  \/ ~Queued(q, k) /\ v = indexer[k]

(* v says of k what the server said after n writes.                        *)
Agrees(k, v, n) == IF There(Version(k, n)) THEN v = Version(k, n) ELSE ~There(v)

(* Cache and queue are together as current as the server was after n writes. *)
Knows(q, n) == \A k \in Keys : \A v : Known(q, k, v) => Agrees(k, v, n)

(* Nobody has deleted anything, and nothing that is queued says so.        *)
NoneDeleted == \A n \in 1..Len(log) : log[n].there
Undeleted(q) == \A k \in Keys : \A s : Has(q, k, s) => \A j \in DOMAIN s : s[j].type # "Deleted"

(* The deltas of a key in a queue.                                         *)
LEMMA DeltasOf ==
  ASSUME NEW q, QueueOK(q), NEW k, NEW s, Has(q, k, s)
  PROVE  s \in Seq(Delta) /\ DOMAIN s = 1..Len(s) /\ Len(s) \in Nat \ {0} /\ Len(s) \in DOMAIN s
<1>1. PICK i \in DOMAIN q : q[i].deltas = s
  BY DEF Has
<1>2. q[i] \in Item
  BY LenProperties, ElementOfSeq DEF QueueOK
<1>3. s \in Seq(Delta) /\ s # <<>>
  BY <1>1, <1>2 DEF Item
<1> QED BY <1>3, LenProperties, EmptySeq

(* The last delta of a key is the one that was added last.                 *)
LEMMA AddedKnown ==
  ASSUME NEW q, NEW q2, NEW K, NEW ds, Adds(q, q2, K, ds), NEW k \in Keys, NEW v, Known(q2, k, v)
  PROVE  IF k \in K /\ Takes(q, k, ds[k]) THEN v = ds[k].version ELSE Known(q, k, v)
<1>1. CASE \E s : Has(q2, k, s) /\ v = s[Len(s)].version
  BY <1>1 DEF Adds, Known, Extends
<1>2. CASE ~Queued(q2, k) /\ v = indexer[k]
  BY <1>2 DEF Adds, Known
<1> QED BY <1>1, <1>2 DEF Known

(* What is known of a key is a version of it. *)
LEMMA KnownIsVersion ==
  ASSUME CacheInv, NEW q, QueueOK(q), SoundQueue(q), NEW k \in Keys, NEW v, Known(q, k, v)
  PROVE  VersionOf(k, v)
BY DeltasOf DEF Known, CacheInv, SoundQueue, Sound

(* The latest write of a key is its version.                               *)
LEMMA VersionUnique ==
  ASSUME LogOK, NEW k \in Keys, NEW n \in 0..Len(log), NEW v \in 0..n, VersionOf(k, v),
         \A i \in 1..n : log[i].key = k => i <= v
  PROVE  Version(k, n) = v
<1> DEFINE w == Version(k, n)
<1>1. w \in 0..n /\ VersionOf(k, w) /\ \A i \in 1..n : log[i].key = k => i <= w
  BY VersionIs
<1>2. n \in Nat
  BY LogEntry
<1> HIDE DEF w
<1>3. w > 0 => w <= v
  BY <1>1, <1>2 DEF VersionOf
<1>4. v > 0 => v <= w
  BY <1>1, <1>2 DEF VersionOf
<1>5. w = v
  BY <1>1, <1>2, <1>3, <1>4
<1> QED BY <1>5 DEF w

(* One more write changes the version of one key.                          *)
LEMMA NextVersion ==
  ASSUME LogOK, NEW k \in Keys, NEW n \in Nat, n + 1 <= Len(log)
  PROVE  Version(k, n + 1) = IF log[n + 1].key = k THEN n + 1 ELSE Version(k, n)
<1>1. n + 1 \in 0..Len(log) /\ n \in 0..Len(log) /\ Len(log) \in Nat
  BY LogEntry
<1>2. CASE log[n + 1].key = k
  <2>1. /\ VersionOf(k, n + 1) /\ n + 1 \in 0..(n + 1)
        /\ \A i \in 1..(n + 1) : log[i].key = k => i <= n + 1
    BY <1>1, <1>2 DEF VersionOf
  <2> QED BY <1>1, <1>2, <2>1, VersionUnique
<1>3. CASE log[n + 1].key # k
  <2> DEFINE v == Version(k, n)
  <2>1. VersionOf(k, v) /\ v \in 0..n /\ \A i \in 1..n : log[i].key = k => i <= v
    BY <1>1, VersionIs
  <2> HIDE DEF v
  <2>2. v \in 0..(n + 1) /\ \A i \in 1..(n + 1) : log[i].key = k => i <= v
    BY <1>3, <2>1
  <2>3. Version(k, n + 1) = v
    BY <1>1, <2>1, <2>2, VersionUnique
  <2> QED BY <1>3, <2>3 DEF v
<1> QED BY <1>2, <1>3

(* A list tells what the server has, if nothing was deleted or nothing is  *)
(* known yet.                                                              *)
LEMMA ReplaceKnows ==
  ASSUME LogOK, CacheInv, NEW q, QueueOK(q), SoundQueue(q),
         \/ NoneDeleted /\ Undeleted(q)
         \/ q = <<>> /\ \A k \in Keys : indexer[k] = 0
  PROVE  Knows(Replace(q, Len(log)), Len(log))
<1> DEFINE n == Len(log)
           q2 == Replace(q, n)
<1>1. n \in Nat /\ n \in 0..Len(log)
  BY LogEntry
<1>2. PICK q1 : Adds(q, q1, Listed(n), Syncs(n)) /\ Adds(q1, q2, Gone(n), Deletes(n))
  BY <1>1, ReplaceAdds
<1>3. QueueOK(q2) /\ SoundQueue(q2)
  BY <1>1, ReplaceAdds
<1>4. \A k \in Keys : ~WillBeDeleted(q, k)
  <2>1. ASSUME NEW k \in Keys, WillBeDeleted(q, k), Undeleted(q) PROVE FALSE
    <3>1. PICK i \in DOMAIN q : q[i].key = k /\ Last(q[i].deltas).type = "Deleted"
      BY <2>1 DEF WillBeDeleted
    <3> DEFINE s == q[i].deltas
    <3>2. Has(q, k, s)
      BY <3>1 DEF Has
    <3>3. Len(s) \in DOMAIN s /\ s[Len(s)].type = "Deleted"
      BY <3>1, <3>2, DeltasOf DEF Last
    <3> QED BY <2>1, <3>2, <3>3 DEF Undeleted
  <2>2. ASSUME q = <<>>, NEW k \in Keys PROVE ~WillBeDeleted(q, k)
    BY <2>2 DEF WillBeDeleted
  <2> QED BY <2>1, <2>2
<1> SUFFICES ASSUME NEW k \in Keys, NEW v, Known(q2, k, v) PROVE Agrees(k, v, n)
  BY DEF Knows
<1>5. CASE There(Version(k, n))
  <2>1. k \in Listed(n) /\ k \notin Gone(n)
    BY <1>5 DEF Listed, Gone
  <2> HIDE DEF q2
  <2>2. Known(q1, k, v)
    BY <1>2, <2>1, AddedKnown
  <2>3. Takes(q, k, Syncs(n)[k])
    BY <1>4 DEF Takes
  <2>4. v = Syncs(n)[k].version
    BY <1>2, <2>1, <2>2, <2>3, AddedKnown
  <2> QED BY <1>5, <2>1, <2>4 DEF Agrees, Syncs
<1>6. CASE ~There(Version(k, n))
  <2>1. VersionOf(k, v)
    BY <1>3, KnownIsVersion
  <2>2. CASE NoneDeleted
    <3>1. Version(k, n) = 0
      BY <1>1, <1>6, <2>2, VersionIs DEF There, NoneDeleted
    <3>2. \A i \in 1..n : log[i].key # k
      BY <1>1, <3>1, VersionIs
    <3>3. v = 0
      BY <1>1, <2>1, <3>2 DEF VersionOf
    <3> QED BY <1>6, <3>3 DEF Agrees, There
  <2>3. CASE q = <<>> /\ \A j \in Keys : indexer[j] = 0
    <3>1. k \notin Listed(n) /\ k \notin Gone(n)
      BY <1>6, <2>3 DEF Listed, Gone, There
    <3> HIDE DEF q2
    <3>2. Known(q1, k, v)
      BY <1>2, <3>1, AddedKnown
    <3>3. Known(q, k, v)
      BY <1>2, <3>1, <3>2, AddedKnown
    <3>4. v = 0
      BY <2>3, <3>3 DEF Known, Has
    <3> QED BY <1>6, <3>4 DEF Agrees, There
  <2> QED BY <2>2, <2>3
<1> QED BY <1>5, <1>6

(* A resync tells nothing new.                                             *)
LEMMA ResyncKnows ==
  ASSUME LogOK, CacheInv, NEW q, QueueOK(q), SoundQueue(q), NEW n, Knows(q, n)
  PROVE  Knows(Resync(q), n)
<1>1. Adds(q, Resync(q), Unqueued(q), Resyncs(q))
  BY ResyncAdds
<1> SUFFICES ASSUME NEW k \in Keys, NEW v, Known(Resync(q), k, v) PROVE Known(q, k, v)
  BY DEF Knows
<1>2. CASE k \in Unqueued(q) /\ Takes(q, k, Resyncs(q)[k])
  <2>1. v = Resyncs(q)[k].version
    BY <1>1, <1>2, AddedKnown
  <2> QED BY <1>2, <2>1 DEF Resyncs, Unqueued, Known
<1>3. CASE ~(k \in Unqueued(q) /\ Takes(q, k, Resyncs(q)[k]))
  BY <1>1, <1>3, AddedKnown
<1> QED BY <1>2, <1>3

(* A watch event tells of the next write, also when it is skipped.         *)
LEMMA EventKnows ==
  ASSUME LogOK, CacheInv, NEW q, QueueOK(q), SoundQueue(q), NEW n \in Nat, n + 1 <= Len(log),
         Knows(q, n)
  PROVE  LET k == log[n + 1].key
             d == EventDelta(n + 1)
         IN  /\ Knows(queueActionLocked(q, [j \in {k} |-> d]), n + 1)
             /\ ~log[n + 1].there /\ ~There(indexer[k]) /\ ~Queued(q, k) => Knows(q, n + 1)
<1> DEFINE k == log[n + 1].key
           d == EventDelta(n + 1)
           ds == [j \in {k} |-> d]
           q2 == queueActionLocked(q, ds)
<1>1. n + 1 \in 1..Len(log)
  BY LogEntry
<1>2. k \in Keys /\ Adds(q, q2, {k}, ds)
  BY <1>1, EventAdds
<1>3. ds[k] = d /\ d.version = n + 1 /\ d.type # "Sync"
  BY DEF EventDelta
<1>4. \A j \in Keys : Version(j, n + 1) = IF j = k THEN n + 1 ELSE Version(j, n)
  BY NextVersion
<1> HIDE DEF d, ds, q2, k
<1>5. ASSUME NEW j \in Keys, j # k, NEW v, Agrees(j, v, n) PROVE Agrees(j, v, n + 1)
  BY <1>4, <1>5 DEF Agrees
<1>6. Knows(q2, n + 1)
  <2> SUFFICES ASSUME NEW j \in Keys, NEW v, Known(q2, j, v) PROVE Agrees(j, v, n + 1)
    BY DEF Knows
  <2>1. CASE j = k
    <3>1. v = n + 1
      BY <1>2, <1>3, <2>1, AddedKnown DEF Takes
    <3> QED BY <1>4, <2>1, <3>1 DEF Agrees
  <2>2. CASE j # k
    <3>1. Known(q, j, v)
      BY <1>2, <2>2, AddedKnown
    <3> QED BY <1>5, <2>2, <3>1 DEF Knows
  <2> QED BY <2>1, <2>2
<1>7. ASSUME ~log[n + 1].there, ~There(indexer[k]), ~Queued(q, k) PROVE Knows(q, n + 1)
  <2> SUFFICES ASSUME NEW j \in Keys, NEW v, Known(q, j, v) PROVE Agrees(j, v, n + 1)
    BY DEF Knows
  <2>1. CASE j = k
    <3>1. v = indexer[k]
      BY <1>7, <2>1 DEF Known, Has, Queued
    <3> QED BY <1>4, <1>7, <2>1, <3>1 DEF Agrees, There
  <2>2. CASE j # k
    BY <1>5, <2>2 DEF Knows
  <2> QED BY <2>1, <2>2
<1> QED BY <1>6, <1>7 DEF d, ds, q2, k

(* Before the first watch breaks, a Run that does not watch has done       *)
(* nothing.  If no watch has broken or nothing is deleted, a Run that      *)
(* watches knows what the server said after the writes it has seen.        *)
AgreeInv(r) ==
  /\ breaks \in Nat
  /\ breaks = 0 /\ r \notin watching => queue[r] = <<>> /\ \A k \in Keys : indexer[k] = 0
  /\ NoneDeleted => Undeleted(queue[r])
  /\ (breaks = 0 \/ NoneDeleted) /\ r \in watching => Knows(queue[r], seen[r])

(* Nothing changes that AgreeInv speaks of. *)
LEMMA AgreeStays ==
  ASSUME NEW r, AgreeInv(r), UNCHANGED <<log, breaks, watching, seen, queue, indexer>>
  PROVE  AgreeInv(r)'
<1>1. \A k, n : Version(k, n)' = Version(k, n)
  BY DEF Version
<1>2. \A k, v, n : Agrees(k, v, n)' <=> Agrees(k, v, n)
  BY <1>1 DEF Agrees, There
<1>3. \A q, k, v : Known(q, k, v)' <=> Known(q, k, v)
  BY DEF Known
<1>4. NoneDeleted' <=> NoneDeleted
  BY DEF NoneDeleted
<1>5. Undeleted(queue[r])' <=> Undeleted(queue[r])
  BY DEF Undeleted
<1>6. Knows(queue[r], seen[r]) => Knows(queue[r], seen[r])'
  BY <1>2, <1>3 DEF Knows
<1> QED BY <1>4, <1>5, <1>6 DEF AgreeInv

(* A write does not change what there was before.                          *)
LEMMA AgreeWriteStep ==
  ASSUME NEW r \in Runs, InformerInv, AgreeInv(r), NEW w \in Keys, NEW there \in BOOLEAN,
         Write(w, there)
  PROVE  AgreeInv(r)'
<1>1. UNCHANGED <<breaks, watching, seen, queue, indexer>>
  BY DEF Write, reflectorVars
<1>2. /\ LogOK /\ LogOK' /\ Len(log') = Len(log) + 1 /\ Len(log) \in Nat
      /\ \A n \in 1..Len(log) : log'[n] = log[n]
      /\ \A k \in Keys, n \in Nat : VersionOf(k, n) => VersionOf(k, n)'
      /\ \A n \in 0..Len(log) : There(n)' = There(n)
  BY WriteEffect DEF InformerInv
<1>3. NoneDeleted' => NoneDeleted
  BY <1>2 DEF NoneDeleted
<1>4. /\ QueueOK(queue[r]) /\ SoundQueue(queue[r]) /\ CacheInv
      /\ seen[r] \in 0..Len(log) /\ seen[r] \in Nat
  BY <1>2 DEF InformerInv, QueuesInv, ReflectorsInv
<1>5. ASSUME NEW k \in Keys, NEW n \in 0..Len(log) PROVE Version(k, n)' = Version(k, n)
  <2>1. n \in Nat /\ \A i \in 1..n : log'[i] = log[i]
    BY <1>2
  <2>2. CASE \E i \in 1..n : log[i].key = k
    <3> DEFINE v == Version(k, n)
    <3>1. v \in 1..n /\ log[v].key = k /\ \A i \in 1..n : log[i].key = k => i <= v
      <4>1. VersionOf(k, v) /\ v \in 0..n /\ \A i \in 1..n : log[i].key = k => i <= v
        BY <1>2, VersionIs
      <4> HIDE DEF v
      <4> QED BY <2>1, <2>2, <4>1 DEF VersionOf
    <3>2. PICK x \in 1..n : x = v
      BY <3>1
    <3> HIDE DEF v
    <3>3. /\ log'[x].key = k /\ \A j \in (x + 1)..n : log'[j].key # k
      BY <2>1, <3>1, <3>2
    <3>4. PICK y \in 1..n : /\ y = Version(k, n)' /\ log'[y].key = k
                            /\ \A j \in (y + 1)..n : log'[j].key # k
      BY <3>3 DEF Version
    <3>5. x = y
      BY <2>1, <3>3, <3>4
    <3> QED BY <3>2, <3>4, <3>5 DEF v
  <2>3. CASE ~\E i \in 1..n : log[i].key = k
    BY <2>1, <2>3 DEF Version
  <2> QED BY <2>2, <2>3
<1>6. ASSUME NEW k \in Keys, NEW n \in 0..Len(log), NEW v, VersionOf(k, v)
      PROVE  Agrees(k, v, n)' <=> Agrees(k, v, n)
  <2>1. v \in 0..Len(log) /\ Version(k, n) \in 0..Len(log)
    BY <1>2, <1>6, VersionIs DEF VersionOf
  <2>2. There(v)' <=> There(v)
    BY <1>2, <2>1
  <2>3. \A x : x = Version(k, n) => (There(x)' <=> There(x))
    BY <1>2, <2>1
  <2>4. There(Version(k, n))' <=> There(Version(k, n))
    BY <1>5, <2>3 DEF There
  <2> QED BY <1>5, <2>2, <2>4 DEF Agrees
<1>7. \A q, k, v : Known(q, k, v)' <=> Known(q, k, v)
  BY <1>1 DEF Known
<1>8. Knows(queue[r], seen[r]) => Knows(queue[r], seen[r])'
  <2> SUFFICES ASSUME Knows(queue[r], seen[r]), NEW k \in Keys, NEW v, Known(queue[r], k, v)'
               PROVE  Agrees(k, v, seen[r])'
    BY DEF Knows
  <2>1. Known(queue[r], k, v) /\ VersionOf(k, v)
    BY <1>1, <1>4, <1>7, KnownIsVersion
  <2>2. Agrees(k, v, seen[r])
    BY <2>1 DEF Knows
  <2>3. PICK n \in 0..Len(log) : n = seen[r]
    BY <1>4
  <2>4. Agrees(k, v, n)'
    BY <2>1, <2>2, <2>3, <1>6
  <2> QED BY <1>1, <2>3, <2>4
<1>9. Undeleted(queue[r]) => Undeleted(queue[r])'
  BY <1>1 DEF Undeleted
<1> QED BY <1>1, <1>3, <1>8, <1>9 DEF AgreeInv

(* Lists, watch events and resyncs.                                        *)
LEMMA AgreeReflectorStep ==
  ASSUME Lag = 0, NEW r \in Runs, InformerInv, AgreeInv(r),
         ListAndWatch(r) \/ WatchEvent(r) \/ WatchEnds(r) \/ ResyncTimer(r)
  PROVE  AgreeInv(r)'
<1>1. UNCHANGED <<log, indexer>>
  BY DEF ListAndWatch, WatchEvent, WatchEnds, ResyncTimer, serverVars
<1>2. /\ LogOK /\ CacheInv /\ QueueOK(queue[r]) /\ SoundQueue(queue[r])
      /\ seen[r] \in Nat /\ Len(log) \in Nat /\ breaks \in Nat
      /\ seen \in [Runs -> Nat] /\ queue \in [Runs -> Seq(Item)] /\ watching \in SUBSET Runs
  BY LogEntry DEF InformerInv, QueuesInv, ReflectorsInv, AgreeInv
<1>3. \A q, n : Knows(q, n)' <=> Knows(q, n)
  <2>1. \A k, n : Version(k, n)' = Version(k, n)
    BY <1>1 DEF Version
  <2>2. \A k, v, n : Agrees(k, v, n)' <=> Agrees(k, v, n)
    BY <1>1, <2>1 DEF Agrees, There
  <2>3. \A q, k, v : Known(q, k, v)' <=> Known(q, k, v)
    BY <1>1 DEF Known
  <2> QED BY <2>2, <2>3 DEF Knows
<1>4. NoneDeleted' <=> NoneDeleted
  BY <1>1 DEF NoneDeleted
<1>5. ASSUME NEW q, NEW n, queue' = [queue EXCEPT ![r] = q], seen'[r] = n,
             r \in watching', UNCHANGED breaks,
             NoneDeleted => Undeleted(q), breaks = 0 \/ NoneDeleted => Knows(q, n)
      PROVE  AgreeInv(r)'
  <2>1. queue'[r] = q
    BY <1>2, <1>5
  <2>2. Undeleted(q) => Undeleted(queue[r])'
    BY <2>1 DEF Undeleted
  <2>3. Knows(q, n) => Knows(queue[r], seen[r])'
    BY <1>3, <1>5, <2>1
  <2> QED BY <1>2, <1>4, <1>5, <2>2, <2>3 DEF AgreeInv
<1>6. CASE ListAndWatch(r)
  <2> DEFINE n == Len(log)
             q2 == Replace(queue[r], n)
  <2>1. /\ queue' = [queue EXCEPT ![r] = q2] /\ seen' = [seen EXCEPT ![r] = n]
        /\ r \notin watching /\ r \in watching' /\ UNCHANGED breaks
    <3>1. PICK m \in 0..Len(log) : /\ m + Lag >= Len(log)
                                   /\ queue' = [queue EXCEPT ![r] = Replace(queue[r], m)]
                                   /\ seen' = [seen EXCEPT ![r] = m]
      BY <1>6 DEF ListAndWatch
    <3>2. m = Len(log)
      BY <1>2, <3>1
    <3> QED BY <1>6, <3>1, <3>2 DEF ListAndWatch, serverVars
  <2>2. breaks = 0 \/ NoneDeleted => Knows(q2, n)
    BY <1>2, <2>1, ReplaceKnows DEF AgreeInv
  <2>3. NoneDeleted => Undeleted(q2)
    <3>1. n \in 0..Len(log)
      BY <1>2
    <3>2. PICK q1 : Adds(queue[r], q1, Listed(n), Syncs(n)) /\ Adds(q1, q2, Gone(n), Deletes(n))
      BY <1>2, <3>1, ReplaceAdds
    <3> HIDE DEF q2
    <3> SUFFICES ASSUME NoneDeleted, NEW k \in Keys, NEW s, Has(q2, k, s), NEW j \in DOMAIN s
                 PROVE  s[j].type # "Deleted"
      BY DEF Undeleted
    <3>3. k \notin Gone(n)
      <4>1. ASSUME k \in Gone(n) PROVE FALSE
        <5>1. ~There(Version(k, n)) /\ There(indexer[k]) /\ VersionOf(k, indexer[k])
          BY <1>2, <4>1 DEF Gone, Listed, CacheInv
        <5>2. indexer[k] \in 1..n /\ log[indexer[k]].key = k
          BY <1>2, <5>1 DEF There, VersionOf
        <5>3. Version(k, n) \in 1..n
          BY <1>2, <3>1, <5>2, VersionIs
        <5> QED BY <5>1, <5>3 DEF NoneDeleted, There
      <4> QED BY <4>1
    <3>4. PICK t : Has(q1, k, t) /\ \E i \in DOMAIN t : s[j] = t[i]
      BY <3>2, <3>3, AddedDeltas
    <3>5. PICK i \in DOMAIN t : s[j] = t[i]
      BY <3>4
    <3>6. CASE k \in Listed(n) /\ t[i] = Syncs(n)[k]
      BY <3>5, <3>6 DEF Syncs
    <3>7. CASE \E u : Has(queue[r], k, u) /\ \E m \in DOMAIN u : t[i] = u[m]
      BY <3>5, <3>7 DEF AgreeInv, Undeleted
    <3> QED BY <3>2, <3>4, <3>5, <3>6, <3>7, AddedDeltas
  <2> HIDE DEF q2, n
  <2>4. seen'[r] = n
    BY <1>2, <2>1
  <2> QED BY <1>5, <2>1, <2>2, <2>3, <2>4
<1>7. CASE WatchEvent(r)
  <2> DEFINE n == seen[r]
             k == log[n + 1].key
             ds == [j \in {k} |-> EventDelta(n + 1)]
             q2 == queueActionLocked(queue[r], ds)
  <2>1. /\ n + 1 <= Len(log) /\ seen' = [seen EXCEPT ![r] = n + 1] /\ r \in watching
        /\ UNCHANGED <<breaks, watching>>
        /\ \/ /\ UNCHANGED queue
              /\ ~log[n + 1].there /\ ~There(indexer[k]) /\ ~Queued(queue[r], k)
           \/ queue' = [queue EXCEPT ![r] = q2]
    BY <1>2, <1>7 DEF WatchEvent, EventDelta, serverVars
  <2>2. breaks = 0 \/ NoneDeleted => Knows(queue[r], n)
    BY <2>1 DEF AgreeInv
  <2>3. n + 1 \in 1..Len(log) /\ NoneDeleted => EventDelta(n + 1).type # "Deleted"
    BY DEF EventDelta, NoneDeleted
  <2>4. n + 1 \in 1..Len(log)
    BY <1>2, <2>1
  <2>5. seen'[r] = n + 1
    BY <1>2, <2>1
  <2>6. CASE queue' = [queue EXCEPT ![r] = q2]
    <3>1. Adds(queue[r], q2, {k}, ds)
      BY <1>2, <2>4, EventAdds
    <3>2. breaks = 0 \/ NoneDeleted => Knows(q2, n + 1)
      BY <1>2, <2>1, <2>2, EventKnows
    <3>3. ds[k] = EventDelta(n + 1)
      OBVIOUS
    <3> HIDE DEF q2, ds
    <3>4. ASSUME NoneDeleted PROVE Undeleted(q2)
      <4> SUFFICES ASSUME NEW j \in Keys, NEW s, Has(q2, j, s), NEW i \in DOMAIN s
                   PROVE  s[i].type # "Deleted"
        BY DEF Undeleted
      <4>1. CASE j \in {k} /\ s[i] = ds[j]
        BY <2>3, <2>4, <3>3, <3>4, <4>1
      <4>2. CASE \E t : Has(queue[r], j, t) /\ \E m \in DOMAIN t : s[i] = t[m]
        BY <3>4, <4>2 DEF AgreeInv, Undeleted
      <4> QED BY <3>1, <4>1, <4>2, AddedDeltas
    <3> QED BY <1>5, <2>1, <2>5, <2>6, <3>2, <3>4
  <2>7. CASE /\ UNCHANGED queue
             /\ ~log[n + 1].there /\ ~There(indexer[k]) /\ ~Queued(queue[r], k)
    <3>1. breaks = 0 \/ NoneDeleted => Knows(queue[r], n + 1)
      BY <1>2, <2>1, <2>2, <2>7, EventKnows
    <3>2. queue' = [queue EXCEPT ![r] = queue[r]]
      BY <1>2, <2>7
    <3>3. NoneDeleted => Undeleted(queue[r])
      BY DEF AgreeInv
    <3> QED BY <1>5, <2>1, <2>5, <3>1, <3>2, <3>3
  <2> QED BY <2>1, <2>6, <2>7
<1>8. CASE WatchEnds(r)
  <2>1. breaks' = breaks + 1 /\ r \notin watching' /\ UNCHANGED queue
    BY <1>8 DEF WatchEnds
  <2>2. Undeleted(queue[r]) => Undeleted(queue[r])'
    BY <2>1 DEF Undeleted
  <2> QED BY <1>2, <1>4, <2>1, <2>2 DEF AgreeInv
<1>9. CASE ResyncTimer(r)
  <2> DEFINE q2 == Resync(queue[r])
  <2>1. /\ UNCHANGED <<breaks, watching, seen>> /\ r \in watching
        /\ UNCHANGED queue \/ queue' = [queue EXCEPT ![r] = q2]
    BY <1>9 DEF ResyncTimer
  <2>2. CASE UNCHANGED queue
    BY <1>1, <2>1, <2>2, AgreeStays
  <2>3. CASE queue' = [queue EXCEPT ![r] = q2]
    <3>1. breaks = 0 \/ NoneDeleted => Knows(q2, seen[r])
      BY <1>2, <2>1, ResyncKnows DEF AgreeInv
    <3>2. Adds(queue[r], q2, Unqueued(queue[r]), Resyncs(queue[r]))
      BY <1>2, ResyncAdds
    <3> HIDE DEF q2
    <3>3. ASSUME NoneDeleted PROVE Undeleted(q2)
      <4> SUFFICES ASSUME NEW j \in Keys, NEW s, Has(q2, j, s), NEW i \in DOMAIN s
                   PROVE  s[i].type # "Deleted"
        BY DEF Undeleted
      <4>1. CASE j \in Unqueued(queue[r]) /\ s[i] = Resyncs(queue[r])[j]
        BY <4>1 DEF Resyncs
      <4>2. CASE \E t : Has(queue[r], j, t) /\ \E m \in DOMAIN t : s[i] = t[m]
        BY <3>3, <4>2 DEF AgreeInv, Undeleted
      <4> QED BY <3>2, <4>1, <4>2, AddedDeltas
    <3> QED BY <1>5, <2>1, <2>3, <3>1, <3>3
  <2> QED BY <2>1, <2>2, <2>3
<1> QED BY <1>6, <1>7, <1>8, <1>9

(* What is handled moves from the queue to the cache.                      *)
LEMMA AgreeHandleStep ==
  ASSUME NEW r \in Runs, InformerInv, AgreeInv(r), HandleDelta(r)
  PROVE  AgreeInv(r)'
<1> DEFINE q == queue[r]
           k == q[1].key
           d == First(r)
           t == q[1].deltas
<1>1. /\ QueueOK(q) /\ q # <<>> /\ k \in Keys /\ d \in Delta /\ Has(q, k, t)
      /\ Len(t) \in Nat \ {0}
      /\ indexer' = [indexer EXCEPT ![k] = d.version]
      /\ queue' = [queue EXCEPT ![r] = Rest(q)]
      /\ UNCHANGED <<log, breaks, watching, seen>>
  BY HandleEffect DEF serverVars
<1>2. queue \in [Runs -> Seq(Item)] /\ indexer \in [Keys -> Nat] /\ breaks \in Nat
  BY DEF InformerInv, QueuesInv, CacheInv, AgreeInv
<1>3. d = t[1]
  BY DEF First
<1>4. r \in watching \/ breaks # 0
  BY <1>1 DEF AgreeInv
<1> HIDE DEF q, d, k
<1>5. t \in Seq(Delta)
  BY <1>1, RestOfQueue DEF k
<1> HIDE DEF t
<1>6. NoneDeleted' <=> NoneDeleted
  BY <1>1 DEF NoneDeleted
<1>7. \A j, v, n : Agrees(j, v, n)' <=> Agrees(j, v, n)
  <2>1. \A j, n : Version(j, n)' = Version(j, n)
    BY <1>1 DEF Version
  <2> QED BY <1>1, <2>1 DEF Agrees, There
<1>8. queue'[r] = Rest(q) /\ q = queue[r]
  BY <1>1, <1>2 DEF q
<1>9. ASSUME NEW j \in Keys, NEW v, Known(queue[r], j, v)' PROVE Known(q, j, v)
  <2>1. \/ \E s : Has(Rest(q), j, s) /\ v = s[Len(s)].version
        \/ ~Queued(Rest(q), j) /\ v = indexer'[j]
    BY <1>8, <1>9 DEF Known
  <2>2. CASE j # k
    <3>1. indexer'[j] = indexer[j]
      BY <1>1, <1>2, <2>2
    <3> QED BY <1>1, <2>1, <2>2, <3>1, RestOfQueue DEF Known, k
  <2>3. CASE j = k /\ Len(t) = 1
    <3>1. ~\E s : Has(Rest(q), j, s)
      <4>1. \A s : Has(Rest(q), k, s) => Len(t) > 1
        BY <1>1, RestOfQueue DEF k, t
      <4> QED BY <2>3, <4>1
    <3>2. v = t[Len(t)].version
      BY <1>1, <1>2, <1>3, <2>1, <2>3, <3>1
    <3> QED BY <1>1, <2>3, <3>2 DEF Known
  <2>4. CASE j = k /\ Len(t) # 1
    <3>1. Len(t) > 1
      <4>1. \A n \in Nat \ {0} : n # 1 => n > 1
        OBVIOUS
      <4> QED BY <1>1, <2>4, <4>1
    <3>2. Queued(Rest(q), j)
      BY <1>1, <2>4, <3>1, RestOfQueue DEF k, t
    <3>3. PICK s : Has(Rest(q), j, s) /\ v = s[Len(s)].version
      BY <2>1, <3>2
    <3>4. s = Tail(t)
      BY <1>1, <2>4, <3>3, RestOfQueue DEF k, t
    <3>5. t # <<>>
      BY <1>1, EmptySeq
    <3>6. Len(s) = Len(t) - 1 /\ \A i \in 1..Len(s) : s[i] = t[i + 1]
      BY <1>5, <3>4, <3>5, HeadTailProperties
    <3>7. Len(s) \in 1..Len(s) /\ Len(s) + 1 = Len(t)
      BY <1>1, <3>1, <3>6
    <3>8. s[Len(s)] = t[Len(t)]
      BY <3>6, <3>7
    <3> QED BY <1>1, <2>4, <3>3, <3>8 DEF Known
  <2> QED BY <2>2, <2>3, <2>4
<1>10. Knows(q, seen[r]) => Knows(queue[r], seen[r])'
  BY <1>1, <1>7, <1>9 DEF Knows
<1>11. ASSUME Undeleted(q) PROVE Undeleted(queue[r])'
  <2>1. \A j \in Keys : \A s : Has(Rest(q), j, s) => \A i \in DOMAIN s : s[i].type # "Deleted"
    BY <1>1, <1>11, RestDeltas DEF Undeleted
  <2> QED BY <1>8, <2>1 DEF Undeleted
<1> QED BY <1>1, <1>2, <1>4, <1>6, <1>8, <1>10, <1>11 DEF AgreeInv
=============================================================================
