---------------------------- MODULE HistoryProofs ----------------------------
(***************************************************************************)
(* Every object the provisioner and its informer hold is a copy of what    *)
(* the API server once stored, changed in memory only where the            *)
(* provisioner changes it.  That ties each copy to the stored object: by   *)
(* its resource version, and by its uid.  From this follow what a PUT of a *)
(* stale copy can not do, what a release of the finalizer means, and that  *)
(* no deletion is forgotten.                                               *)
(***************************************************************************)
EXTENDS ProvisionerProofs

Foreign(c) == c.finalizers \ {ProvisionerFinalizer}

(* The parts of an object that the provisioner leaves alone.               *)
SameOutside(s, c) ==
  s.uid = c.uid /\ s.deleting = c.deleting /\ s.path = c.path /\ Foreign(s) = Foreign(c)

(* The copy c against s, which is stored under its name at revision n.     *)
TiedTo(s, n, c) ==
  /\ c.uid <= n /\ c.rv <= n
  /\ (s # NoCluster /\ s.uid = c.uid /\ c.deleting) => s.deleting
  /\ (s # NoCluster /\ s.rv = c.rv) => SameOutside(s, c)

(* What one step of the server may make of an object.                      *)
Moves(s, n, t, m) ==
  \/ t = s /\ m \in {n, n + 1}
  \/ t = NoCluster /\ m = n + 1
  \/ /\ t \in Cluster /\ m = n + 1 /\ t.rv = n + 1
     /\ \/ t.uid = n + 1
        \/ s # NoCluster /\ t.uid = s.uid /\ (s.deleting => t.deleting)

(* A copy stays tied, whatever the server does to the object.              *)
LEMMA TiedStays ==
  ASSUME NEW n \in Nat, NEW c \in Cluster, NEW s \in Cluster \cup {NoCluster},
         NEW t, NEW m, Moves(s, n, t, m), TiedTo(s, n, c)
  PROVE  TiedTo(t, m, c)
<1>0. NoCluster \notin Cluster /\ c.uid \in Nat /\ c.rv \in Nat
  BY ProvisionerAssumption DEF Cluster
<1>1. CASE t = s /\ m \in {n, n + 1}
  BY <1>0, <1>1 DEF TiedTo
<1>2. CASE t = NoCluster /\ m = n + 1
  BY <1>0, <1>2 DEF TiedTo
<1>3. CASE /\ t \in Cluster /\ m = n + 1 /\ t.rv = n + 1
           /\ \/ t.uid = n + 1
              \/ s # NoCluster /\ t.uid = s.uid /\ (s.deleting => t.deleting)
  BY <1>0, <1>3 DEF TiedTo
<1> QED BY <1>1, <1>2, <1>3 DEF Moves

(* Writes of the provisioner into a copy leave it tied. *)
LEMMA TiedWrite ==
  ASSUME NEW n, NEW s, NEW c, NEW o, TiedTo(s, n, c), SameOutside(c, o), c.rv = o.rv
  PROVE  TiedTo(s, n, o)
BY DEF TiedTo, SameOutside

(* The stored objects and the events, and the step the server may take.    *)
StoreTied == \A k \in Names : Exists(k) => store[k].uid <= Revision /\ store[k].rv <= Revision

EventsTied ==
  \A i \in DOMAIN events : TiedTo(store[events[i].key], Revision, events[i].obj)

ServerStep ==
  /\ \A k \in Names : Moves(store[k], Revision, store'[k], Revision')
  /\ \/ UNCHANGED <<store, events>>
     \/ \E e \in Event : /\ events' = Append(events, e)
                          /\ store'[e.key] \in {e.obj, NoCluster}
                          /\ TiedTo(store'[e.key], Revision', e.obj)

(* A step of the server keeps every copy tied, and stores and announces    *)
(* only tied ones.                                                         *)
LEMMA ServerKeepsTied ==
  ASSUME StoreTypeOK, StoreTied, EventsTied, ServerStep
  PROVE  /\ StoreTied' /\ EventsTied'
         /\ \A k \in Names, c \in Cluster :
              TiedTo(store[k], Revision, c) => TiedTo(store'[k], Revision', c)
<1>0. Revision \in Nat /\ NoCluster \notin Cluster
  BY LenProperties, ProvisionerAssumption DEF Revision, StoreTypeOK
<1>1. ASSUME NEW k \in Names, NEW c \in Cluster, TiedTo(store[k], Revision, c)
      PROVE  TiedTo(store'[k], Revision', c)
  <2>1. store[k] \in Cluster \cup {NoCluster} /\ Moves(store[k], Revision, store'[k], Revision')
    BY DEF StoreTypeOK, ServerStep
  <2> QED BY <1>0, <1>1, <2>1, TiedStays
<1>2. StoreTied'
  <2> SUFFICES ASSUME NEW k \in Names, store'[k] # NoCluster
               PROVE  store'[k].uid <= Revision' /\ store'[k].rv <= Revision'
    BY DEF StoreTied, Exists
  <2>1. Moves(store[k], Revision, store'[k], Revision')
    BY DEF ServerStep
  <2>2. store[k] # NoCluster =>
          store[k].uid \in Nat /\ store[k].rv \in Nat
            /\ store[k].uid <= Revision /\ store[k].rv <= Revision
    BY DEF StoreTied, Exists, StoreTypeOK, Cluster
  <2> QED BY <1>0, <2>1, <2>2 DEF Moves
<1>3. EventsTied'
  <2>1. ASSUME NEW i \in DOMAIN events
        PROVE  events[i].key \in Names /\ events[i].obj \in Cluster
    <3>1. events[i] \in Event
      BY ElementOfSeq, LenProperties DEF StoreTypeOK
    <3> QED BY <3>1 DEF Event
  <2>2. CASE UNCHANGED <<store, events>>
    BY <2>2 DEF EventsTied, Revision
  <2>3. ASSUME NEW e \in Event, events' = Append(events, e),
               TiedTo(store'[e.key], Revision', e.obj)
        PROVE  EventsTied'
    <3>1. /\ DOMAIN events = 1..Len(events) /\ DOMAIN events' = 1..(Len(events) + 1)
          /\ \A i \in DOMAIN events : events'[i] = events[i]
          /\ events'[Len(events) + 1] = e
      BY <2>3, AppendProperties, LenProperties DEF StoreTypeOK
    <3>2. ASSUME NEW i \in DOMAIN events'
          PROVE  TiedTo(store'[events'[i].key], Revision', events'[i].obj)
      <4>1. CASE i \in DOMAIN events
        <5>1. events'[i] = events[i] /\ events[i].key \in Names /\ events[i].obj \in Cluster
          BY <2>1, <3>1, <4>1
        <5>2. TiedTo(store[events[i].key], Revision, events[i].obj)
          BY <4>1 DEF EventsTied
        <5> QED BY <1>1, <5>1, <5>2
      <4>2. CASE i = Len(events) + 1
        BY <2>3, <3>1, <4>2
      <4> QED BY <1>0, <3>1, <4>1, <4>2 DEF Revision
    <3> QED BY <3>2 DEF EventsTied
  <2> QED BY <2>2, <2>3 DEF ServerStep
<1> QED BY <1>1, <1>2, <1>3
-----------------------------------------------------------------------------
(* What the writes of the controllers, users and other clients do.         *)

(* A write under name k stored c, or took the last finalizer off.          *)
Written(k, c) ==
  /\ \A j \in Names \ {k} : store'[j] = store[j]
  /\ \/ store'[k] = NoCluster /\ c.deleting /\ c.finalizers = {}
     \/ /\ store'[k] \in Cluster /\ SameOutside(c, store'[k])
        /\ store'[k].finalizers = c.finalizers
        /\ store'[k].applied = c.applied /\ store'[k].provisioned = c.provisioned

(* c is a version of what is stored under k that does not undo a deletion. *)
Succeeds(k, c) == Exists(k) /\ c.uid = store[k].uid /\ (store[k].deleting => c.deleting)

(* A committed object is a new one, or the next version of the stored one. *)
LEMMA CommitMoves ==
  ASSUME StoreTypeOK, StoreTied, NEW k \in Names, NEW c \in Cluster, Commit(k, c),
         c.uid = Revision + 1 \/ Succeeds(k, c)
  PROVE  ServerStep /\ Written(k, c)
<1> DEFINE n == [c EXCEPT !.rv = Revision + 1]
           e == [type |-> "put", key |-> k, obj |-> n]
<1>0. Revision \in Nat /\ Revision' = Revision + 1
  BY CommitType, LenProperties DEF Revision, StoreTypeOK
<1>1. n \in Cluster
  BY <1>0 DEF Cluster
<1>2. /\ n.rv = Revision + 1 /\ n.uid = c.uid /\ n.deleting = c.deleting /\ n.path = c.path
      /\ n.finalizers = c.finalizers /\ n.applied = c.applied /\ n.provisioned = c.provisioned
  BY DEF Cluster
<1>3. store' = [store EXCEPT ![k] = n] /\ events' = Append(events, e)
  BY DEF Commit
<1>4. e \in Event /\ e.key = k /\ e.obj = n
  BY <1>1 DEF Event
<1> HIDE DEF n, e
<1>5. store'[k] = n /\ \A j \in Names \ {k} : store'[j] = store[j]
  BY <1>3 DEF StoreTypeOK
<1>6. Moves(store[k], Revision, n, Revision')
  BY <1>0, <1>1, <1>2 DEF Moves, Succeeds, Exists
<1>7. \A j \in Names \ {k} : Moves(store[j], Revision, store'[j], Revision')
  BY <1>0, <1>5 DEF Moves
<1>8. n.uid <= Revision + 1
  BY <1>0, <1>2 DEF Succeeds, StoreTied, StoreTypeOK, Cluster, Exists
<1>9. TiedTo(n, Revision', n)
  BY <1>0, <1>2, <1>8 DEF TiedTo, SameOutside
<1>10. ServerStep
  BY <1>3, <1>4, <1>5, <1>6, <1>7, <1>9 DEF ServerStep
<1>11. Written(k, c)
  BY <1>1, <1>2, <1>5 DEF Written, SameOutside, Foreign
<1> QED BY <1>10, <1>11

(* An object that goes is announced as it was.                             *)
LEMMA EraseMoves ==
  ASSUME StoreTypeOK, StoreTied, NEW k \in Names, Exists(k), Erase(k)
  PROVE  /\ ServerStep /\ store'[k] = NoCluster
         /\ \A j \in Names \ {k} : store'[j] = store[j]
<1> DEFINE e == [type |-> "gone", key |-> k, obj |-> store[k]]
<1>0. Revision \in Nat /\ Revision' = Revision + 1
  BY EraseType, LenProperties DEF Revision, StoreTypeOK
<1>1. store[k] \in Cluster /\ store[k].uid <= Revision /\ store[k].rv <= Revision
  BY DEF StoreTypeOK, StoreTied, Exists
<1>2. store' = [store EXCEPT ![k] = NoCluster] /\ events' = Append(events, e)
  BY DEF Erase
<1>3. e \in Event /\ e.key = k /\ e.obj = store[k]
  BY <1>1 DEF Event
<1> HIDE DEF e
<1>4. store'[k] = NoCluster /\ \A j \in Names \ {k} : store'[j] = store[j]
  BY <1>2 DEF StoreTypeOK
<1>5. \A j \in Names : Moves(store[j], Revision, store'[j], Revision')
  BY <1>0, <1>4 DEF Moves
<1>6. TiedTo(NoCluster, Revision', store[k])
  BY <1>0, <1>1 DEF TiedTo, Cluster
<1> QED BY <1>2, <1>3, <1>4, <1>5, <1>6 DEF ServerStep

(* The same for a PUT of a next version of the stored object.              *)
LEMMA PutMoves ==
  ASSUME StoreTypeOK, StoreTied, NEW k \in Names, NEW c \in Cluster, Put(k, c), Succeeds(k, c)
  PROVE  ServerStep /\ Written(k, c)
<1>0. Revision \in Nat
  BY LenProperties DEF Revision, StoreTypeOK
<1>1. CASE c = store[k] /\ UNCHANGED <<store, events>>
  <2>1. \A j \in Names : Moves(store[j], Revision, store'[j], Revision')
    BY <1>1 DEF Moves, Revision
  <2>2. Written(k, c)
    BY <1>1 DEF Written, SameOutside
  <2> QED BY <1>1, <2>1, <2>2 DEF ServerStep
<1>2. CASE c.deleting /\ c.finalizers = {} /\ Erase(k)
  BY <1>2, EraseMoves DEF Succeeds, Written
<1>3. CASE Commit(k, c)
  BY <1>3, CommitMoves
<1> QED BY <1>1, <1>2, <1>3 DEF Put

(* The caller's copy is tied to the stored object: what an Update stores   *)
(* then differs from it in nothing the provisioner leaves alone.           *)
LEMMA UpdateMoves ==
  ASSUME StoreTypeOK, StoreTied, NEW k \in Names, NEW c \in Cluster,
         TiedTo(store[k], Revision, c), UpdateSucceeds(k, c) \/ UpdateFails(k, c)
  PROVE  /\ ServerStep
         /\ \/ UNCHANGED store /\ UpdateFails(k, c)
            \/ Accepts(k, c) /\ SameOutside(store[k], c) /\ Written(k, c)
<1>1. CASE UNCHANGED <<store, events>> /\ UpdateFails(k, c)
  <2>1. \A j \in Names : Moves(store[j], Revision, store'[j], Revision')
    BY <1>1 DEF Moves, Revision
  <2> QED BY <1>1, <2>1 DEF ServerStep
<1>2. CASE Accepts(k, c) /\ Put(k, c)
  <2>1. Exists(k) /\ SameOutside(store[k], c)
    BY <1>2 DEF Accepts, TiedTo, Exists
  <2>2. Succeeds(k, c)
    BY <2>1 DEF Succeeds, SameOutside
  <2> QED BY <1>2, <2>1, <2>2, PutMoves
<1> QED BY <1>1, <1>2 DEF UpdateSucceeds, UpdateFails, storeVars

(* Users and other clients leave the provisioner's finalizer where it is.  *)
FinalizerUntouched ==
  \A j \in Names : Exists(j) =>
    IF Guarded(store[j])
    THEN store'[j] # NoCluster /\ store'[j].uid = store[j].uid /\ Guarded(store'[j])
    ELSE store'[j] = NoCluster \/ ~Guarded(store'[j])

AppliedUntouched ==
  \A j \in Names : (Exists(j) /\ store'[j] # NoCluster) => store'[j].applied = store[j].applied

Untouched == FinalizerUntouched /\ AppliedUntouched

(* Users and other clients write nothing that is the provisioner's.        *)
LEMMA UserMoves ==
  ASSUME StoreTypeOK, StoreTied, NEW k \in Names, UserWrites(k)
  PROVE  ServerStep /\ Untouched
<1>0. Revision \in Nat /\ NoCluster \notin Cluster
  BY LenProperties, ProvisionerAssumption DEF Revision, StoreTypeOK
<1>1. ASSUME Exists(k)
      PROVE  store[k] \in Cluster
  BY <1>1 DEF Exists, StoreTypeOK
<1>2. ASSUME NEW c \in Cluster, Exists(k), c.uid = store[k].uid, c.applied = store[k].applied,
             Guarded(c) <=> Guarded(store[k]), Written(k, c)
      PROVE  Untouched
  <2>1. \A j \in Names \ {k} : store'[j] = store[j]
    BY <1>2 DEF Written
  <2>2. Guarded(c) => store'[k] # NoCluster /\ store'[k].uid = store[k].uid /\ Guarded(store'[k])
    BY <1>0, <1>2 DEF Written, SameOutside, Guarded
  <2>3. ~Guarded(c) => store'[k] = NoCluster \/ ~Guarded(store'[k])
    BY <1>2 DEF Written, Guarded
  <2>4. FinalizerUntouched
    BY <1>2, <2>1, <2>2, <2>3 DEF FinalizerUntouched, Exists
  <2>5. AppliedUntouched
    BY <1>2, <2>1 DEF AppliedUntouched, Written, Exists
  <2> QED BY <2>4, <2>5 DEF Untouched
<1>3. ASSUME NEW p \in Paths, NEW fs \in SUBSET ForeignFinalizers, UserCreates(k, p, fs)
      PROVE  ServerStep /\ Untouched
  <2> DEFINE c == [uid |-> Revision + 1, rv |-> 0, deleting |-> FALSE,
                   finalizers |-> fs, path |-> p,
                   applied |-> NoConfig, provisioned |-> "",
                   ready |-> "", version |-> NoConfig]
  <2>0. c.uid = Revision + 1 /\ fs \in SUBSET (ForeignFinalizers \cup {ProvisionerFinalizer})
    OBVIOUS
  <2>1. c \in Cluster
    <3>1. Revision + 1 \in Nat
      BY <1>0
    <3> QED BY <2>0, <3>1 DEF Cluster, ConditionStatus
  <2>2. Commit(k, c) /\ ~Exists(k)
    BY <1>3 DEF UserCreates
  <2> HIDE DEF c
  <2>3. ServerStep /\ Written(k, c)
    BY <2>0, <2>1, <2>2, CommitMoves
  <2> QED BY <2>2, <2>3 DEF Untouched, FinalizerUntouched, AppliedUntouched, Written, Exists
<1>4. CASE UserDeletes(k)
  <2> DEFINE c == [store[k] EXCEPT !.deleting = TRUE]
  <2>1. Exists(k) /\ store[k] \in Cluster
    BY <1>1, <1>4 DEF UserDeletes
  <2>2. CASE store[k].finalizers = {} /\ Erase(k)
    <3>1. ~Guarded(store[k])
      BY <2>2 DEF Guarded
    <3> QED BY <2>1, <2>2, <3>1, EraseMoves
           DEF Untouched, FinalizerUntouched, AppliedUntouched, Exists
  <2>3. CASE Commit(k, c)
    <3>1. c \in Cluster /\ c.uid = store[k].uid /\ c.deleting /\ c.finalizers = store[k].finalizers
          /\ c.applied = store[k].applied
      BY <2>1 DEF Cluster
    <3> HIDE DEF c
    <3>2. ServerStep /\ Written(k, c)
      BY <2>1, <2>3, <3>1, CommitMoves DEF Succeeds
    <3> QED BY <1>2, <2>1, <3>1, <3>2 DEF Guarded
  <2> QED BY <1>4, <2>2, <2>3 DEF UserDeletes
<1>5. ASSUME NEW p \in Paths, UserMovesConfig(k, p) PROVE ServerStep /\ Untouched
  <2> DEFINE c == [store[k] EXCEPT !.path = p]
  <2>1. Exists(k) /\ store[k] \in Cluster /\ Commit(k, c)
    BY <1>1, <1>5 DEF UserMovesConfig
  <2>2. /\ c \in Cluster /\ c.uid = store[k].uid /\ c.deleting = store[k].deleting
        /\ c.finalizers = store[k].finalizers /\ c.applied = store[k].applied
    BY <2>1 DEF Cluster
  <2> HIDE DEF c
  <2>3. ServerStep /\ Written(k, c)
    BY <2>1, <2>2, CommitMoves DEF Succeeds
  <2> QED BY <1>2, <2>1, <2>2, <2>3 DEF Guarded
<1>6. CASE OtherFieldWritten(k)
  <2> DEFINE c == [store[k] EXCEPT !.ready = "True"]
  <2>1. Exists(k) /\ store[k] \in Cluster /\ Commit(k, c)
    BY <1>1, <1>6 DEF OtherFieldWritten
  <2>2. /\ c \in Cluster /\ c.uid = store[k].uid /\ c.deleting = store[k].deleting
        /\ c.finalizers = store[k].finalizers /\ c.applied = store[k].applied
    BY <2>1 DEF Cluster, ConditionStatus
  <2> HIDE DEF c
  <2>3. ServerStep /\ Written(k, c)
    BY <2>1, <2>2, CommitMoves DEF Succeeds
  <2> QED BY <1>2, <2>1, <2>2, <2>3 DEF Guarded
<1>7. ASSUME NEW f \in ForeignFinalizers, ForeignFinalizerDone(k, f)
      PROVE  ServerStep /\ Untouched
  <2> DEFINE c == [store[k] EXCEPT !.finalizers = @ \ {f}]
  <2>1. Exists(k) /\ store[k] \in Cluster /\ Put(k, c)
    BY <1>1, <1>7 DEF ForeignFinalizerDone
  <2>2. /\ c \in Cluster /\ c.uid = store[k].uid /\ c.deleting = store[k].deleting
        /\ c.finalizers = store[k].finalizers \ {f} /\ c.applied = store[k].applied
    BY <2>1 DEF Cluster
  <2> HIDE DEF c
  <2>3. ServerStep /\ Written(k, c)
    BY <2>1, <2>2, PutMoves DEF Succeeds
  <2>4. Guarded(c) <=> Guarded(store[k])
    BY <2>2, StoreAssumption DEF Guarded
  <2> QED BY <1>2, <2>1, <2>2, <2>3, <2>4
<1> QED BY <1>3, <1>4, <1>5, <1>6, <1>7 DEF UserWrites
-----------------------------------------------------------------------------
(* The copies in the cache and in the worker's hands.                      *)
CacheTied == \A k \in Names : Cached(k) => TiedTo(store[k], Revision, cache[k])

WorkerTied ==
  /\ cur # NoCluster => TiedTo(store[key], Revision, cur)
  /\ toUpdate # NoCluster => TiedTo(store[key], Revision, toUpdate)

TiedInv == StoreTied /\ EventsTied /\ CacheTied /\ WorkerTied

(* What the worker knows of its object at each label.                      *)
HandInv ==
  /\ ~shuttingDown
  /\ shared => pc \notin {"idle", "lookup", "done"} /\ cache[key] = cur
  /\ pc \in {"compare", "initialize", "provision", "rkeUp", "applied"} => ~cur.deleting
  /\ pc = "release" => ~Guarded(toUpdate) /\ infra[cur.path] = NoInfra

(* The worker writes its copy c over the stored object.                    *)
WorkerWrites(c) == Accepts(key, c) /\ SameOutside(store[key], c) /\ Written(key, c)

(* Who writes to the store, and what becomes of the stored objects.        *)
LEMMA StoreSteps ==
  ASSUME TypeOK, TiedInv, [Next]_vars
  PROVE  /\ ServerStep
         /\ \/ UNCHANGED store
            \/ UserStep /\ Untouched
            \/ pc \in {"initialize", "applied"} /\ WorkerWrites(cur)
            \/ pc = "release" /\ WorkerWrites(toUpdate)
<1>1. ASSUME UNCHANGED <<store, events>> PROVE ServerStep
  <2>1. Revision \in Nat
    BY LenProperties DEF Revision, TypeOK, StoreTypeOK
  <2>2. \A j \in Names : Moves(store[j], Revision, store'[j], Revision')
    BY <1>1, <2>1 DEF Moves, Revision
  <2> QED BY <1>1, <2>2 DEF ServerStep
<1>2. CASE Informer \/ Crash \/ UNCHANGED vars
  BY <1>1, <1>2 DEF Informer, List, Deliver, WatchBreaks, Resync, ResyncNotDue, Enqueue, Crash,
                    storeVars, vars
<1>3. CASE User
  <2>1. ASSUME NEW k \in Names, UserWrites(k)
        PROVE  ServerStep /\ Untouched
    BY <2>1, UserMoves DEF TypeOK, TiedInv
  <2>2. UserStep
    BY <1>3 DEF User, StoreStep
  <2>3. (\E k \in Names : UserWrites(k)) \/ UNCHANGED <<store, events>>
    BY <1>3 DEF User, UserWrites, UserWritesFile, storeVars
  <2> QED BY <1>1, <2>1, <2>2, <2>3
<1>4. CASE TryUpdate("initialize") \/ TryUpdate("applied") \/ Initialized \/ AppliedConfigUpdated
  <2>1. pc \in {"initialize", "applied"} /\ (UpdateSucceeds(key, cur) \/ UpdateFails(key, cur))
    BY <1>4 DEF TryUpdate, Initialized, AppliedConfigUpdated, LeaveUpdate
  <2>2. key \in Names /\ cur \in Cluster
    BY <2>1 DEF TypeOK, WorkerTypeOK
  <2>3. TiedTo(store[key], Revision, cur)
    BY <2>2, ProvisionerAssumption DEF TiedInv, WorkerTied
  <2> QED BY <2>1, <2>2, <2>3, UpdateMoves DEF TypeOK, TiedInv, WorkerWrites
<1>5. CASE TryRelease \/ ReleaseSucceeds \/ ReleaseFails
  <2>1. pc = "release" /\ (UpdateSucceeds(key, toUpdate) \/ UpdateFails(key, toUpdate))
    BY <1>5 DEF TryRelease, ReleaseSucceeds, ReleaseFails
  <2>2. key \in Names /\ toUpdate \in Cluster
    BY <2>1 DEF TypeOK, WorkerTypeOK
  <2>3. TiedTo(store[key], Revision, toUpdate)
    BY <2>2, ProvisionerAssumption DEF TiedInv, WorkerTied
  <2> QED BY <2>1, <2>2, <2>3, UpdateMoves DEF TypeOK, TiedInv, WorkerWrites
<1>6. CASE \/ \E k \in Names : TakeKey(k)
           \/ SyncMissing \/ SyncFound \/ ConfigUnreadable \/ ConfigUnchanged \/ ConfigChanged
           \/ StartUp \/ UpSucceeds \/ UpFails \/ SyncReturns
  BY <1>1, <1>6 DEF TakeKey, SyncMissing, SyncFound, ConfigUnreadable, ConfigUnchanged,
                    ConfigChanged, StartUp, UpSucceeds, UpFails, SyncReturns, storeVars
<1>7. CASE \/ FinalizeGetFails \/ FinalizeNothing \/ FinalizeStart
           \/ RemoveSucceeds \/ RemoveFails
  BY <1>1, <1>7 DEF FinalizeGetFails, FinalizeNothing, FinalizeStart, RemoveSucceeds,
                    RemoveFails, storeVars
<1> QED BY <1>2, <1>3, <1>4, <1>5, <1>6, <1>7 DEF Next, Worker

(* The copies stay tied while they are kept or dropped.                    *)
LEMMA TiedFrame ==
  ASSUME TypeOK, TiedInv, ServerStep,
         UNCHANGED cache \/ cache' = [k \in Names |-> NoCluster],
         UNCHANGED <<key, cur, toUpdate>> \/ (cur' = NoCluster /\ toUpdate' = NoCluster)
  PROVE  TiedInv'
<1>1. /\ StoreTied' /\ EventsTied'
      /\ \A k \in Names, c \in Cluster :
           TiedTo(store[k], Revision, c) => TiedTo(store'[k], Revision', c)
  BY ServerKeepsTied DEF TypeOK, TiedInv
<1>2. CacheTied'
  <2>1. CASE UNCHANGED cache
    BY <1>1, <2>1 DEF TiedInv, CacheTied, Cached, TypeOK, InformerTypeOK
  <2>2. CASE cache' = [k \in Names |-> NoCluster]
    BY <2>2 DEF CacheTied, Cached
  <2> QED BY <2>1, <2>2
<1>3. WorkerTied'
  <2>1. CASE UNCHANGED <<key, cur, toUpdate>>
    <3>1. (cur # NoCluster => key \in Names /\ cur \in Cluster)
          /\ (toUpdate # NoCluster => key \in Names /\ toUpdate \in Cluster)
      BY DEF TypeOK, WorkerTypeOK
    <3> QED BY <1>1, <2>1, <3>1 DEF TiedInv, WorkerTied
  <2>2. CASE cur' = NoCluster /\ toUpdate' = NoCluster
    BY <2>2 DEF WorkerTied
  <2> QED BY <2>1, <2>2
<1> QED BY <1>1, <1>2, <1>3 DEF TiedInv

(* What the worker writes into its object, in the cache or not, stays tied. *)
LEMMA TiedThrough ==
  ASSUME TypeOK, TiedInv, UNCHANGED <<store, events, key>>, key \in Names,
         cur \in Cluster, NEW o \in Cluster, SameOutside(cur, o), cur.rv = o.rv,
         cache' = IF shared THEN [cache EXCEPT ![key] = o] ELSE cache,
         cur' \in {o, NoCluster}, toUpdate' \in {toUpdate, NoCluster}
  PROVE  TiedInv'
<1>1. StoreTied' /\ EventsTied'
  BY DEF TiedInv, StoreTied, EventsTied, Exists, Revision
<1>2. TiedTo(store[key], Revision, o)
  BY TiedWrite, ProvisionerAssumption DEF TiedInv, WorkerTied
<1>3. CacheTied'
  BY <1>2 DEF TiedInv, CacheTied, Cached, Revision, TypeOK, InformerTypeOK
<1>4. WorkerTied'
  BY <1>2 DEF TiedInv, WorkerTied, Revision
<1> QED BY <1>1, <1>3, <1>4 DEF TiedInv

(* Every step of the system keeps the copies tied.                         *)
LEMMA TiedStep ==
  ASSUME TypeOK, TiedInv, [Next]_vars
  PROVE  TiedInv'
<1>0. ServerStep /\ NoCluster \notin Cluster
  BY StoreSteps, ProvisionerAssumption
<1>1. CASE User \/ UNCHANGED vars
  <2>1. UNCHANGED <<cache, key, cur, toUpdate>>
    BY <1>1 DEF User, StoreStep, UserStep, informerVars, workerVars, localVars, vars
  <2> QED BY <1>0, <2>1, TiedFrame
<1>2. ASSUME NEW r \in Reflectors, List(r) PROVE TiedInv'
  <2>1. UNCHANGED <<store, events, key, cur, toUpdate>> /\ cache' = store
    BY <1>2 DEF List, storeVars, localVars
  <2>2. CacheTied'
    <3> SUFFICES ASSUME NEW k \in Names, store[k] # NoCluster
                 PROVE  TiedTo(store[k], Revision, store[k])
      BY <2>1 DEF CacheTied, Cached, Revision
    <3> QED BY DEF TiedInv, StoreTied, Exists, TiedTo, SameOutside
  <2> QED BY <2>1, <2>2 DEF TiedInv, StoreTied, EventsTied, WorkerTied, Exists, Revision
<1>3. ASSUME NEW r \in Reflectors, Deliver(r) PROVE TiedInv'
  <2> DEFINE e == events[pos[r] + 1]
  <2>1. UNCHANGED <<store, events, key, cur, toUpdate>>
        /\ cache' = [cache EXCEPT ![e.key] = IF e.type = "put" THEN e.obj ELSE NoCluster]
    BY <1>3 DEF Deliver, storeVars, localVars
  <2>2. pos[r] + 1 \in DOMAIN events
    BY <1>3, LenProperties DEF Deliver, TypeOK, InformerTypeOK, StoreTypeOK, Revision
  <2>3. TiedTo(store[e.key], Revision, e.obj)
    BY <2>2 DEF TiedInv, EventsTied
  <2> HIDE DEF e
  <2>4. CacheTied'
    BY <2>1, <2>3 DEF TiedInv, CacheTied, Cached, Revision, TypeOK, InformerTypeOK
  <2> QED BY <2>1, <2>4 DEF TiedInv, StoreTied, EventsTied, WorkerTied, Exists, Revision
<1>4. CASE \/ \E r \in Reflectors : WatchBreaks(r)
           \/ Resync \/ ResyncNotDue \/ \E k \in Names : Enqueue(k)
  <2>1. UNCHANGED <<cache, key, cur, toUpdate>>
    BY <1>4 DEF WatchBreaks, Resync, ResyncNotDue, Enqueue, workerVars, localVars
  <2> QED BY <1>0, <2>1, TiedFrame
<1>5. CASE Crash
  BY <1>0, <1>5, TiedFrame DEF Crash, Forget
<1>6. CASE \/ TryUpdate("initialize") \/ TryUpdate("applied") \/ Initialized
           \/ AppliedConfigUpdated \/ TryRelease \/ ReleaseSucceeds \/ ReleaseFails
  <2>1. UNCHANGED cache
    BY <1>6 DEF TryUpdate, Initialized, AppliedConfigUpdated, TryRelease, ReleaseSucceeds,
                ReleaseFails, informerVars
  <2>2. UNCHANGED <<key, cur, toUpdate>> \/ (cur' = NoCluster /\ toUpdate' = NoCluster)
    BY <1>6 DEF TryUpdate, Initialized, AppliedConfigUpdated, TryRelease, ReleaseSucceeds,
                ReleaseFails, Requeue, Return, Forget, Goto
  <2> QED BY <1>0, <2>1, <2>2, TiedFrame
<1>7. CASE \/ \E k \in Names : TakeKey(k)
           \/ SyncMissing \/ ConfigUnreadable \/ ConfigUnchanged \/ SyncReturns
           \/ FinalizeGetFails \/ FinalizeNothing \/ RemoveFails
  <2>1. UNCHANGED cache
    BY <1>7 DEF TakeKey, SyncMissing, ConfigUnreadable, ConfigUnchanged, SyncReturns,
                FinalizeGetFails, FinalizeNothing, RemoveFails, informerVars
  <2>2. cur' = NoCluster /\ toUpdate' = NoCluster
    <3>1. CASE (\E k \in Names : TakeKey(k)) \/ SyncReturns
      BY <3>1 DEF TakeKey, SyncReturns, TypeOK, WorkerTypeOK, localVars
    <3> QED BY <1>7, <3>1 DEF SyncMissing, ConfigUnreadable, ConfigUnchanged, FinalizeGetFails,
                              FinalizeNothing, RemoveFails, Requeue, Return, Forget
  <2> QED BY <1>0, <2>1, <2>2, TiedFrame
<1>8. CASE SyncFound
  <2>1. /\ UNCHANGED <<store, events, cache, key, toUpdate>> /\ cur' = cache[key]
        /\ key \in Names /\ Cached(key)
    BY <1>8 DEF SyncFound, Goto, storeVars, informerVars, localVars, TypeOK, WorkerTypeOK
  <2> QED BY <2>1 DEF TiedInv, StoreTied, EventsTied, CacheTied, WorkerTied, Exists, Cached,
                      Revision
<1>9. CASE FinalizeStart
  <2>1. /\ UNCHANGED <<store, events, cache, key, cur>> /\ toUpdate' = store[key]
        /\ key \in Names /\ Exists(key)
    BY <1>9 DEF FinalizeStart, ToBeFinalized, Goto, storeVars, informerVars, TypeOK, WorkerTypeOK
  <2>2. TiedTo(store[key], Revision, store[key])
    BY <2>1 DEF TiedInv, StoreTied, TiedTo, SameOutside
  <2> QED BY <2>1, <2>2 DEF TiedInv, StoreTied, EventsTied, CacheTied, WorkerTied, Exists, Cached,
                            Revision
<1>10. CASE RemoveSucceeds
  <2> DEFINE o == [toUpdate EXCEPT !.finalizers = @ \ {ProvisionerFinalizer}]
  <2>1. /\ UNCHANGED <<store, events, cache, key, cur>> /\ toUpdate' = o
        /\ toUpdate \in Cluster
    BY <1>10 DEF RemoveSucceeds, Goto, storeVars, informerVars, TypeOK, WorkerTypeOK
  <2>2. SameOutside(toUpdate, o) /\ toUpdate.rv = o.rv
    BY <2>1 DEF SameOutside, Foreign, Cluster
  <2> HIDE DEF o
  <2>3. TiedTo(store[key], Revision, o)
    BY <1>0, <2>1, <2>2, TiedWrite DEF TiedInv, WorkerTied
  <2> QED BY <2>1, <2>3 DEF TiedInv, StoreTied, EventsTied, CacheTied, WorkerTied, Exists, Cached,
                            Revision
<1>11. CASE ConfigChanged
  <2> DEFINE o == [cur EXCEPT !.finalizers = @ \cup {ProvisionerFinalizer}]
  <2>1. UNCHANGED <<store, events, key, toUpdate>> /\ key \in Names /\ cur \in Cluster
        /\ cur' = o /\ cache' = IF shared THEN [cache EXCEPT ![key] = o] ELSE cache
    BY <1>11 DEF ConfigChanged, WriteThrough, Goto, storeVars, TypeOK, WorkerTypeOK
  <2>2. o \in Cluster /\ SameOutside(cur, o) /\ cur.rv = o.rv
    BY <2>1 DEF SameOutside, Foreign, Cluster
  <2> QED BY <2>1, <2>2, TiedThrough
<1>12. CASE StartUp
  <2> DEFINE o == [cur EXCEPT !.provisioned = IF @ = "False" THEN "False" ELSE "Unknown"]
  <2>1. UNCHANGED <<store, events, key, toUpdate>> /\ key \in Names /\ cur \in Cluster
        /\ cur' = o /\ cache' = IF shared THEN [cache EXCEPT ![key] = o] ELSE cache
    BY <1>12 DEF StartUp, WriteThrough, Goto, storeVars, TypeOK, WorkerTypeOK
  <2>2. o \in Cluster /\ SameOutside(cur, o) /\ cur.rv = o.rv
    BY <2>1 DEF SameOutside, Foreign, Cluster, ConditionStatus
  <2> QED BY <2>1, <2>2, TiedThrough
<1>13. CASE UpSucceeds
  <2> DEFINE o == [cur EXCEPT !.provisioned = "True", !.applied = config]
  <2>1. UNCHANGED <<store, events, key, toUpdate>> /\ key \in Names /\ cur \in Cluster
        /\ config \in Contents \cup {NoConfig}
        /\ cur' = o /\ cache' = IF shared THEN [cache EXCEPT ![key] = o] ELSE cache
    BY <1>13 DEF UpSucceeds, WriteThrough, Goto, storeVars, localVars, TypeOK, WorkerTypeOK
  <2>2. o \in Cluster /\ SameOutside(cur, o) /\ cur.rv = o.rv
    BY <2>1 DEF SameOutside, Foreign, Cluster, ConditionStatus
  <2> QED BY <2>1, <2>2, TiedThrough
<1>14. CASE UpFails
  <2> DEFINE o == [cur EXCEPT !.provisioned = "False"]
  <2>1. UNCHANGED <<store, events, key>> /\ key \in Names /\ cur \in Cluster
        /\ cur' = NoCluster /\ toUpdate' = NoCluster
        /\ cache' = IF shared THEN [cache EXCEPT ![key] = o] ELSE cache
    BY <1>14 DEF UpFails, Requeue, Return, Forget, Goto, TypeOK, WorkerTypeOK
  <2>2. o \in Cluster /\ SameOutside(cur, o) /\ cur.rv = o.rv
    BY <2>1 DEF SameOutside, Foreign, Cluster, ConditionStatus
  <2> QED BY <2>1, <2>2, TiedThrough
<1> QED BY <1>1, <1>2, <1>3, <1>4, <1>5, <1>6, <1>7, <1>8, <1>9, <1>10, <1>11, <1>12, <1>13, <1>14
        DEF Next, Worker, Informer
-----------------------------------------------------------------------------
(* The worker between two syncs holds nothing.                             *)
LEMMA HandReset ==
  ASSUME HandInv, shuttingDown' = FALSE, ~shared', pc' \in {"idle", "lookup", "done"}
  PROVE  HandInv'
BY DEF HandInv

(* A step of somebody else, which may replace the cached object. *)
LEMMA HandFrame ==
  ASSUME HandInv, UNCHANGED <<shuttingDown, pc, key, cur, toUpdate, infra>>,
         shared' => shared /\ cache'[key] = cache[key]
  PROVE  HandInv'
BY DEF HandInv, Guarded

(* An object written through the worker's pointer is the worker's object.  *)
LEMMA HandThrough ==
  ASSUME TypeOK, HandInv, NEW o \in Cluster, WriteThrough(o), cur \in Cluster, key \in Names,
         SameOutside(cur, o), UNCHANGED <<shared, key>>, shuttingDown' = FALSE,
         pc \in {"compare", "initialize", "provision", "rkeUp", "applied"},
         pc' \in {"initialize", "provision", "rkeUp", "applied"}
  PROVE  HandInv'
<1>1. ~cur'.deleting
  BY DEF HandInv, WriteThrough, SameOutside
<1>2. shared' => cache'[key'] = cur'
  BY DEF WriteThrough, TypeOK, InformerTypeOK
<1> QED BY <1>1, <1>2 DEF HandInv

(* Every step keeps what the worker knows of its object.                   *)
LEMMA HandStep ==
  ASSUME TypeOK, HandInv, [Next]_vars
  PROVE  HandInv'
<1>0. UNCHANGED shuttingDown \/ shuttingDown' = FALSE
  <2>1. CASE Worker
    BY <2>1 DEF Worker, TakeKey, SyncMissing, SyncFound, ConfigUnreadable, ConfigUnchanged,
                ConfigChanged, TryUpdate, Initialized, StartUp, UpSucceeds, UpFails,
                AppliedConfigUpdated, FinalizeGetFails, FinalizeNothing, FinalizeStart,
                RemoveSucceeds, RemoveFails, TryRelease, ReleaseSucceeds, ReleaseFails,
                SyncReturns, Requeue, WQ!Get, WQ!Add, WQ!Done, queueVars
  <2>2. CASE Informer \/ Crash \/ User \/ UNCHANGED vars
    BY <2>2 DEF Informer, List, Deliver, WatchBreaks, Resync, ResyncNotDue, Enqueue, WQ!Add,
                Crash, User, StoreStep, UserStep, queueVars, vars
  <2> QED BY <2>1, <2>2 DEF Next
<1>1. shuttingDown' = FALSE
  BY <1>0 DEF HandInv, TypeOK, WQ!QueueTypeOK
<1>2. CASE User \/ UNCHANGED vars
  <2>1. UNCHANGED <<shuttingDown, pc, key, cur, toUpdate, shared, cache>>
    BY <1>2 DEF User, StoreStep, UserStep, queueVars, informerVars, workerVars, localVars, vars
  <2>2. UNCHANGED infra
    BY <1>2 DEF User, StoreStep, UserWritesFile, worldVars, vars
  <2> QED BY <2>1, <2>2, HandFrame
<1>3. ASSUME NEW r \in Reflectors, List(r) PROVE HandInv'
  BY <1>3, HandFrame DEF List, queueVars, localVars, worldVars
<1>4. ASSUME NEW r \in Reflectors, Deliver(r) PROVE HandInv'
  <2> DEFINE e == events[pos[r] + 1]
  <2>1. cache' = [cache EXCEPT ![e.key] = IF e.type = "put" THEN e.obj ELSE NoCluster]
        /\ shared' = (shared /\ e.key # key)
        /\ UNCHANGED <<shuttingDown, pc, key, cur, toUpdate, infra>>
    BY <1>4 DEF Deliver, queueVars, localVars, worldVars
  <2> HIDE DEF e
  <2>2. shared => key \in Names
    BY DEF HandInv, TypeOK, WorkerTypeOK
  <2>3. shared' => shared /\ cache'[key] = cache[key]
    BY <2>1, <2>2 DEF TypeOK, InformerTypeOK
  <2> QED BY <2>1, <2>3, HandFrame
<1>5. CASE \/ \E r \in Reflectors : WatchBreaks(r)
           \/ Resync \/ ResyncNotDue \/ \E k \in Names : Enqueue(k)
  <2>1. UNCHANGED <<pc, key, cur, toUpdate, infra, shared, cache>>
    BY <1>5 DEF WatchBreaks, Resync, ResyncNotDue, Enqueue, workerVars, localVars, worldVars
  <2> QED BY <1>1, <2>1, HandFrame DEF HandInv
<1>6. CASE \/ SyncMissing \/ ConfigUnreadable \/ ConfigUnchanged
           \/ AppliedConfigUpdated \/ UpFails
           \/ FinalizeGetFails \/ FinalizeNothing \/ RemoveFails
           \/ ReleaseSucceeds \/ ReleaseFails \/ Crash
  <2>1. ~shared' /\ pc' \in {"idle", "lookup", "done"}
    BY <1>6 DEF SyncMissing, ConfigUnreadable, ConfigUnchanged, AppliedConfigUpdated, UpFails,
                FinalizeGetFails, FinalizeNothing, RemoveFails, ReleaseSucceeds, ReleaseFails,
                Crash, Requeue, Return, Goto, Forget
  <2> QED BY <1>1, <2>1, HandReset
<1>7. CASE (\E k \in Names : TakeKey(k)) \/ SyncReturns
  <2>1. ~shared' /\ pc' \in {"idle", "lookup", "done"}
    BY <1>7 DEF TakeKey, SyncReturns, HandInv
  <2> QED BY <1>1, <2>1, HandReset
<1>8. CASE SyncFound
  <2>1. /\ cur' = cache[key] /\ UNCHANGED <<cache, key>>
        /\ pc' = IF cache[key].deleting THEN "finalize" ELSE "compare"
    BY <1>8 DEF SyncFound, Goto, informerVars
  <2> QED BY <1>1, <2>1 DEF HandInv
<1>9. CASE ConfigChanged
  <2> DEFINE o == [cur EXCEPT !.finalizers = @ \cup {ProvisionerFinalizer}]
  <2>1. /\ pc = "compare" /\ key \in Names /\ cur \in Cluster /\ WriteThrough(o)
        /\ UNCHANGED <<shared, key>> /\ pc' \in {"initialize", "provision"}
    BY <1>9 DEF ConfigChanged, Goto, TypeOK, WorkerTypeOK
  <2>2. o \in Cluster /\ SameOutside(cur, o)
    BY <2>1 DEF SameOutside, Foreign, Cluster
  <2> HIDE DEF o
  <2> QED BY <1>1, <2>1, <2>2, HandThrough
<1>10. CASE StartUp
  <2> DEFINE o == [cur EXCEPT !.provisioned = IF @ = "False" THEN "False" ELSE "Unknown"]
  <2>1. /\ pc = "provision" /\ key \in Names /\ cur \in Cluster /\ WriteThrough(o)
        /\ UNCHANGED <<shared, key>> /\ pc' = "rkeUp"
    BY <1>10 DEF StartUp, Goto, TypeOK, WorkerTypeOK
  <2>2. o \in Cluster /\ SameOutside(cur, o)
    BY <2>1 DEF SameOutside, Foreign, Cluster, ConditionStatus
  <2> HIDE DEF o
  <2> QED BY <1>1, <2>1, <2>2, HandThrough
<1>11. CASE UpSucceeds
  <2> DEFINE o == [cur EXCEPT !.provisioned = "True", !.applied = config]
  <2>1. /\ pc = "rkeUp" /\ key \in Names /\ cur \in Cluster /\ WriteThrough(o)
        /\ UNCHANGED <<shared, key>> /\ pc' = "applied" /\ config \in Contents \cup {NoConfig}
    BY <1>11 DEF UpSucceeds, Goto, TypeOK, WorkerTypeOK
  <2>2. o \in Cluster /\ SameOutside(cur, o)
    BY <2>1 DEF SameOutside, Foreign, Cluster, ConditionStatus
  <2> HIDE DEF o
  <2> QED BY <1>1, <2>1, <2>2, HandThrough
<1>12. CASE TryUpdate("initialize") \/ TryUpdate("applied") \/ Initialized
  <2>1. /\ pc \in {"initialize", "applied"} /\ pc' \in {"initialize", "applied", "provision"}
        /\ UNCHANGED <<key, cur, shared, cache>>
    BY <1>12 DEF TryUpdate, Initialized, LeaveUpdate, Goto, informerVars
  <2> QED BY <1>1, <2>1 DEF HandInv
<1>13. CASE FinalizeStart
  <2>1. pc = "finalize" /\ pc' = "rkeRemove" /\ UNCHANGED <<key, cur, shared, cache>>
    BY <1>13 DEF FinalizeStart, Goto, informerVars
  <2> QED BY <1>1, <2>1 DEF HandInv
<1>14. CASE RemoveSucceeds
  <2>1. /\ pc = "rkeRemove" /\ pc' = "release" /\ UNCHANGED <<key, cur, shared, cache>>
        /\ toUpdate' = [toUpdate EXCEPT !.finalizers = @ \ {ProvisionerFinalizer}]
        /\ infra' = [infra EXCEPT ![cur.path] = NoInfra]
    BY <1>14 DEF RemoveSucceeds, Goto, informerVars
  <2>2. toUpdate \in Cluster /\ cur \in Cluster
    BY <2>1 DEF TypeOK, WorkerTypeOK
  <2>3. ~Guarded(toUpdate') /\ infra'[cur.path] = NoInfra
    BY <2>1, <2>2 DEF Guarded, Cluster, TypeOK, WorldTypeOK
  <2> QED BY <1>1, <2>1, <2>3 DEF HandInv, Guarded
<1>15. CASE TryRelease
  BY <1>1, <1>15, HandFrame DEF TryRelease, queueVars, informerVars, worldVars
<1> QED BY <1>2, <1>3, <1>4, <1>5, <1>6, <1>7, <1>8, <1>9, <1>10, <1>11, <1>12, <1>13, <1>14, <1>15
        DEF Next, Worker, Informer
-----------------------------------------------------------------------------
(* A deletion the cache shows and the syncing listener must not forget.    *)
Owed(k) ==
  ToBeFinalized(k) /\ syncing /\ Cached(k) /\ cache[k].deleting /\ cache[k].uid = store[k].uid

InHand(k) == key = k /\ pc \in {"lookup", "finalize", "rkeRemove", "release"}

Told == \A k \in Names : Owed(k) => k \in dirty \/ notified[k] > 0 \/ InHand(k)

(* The worker finishes with key, or goes on: every other name keeps what   *)
(* keeps it from being forgotten.                                          *)
LEMMA ToldFrame ==
  ASSUME Told, dirty \subseteq dirty', UNCHANGED notified,
         \A k \in Names : Owed(k)' => Owed(k) \/ k \in dirty',
         \A k \in Names : InHand(k) /\ Owed(k)' => InHand(k)' \/ k \in dirty'
  PROVE  Told'
BY DEF Told

(* The announcements: whatever the informer puts into the cache it tells   *)
(* the listener, and the listener tells the queue.                         *)
LEMMA InformerTold ==
  ASSUME TypeOK, HandInv, Told, Informer
  PROVE  Told'
<1>1. ASSUME NEW r \in Reflectors, List(r) PROVE Told'
  <2> SUFFICES ASSUME NEW k \in Names, Owed(k)' PROVE notified'[k] > 0
    BY DEF Told
  <2>1. syncing /\ Exists(k) /\ notified[k] \in Nat
    BY <1>1 DEF List, Owed, ToBeFinalized, Exists, storeVars, TypeOK, InformerTypeOK
  <2> QED BY <1>1, <2>1 DEF List
<1>2. ASSUME NEW r \in Reflectors, Deliver(r) PROVE Told'
  <2> DEFINE e == events[pos[r] + 1]
  <2>1. /\ cache' = [cache EXCEPT ![e.key] = IF e.type = "put" THEN e.obj ELSE NoCluster]
        /\ notified' = [notified EXCEPT ![e.key] = IF e.type = "put" THEN @ + 1 ELSE @]
        /\ UNCHANGED <<store, dirty, syncing, pc, key>>
    BY <1>2 DEF Deliver, storeVars, queueVars
  <2> HIDE DEF e
  <2> SUFFICES ASSUME NEW k \in Names, Owed(k)'
               PROVE  k \in dirty' \/ notified'[k] > 0 \/ InHand(k)'
    BY DEF Told
  <2>2. CASE k = e.key
    BY <2>1, <2>2 DEF Owed, Cached, TypeOK, InformerTypeOK
  <2>3. CASE k # e.key
    <3>1. cache'[k] = cache[k] /\ notified'[k] = notified[k]
      BY <2>1, <2>3 DEF TypeOK, InformerTypeOK
    <3>2. Owed(k)
      BY <2>1, <3>1 DEF Owed, ToBeFinalized, Exists, Guarded, Cached
    <3> QED BY <2>1, <3>1, <3>2 DEF Told, InHand
  <2> QED BY <2>2, <2>3
<1>3. ASSUME NEW r \in Reflectors, WatchBreaks(r) PROVE Told'
  BY <1>3 DEF WatchBreaks, Told, Owed, InHand, ToBeFinalized, Exists, Guarded, Cached, queueVars,
              workerVars
<1>4. CASE Resync
  <2> SUFFICES ASSUME NEW k \in Names, Owed(k)' PROVE notified'[k] > 0
    BY DEF Told
  <2>1. Cached(k) /\ notified[k] \in Nat
    BY <1>4 DEF Resync, Owed, Cached, TypeOK, InformerTypeOK
  <2> QED BY <1>4, <2>1 DEF Resync
<1>5. CASE ResyncNotDue
  BY <1>5 DEF ResyncNotDue, Told, Owed
<1>6. ASSUME NEW j \in Names, Enqueue(j) PROVE Told'
  <2> SUFFICES ASSUME NEW k \in Names, Owed(k)'
               PROVE  k \in dirty' \/ notified'[k] > 0 \/ InHand(k)'
    BY DEF Told
  <2>1. /\ notified' = [notified EXCEPT ![j] = @ - 1] /\ dirty' = dirty \cup {j}
        /\ UNCHANGED <<store, syncing, cache, pc, key>>
    BY <1>6 DEF Enqueue, WQ!Add, WQ!Accepted, HandInv, storeVars, workerVars
  <2>2. CASE k = j
    BY <2>1, <2>2
  <2>3. CASE k # j
    <3>1. Owed(k)
      BY <2>1 DEF Owed, ToBeFinalized, Exists, Guarded, Cached
    <3> QED BY <2>1, <2>3, <3>1 DEF Told, InHand, TypeOK, InformerTypeOK
  <2> QED BY <2>2, <2>3
<1> QED BY <1>1, <1>2, <1>3, <1>4, <1>5, <1>6 DEF Informer

(* Users and other clients can not make a deletion owed that was not: the  *)
(* cache has no object that was being deleted before the stored one was.   *)
LEMMA UserTold ==
  ASSUME TypeOK, TiedInv, Told, User, ServerStep, UNCHANGED store \/ FinalizerUntouched
  PROVE  Told'
<1>1. UNCHANGED <<dirty, notified, syncing, cache, pc, key>>
  BY DEF User, StoreStep, UserStep, queueVars, informerVars, workerVars
<1>2. ASSUME NEW k \in Names, Owed(k)' PROVE Owed(k)
  <2>1. CASE UNCHANGED store
    BY <1>1, <1>2, <2>1 DEF Owed, ToBeFinalized, Exists, Guarded, Cached
  <2>2. CASE FinalizerUntouched
    <3>1. /\ store'[k] # NoCluster /\ store'[k].deleting /\ Guarded(store'[k]) /\ syncing
          /\ Cached(k) /\ cache[k].deleting /\ cache[k].uid = store'[k].uid
      BY <1>1, <1>2 DEF Owed, ToBeFinalized, Exists, Guarded, Cached
    <3>2. TiedTo(store[k], Revision, cache[k]) /\ cache[k] \in Cluster
      BY <3>1 DEF TiedInv, CacheTied, Cached, TypeOK, InformerTypeOK
    <3>3. Revision \in Nat /\ cache[k].uid \in Nat
      BY <3>2, LenProperties DEF Revision, Cluster, TypeOK, StoreTypeOK
    <3>4. Moves(store[k], Revision, store'[k], Revision')
      BY DEF ServerStep
    <3>5. Exists(k) /\ store'[k].uid = store[k].uid
      BY <3>1, <3>2, <3>3, <3>4 DEF Moves, TiedTo, Exists
    <3>6. store[k].deleting
      BY <3>1, <3>2, <3>5 DEF TiedTo, Exists
    <3>7. Guarded(store[k])
      BY <2>2, <3>1, <3>5 DEF FinalizerUntouched
    <3> QED BY <3>1, <3>5, <3>6, <3>7 DEF Owed, ToBeFinalized
  <2> QED BY <2>1, <2>2
<1> QED BY <1>1, <1>2, ToldFrame DEF InHand

(* The worker either keeps the key in hand, or requeues it, or has seen    *)
(* that there is nothing left to finalize.                                 *)
LEMMA WorkerTold ==
  ASSUME TypeOK, TiedInv, HandInv, Told, Worker
  PROVE  Told'
<1>0. /\ \/ UNCHANGED store
         \/ pc \in {"initialize", "applied"} /\ WorkerWrites(cur)
         \/ pc = "release" /\ WorkerWrites(toUpdate)
      /\ UNCHANGED <<syncing, notified>>
  <2>1. UNCHANGED <<syncing, notified, userSteps>>
    BY DEF Worker, TakeKey, SyncMissing, SyncFound, ConfigUnreadable, ConfigUnchanged,
           ConfigChanged, TryUpdate, Initialized, StartUp, UpSucceeds, UpFails,
           AppliedConfigUpdated, FinalizeGetFails, FinalizeNothing, FinalizeStart,
           RemoveSucceeds, RemoveFails, TryRelease, ReleaseSucceeds, ReleaseFails,
           SyncReturns, informerVars, worldVars
  <2>2. ~UserStep
    BY <2>1 DEF UserStep, TypeOK, WorldTypeOK
  <2> QED BY <2>1, <2>2, StoreSteps DEF Next
<1>1. ASSUME NEW k \in Names, k # key, Owed(k)',
             cache'[k] = cache[k]
      PROVE  Owed(k)
  <2>1. store'[k] = store[k]
    BY <1>0, <1>1 DEF WorkerWrites, Written
  <2> QED BY <1>0, <1>1, <2>1 DEF Owed, ToBeFinalized, Exists, Guarded, Cached
<1>2. ASSUME NEW j \in Names, TakeKey(j) PROVE Told'
  <2>1. /\ UNCHANGED <<store, cache>> /\ pc = "idle" /\ pc' = "lookup" /\ key' = j
        /\ dirty' = dirty \ {j}
    BY <1>2 DEF TakeKey, WQ!Get, storeVars, informerVars
  <2> SUFFICES ASSUME NEW k \in Names, Owed(k)'
               PROVE  k \in dirty' \/ notified'[k] > 0 \/ InHand(k)'
    BY DEF Told
  <2>2. Owed(k)
    BY <1>0, <2>1 DEF Owed, ToBeFinalized, Exists, Guarded, Cached
  <2> QED BY <1>0, <2>1, <2>2 DEF Told, InHand
<1>3. ASSUME WQ!Add(key), \A k \in Names : k # key => cache'[k] = cache[k] PROVE Told'
  <2>1. dirty' = dirty \cup {key}
    BY <1>3 DEF WQ!Add, WQ!Accepted, HandInv
  <2>2. \A k \in Names : Owed(k)' => Owed(k) \/ k \in dirty'
    BY <1>1, <1>3, <2>1
  <2>3. \A k \in Names : InHand(k) => k \in dirty'
    BY <2>1 DEF InHand
  <2> QED BY <1>0, <2>1, <2>2, <2>3, ToldFrame
<1>4. CASE \/ SyncMissing \/ ConfigUnreadable \/ FinalizeGetFails
           \/ RemoveFails \/ ReleaseFails
  <2>1. WQ!Add(key) /\ UNCHANGED cache
    BY <1>4 DEF SyncMissing, ConfigUnreadable, FinalizeGetFails, RemoveFails, ReleaseFails,
                Requeue, informerVars
  <2> QED BY <1>3, <2>1
<1>5. CASE UpFails
  <2>1. /\ WQ!Add(key)
        /\ cache' = IF shared THEN [cache EXCEPT ![key] = [cur EXCEPT !.provisioned = "False"]]
                    ELSE cache
    BY <1>5 DEF UpFails, Requeue
  <2> QED BY <1>3, <2>1 DEF TypeOK, InformerTypeOK
<1>6. ASSUME \A k \in Names : k = key => ~Owed(k)', UNCHANGED dirty,
             \A k \in Names : k # key => cache'[k] = cache[k]
      PROVE  Told'
  <2>1. \A k \in Names : Owed(k)' => Owed(k)
    BY <1>1, <1>6
  <2>2. \A k \in Names : ~(InHand(k) /\ Owed(k)')
    BY <1>6 DEF InHand
  <2> QED BY <1>0, <1>6, <2>1, <2>2, ToldFrame
<1>7. CASE FinalizeNothing
  <2>1. \A k \in Names : k = key => ~Owed(k)'
    BY <1>7 DEF FinalizeNothing, Owed, ToBeFinalized, Exists, Guarded, storeVars, Return, Goto
  <2> QED BY <1>6, <1>7, <2>1 DEF FinalizeNothing, queueVars, informerVars
<1>8. CASE ReleaseSucceeds
  <2>1. UNCHANGED <<dirty, cache, key>> /\ pc = "release"
    BY <1>8 DEF ReleaseSucceeds, Return, Goto, queueVars, informerVars
  <2>2. ~Guarded(toUpdate) /\ key \in Names /\ toUpdate \in Cluster
    BY <2>1 DEF HandInv, TypeOK, WorkerTypeOK
  <2>3. Written(key, toUpdate)
    <3>1. Accepts(key, toUpdate) /\ Put(key, toUpdate)
      BY <1>8 DEF ReleaseSucceeds, UpdateSucceeds
    <3>2. TiedTo(store[key], Revision, toUpdate)
      BY <2>2, ProvisionerAssumption DEF TiedInv, WorkerTied
    <3>3. Succeeds(key, toUpdate)
      BY <3>1, <3>2 DEF Accepts, TiedTo, Exists, SameOutside, Succeeds
    <3> QED BY <2>2, <3>1, <3>3, PutMoves DEF TypeOK, TiedInv
  <2>4. \A k \in Names : k = key => ~Owed(k)'
    BY <2>1, <2>2, <2>3 DEF Written, Owed, ToBeFinalized, Exists, Guarded
  <2> QED BY <1>6, <2>1, <2>4
<1>9. ASSUME pc \in {"compare", "initialize", "provision", "rkeUp", "applied"},
             UNCHANGED <<key, dirty>>,
             cache' = cache \/ \E o \in Cluster : WriteThrough(o) /\ SameOutside(cur, o)
      PROVE  Told'
  <2>1. key \in Names /\ cur \in Cluster /\ ~cur.deleting /\ (shared => cache[key] = cur)
    BY <1>9 DEF TypeOK, WorkerTypeOK, HandInv
  <2>2. \A k \in Names : k # key => cache'[k] = cache[k]
    BY <1>9 DEF WriteThrough, TypeOK, InformerTypeOK
  <2>3. ASSUME NEW k \in Names, k = key, Owed(k)' PROVE Owed(k)
    <3>1. UNCHANGED store
      <4>1. ASSUME WorkerWrites(cur) PROVE FALSE
        BY <1>9, <2>1, <2>3, <4>1
           DEF WorkerWrites, Written, SameOutside, Owed, ToBeFinalized, Exists
      <4> QED BY <1>0, <1>9, <4>1
    <3>2. CASE cache' = cache
      BY <1>0, <1>9, <2>3, <3>1, <3>2 DEF Owed, ToBeFinalized, Exists, Guarded, Cached
    <3>3. CASE cache' # cache
      <4>1. PICK o \in Cluster : WriteThrough(o) /\ SameOutside(cur, o)
        BY <1>9, <3>3
      <4>2. cache'[key] = o
        BY <2>1, <3>3, <4>1 DEF WriteThrough, TypeOK, InformerTypeOK
      <4> QED BY <1>9, <2>1, <2>3, <4>1, <4>2 DEF Owed, SameOutside
    <3> QED BY <3>2, <3>3
  <2>4. \A k \in Names : Owed(k)' => Owed(k)
    BY <1>1, <2>2, <2>3
  <2>5. \A k \in Names : ~InHand(k)
    BY <1>9 DEF InHand
  <2> QED BY <1>0, <1>9, <2>4, <2>5, ToldFrame
<1>10. CASE ConfigUnchanged \/ AppliedConfigUpdated \/ TryUpdate("initialize")
            \/ TryUpdate("applied") \/ Initialized
  <2>1. /\ pc \in {"compare", "initialize", "applied"} /\ UNCHANGED <<key, dirty, cache>>
    BY <1>10 DEF ConfigUnchanged, AppliedConfigUpdated, TryUpdate, Initialized, LeaveUpdate,
                 Return, Goto, queueVars, informerVars
  <2> QED BY <1>9, <2>1
<1>11. CASE ConfigChanged \/ StartUp \/ UpSucceeds
  <2>1. pc \in {"compare", "provision", "rkeUp"} /\ UNCHANGED <<key, dirty>>
    BY <1>11 DEF ConfigChanged, StartUp, UpSucceeds, Goto, queueVars
  <2>2. cur \in Cluster /\ config \in Contents \cup {NoConfig}
    BY <2>1 DEF TypeOK, WorkerTypeOK
  <2>3. CASE ConfigChanged
    <3> DEFINE o == [cur EXCEPT !.finalizers = @ \cup {ProvisionerFinalizer}]
    <3>1. o \in Cluster /\ SameOutside(cur, o)
      BY <2>2 DEF SameOutside, Foreign, Cluster
    <3>2. WriteThrough(o)
      BY <2>3 DEF ConfigChanged
    <3> QED BY <1>9, <2>1, <3>1, <3>2
  <2>4. CASE StartUp
    <3> DEFINE o == [cur EXCEPT !.provisioned = IF @ = "False" THEN "False" ELSE "Unknown"]
    <3>1. o \in Cluster /\ SameOutside(cur, o)
      BY <2>2 DEF SameOutside, Foreign, Cluster, ConditionStatus
    <3>2. WriteThrough(o)
      BY <2>4 DEF StartUp
    <3> QED BY <1>9, <2>1, <3>1, <3>2
  <2>5. CASE UpSucceeds
    <3> DEFINE o == [cur EXCEPT !.provisioned = "True", !.applied = config]
    <3>1. o \in Cluster /\ SameOutside(cur, o)
      BY <2>2 DEF SameOutside, Foreign, Cluster, ConditionStatus
    <3>2. WriteThrough(o)
      BY <2>5 DEF UpSucceeds
    <3> QED BY <1>9, <2>1, <3>1, <3>2
  <2> QED BY <1>11, <2>3, <2>4, <2>5
<1>12. ASSUME UNCHANGED <<key, dirty, cache>>,
              pc \in {"lookup", "finalize", "rkeRemove", "release"},
              pc' \in {"finalize", "rkeRemove", "release"}
       PROVE  Told'
  <2>1. \A k \in Names : InHand(k) => InHand(k)'
    BY <1>12 DEF InHand
  <2>2. \A k \in Names : Owed(k)' => Owed(k) \/ k = key
    BY <1>1, <1>12
  <2>3. InHand(key)'
    BY <1>12 DEF InHand
  <2> QED BY <1>0, <1>12, <2>1, <2>2, <2>3 DEF Told, InHand
<1>13. CASE FinalizeStart \/ RemoveSucceeds \/ TryRelease
  BY <1>12, <1>13 DEF FinalizeStart, RemoveSucceeds, TryRelease, Goto, queueVars, informerVars
<1>14. CASE SyncFound
  <2>1. /\ pc = "lookup" /\ UNCHANGED <<key, dirty, cache, store>>
        /\ pc' = IF cache[key].deleting THEN "finalize" ELSE "compare"
    BY <1>14 DEF SyncFound, Goto, queueVars, informerVars, storeVars
  <2>2. CASE cache[key].deleting
    BY <1>12, <2>1, <2>2
  <2>3. CASE ~cache[key].deleting
    BY <1>6, <2>1, <2>3 DEF Owed
  <2> QED BY <2>2, <2>3
<1>15. CASE SyncReturns
  <2>1. UNCHANGED <<store, dirty, cache>> /\ pc = "done"
    BY <1>15 DEF SyncReturns, WQ!Done, storeVars, informerVars
  <2>2. \A k \in Names : Owed(k)' => Owed(k)
    BY <1>0, <2>1 DEF Owed, ToBeFinalized, Exists, Guarded, Cached
  <2>3. \A k \in Names : ~InHand(k)
    BY <2>1 DEF InHand
  <2> QED BY <1>0, <2>1, <2>2, <2>3, ToldFrame
<1> QED BY <1>2, <1>4, <1>5, <1>7, <1>8, <1>10, <1>11, <1>13, <1>14, <1>15 DEF Worker
-----------------------------------------------------------------------------
(* A cluster stays one to be finalized while rke removes it, and a release *)
(* that the server accepts is of one that still has the finalizer.         *)
LeavingInv ==
  /\ pc = "rkeRemove" => ToBeFinalized(key)
  /\ (pc = "release" /\ Accepts(key, toUpdate)) => Guarded(store[key])

(* A stored object with the resource version of a copy is no newer one.    *)
LEMMA AcceptedIsStored ==
  ASSUME TypeOK, NEW k \in Names, NEW c \in Cluster, TiedTo(store[k], Revision, c),
         ServerStep, Exists(k)', store'[k].rv = c.rv
  PROVE  store'[k] = store[k]
<1>1. Revision \in Nat /\ c.rv \in Nat
  BY LenProperties DEF Revision, TypeOK, StoreTypeOK, Cluster
<1>2. Moves(store[k], Revision, store'[k], Revision')
  BY DEF ServerStep
<1> QED BY <1>1, <1>2 DEF Moves, TiedTo, Exists

(* No cluster loses the finalizer. *)
GuardStays ==
  \A j \in Names : (Exists(j) /\ Guarded(store[j])) =>
    store'[j] # NoCluster /\ store'[j].uid = store[j].uid /\ Guarded(store'[j])

(* Nobody but the worker takes a cluster from finalize's hands.            *)
LEMMA LeavingKept ==
  ASSUME TypeOK, TiedInv, LeavingInv, ServerStep, UNCHANGED <<pc, key, toUpdate>>,
         pc = "rkeRemove" => UNCHANGED store \/ GuardStays
  PROVE  LeavingInv'
<1>1. Revision \in Nat
  BY LenProperties DEF Revision, TypeOK, StoreTypeOK
<1>2. ASSUME pc = "rkeRemove" PROVE ToBeFinalized(key)'
  <2>1. ToBeFinalized(key) /\ key \in Names
    BY <1>2 DEF LeavingInv, TypeOK, WorkerTypeOK
  <2>2. CASE UNCHANGED store
    BY <2>1, <2>2 DEF ToBeFinalized, Exists, Guarded
  <2>3. CASE GuardStays
    <3>1. store'[key] # NoCluster /\ store'[key].uid = store[key].uid /\ Guarded(store'[key])
      BY <2>1, <2>3 DEF GuardStays, ToBeFinalized
    <3>2. Moves(store[key], Revision, store'[key], Revision')
      BY <2>1 DEF ServerStep
    <3>3. store[key].uid \in Nat /\ store[key].uid <= Revision
      BY <2>1 DEF ToBeFinalized, Exists, TypeOK, StoreTypeOK, TiedInv, StoreTied, Cluster
    <3>4. store'[key].deleting
      BY <1>1, <2>1, <3>1, <3>2, <3>3 DEF Moves, ToBeFinalized
    <3> QED BY <3>1, <3>4 DEF ToBeFinalized, Exists, Guarded
  <2> QED BY <1>2, <2>2, <2>3
<1>3. ASSUME pc = "release", Exists(key)', store'[key].rv = toUpdate.rv
      PROVE  Guarded(store'[key])
  <2>1. key \in Names /\ toUpdate \in Cluster
    BY <1>3 DEF TypeOK, WorkerTypeOK
  <2>2. TiedTo(store[key], Revision, toUpdate)
    BY <2>1, ProvisionerAssumption DEF TiedInv, WorkerTied
  <2>3. store'[key] = store[key]
    BY <1>3, <2>1, <2>2, AcceptedIsStored
  <2> QED BY <1>3, <2>3 DEF LeavingInv, Accepts, Exists
<1> QED BY <1>2, <1>3 DEF LeavingInv, Accepts, ToBeFinalized, Exists, Guarded

(* Every step keeps it.                                                    *)
LEMMA LeavingStep ==
  ASSUME TypeOK, TiedInv, LeavingInv, [Next]_vars
  PROVE  LeavingInv'
<1>1. CASE FinalizeStart
  BY <1>1 DEF FinalizeStart, Goto, storeVars, LeavingInv, ToBeFinalized, Exists, Guarded
<1>2. CASE RemoveSucceeds
  <2>1. /\ pc = "rkeRemove" /\ pc' = "release" /\ UNCHANGED <<store, key>>
    BY <1>2 DEF RemoveSucceeds, Goto, storeVars
  <2> QED BY <2>1 DEF LeavingInv, ToBeFinalized, Guarded
<1>3. CASE UNCHANGED <<pc, key, toUpdate>>
  <2>1. pc = "rkeRemove" => UNCHANGED store \/ GuardStays
    BY StoreSteps DEF Untouched, FinalizerUntouched, GuardStays
  <2> QED BY <1>3, <2>1, StoreSteps, LeavingKept
<1>4. CASE pc' \notin {"rkeRemove", "release"}
  BY <1>4 DEF LeavingInv
<1>5. FinalizeStart \/ RemoveSucceeds \/ UNCHANGED <<pc, key, toUpdate>>
        \/ pc' \notin {"rkeRemove", "release"}
  <2>1. CASE Worker
    <3>1. CASE (\E k \in Names : TakeKey(k)) \/ SyncMissing \/ SyncFound \/ ConfigUnreadable
               \/ ConfigUnchanged \/ ConfigChanged \/ SyncReturns
      BY <3>1 DEF TakeKey, SyncMissing, SyncFound, ConfigUnreadable, ConfigUnchanged,
                  ConfigChanged, SyncReturns, Requeue, Return, Goto
    <3>2. CASE TryUpdate("initialize") \/ TryUpdate("applied") \/ TryRelease
      BY <3>2 DEF TryUpdate, TryRelease
    <3>3. CASE \/ Initialized \/ StartUp \/ UpSucceeds \/ UpFails \/ AppliedConfigUpdated
               \/ FinalizeGetFails \/ FinalizeNothing \/ RemoveFails
               \/ ReleaseSucceeds \/ ReleaseFails
      BY <3>3 DEF Initialized, StartUp, UpSucceeds, UpFails, AppliedConfigUpdated,
                  FinalizeGetFails, FinalizeNothing, RemoveFails, ReleaseSucceeds, ReleaseFails,
                  Requeue, Return, Goto
    <3> QED BY <2>1, <3>1, <3>2, <3>3 DEF Worker
  <2>2. CASE Informer \/ User \/ UNCHANGED vars
    BY <2>2 DEF Informer, List, Deliver, WatchBreaks, Resync, ResyncNotDue, Enqueue, User,
                StoreStep, UserStep, workerVars, localVars, vars
  <2>3. CASE Crash
    BY <2>3 DEF Crash
  <2> QED BY <2>1, <2>2, <2>3 DEF Next
<1> QED BY <1>1, <1>2, <1>3, <1>4, <1>5
-----------------------------------------------------------------------------
(* The inductive invariant of this module.                                 *)
HistoryInv == TiedInv /\ HandInv /\ Told /\ LeavingInv

(* A new process has no copies, and owes nothing.                          *)
LEMMA HistoryInit == Init => HistoryInv
<1> SUFFICES ASSUME Init PROVE HistoryInv
  OBVIOUS
<1>1. TiedInv
  BY EmptySeq DEF Init, StoreInit, TiedInv, StoreTied, EventsTied, CacheTied, WorkerTied, Exists,
                  Cached
<1>2. HandInv /\ Told /\ LeavingInv
  BY DEF Init, WQ!QueueInit, HandInv, Told, Owed, Cached, LeavingInv
<1> QED BY <1>1, <1>2 DEF HistoryInv

(* Every step keeps it.                                                    *)
LEMMA HistoryStep == TypeOK /\ HistoryInv /\ [Next]_vars => HistoryInv'
<1> SUFFICES ASSUME TypeOK, HistoryInv, [Next]_vars PROVE HistoryInv'
  OBVIOUS
<1>1. TiedInv' /\ HandInv' /\ LeavingInv'
  BY TiedStep, HandStep, LeavingStep DEF HistoryInv
<1>2. Told'
  <2>1. CASE Worker
    BY <2>1, WorkerTold DEF HistoryInv
  <2>2. CASE Informer
    BY <2>2, InformerTold DEF HistoryInv
  <2>3. CASE Crash
    BY <2>3 DEF Crash, Told, Owed, Cached
  <2>4. CASE User
    <3>1. UNCHANGED <<pc, key>> /\ UserStep
      BY <2>4 DEF User, StoreStep, UserStep, workerVars
    <3>2. (\E k \in Names : UserWrites(k)) \/ UNCHANGED store
      BY <2>4 DEF User, UserWrites, UserWritesFile, storeVars
    <3>3. UNCHANGED store \/ FinalizerUntouched
      BY <3>2, UserMoves DEF Untouched, HistoryInv, TiedInv, TypeOK
    <3> QED BY <2>4, <3>3, UserTold, StoreSteps DEF HistoryInv
  <2>5. CASE UNCHANGED vars
    BY <2>5 DEF HistoryInv, Told, Owed, InHand, ToBeFinalized, Exists, Guarded, Cached, vars,
                storeVars, queueVars, informerVars, workerVars
  <2> QED BY <2>1, <2>2, <2>3, <2>4, <2>5 DEF Next
<1> QED BY <1>1, <1>2 DEF HistoryInv

(* So it always holds.                                                     *)
LEMMA HistoryHolds == Spec => []HistoryInv
BY TypeCorrect, HistoryInit, HistoryStep, PTL DEF Spec

(* NoForgottenDeletion: a deletion the cache has shown is never forgotten, *)
(* whatever announcements are collapsed, caches replaced, answers lost and *)
(* PUTs refused on the way.                                                *)
THEOREM DeletionNeverForgotten == Spec => []NoForgottenDeletion
<1>1. HistoryInv => NoForgottenDeletion
  BY DEF HistoryInv, Told, Owed, InHand, NoForgottenDeletion
<1> QED BY <1>1, HistoryHolds, PTL

(* No step that is not a user's takes back what users and other clients    *)
(* have written: the provisioner PUTs a copy with the stored resource      *)
(* version, which differs only where the provisioner writes.               *)
LEMMA NothingTakenBack ==
  ASSUME TypeOK, HistoryInv, [Next]_vars,
         NEW k \in Names, userSteps' = userSteps, Exists(k), store'[k] # NoCluster
  PROVE  /\ store'[k].path = store[k].path
         /\ store'[k].deleting = store[k].deleting
         /\ store'[k].finalizers \ {ProvisionerFinalizer}
              = store[k].finalizers \ {ProvisionerFinalizer}
<1>1. ~UserStep
  BY DEF UserStep, TypeOK, WorldTypeOK
<1>2. UNCHANGED store \/ WorkerWrites(cur) \/ WorkerWrites(toUpdate)
  BY <1>1, StoreSteps DEF HistoryInv
<1> QED BY <1>2 DEF WorkerWrites, Written, SameOutside, Foreign

(* NoLostUpdate: what users and other clients have written since a cached  *)
(* object was read survives the PUT of the whole object.                   *)
THEOREM UpdatesNeverLost == Spec => NoLostUpdate
<1>1. TypeOK /\ HistoryInv /\ [Next]_vars
        => [\A k \in Names :
              (userSteps' = userSteps /\ Exists(k) /\ store'[k] # NoCluster)
                => /\ store'[k].path = store[k].path
                   /\ store'[k].deleting = store[k].deleting
                   /\ store'[k].finalizers \ {ProvisionerFinalizer}
                        = store[k].finalizers \ {ProvisionerFinalizer}]_vars
  BY NothingTakenBack
<1> QED BY <1>1, TypeCorrect, HistoryHolds, PTL DEF Spec, NoLostUpdate

(* Every step keeps GuardInv, and so it always holds. *)
LEMMA GuardHolds == Spec => []GuardInv
BY TypeCorrect, GuardInit, GuardStep, PTL DEF Spec

(* Only the worker's release takes the provisioner's finalizer off.        *)
LEMMA ReleaseStep ==
  ASSUME TypeOK, HistoryInv, GuardInv, [Next]_vars,
         NEW k \in Names, Exists(k), Guarded(store[k]),
         ~(store'[k] # NoCluster /\ store'[k].uid = store[k].uid /\ Guarded(store'[k]))
  PROVE  key = k /\ infra[cur.path] = NoInfra
<1>1. store'[k] # store[k]
  BY DEF Exists
<1>2. ~Untouched
  BY DEF Untouched, FinalizerUntouched
<1>3. CASE pc \in {"initialize", "applied"} /\ WorkerWrites(cur)
  <2>1. key = k
    BY <1>1, <1>3 DEF WorkerWrites, Written
  <2>2. Guarded(cur)
    BY <1>3 DEF GuardInv, WritesGuarded
  <2>3. store'[k] \in Cluster /\ store'[k].uid = store[k].uid /\ Guarded(store'[k])
    BY <1>3, <2>1, <2>2 DEF WorkerWrites, Written, SameOutside, Guarded
  <2> QED BY <2>3, ProvisionerAssumption
<1>4. CASE pc = "release" /\ WorkerWrites(toUpdate)
  <2>1. key = k
    BY <1>1, <1>4 DEF WorkerWrites, Written
  <2> QED BY <1>4, <2>1 DEF HistoryInv, HandInv
<1> QED BY <1>1, <1>2, <1>3, <1>4, StoreSteps DEF HistoryInv

(* ReleasedOnlyAfterCleanup: that release comes after a removal that has   *)
(* succeeded for the path in the worker's hands.                           *)
THEOREM ReleasedAfterCleanup == Spec => ReleasedOnlyAfterCleanup
<1>1. TypeOK /\ HistoryInv /\ GuardInv /\ [Next]_vars
        => [\A k \in Names :
              (Exists(k) /\ Guarded(store[k])
                 /\ ~(store'[k] # NoCluster /\ store'[k].uid = store[k].uid /\ Guarded(store'[k])))
                => key = k /\ infra[cur.path] = NoInfra]_vars
  BY ReleaseStep
<1> QED BY <1>1, TypeCorrect, HistoryHolds, GuardHolds, PTL DEF Spec, ReleasedOnlyAfterCleanup
-----------------------------------------------------------------------------
(* A copy with the stored resource version has the stored AppliedConfig,   *)
(* unless it carries the finalizer: then the provisioner may have written  *)
(* into it what the server has not accepted.  That never leaves initialize *)
(* (the object has the finalizer), only updateAppliedConfig.               *)
Recorded(s, c) == (s # NoCluster /\ s.rv = c.rv) => c.applied = s.applied

AppliedInv ==
  /\ \A i \in DOMAIN events : Recorded(store[events[i].key], events[i].obj)
  /\ \A k \in Names : (Cached(k) /\ ~Guarded(cache[k])) => Recorded(store[k], cache[k])
  /\ (cur # NoCluster /\ (~Guarded(cur) \/ pc = "initialize")) => Recorded(store[key], cur)
  /\ toUpdate # NoCluster => Recorded(store[key], toUpdate)
  /\ pc = "applied" => cur.provisioned = "True" /\ infra[cur.path] \notin {NoInfra, Partial}

(* The server gives what it changes a resource version no copy has.        *)
LEMMA ServerKeepsRecorded ==
  ASSUME StoreTypeOK, EventsTied, ServerStep,
         \A i \in DOMAIN events : Recorded(store[events[i].key], events[i].obj)
  PROVE  /\ \A i \in DOMAIN events' : Recorded(store'[events'[i].key], events'[i].obj)
         /\ \A k \in Names, c \in Cluster :
              TiedTo(store[k], Revision, c) /\ Recorded(store[k], c) => Recorded(store'[k], c)
<1>1. ASSUME NEW k \in Names, NEW c \in Cluster,
             TiedTo(store[k], Revision, c), Recorded(store[k], c)
      PROVE  Recorded(store'[k], c)
  <2>1. Revision \in Nat /\ c.rv \in Nat
    BY LenProperties DEF Revision, StoreTypeOK, Cluster
  <2>2. Moves(store[k], Revision, store'[k], Revision')
    BY DEF ServerStep
  <2> QED BY <1>1, <2>1, <2>2 DEF Moves, TiedTo, Recorded
<1>2. ASSUME NEW i \in DOMAIN events
      PROVE  Recorded(store'[events[i].key], events[i].obj)
  <2>1. events[i] \in Event
    BY ElementOfSeq, LenProperties DEF StoreTypeOK
  <2>2. events[i].key \in Names /\ events[i].obj \in Cluster
    BY <2>1 DEF Event
  <2> QED BY <1>1, <2>2 DEF EventsTied
<1>3. ASSUME NEW i \in DOMAIN events'
      PROVE  Recorded(store'[events'[i].key], events'[i].obj)
  <2>1. CASE UNCHANGED <<store, events>>
    BY <1>2, <2>1
  <2>2. ASSUME NEW e \in Event, events' = Append(events, e), store'[e.key] \in {e.obj, NoCluster}
        PROVE  Recorded(store'[events'[i].key], events'[i].obj)
    <3>1. /\ DOMAIN events = 1..Len(events) /\ DOMAIN events' = 1..(Len(events) + 1)
          /\ \A j \in DOMAIN events : events'[j] = events[j]
          /\ events'[Len(events) + 1] = e /\ Len(events) \in Nat
      BY <2>2, AppendProperties, LenProperties DEF StoreTypeOK
    <3>2. CASE i \in DOMAIN events
      BY <1>2, <3>1, <3>2
    <3>3. CASE i = Len(events) + 1
      BY <2>2, <3>1, <3>3 DEF Recorded
    <3> QED BY <3>1, <3>2, <3>3
  <2> QED BY <2>1, <2>2 DEF ServerStep
<1> QED BY <1>1, <1>3

(* The copies stay recorded while they are kept or dropped.                *)
LEMMA AppliedFrame ==
  ASSUME TypeOK, TiedInv, AppliedInv, ServerStep,
         UNCHANGED cache \/ cache' = [k \in Names |-> NoCluster],
         \/ UNCHANGED <<key, cur, toUpdate, infra>> /\ pc' \in {pc, "provision"}
         \/ cur' = NoCluster /\ toUpdate' = NoCluster /\ pc' # "applied"
  PROVE  AppliedInv'
<1>1. /\ \A i \in DOMAIN events' : Recorded(store'[events'[i].key], events'[i].obj)
      /\ \A k \in Names, c \in Cluster :
           TiedTo(store[k], Revision, c) /\ Recorded(store[k], c) => Recorded(store'[k], c)
  BY ServerKeepsRecorded DEF TypeOK, TiedInv, AppliedInv
<1>2. ASSUME NEW k \in Names, Cached(k)', ~Guarded(cache'[k])
      PROVE  Recorded(store'[k], cache'[k])
  <2>1. UNCHANGED cache
    BY <1>2 DEF Cached
  <2>2. cache[k] \in Cluster /\ Cached(k) /\ ~Guarded(cache[k])
    BY <1>2, <2>1 DEF Cached, Guarded, TypeOK, InformerTypeOK
  <2> QED BY <1>1, <2>1, <2>2 DEF TiedInv, CacheTied, AppliedInv
<1>3. ASSUME UNCHANGED <<key, cur, toUpdate, infra>>, pc' \in {pc, "provision"}
      PROVE  /\ (cur' # NoCluster /\ (~Guarded(cur') \/ pc' = "initialize"))
                  => Recorded(store'[key'], cur')
             /\ toUpdate' # NoCluster => Recorded(store'[key'], toUpdate')
             /\ pc' = "applied"
                  => cur'.provisioned = "True" /\ infra'[cur'.path] \notin {NoInfra, Partial}
  <2>1. (cur # NoCluster => key \in Names /\ cur \in Cluster)
        /\ (toUpdate # NoCluster => key \in Names /\ toUpdate \in Cluster)
    BY DEF TypeOK, WorkerTypeOK
  <2> QED BY <1>1, <1>3, <2>1 DEF TiedInv, WorkerTied, AppliedInv, Guarded
<1>4. CASE UNCHANGED <<key, cur, toUpdate, infra>> /\ pc' \in {pc, "provision"}
  BY <1>1, <1>2, <1>3, <1>4 DEF AppliedInv, Guarded
<1>5. CASE cur' = NoCluster /\ toUpdate' = NoCluster /\ pc' # "applied"
  BY <1>1, <1>2, <1>5 DEF AppliedInv, Guarded
<1> QED BY <1>4, <1>5

(* What the worker writes into its object has the finalizer.               *)
LEMMA AppliedThrough ==
  ASSUME TypeOK, AppliedInv, UNCHANGED <<store, events, key>>, NEW o \in Cluster, Guarded(o),
         key \in Names,
         cache' = IF shared THEN [cache EXCEPT ![key] = o] ELSE cache,
         cur' \in {o, NoCluster}, toUpdate' \in {toUpdate, NoCluster},
         pc' = "initialize" => Recorded(store[key], o),
         pc' = "applied" => cur'.provisioned = "True" /\ infra'[cur'.path] \notin {NoInfra, Partial}
  PROVE  AppliedInv'
<1>1. ASSUME NEW k \in Names, Cached(k)', ~Guarded(cache'[k])
      PROVE  Recorded(store'[k], cache'[k])
  <2>1. cache'[k] = cache[k]
    BY <1>1 DEF TypeOK, InformerTypeOK
  <2> QED BY <1>1, <2>1 DEF AppliedInv, Cached, Guarded
<1> QED BY <1>1 DEF AppliedInv, Guarded

(* Every step keeps AppliedInv.                                            *)
LEMMA AppliedStep ==
  ASSUME TypeOK, TiedInv, GuardInv, AppliedInv, [Next]_vars
  PROVE  AppliedInv'
<1>0. ServerStep /\ NoCluster \notin Cluster
  BY StoreSteps, ProvisionerAssumption
<1>1. CASE User \/ UNCHANGED vars
  <2>1. UNCHANGED <<cache, pc, key, cur, toUpdate>>
    BY <1>1 DEF User, StoreStep, UserStep, informerVars, workerVars, localVars, vars
  <2>2. UNCHANGED infra
    BY <1>1 DEF User, StoreStep, UserWritesFile, worldVars, vars
  <2> QED BY <1>0, <2>1, <2>2, AppliedFrame
<1>2. ASSUME NEW r \in Reflectors, List(r) PROVE AppliedInv'
  <2>1. UNCHANGED <<store, events, pc, key, cur, toUpdate, infra>> /\ cache' = store
    BY <1>2 DEF List, storeVars, localVars, worldVars
  <2> QED BY <2>1 DEF AppliedInv, Recorded, Guarded
<1>3. ASSUME NEW r \in Reflectors, Deliver(r) PROVE AppliedInv'
  <2> DEFINE e == events[pos[r] + 1]
  <2>1. UNCHANGED <<store, events, pc, key, cur, toUpdate, infra>>
        /\ cache' = [cache EXCEPT ![e.key] = IF e.type = "put" THEN e.obj ELSE NoCluster]
    BY <1>3 DEF Deliver, storeVars, localVars, worldVars
  <2>2. pos[r] + 1 \in DOMAIN events
    BY <1>3, LenProperties DEF Deliver, TypeOK, InformerTypeOK, StoreTypeOK, Revision
  <2>3. Recorded(store[e.key], e.obj)
    BY <2>2 DEF AppliedInv
  <2> HIDE DEF e
  <2>4. ASSUME NEW k \in Names, Cached(k)', ~Guarded(cache'[k])
        PROVE  Recorded(store[k], cache'[k])
    BY <2>1, <2>3, <2>4 DEF AppliedInv, Cached, Guarded, TypeOK, InformerTypeOK
  <2> QED BY <2>1, <2>4 DEF AppliedInv, Guarded
<1>4. CASE \/ \E r \in Reflectors : WatchBreaks(r)
           \/ Resync \/ ResyncNotDue \/ \E k \in Names : Enqueue(k)
  <2>1. UNCHANGED <<cache, pc, key, cur, toUpdate, infra>>
    BY <1>4 DEF WatchBreaks, Resync, ResyncNotDue, Enqueue, workerVars, localVars, worldVars
  <2> QED BY <1>0, <2>1, AppliedFrame
<1>5. CASE Crash
  BY <1>0, <1>5, AppliedFrame DEF Crash, Forget
<1>6. CASE \/ TryUpdate("initialize") \/ TryUpdate("applied") \/ Initialized
           \/ AppliedConfigUpdated \/ TryRelease \/ ReleaseSucceeds \/ ReleaseFails
  <2>1. UNCHANGED <<cache, infra>>
    BY <1>6 DEF TryUpdate, Initialized, AppliedConfigUpdated, TryRelease, ReleaseSucceeds,
                ReleaseFails, informerVars, worldVars
  <2>2. \/ UNCHANGED <<key, cur, toUpdate>> /\ pc' \in {pc, "provision"}
        \/ cur' = NoCluster /\ toUpdate' = NoCluster /\ pc' # "applied"
    BY <1>6 DEF TryUpdate, Initialized, AppliedConfigUpdated, TryRelease, ReleaseSucceeds,
                ReleaseFails, Requeue, Return, Forget, Goto
  <2> QED BY <1>0, <2>1, <2>2, AppliedFrame
<1>7. CASE \/ \E k \in Names : TakeKey(k)
           \/ SyncMissing \/ ConfigUnreadable \/ ConfigUnchanged \/ SyncReturns
           \/ FinalizeGetFails \/ FinalizeNothing \/ RemoveFails
  <2>1. UNCHANGED cache
    BY <1>7 DEF TakeKey, SyncMissing, ConfigUnreadable, ConfigUnchanged, SyncReturns,
                FinalizeGetFails, FinalizeNothing, RemoveFails, informerVars
  <2>2. cur' = NoCluster /\ toUpdate' = NoCluster /\ pc' # "applied"
    <3>1. CASE (\E k \in Names : TakeKey(k)) \/ SyncReturns
      BY <3>1 DEF TakeKey, SyncReturns, TypeOK, WorkerTypeOK, localVars
    <3> QED BY <1>7, <3>1 DEF SyncMissing, ConfigUnreadable, ConfigUnchanged, FinalizeGetFails,
                              FinalizeNothing, RemoveFails, Requeue, Return, Forget, Goto
  <2> QED BY <1>0, <2>1, <2>2, AppliedFrame
<1>8. CASE SyncFound
  <2>1. /\ UNCHANGED <<store, events, cache, key, toUpdate>> /\ cur' = cache[key]
        /\ key \in Names /\ Cached(key) /\ pc' \in {"finalize", "compare"}
    BY <1>8 DEF SyncFound, Goto, storeVars, informerVars, localVars, TypeOK, WorkerTypeOK
  <2> QED BY <2>1 DEF AppliedInv, Cached, Guarded
<1>9. CASE FinalizeStart
  <2>1. /\ UNCHANGED <<store, events, cache, key, cur>> /\ toUpdate' = store[key]
        /\ pc' = "rkeRemove"
    BY <1>9 DEF FinalizeStart, Goto, storeVars, informerVars
  <2>2. Recorded(store[key], store[key])
    BY DEF Recorded
  <2>3. \A i \in DOMAIN events' : Recorded(store'[events'[i].key], events'[i].obj)
    BY <2>1 DEF AppliedInv
  <2>4. \A k \in Names : (Cached(k)' /\ ~Guarded(cache'[k])) => Recorded(store'[k], cache'[k])
    BY <2>1 DEF AppliedInv, Cached, Guarded
  <2>5. (cur' # NoCluster /\ ~Guarded(cur')) => Recorded(store'[key'], cur')
    BY <2>1 DEF AppliedInv, Guarded
  <2> QED BY <2>1, <2>2, <2>3, <2>4, <2>5 DEF AppliedInv
<1>10. CASE RemoveSucceeds
  <2> DEFINE o == [toUpdate EXCEPT !.finalizers = @ \ {ProvisionerFinalizer}]
  <2>1. /\ UNCHANGED <<store, events, cache, key, cur>> /\ toUpdate' = o
        /\ toUpdate \in Cluster /\ pc' = "release"
    BY <1>10 DEF RemoveSucceeds, Goto, storeVars, informerVars, TypeOK, WorkerTypeOK
  <2>2. toUpdate.applied = o.applied /\ toUpdate.rv = o.rv
    BY <2>1 DEF Cluster
  <2> HIDE DEF o
  <2>3. Recorded(store[key], o)
    BY <1>0, <2>1, <2>2 DEF AppliedInv, Recorded
  <2>4. \A i \in DOMAIN events' : Recorded(store'[events'[i].key], events'[i].obj)
    BY <2>1 DEF AppliedInv
  <2>5. \A k \in Names : (Cached(k)' /\ ~Guarded(cache'[k])) => Recorded(store'[k], cache'[k])
    BY <2>1 DEF AppliedInv, Cached, Guarded
  <2>6. (cur' # NoCluster /\ ~Guarded(cur')) => Recorded(store'[key'], cur')
    BY <2>1 DEF AppliedInv, Guarded
  <2> QED BY <2>1, <2>3, <2>4, <2>5, <2>6 DEF AppliedInv
<1>11. CASE ConfigChanged
  <2> DEFINE o == [cur EXCEPT !.finalizers = @ \cup {ProvisionerFinalizer}]
  <2>1. /\ UNCHANGED <<store, events, key, toUpdate>> /\ key \in Names /\ cur \in Cluster
        /\ cur' = o /\ cache' = IF shared THEN [cache EXCEPT ![key] = o] ELSE cache
        /\ pc' = IF Guarded(cur) THEN "provision" ELSE "initialize"
    BY <1>11 DEF ConfigChanged, WriteThrough, Goto, storeVars, TypeOK, WorkerTypeOK
  <2>2. o \in Cluster /\ Guarded(o) /\ cur.rv = o.rv /\ cur.applied = o.applied
    BY <2>1 DEF Cluster, Guarded
  <2>3. pc' = "initialize" => Recorded(store[key], o)
    BY <1>0, <2>1, <2>2 DEF AppliedInv, Recorded
  <2> HIDE DEF o
  <2> QED BY <2>1, <2>2, <2>3, AppliedThrough
<1>12. CASE StartUp
  <2> DEFINE o == [cur EXCEPT !.provisioned = IF @ = "False" THEN "False" ELSE "Unknown"]
  <2>1. /\ UNCHANGED <<store, events, key, toUpdate>> /\ key \in Names /\ cur \in Cluster
        /\ cur' = o /\ cache' = IF shared THEN [cache EXCEPT ![key] = o] ELSE cache
        /\ Guarded(cur) /\ pc' = "rkeUp"
    BY <1>12 DEF StartUp, WriteThrough, Goto, storeVars, TypeOK, WorkerTypeOK, GuardInv,
                 WritesGuarded
  <2>2. o \in Cluster /\ Guarded(o)
    BY <2>1 DEF Cluster, Guarded, ConditionStatus
  <2> HIDE DEF o
  <2> QED BY <2>1, <2>2, AppliedThrough
<1>13. CASE UpSucceeds
  <2> DEFINE o == [cur EXCEPT !.provisioned = "True", !.applied = config]
  <2>1. /\ UNCHANGED <<store, events, key, toUpdate>> /\ key \in Names /\ cur \in Cluster
        /\ config \in Contents \cup {NoConfig} /\ applying \in Contents \cup {NoConfig}
        /\ cur' = o /\ cache' = IF shared THEN [cache EXCEPT ![key] = o] ELSE cache
        /\ infra' = [infra EXCEPT ![cur.path] = applying]
        /\ Guarded(cur) /\ pc' = "applied"
    BY <1>13 DEF UpSucceeds, WriteThrough, Goto, storeVars, localVars, TypeOK, WorkerTypeOK,
                 GuardInv, WritesGuarded
  <2>2. o \in Cluster /\ Guarded(o) /\ o.provisioned = "True" /\ o.path = cur.path
    BY <2>1 DEF Cluster, Guarded, ConditionStatus
  <2>3. infra'[cur.path] = applying /\ applying \notin {NoInfra, Partial}
    BY <2>1, ProvisionerAssumption DEF Cluster, TypeOK, WorldTypeOK
  <2> HIDE DEF o
  <2> QED BY <2>1, <2>2, <2>3, AppliedThrough
<1>14. CASE UpFails
  <2> DEFINE o == [cur EXCEPT !.provisioned = "False"]
  <2>1. /\ UNCHANGED <<store, events, key>> /\ key \in Names /\ cur \in Cluster
        /\ cur' = NoCluster /\ toUpdate' = NoCluster
        /\ cache' = IF shared THEN [cache EXCEPT ![key] = o] ELSE cache
        /\ Guarded(cur) /\ pc' = "done"
    BY <1>14 DEF UpFails, Requeue, Return, Forget, Goto, TypeOK, WorkerTypeOK, GuardInv,
                 WritesGuarded
  <2>2. o \in Cluster /\ Guarded(o)
    BY <2>1 DEF Cluster, Guarded, ConditionStatus
  <2> HIDE DEF o
  <2> QED BY <2>1, <2>2, AppliedThrough
<1> QED BY <1>1, <1>2, <1>3, <1>4, <1>5, <1>6, <1>7, <1>8, <1>9, <1>10, <1>11, <1>12, <1>13, <1>14
        DEF Next, Worker, Informer

(* A new process has no copies.                                            *)
LEMMA AppliedInit == Init => AppliedInv
BY EmptySeq DEF Init, StoreInit, AppliedInv, Cached

(* So it always holds.                                                     *)
LEMMA AppliedHolds == Spec => []AppliedInv
<1>1. TypeOK /\ HistoryInv /\ GuardInv /\ AppliedInv /\ [Next]_vars => AppliedInv'
  BY AppliedStep DEF HistoryInv
<1> QED BY <1>1, AppliedInit, TypeCorrect, HistoryHolds, GuardHolds, PTL DEF Spec

(* AppliedOnlyAfterUp: whatever stale objects are written back and answers *)
(* lost, the stored AppliedConfig changes only together with the condition *)
(* True, and when rke up has completed for the path.                       *)
THEOREM AppliedAfterUp == Spec => AppliedOnlyAfterUp
<1>1. ASSUME TypeOK, HistoryInv, AppliedInv, [Next]_vars,
             NEW k \in Names, Exists(k), store'[k] # NoCluster,
             store'[k].applied # store[k].applied
      PROVE  store'[k].provisioned = "True" /\ infra[store'[k].path] \notin {NoInfra, Partial}
  <2>1. ~UNCHANGED store /\ ~Untouched
    BY <1>1 DEF Untouched, AppliedUntouched
  <2>2. CASE pc = "applied" /\ WorkerWrites(cur)
    <3>1. key = k
      BY <1>1, <2>2 DEF WorkerWrites, Written
    <3> QED BY <1>1, <2>2, <3>1 DEF AppliedInv, WorkerWrites, Written, SameOutside
  <2>3. ASSUME NEW c, WorkerWrites(c), Recorded(store[key], c) PROVE FALSE
    <3>1. key = k
      BY <1>1, <2>3 DEF WorkerWrites, Written
    <3> QED BY <1>1, <2>3, <3>1 DEF WorkerWrites, Accepts, Written, Recorded, Exists
  <2>4. CASE pc = "initialize" /\ WorkerWrites(cur)
    <3>1. cur # NoCluster
      BY <1>1, <2>4, ProvisionerAssumption DEF TypeOK, WorkerTypeOK
    <3> QED BY <1>1, <2>3, <2>4, <3>1 DEF AppliedInv
  <2>5. CASE pc = "release" /\ WorkerWrites(toUpdate)
    <3>1. toUpdate # NoCluster
      BY <1>1, <2>5, ProvisionerAssumption DEF TypeOK, WorkerTypeOK
    <3> QED BY <1>1, <2>3, <2>5, <3>1 DEF AppliedInv
  <2> QED BY <1>1, <2>1, <2>2, <2>4, <2>5, StoreSteps DEF HistoryInv
<1>2. TypeOK /\ HistoryInv /\ AppliedInv /\ [Next]_vars
        => [\A k \in Names :
              (Exists(k) /\ store'[k] # NoCluster /\ store'[k].applied # store[k].applied)
                => /\ store'[k].provisioned = "True"
                   /\ infra[store'[k].path] \notin {NoInfra, Partial}]_vars
  BY <1>1
<1> QED BY <1>2, TypeCorrect, HistoryHolds, AppliedHolds, PTL DEF Spec, AppliedOnlyAfterUp
-----------------------------------------------------------------------------
(* The refinement of ClusterLife: what a write makes of a cluster's life.  *)
LEMMA WrittenLife ==
  ASSUME TypeOK, NEW k \in Names, NEW c \in Cluster, Written(k, c)
  PROVE  \/ LifeOfAll' = [LifeOfAll EXCEPT ![k] = LifeOf(c)]
         \/ c.deleting /\ c.finalizers = {} /\ LifeOfAll' = [LifeOfAll EXCEPT ![k] = "absent"]
<1>1. NoCluster \notin Cluster /\ \A j \in Names \ {k} : store'[j] = store[j]
  BY ProvisionerAssumption DEF Written
<1>2. CASE store'[k] = NoCluster /\ c.deleting /\ c.finalizers = {}
  BY <1>1, <1>2 DEF LifeOfAll, LifeOf
<1>3. CASE store'[k] \in Cluster /\ SameOutside(c, store'[k]) /\ store'[k].finalizers = c.finalizers
  <2>1. LifeOf(store'[k]) = LifeOf(c)
    BY <1>1, <1>3 DEF LifeOf, SameOutside, Guarded
  <2> QED BY <1>1, <2>1 DEF LifeOfAll
<1> QED BY <1>2, <1>3 DEF Written

(* Users and other clients create, delete and take their finalizers off.   *)
LEMMA UserLife ==
  ASSUME TypeOK, StoreTied, NEW k \in Names, UserWrites(k), UNCHANGED <<Built, Removed>>
  PROVE  [Life!LifeNext]_(Life!lifeVars)
<1>0. /\ StoreTypeOK /\ NoCluster \notin Cluster /\ LifeOfAll \in [Names -> Life!Stages]
      /\ LifeOfAll[k] = LifeOf(store[k])
  BY ProvisionerAssumption DEF TypeOK, LifeOfAll, LifeOf, Life!Stages
<1>1. ASSUME Exists(k) PROVE store[k] \in Cluster
  BY <1>0, <1>1 DEF Exists, StoreTypeOK
<1>2. ASSUME NEW p \in Paths, NEW fs \in SUBSET ForeignFinalizers, UserCreates(k, p, fs)
      PROVE  Life!Create(k)
  <2> DEFINE c == [uid |-> Revision + 1, rv |-> 0, deleting |-> FALSE,
                   finalizers |-> fs, path |-> p,
                   applied |-> NoConfig, provisioned |-> "",
                   ready |-> "", version |-> NoConfig]
  <2>1. c \in Cluster
    <3>1. Revision + 1 \in Nat
      BY <1>0, LenProperties DEF Revision, StoreTypeOK
    <3> QED BY <3>1 DEF Cluster, ConditionStatus
  <2>2. c.uid = Revision + 1 /\ ~c.deleting /\ c.finalizers = fs
    OBVIOUS
  <2>3. Commit(k, c) /\ ~Exists(k)
    BY <1>2 DEF UserCreates
  <2> HIDE DEF c
  <2>4. Written(k, c)
    BY <1>0, <2>1, <2>2, <2>3, CommitMoves
  <2>5. LifeOf(c) = "free" /\ LifeOfAll[k] = "absent"
    BY <1>0, <2>1, <2>2, <2>3, StoreAssumption DEF LifeOf, Guarded, Exists
  <2> QED BY <2>1, <2>2, <2>4, <2>5, WrittenLife DEF Life!Create, Life!Becomes
<1>3. ASSUME UserDeletes(k) PROVE Life!Delete(k)
  <2> DEFINE c == [store[k] EXCEPT !.deleting = TRUE]
  <2>1. Exists(k) /\ store[k] \in Cluster /\ ~store[k].deleting
    BY <1>1, <1>3 DEF UserDeletes
  <2>2. CASE store[k].finalizers = {} /\ Erase(k)
    <3>1. LifeOfAll[k] = "free"
      BY <1>0, <2>1, <2>2 DEF LifeOf, Guarded
    <3>2. store'[k] = NoCluster /\ \A j \in Names \ {k} : store'[j] = store[j]
      BY <1>0, <2>1, <2>2, EraseMoves
    <3>3. LifeOfAll' = [LifeOfAll EXCEPT ![k] = "absent"]
      BY <3>2 DEF LifeOfAll, LifeOf
    <3> QED BY <3>1, <3>3 DEF Life!Delete, Life!Becomes
  <2>3. CASE Commit(k, c) /\ store[k].finalizers # {}
    <3>1. /\ c \in Cluster /\ c.uid = store[k].uid /\ c.deleting
          /\ c.finalizers = store[k].finalizers
      BY <2>1 DEF Cluster
    <3> HIDE DEF c
    <3>2. Written(k, c)
      BY <1>0, <2>1, <2>3, <3>1, CommitMoves DEF Succeeds
    <3>3. LifeOfAll' = [LifeOfAll EXCEPT ![k] = LifeOf(c)]
      BY <2>3, <3>1, <3>2, WrittenLife
    <3>4. IF Guarded(store[k]) THEN LifeOfAll[k] = "guarded" /\ LifeOf(c) = "leaving"
          ELSE LifeOfAll[k] = "free" /\ LifeOf(c) = "released"
      BY <1>0, <2>1, <3>1 DEF LifeOf, Guarded
    <3> QED BY <3>3, <3>4 DEF Life!Delete, Life!Becomes
  <2> QED BY <1>3, <2>2, <2>3 DEF UserDeletes
<1>4. ASSUME NEW c \in Cluster, Exists(k), Commit(k, c), c.uid = store[k].uid,
             c.deleting = store[k].deleting, c.finalizers = store[k].finalizers
      PROVE  UNCHANGED Life!lifeVars
  <2>1. store[k] \in Cluster
    BY <1>1, <1>4
  <2>2. LifeOf(c) = LifeOfAll[k]
    BY <1>0, <1>4, <2>1 DEF LifeOf, Guarded
  <2>3. LifeOfAll' = [LifeOfAll EXCEPT ![k] = LifeOf(c)]
    <3> DEFINE n == [c EXCEPT !.rv = Revision + 1]
    <3>1. n.deleting = c.deleting /\ n.finalizers = c.finalizers /\ n # NoCluster
      <4>1. Revision + 1 \in Nat
        BY <1>0, LenProperties DEF Revision, StoreTypeOK
      <4>2. n \in Cluster
        BY <4>1 DEF Cluster
      <4> QED BY <1>0, <4>2 DEF Cluster
    <3>2. store' = [store EXCEPT ![k] = n]
      BY <1>4 DEF Commit
    <3> HIDE DEF n
    <3>3. LifeOf(n) = LifeOf(c)
      BY <1>0, <3>1 DEF LifeOf, Guarded
    <3> QED BY <1>0, <3>2, <3>3 DEF LifeOfAll, StoreTypeOK
  <2> QED BY <1>0, <2>2, <2>3 DEF Life!lifeVars
<1>5. ASSUME NEW p \in Paths, UserMovesConfig(k, p) PROVE UNCHANGED Life!lifeVars
  <2> DEFINE c == [store[k] EXCEPT !.path = p]
  <2>1. Exists(k) /\ store[k] \in Cluster /\ Commit(k, c)
    BY <1>1, <1>5 DEF UserMovesConfig
  <2>2. /\ c \in Cluster /\ c.uid = store[k].uid /\ c.deleting = store[k].deleting
        /\ c.finalizers = store[k].finalizers
    BY <2>1 DEF Cluster
  <2> HIDE DEF c
  <2> QED BY <1>4, <2>1, <2>2
<1>6. ASSUME OtherFieldWritten(k) PROVE UNCHANGED Life!lifeVars
  <2> DEFINE c == [store[k] EXCEPT !.ready = "True"]
  <2>1. Exists(k) /\ store[k] \in Cluster /\ Commit(k, c)
    BY <1>1, <1>6 DEF OtherFieldWritten
  <2>2. /\ c \in Cluster /\ c.uid = store[k].uid /\ c.deleting = store[k].deleting
        /\ c.finalizers = store[k].finalizers
    BY <2>1 DEF Cluster, ConditionStatus
  <2> HIDE DEF c
  <2> QED BY <1>4, <2>1, <2>2
<1>7. ASSUME NEW f \in ForeignFinalizers, ForeignFinalizerDone(k, f)
      PROVE  [Life!LifeNext]_(Life!lifeVars)
  <2> DEFINE c == [store[k] EXCEPT !.finalizers = @ \ {f}]
  <2>1. Exists(k) /\ store[k] \in Cluster /\ Put(k, c)
    BY <1>1, <1>7 DEF ForeignFinalizerDone
  <2>2. /\ c \in Cluster /\ c.uid = store[k].uid /\ c.deleting = store[k].deleting
        /\ c.finalizers = store[k].finalizers \ {f}
    BY <2>1 DEF Cluster
  <2> HIDE DEF c
  <2>3. Written(k, c)
    BY <1>0, <2>1, <2>2, PutMoves DEF Succeeds
  <2>4. Guarded(c) <=> Guarded(store[k])
    BY <2>2, StoreAssumption DEF Guarded
  <2>5. LifeOf(c) = LifeOfAll[k]
    BY <1>0, <2>1, <2>2, <2>4 DEF LifeOf
  <2>6. CASE LifeOfAll' = [LifeOfAll EXCEPT ![k] = LifeOf(c)]
    BY <1>0, <2>5, <2>6 DEF Life!lifeVars
  <2>7. CASE c.deleting /\ c.finalizers = {} /\ LifeOfAll' = [LifeOfAll EXCEPT ![k] = "absent"]
    <3>1. LifeOfAll[k] = "released"
      BY <1>0, <2>1, <2>2, <2>4, <2>7 DEF LifeOf, Guarded
    <3>2. Life!Vanish(k)
      BY <2>7, <3>1 DEF Life!Vanish, Life!Becomes
    <3> QED BY <3>2 DEF Life!LifeNext
  <2> QED BY <2>2, <2>3, <2>6, <2>7, WrittenLife
<1> QED BY <1>2, <1>3, <1>5, <1>6, <1>7 DEF UserWrites, Life!LifeNext

(* The worker's steps.                                                     *)
LEMMA WorkerLife ==
  ASSUME TypeOK, HistoryInv, GuardInv, Worker
  PROVE  [Life!LifeNext]_(Life!lifeVars)
<1>0. /\ NoCluster \notin Cluster /\ LifeOfAll \in [Names -> Life!Stages]
      /\ \A k \in Names : LifeOfAll[k] = LifeOf(store[k])
      /\ store \in [Names -> Cluster \cup {NoCluster}]
  BY ProvisionerAssumption DEF TypeOK, StoreTypeOK, LifeOfAll, LifeOf, Life!Stages
<1>1. \/ UNCHANGED store
      \/ pc \in {"initialize", "applied"} /\ WorkerWrites(cur)
      \/ pc = "release" /\ WorkerWrites(toUpdate)
  <2>1. UNCHANGED userSteps
    BY DEF Worker, TakeKey, SyncMissing, SyncFound, ConfigUnreadable, ConfigUnchanged,
           ConfigChanged, TryUpdate, Initialized, StartUp, UpSucceeds, UpFails,
           AppliedConfigUpdated, FinalizeGetFails, FinalizeNothing, FinalizeStart,
           RemoveSucceeds, RemoveFails, TryRelease, ReleaseSucceeds, ReleaseFails,
           SyncReturns, worldVars
  <2>2. ~UserStep
    BY <2>1 DEF UserStep, TypeOK, WorldTypeOK
  <2> QED BY <2>2, StoreSteps DEF Next, HistoryInv
<1>2. ASSUME UNCHANGED <<store, infra>>, pc # "release", pc' # "release"
      PROVE  UNCHANGED Life!lifeVars
  BY <1>2 DEF Life!lifeVars, LifeOfAll, Built, Removed
<1>3. CASE \/ \E k \in Names : TakeKey(k)
           \/ SyncMissing \/ SyncFound \/ ConfigUnreadable \/ ConfigUnchanged \/ ConfigChanged
           \/ UpFails \/ FinalizeGetFails \/ FinalizeNothing \/ RemoveFails \/ SyncReturns
  <2>1. UNCHANGED <<store, infra>> /\ pc # "release" /\ pc' # "release"
    BY <1>3 DEF TakeKey, SyncMissing, SyncFound, ConfigUnreadable, ConfigUnchanged, ConfigChanged,
                UpFails, FinalizeGetFails, FinalizeNothing, RemoveFails, SyncReturns, Requeue,
                Return, Goto, storeVars, worldVars
  <2> QED BY <1>2, <2>1
<1>4. CASE TryUpdate("initialize") \/ TryUpdate("applied") \/ Initialized \/ AppliedConfigUpdated
  <2>1. UNCHANGED infra /\ pc \in {"initialize", "applied"} /\ pc' # "release"
    BY <1>4 DEF TryUpdate, Initialized, AppliedConfigUpdated, LeaveUpdate, Return, Goto, worldVars
  <2>2. CASE UNCHANGED store
    BY <1>2, <2>1, <2>2
  <2>3. CASE WorkerWrites(cur)
    <3>1. key \in Names /\ cur \in Cluster /\ ~cur.deleting /\ Guarded(cur)
      BY <2>1 DEF TypeOK, WorkerTypeOK, HistoryInv, HandInv, GuardInv, WritesGuarded
    <3>2. LifeOf(cur) = "guarded" /\ LifeOfAll[key] \in {"free", "guarded"}
      BY <1>0, <2>3, <3>1 DEF WorkerWrites, Accepts, Exists, SameOutside, LifeOf
    <3>3. LifeOfAll' = [LifeOfAll EXCEPT ![key] = "guarded"]
      BY <2>3, <3>1, <3>2, WrittenLife DEF WorkerWrites
    <3>4. UNCHANGED <<Built, Removed>>
      BY <2>1 DEF Built, Removed
    <3>5. Life!Guard(key) \/ UNCHANGED Life!lifeVars
      BY <1>0, <3>1, <3>2, <3>3, <3>4 DEF Life!Guard, Life!Becomes, Life!lifeVars
    <3> QED BY <3>1, <3>5 DEF Life!LifeNext
  <2> QED BY <1>1, <2>1, <2>2, <2>3
<1>5. ASSUME cur \in Cluster, NEW left, left # NoInfra, infra' = [infra EXCEPT ![cur.path] = left],
             UNCHANGED store, pc # "release", pc' # "release"
      PROVE  Life!LifeNext
  <2>1. cur.path \in Paths /\ Built' = Built \cup {cur.path}
    BY <1>5 DEF Built, Cluster, TypeOK, WorldTypeOK
  <2>2. Removed = {} /\ Removed' = {} /\ UNCHANGED LifeOfAll
    BY <1>5 DEF Removed, LifeOfAll
  <2> QED BY <2>1, <2>2 DEF Life!LifeNext, Life!Build
<1>6. CASE StartUp \/ FinalizeStart
  <2>1. UNCHANGED store /\ pc # "release" /\ pc' # "release" /\ RkeStarts /\ cur \in Cluster
    BY <1>6 DEF StartUp, FinalizeStart, Goto, storeVars, TypeOK, WorkerTypeOK
  <2> QED BY <1>2, <1>5, <2>1, ProvisionerAssumption DEF RkeStarts
<1>7. CASE UpSucceeds
  <2>1. /\ UNCHANGED store /\ pc # "release" /\ pc' # "release" /\ cur \in Cluster
        /\ infra' = [infra EXCEPT ![cur.path] = applying]
        /\ applying \in Contents \cup {NoConfig}
    BY <1>7 DEF UpSucceeds, Goto, storeVars, TypeOK, WorkerTypeOK
  <2>2. applying # NoInfra
    BY <2>1, ProvisionerAssumption
  <2> QED BY <1>5, <2>1, <2>2
<1>8. CASE RemoveSucceeds
  <2>1. /\ UNCHANGED <<store, key, cur>> /\ pc = "rkeRemove" /\ pc' = "release"
        /\ key \in Names /\ cur \in Cluster
        /\ infra' = [infra EXCEPT ![cur.path] = NoInfra]
    BY <1>8 DEF RemoveSucceeds, Goto, storeVars, TypeOK, WorkerTypeOK
  <2>2. cur.path \in Paths /\ Built' = Built \ {cur.path}
    BY <2>1 DEF Built, Cluster, TypeOK, WorldTypeOK
  <2>3. Removed = {} /\ Removed' = {[key |-> key, path |-> cur.path]} /\ UNCHANGED LifeOfAll
    BY <2>1 DEF Removed, LifeOfAll
  <2>4. LifeOfAll[key] = "leaving"
    BY <1>0, <2>1 DEF HistoryInv, LeavingInv, ToBeFinalized, Exists, LifeOf
  <2> QED BY <2>1, <2>2, <2>3, <2>4 DEF Life!LifeNext, Life!Remove
<1>9. CASE TryRelease \/ ReleaseSucceeds \/ ReleaseFails
  <2>1. /\ UNCHANGED infra /\ pc = "release" /\ key \in Names /\ cur \in Cluster
        /\ toUpdate \in Cluster /\ toUpdate.deleting /\ ~Guarded(toUpdate)
        /\ infra[cur.path] = NoInfra
    BY <1>9 DEF TryRelease, ReleaseSucceeds, ReleaseFails, worldVars, TypeOK, WorkerTypeOK,
                HistoryInv, HandInv, GuardInv, WritesGuarded
  <2>2. (pc' = "release" /\ UNCHANGED <<key, cur>>) \/ pc' = "done"
    BY <1>9 DEF TryRelease, ReleaseSucceeds, ReleaseFails, Requeue, Return, Goto
  <2>3. /\ Removed = {[key |-> key, path |-> cur.path]} /\ Removed' \in {{}, Removed}
        /\ UNCHANGED Built /\ cur.path \in Paths \ Built
    BY <2>1, <2>2 DEF Removed, Built, Cluster
  <2>4. CASE UNCHANGED store
    <3>1. UNCHANGED LifeOfAll
      BY <2>4 DEF LifeOfAll
    <3> QED BY <2>3, <3>1 DEF Life!LifeNext, Life!Forget, Life!lifeVars
  <2>5. CASE WorkerWrites(toUpdate)
    <3>1. LifeOfAll[key] = "leaving" /\ LifeOf(toUpdate) = "released"
      BY <1>0, <2>1, <2>5
         DEF WorkerWrites, Accepts, Exists, SameOutside, LifeOf, HistoryInv, LeavingInv
    <3>2. Life!Becomes(key, {"absent", "released"})
      BY <2>1, <2>5, <3>1, WrittenLife DEF WorkerWrites, Life!Becomes
    <3> QED BY <2>1, <2>3, <3>1, <3>2 DEF Life!LifeNext, Life!Release
  <2> QED BY <1>1, <2>1, <2>4, <2>5
<1> QED BY <1>3, <1>4, <1>6, <1>7, <1>8, <1>9 DEF Worker

(* A crash drops what was removed, and leaves of a running rke what there  *)
(* is.                                                                     *)
LEMMA CrashLife ==
  ASSUME TypeOK, HistoryInv, Crash
  PROVE  [Life!LifeNext]_(Life!lifeVars)
<1>1. UNCHANGED LifeOfAll /\ Removed' = {}
  BY DEF Crash, LifeOfAll, Removed
<1>2. CASE InterruptedRke = {}
  <2>1. UNCHANGED Built
    BY <1>2 DEF Crash, Built
  <2> QED BY <1>1, <2>1 DEF Life!LifeNext, Life!Forget
<1>3. ASSUME NEW left \in InterruptedRke, infra' = [infra EXCEPT ![cur.path] = left]
      PROVE  Life!LifeNext
  <2>1. pc \in {"rkeUp", "rkeRemove"} /\ Removed = {} /\ key \in Names /\ cur.path \in Paths
    BY <1>3 DEF InterruptedRke, Removed, TypeOK, WorkerTypeOK, Cluster
  <2>2. CASE left # NoInfra
    <3>1. Built' = Built \cup {cur.path}
      BY <1>3, <2>1, <2>2 DEF Built, TypeOK, WorldTypeOK
    <3> QED BY <1>1, <2>1, <3>1 DEF Life!LifeNext, Life!Build
  <2>3. CASE left = NoInfra
    <3>1. Built' = Built \ {cur.path}
      BY <1>3, <2>1, <2>3 DEF Built, TypeOK, WorldTypeOK
    <3>2. pc = "rkeRemove"
      BY <1>3, <2>3, ProvisionerAssumption DEF InterruptedRke, TypeOK, WorkerTypeOK
    <3>3. LifeOfAll[key] = "leaving"
      BY <2>1, <3>2, ProvisionerAssumption
         DEF LifeOfAll, LifeOf, HistoryInv, LeavingInv, ToBeFinalized, Exists
    <3> QED BY <1>1, <2>1, <3>1, <3>3 DEF Life!LifeNext, Life!Remove
  <2> QED BY <2>2, <2>3
<1> QED BY <1>2, <1>3 DEF Crash

(* Every step of the provisioner's side is one of ClusterLife or a stutter.*)
LEMMA LifeStep ==
  TypeOK /\ HistoryInv /\ GuardInv /\ [Next]_vars => [Life!LifeNext]_(Life!lifeVars)
<1> SUFFICES ASSUME TypeOK, HistoryInv, GuardInv, [Next]_vars
             PROVE  [Life!LifeNext]_(Life!lifeVars)
  OBVIOUS
<1>1. ASSUME UNCHANGED <<store, infra, pc, key, cur>> PROVE UNCHANGED Life!lifeVars
  BY <1>1 DEF Life!lifeVars, LifeOfAll, Built, Removed
<1>2. CASE Informer \/ UNCHANGED vars
  <2>1. UNCHANGED <<store, infra, pc, key, cur>>
    BY <1>2 DEF Informer, List, Deliver, WatchBreaks, Resync, ResyncNotDue, Enqueue, storeVars,
                workerVars, worldVars, vars
  <2> QED BY <1>1, <2>1
<1>3. CASE User
  <2>1. UNCHANGED <<pc, key, cur, infra>>
    BY <1>3 DEF User, StoreStep, UserStep, UserWritesFile, workerVars
  <2>2. UNCHANGED <<Built, Removed>>
    BY <2>1 DEF Built, Removed
  <2>3. (\E k \in Names : UserWrites(k)) \/ UNCHANGED store
    BY <1>3 DEF User, UserWrites, UserWritesFile, storeVars
  <2> QED BY <1>1, <2>1, <2>2, <2>3, UserLife DEF HistoryInv, TiedInv
<1> QED BY <1>2, <1>3, WorkerLife, CrashLife DEF Next

(* ImplementsClusterLife: whatever conflicts, stale copies, lost answers   *)
(* and crashes come between, the stored clusters and what rke has built go *)
(* through the steps of ClusterLife and no others.                         *)
THEOREM ProvisionerImplementsClusterLife == Spec => ImplementsClusterLife
<1>1. Init => Life!LifeInit
  BY DEF Init, StoreInit, Life!LifeInit, LifeOfAll, LifeOf, Built, Removed
<1> QED BY <1>1, LifeStep, TypeCorrect, HistoryHolds, GuardHolds, PTL
        DEF Spec, ImplementsClusterLife, Life!LifeSpec
=============================================================================
