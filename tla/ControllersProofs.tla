-------------------------- MODULE ControllersProofs --------------------------
(***************************************************************************)
(* What the provisioner promises when the other controllers work on the    *)
(* very objects of its cache.  The other proofs follow objects as values;  *)
(* here they are followed as addresses.  Every pointer in the program - in *)
(* the indexer, in the worker's hands, in a notification, in a handler -   *)
(* leads to a copy of what the API server once stored under the name the   *)
(* holder of the pointer believes in, and no two names share an address.   *)
(***************************************************************************)
EXTENDS Controllers, HistoryProofs, FiniteSetTheorems

(* Who has the address a, and as an object of which name.                  *)
Points(k, a) ==
  \/ at[k] = a
  \/ key = k /\ curAt = a
  \/ \E p \in Procs : task[p].key = k /\ task[p].obj = a
  \/ \E c \in Controllers : \E n \in Pending(c) : n.key = k /\ a \in {n.old, n.new}

(* No object is shared between names.                                      *)
OneName == \A a \in Ids : \A j, k \in Names : Points(j, a) /\ Points(k, a) => j = k

(* In the log l, the event that wrote the resource version of c stored     *)
(* what c still is in the parts no controller writes in memory.  A         *)
(* finalizer may have been added since, but only to an object that is not  *)
(* being deleted.                                                          *)
FromLog(l, k, c) ==
  /\ c.rv \in DOMAIN l
  /\ l[c.rv].type = "put" /\ l[c.rv].key = k
  /\ SameOutside(l[c.rv].obj, c)
  /\ Guarded(l[c.rv].obj) => Guarded(c)
  /\ c.deleting => l[c.rv].obj.finalizers = c.finalizers

(* It also stored the config version the copy has.                         *)
SameVersion(l, c) == l[c.rv].obj.version = c.version

(* A copy of the cluster k that somebody may PUT to a server that stores s *)
(* and has the log l.                                                      *)
IsCopy(s, l, k, c) ==
  c \in Cluster /\ TiedTo(s[k], Len(l), c) /\ StatusGuarded(c) /\ FromLog(l, k, c)

(* Whoever has an address has a copy there.                                *)
HeapInv ==
  \A k \in Names, a \in Ids :
    Points(k, a) => IsCopy(store, events, k, heap[a]) /\ SameVersion(events, heap[a])

(* The events are the history of what is stored.                           *)
LogInv ==
  /\ \A k \in Names : Exists(k) =>
       /\ store[k].rv \in DOMAIN events
       /\ events[store[k].rv].type = "put" /\ events[store[k].rv].key = k
       /\ events[store[k].rv].obj = store[k]
  /\ \A i \in DOMAIN events : events[i].type = "put" =>
       events[i].obj.rv = i /\ StatusGuarded(events[i].obj)

(* What the goroutine p holds when its handler is at t.                    *)
Held(s, l, p, t) ==
  /\ t.pc # "idle" => t.key \in Names /\ t.obj \in Ids
  /\ t.pc \in {"contact", "create", "update"} => t.kubeconfig \in Kubeconfig
  /\ (p \in AnnotatorProcs /\ t.pc = "put") => IsCopy(s, l, t.key, t.copy)

(* So do all goroutines of the handlers.                                   *)
TaskInv == \A p \in Procs : Held(store, events, p, task[p])

(* The parts of HandlersTypeOK about the memory.                           *)
MemoryTypeOK ==
  heap \in [Ids -> Cluster \cup {NoCluster}] /\ at \in [Names -> Pointer] /\ curAt \in Pointer

(* Its parts about listeners and handlers.                                 *)
ListenerTypeOK ==
  /\ inbox \in [Controllers -> Seq(Notification)]
  /\ task \in [Procs -> Task]
  /\ kubeconfigs \in [Names -> Kubeconfig \cup {NoKubeconfig}]

(* What is known of objects as values agrees with the memory: the cache... *)
CacheView == \A k \in Names : cache[k] = IF at[k] = Nil THEN NoCluster ELSE heap[at[k]]

(* ... and the worker's object.                                            *)
WorkerView ==
  IF curAt = Nil THEN cur = NoCluster
  ELSE cur = heap[curAt] /\ cur # NoCluster /\ (shared <=> at[key] = curAt)

(* The invariants of the other proofs, of this one, and all of them.       *)
ProvisionerInv == TypeOK /\ HistoryInv /\ GuardInv

MemoryInv == MemoryTypeOK /\ CacheView /\ WorkerView /\ OneName /\ HeapInv

AllInv == ProvisionerInv /\ MemoryInv /\ ListenerTypeOK /\ TaskInv /\ LogInv
-----------------------------------------------------------------------------
(* The server appends one event for what it stores or removes.             *)
LogStep ==
  \/ UNCHANGED <<store, events>>
  \/ \E e \in Event :
       /\ events' = Append(events, e)
       /\ \/ e.type = "put" /\ e.obj.rv = Revision + 1 /\ store' = [store EXCEPT ![e.key] = e.obj]
          \/ e.type = "gone" /\ store' = [store EXCEPT ![e.key] = NoCluster]

(* It does so for every write. *)
LEMMA PutLogs ==
  ASSUME StoreTypeOK, NEW k \in Names, NEW c \in Cluster,
         Commit(k, c) \/ (Exists(k) /\ Erase(k)) \/ (Exists(k) /\ Put(k, c))
  PROVE  LogStep
<1>0. Revision \in Nat
  BY LenProperties DEF Revision, StoreTypeOK
<1>1. ASSUME Commit(k, c) PROVE LogStep
  <2> DEFINE n == [c EXCEPT !.rv = Revision + 1]
             e == [type |-> "put", key |-> k, obj |-> n]
  <2>1. n \in Cluster /\ n.rv = Revision + 1
    BY <1>0 DEF Cluster
  <2> HIDE DEF n
  <2>2. e \in Event /\ e.type = "put" /\ e.key = k /\ e.obj = n
    BY <2>1 DEF Event
  <2>3. store' = [store EXCEPT ![k] = n] /\ events' = Append(events, e)
    BY <1>1 DEF Commit, n
  <2> HIDE DEF e
  <2> QED BY <2>1, <2>2, <2>3 DEF LogStep
<1>2. ASSUME Exists(k), Erase(k) PROVE LogStep
  <2> DEFINE e == [type |-> "gone", key |-> k, obj |-> store[k]]
  <2>1. e \in Event /\ e.type = "gone" /\ e.key = k
    BY <1>2 DEF Event, StoreTypeOK, Exists
  <2>2. store' = [store EXCEPT ![k] = NoCluster] /\ events' = Append(events, e)
    BY <1>2 DEF Erase
  <2> HIDE DEF e
  <2> QED BY <2>1, <2>2 DEF LogStep
<1>3. CASE UNCHANGED <<store, events>>
  BY <1>3 DEF LogStep
<1> QED BY <1>1, <1>2, <1>3 DEF Put

(* An Update, whatever the caller is told. *)
LEMMA UpdateLogs ==
  ASSUME StoreTypeOK, NEW k \in Names, NEW c \in Cluster,
         UpdateSucceeds(k, c) \/ UpdateFails(k, c)
  PROVE  LogStep
<1>1. CASE UNCHANGED <<store, events>>
  BY <1>1 DEF LogStep
<1> QED BY <1>1, PutLogs DEF UpdateSucceeds, UpdateFails, Accepts, storeVars

(* The users' writes. *)
LEMMA UserLogs ==
  ASSUME StoreTypeOK, NEW k \in Names, UserWrites(k)
  PROVE  LogStep
<1>0. Revision \in Nat
  BY LenProperties DEF Revision, StoreTypeOK
<1>1. ASSUME NEW p \in Paths, NEW fs \in SUBSET ForeignFinalizers, UserCreates(k, p, fs)
      PROVE  LogStep
  <2> DEFINE c == [uid |-> Revision + 1, rv |-> 0, deleting |-> FALSE,
                   finalizers |-> fs, path |-> p,
                   applied |-> NoConfig, provisioned |-> "",
                   ready |-> "", version |-> NoConfig]
  <2>1. c \in Cluster
    <3>1. Revision + 1 \in Nat
      BY <1>0
    <3>2. fs \in SUBSET (ForeignFinalizers \cup {ProvisionerFinalizer})
      OBVIOUS
    <3> QED BY <3>1, <3>2 DEF Cluster, ConditionStatus
  <2>2. Commit(k, c)
    BY <1>1 DEF UserCreates
  <2> HIDE DEF c
  <2> QED BY <2>1, <2>2, PutLogs
<1>2. ASSUME Exists(k) PROVE store[k] \in Cluster
  BY <1>2 DEF Exists, StoreTypeOK
<1>3. CASE UserDeletes(k)
  <2>1. [store[k] EXCEPT !.deleting = TRUE] \in Cluster /\ Exists(k) /\ store[k] \in Cluster
    BY <1>2, <1>3 DEF UserDeletes, Cluster
  <2> QED BY <1>3, <2>1, PutLogs DEF UserDeletes
<1>4. ASSUME NEW p \in Paths, UserMovesConfig(k, p) PROVE LogStep
  <2>1. [store[k] EXCEPT !.path = p] \in Cluster
    BY <1>2, <1>4 DEF UserMovesConfig, Cluster
  <2> QED BY <1>4, <2>1, PutLogs DEF UserMovesConfig
<1>5. CASE OtherFieldWritten(k)
  <2>1. [store[k] EXCEPT !.ready = "True"] \in Cluster
    BY <1>2, <1>5 DEF OtherFieldWritten, Cluster, ConditionStatus
  <2> QED BY <1>5, <2>1, PutLogs DEF OtherFieldWritten
<1>6. ASSUME NEW f \in ForeignFinalizers, ForeignFinalizerDone(k, f) PROVE LogStep
  <2>1. [store[k] EXCEPT !.finalizers = @ \ {f}] \in Cluster /\ Exists(k)
    BY <1>2, <1>6 DEF ForeignFinalizerDone, Cluster
  <2> QED BY <1>6, <2>1, PutLogs DEF ForeignFinalizerDone
<1> QED BY <1>1, <1>3, <1>4, <1>5, <1>6 DEF UserWrites

(* The provisioner, its informer, users and crashes.                       *)
LEMMA ProvisionerLogs ==
  ASSUME TypeOK, [Next]_vars
  PROVE  LogStep
<1>1. CASE UNCHANGED <<store, events>>
  BY <1>1 DEF LogStep
<1>2. CASE Informer \/ Crash \/ UNCHANGED vars
  BY <1>1, <1>2 DEF Informer, List, Deliver, WatchBreaks, Resync, ResyncNotDue, Enqueue, Crash,
                    storeVars, vars
<1>3. CASE User
  <2>1. (\E k \in Names : UserWrites(k)) \/ UNCHANGED <<store, events>>
    BY <1>3 DEF User, UserWrites, UserWritesFile, storeVars
  <2> QED BY <1>1, <2>1, UserLogs DEF TypeOK
<1>4. CASE TryUpdate("initialize") \/ TryUpdate("applied") \/ Initialized \/ AppliedConfigUpdated
  <2>1. pc \in {"initialize", "applied"} /\ (UpdateSucceeds(key, cur) \/ UpdateFails(key, cur))
    BY <1>4 DEF TryUpdate, Initialized, AppliedConfigUpdated, LeaveUpdate
  <2>2. key \in Names /\ cur \in Cluster
    BY <2>1 DEF TypeOK, WorkerTypeOK
  <2> QED BY <2>1, <2>2, UpdateLogs DEF TypeOK
<1>5. CASE TryRelease \/ ReleaseSucceeds \/ ReleaseFails
  <2>1. pc = "release" /\ (UpdateSucceeds(key, toUpdate) \/ UpdateFails(key, toUpdate))
    BY <1>5 DEF TryRelease, ReleaseSucceeds, ReleaseFails
  <2>2. key \in Names /\ toUpdate \in Cluster
    BY <2>1 DEF TypeOK, WorkerTypeOK
  <2> QED BY <2>1, <2>2, UpdateLogs DEF TypeOK
<1>6. CASE \/ \E k \in Names : TakeKey(k)
           \/ SyncMissing \/ SyncFound \/ ConfigUnreadable \/ ConfigUnchanged \/ ConfigChanged
           \/ StartUp \/ UpSucceeds \/ UpFails \/ SyncReturns
  BY <1>1, <1>6 DEF TakeKey, SyncMissing, SyncFound, ConfigUnreadable, ConfigUnchanged,
                    ConfigChanged, StartUp, UpSucceeds, UpFails, SyncReturns, storeVars
<1>7. CASE \/ FinalizeGetFails \/ FinalizeNothing \/ FinalizeStart
           \/ RemoveSucceeds \/ RemoveFails
  BY <1>1, <1>7 DEF FinalizeGetFails, FinalizeNothing, FinalizeStart, RemoveSucceeds,
                    RemoveFails, storeVars
<1> QED BY <1>2, <1>3, <1>4, <1>5, <1>6, <1>7 DEF Next, Worker
-----------------------------------------------------------------------------
(* What somebody may do to a copy in memory and it is still a copy.        *)
EditOf(c, o) ==
  /\ o \in Cluster /\ SameOutside(c, o) /\ c.rv = o.rv /\ c.version = o.version
  /\ StatusGuarded(o)
  /\ Guarded(c) => Guarded(o)
  /\ c.deleting => o.finalizers = c.finalizers

(* An edited copy is a copy.                                               *)
LEMMA EditIsCopy ==
  ASSUME NEW s, NEW l, NEW k, NEW c, NEW o, IsCopy(s, l, k, c), EditOf(c, o)
  PROVE  IsCopy(s, l, k, o) /\ (SameVersion(l, c) => SameVersion(l, o))
<1>1. TiedTo(s[k], Len(l), o)
  BY TiedWrite DEF IsCopy, EditOf
<1>2. FromLog(l, k, o)
  BY DEF IsCopy, EditOf, FromLog, SameOutside, Foreign
<1> QED BY <1>1, <1>2 DEF IsCopy, EditOf, SameVersion

(* A copy that nobody touches is still a copy.                             *)
LEMMA NoEdit == ASSUME NEW s, NEW l, NEW k, NEW c, IsCopy(s, l, k, c) PROVE EditOf(c, c)
BY DEF IsCopy, EditOf, SameOutside

(* The healthchecker's write.                                              *)
LEMMA ReadyEdit ==
  ASSUME NEW c \in Cluster, StatusGuarded(c), NEW r \in ConditionStatus
  PROVE  EditOf(c, [c EXCEPT !.ready = r])
<1> DEFINE o == [c EXCEPT !.ready = r]
<1>1. /\ o \in Cluster /\ o.uid = c.uid /\ o.rv = c.rv /\ o.deleting = c.deleting
      /\ o.finalizers = c.finalizers /\ o.path = c.path /\ o.applied = c.applied
      /\ o.provisioned = c.provisioned /\ o.version = c.version
  BY DEF Cluster
<1> HIDE DEF o
<1>2. EditOf(c, o)
  BY <1>1 DEF EditOf, SameOutside, Foreign, StatusGuarded, Guarded
<1> QED BY <1>2 DEF o

(* New events leave the log as it was, and what is stored comes from it.   *)
LEMMA LogKept ==
  ASSUME StoreTypeOK, LogInv, LogStep, StoreGuarded'
  PROVE  /\ LogInv'
         /\ \A i \in DOMAIN events : i \in DOMAIN events' /\ events'[i] = events[i]
<1>1. CASE UNCHANGED <<store, events>>
  BY <1>1 DEF LogInv, Exists, StatusGuarded, Guarded
<1>2. ASSUME NEW e \in Event, events' = Append(events, e),
             \/ e.type = "put" /\ e.obj.rv = Revision + 1 /\ store' = [store EXCEPT ![e.key] = e.obj]
             \/ e.type = "gone" /\ store' = [store EXCEPT ![e.key] = NoCluster]
      PROVE  /\ LogInv'
             /\ \A i \in DOMAIN events : i \in DOMAIN events' /\ events'[i] = events[i]
  <2>1. /\ Revision \in Nat
        /\ DOMAIN events = 1..Revision /\ DOMAIN events' = 1..(Revision + 1)
        /\ \A i \in DOMAIN events : events'[i] = events[i]
        /\ events'[Revision + 1] = e
    BY <1>2, AppendProperties, LenProperties DEF StoreTypeOK, Revision
  <2>2. e.key \in Names /\ e.obj \in Cluster /\ NoCluster \notin Cluster
    BY ProvisionerAssumption DEF Event
  <2>3. \A k \in Names \ {e.key} : store'[k] = store[k]
    BY <1>2 DEF StoreTypeOK
  <2>4. /\ e.type = "put" => store'[e.key] = e.obj
        /\ e.type = "gone" => store'[e.key] = NoCluster
    BY <1>2, <2>2 DEF StoreTypeOK
  <2>5. e.type = "put" => StatusGuarded(e.obj)
    BY <2>2, <2>4 DEF StoreGuarded, Exists, StatusGuarded, Guarded
  <2>6. ASSUME NEW k \in Names, store'[k] # NoCluster
        PROVE  /\ store'[k].rv \in DOMAIN events'
               /\ events'[store'[k].rv].type = "put" /\ events'[store'[k].rv].key = k
               /\ events'[store'[k].rv].obj = store'[k]
    <3>1. CASE k = e.key
      BY <1>2, <2>1, <2>4, <2>6, <3>1
    <3>2. CASE k # e.key
      BY <2>1, <2>3, <2>6, <3>2 DEF LogInv, Exists
    <3> QED BY <3>1, <3>2
  <2>7. ASSUME NEW i \in DOMAIN events', events'[i].type = "put"
        PROVE  events'[i].obj.rv = i /\ StatusGuarded(events'[i].obj)
    <3>1. CASE i = Revision + 1
      BY <1>2, <2>1, <2>5, <2>7, <3>1
    <3>2. CASE i \in DOMAIN events
      BY <2>1, <2>7, <3>2 DEF LogInv
    <3> QED BY <2>1, <3>1, <3>2
  <2>8. LogInv'
    BY <2>6, <2>7 DEF LogInv, Exists, StatusGuarded, Guarded
  <2> QED BY <2>1, <2>8
<1> QED BY <1>1, <1>2 DEF LogStep

(* So whatever the server does, a copy stays a copy.                       *)
LEMMA CopiesKept ==
  ASSUME StoreTypeOK, StoreTied, EventsTied, ServerStep, LogInv, LogStep, StoreGuarded'
  PROVE  /\ LogInv'
         /\ \A k \in Names : \A c : IsCopy(store, events, k, c) =>
              /\ IsCopy(store', events', k, c)
              /\ SameVersion(events, c) => SameVersion(events', c)
<1>1. /\ LogInv'
      /\ \A i \in DOMAIN events : i \in DOMAIN events' /\ events'[i] = events[i]
  BY LogKept
<1>2. \A k \in Names, c \in Cluster :
        TiedTo(store[k], Len(events), c) => TiedTo(store'[k], Len(events'), c)
  BY ServerKeepsTied DEF Revision
<1>3. ASSUME NEW k \in Names, NEW c, IsCopy(store, events, k, c)
      PROVE  /\ IsCopy(store', events', k, c)
             /\ SameVersion(events, c) => SameVersion(events', c)
  <2>1. c.rv \in DOMAIN events' /\ events'[c.rv] = events[c.rv]
    BY <1>1, <1>3 DEF IsCopy, FromLog
  <2> QED BY <1>2, <1>3, <2>1 DEF IsCopy, FromLog, SameVersion
<1> QED BY <1>1, <1>3

(* What is stored, and what an event announces, is a copy.                 *)
LEMMA StoredIsCopy ==
  ASSUME StoreTypeOK, StoreTied, StoreGuarded, LogInv, NEW k \in Names, Exists(k)
  PROVE  IsCopy(store, events, k, store[k]) /\ SameVersion(events, store[k])
<1>1. store[k] \in Cluster /\ StatusGuarded(store[k])
  BY DEF StoreTypeOK, Exists, StoreGuarded
<1>2. TiedTo(store[k], Len(events), store[k])
  BY DEF StoreTied, Exists, TiedTo, SameOutside, Revision
<1> QED BY <1>1, <1>2 DEF IsCopy, FromLog, SameVersion, LogInv, Exists, SameOutside

(* What an event announces is a copy. *)
LEMMA EventIsCopy ==
  ASSUME StoreTypeOK, EventsTied, LogInv, NEW i \in DOMAIN events, events[i].type = "put"
  PROVE  /\ events[i].key \in Names
         /\ IsCopy(store, events, events[i].key, events[i].obj)
         /\ SameVersion(events, events[i].obj)
<1>1. events[i].key \in Names /\ events[i].obj \in Cluster
  <2>1. events[i] \in Event
    BY ElementOfSeq, LenProperties DEF StoreTypeOK
  <2> QED BY <2>1 DEF Event
<1>2. TiedTo(store[events[i].key], Len(events), events[i].obj)
  BY DEF EventsTied, Revision
<1>3. events[i].obj.rv = i /\ StatusGuarded(events[i].obj)
  BY DEF LogInv
<1>4. FromLog(events, events[i].key, events[i].obj) /\ SameVersion(events, events[i].obj)
  BY <1>3 DEF FromLog, SameOutside, SameVersion
<1> QED BY <1>1, <1>2, <1>3, <1>4 DEF IsCopy
-----------------------------------------------------------------------------
(* Memory.  What is pointed to is not free.                                *)
LEMMA PointsLive == \A k \in Names, a \in Ids : Points(k, a) => a \in Live
<1> SUFFICES ASSUME NEW k \in Names, NEW a \in Ids, Points(k, a) PROVE a \in Live
  OBVIOUS
<1>0. a # Nil
  BY HandlersAssumption
<1>1. CASE at[k] = a
  BY <1>0, <1>1 DEF Live
<1>2. CASE curAt = a
  BY <1>0, <1>2 DEF Live
<1>3. ASSUME NEW p \in Procs, task[p].obj = a PROVE a \in Live
  BY <1>0, <1>3 DEF Live
<1>4. ASSUME NEW c \in Controllers, NEW n \in Pending(c), a \in {n.old, n.new} PROVE a \in Live
  <2>1. n \in UNION {Pending(d) : d \in Controllers}
    BY <1>4
  <2> QED BY <1>0, <1>4, <2>1 DEF Live
<1> QED BY <1>1, <1>2, <1>3, <1>4 DEF Points

(* Nor is it after the step.                                               *)
LEMMA PointsLiveNext == (\A k \in Names, a \in Ids : Points(k, a) => a \in Live)'
BY PointsLive, PTL

(* After the step the live objects are those of h.                         *)
Follows(h) ==
  /\ heap' \in [Ids -> Cluster \cup {NoCluster}]
  /\ \A a \in Ids : a \in Live' => heap'[a] = h[a]

(* Keep lets go of the others.                                             *)
LEMMA KeepFollows ==
  ASSUME NEW h \in [Ids -> Cluster \cup {NoCluster}], Keep(h)
  PROVE  Follows(h)
<1>1. heap' = [i \in Ids |-> IF i \in Live' THEN h[i] ELSE NoCluster]
  BY DEF Keep
<1> QED BY <1>1 DEF Follows

(* The address a was free, and only holders of k have been given it.       *)
GivenFor(k, a) ==
  /\ \A j \in Names : ~Points(j, a)
  /\ \A j \in Names : Points(j, a)' => j = k

(* The server's step leaves copies what they are.                          *)
CopiesStay ==
  \A k \in Names : \A c : IsCopy(store, events, k, c) =>
    /\ IsCopy(store', events', k, c)
    /\ SameVersion(events, c) => SameVersion(events', c)

(* A step that edits objects, hands on the addresses of known ones and     *)
(* puts new copies at free addresses.                                      *)
LEMMA HeapStep ==
  ASSUME OneName, HeapInv, CopiesStay, NEW h, Follows(h),
         \A k \in Names, a \in Ids : Points(k, a)' =>
           \/ Points(k, a) /\ EditOf(heap[a], h[a])
           \/ /\ GivenFor(k, a)
              /\ IsCopy(store', events', k, h[a]) /\ SameVersion(events', h[a])
  PROVE  OneName' /\ HeapInv'
<1>1. OneName'
  <2> SUFFICES ASSUME NEW a \in Ids, NEW j \in Names, NEW k \in Names,
                      Points(j, a)', Points(k, a)'
               PROVE  j = k
    BY DEF OneName
  <2>1. CASE GivenFor(k, a) \/ GivenFor(j, a)
    BY <2>1 DEF GivenFor
  <2>2. CASE Points(k, a) /\ Points(j, a)
    BY <2>2 DEF OneName
  <2> QED BY <2>1, <2>2
<1>2. HeapInv'
  <2> SUFFICES ASSUME NEW k \in Names, NEW a \in Ids, Points(k, a)'
               PROVE  IsCopy(store', events', k, heap'[a]) /\ SameVersion(events', heap'[a])
    BY DEF HeapInv
  <2>1. heap'[a] = h[a]
    BY PointsLiveNext DEF Follows
  <2>2. CASE Points(k, a) /\ EditOf(heap[a], h[a])
    <3>1. IsCopy(store, events, k, heap[a]) /\ SameVersion(events, heap[a])
      BY <2>2 DEF HeapInv
    <3>2. IsCopy(store', events', k, heap[a]) /\ SameVersion(events', heap[a])
      BY <3>1 DEF CopiesStay
    <3> QED BY <2>1, <2>2, <3>2, EditIsCopy
  <2> QED BY <2>1, <2>2
<1> QED BY <1>1, <1>2

(* The two views of the objects after the step.                            *)
LEMMA ViewStep ==
  ASSUME NEW h, Follows(h), at' \in [Names -> Pointer], curAt' \in Pointer,
         \A k \in Names : cache'[k] = IF at'[k] = Nil THEN NoCluster ELSE h[at'[k]],
         IF curAt' = Nil THEN cur' = NoCluster
         ELSE cur' = h[curAt'] /\ cur' # NoCluster /\ (shared' <=> at'[key'] = curAt')
  PROVE  MemoryTypeOK' /\ CacheView' /\ WorkerView'
<1>1. \A k \in Names : at'[k] # Nil => at'[k] \in Ids /\ at'[k] \in Live'
  BY DEF Live, Pointer
<1>2. curAt' # Nil => curAt' \in Ids /\ curAt' \in Live'
  BY DEF Live, Pointer
<1>3. MemoryTypeOK'
  BY DEF MemoryTypeOK, Follows
<1>4. CacheView'
  BY <1>1 DEF CacheView, Follows
<1>5. WorkerView'
  BY <1>2 DEF WorkerView, Follows
<1> QED BY <1>3, <1>4, <1>5

(* The worker's object is the cached one of its key or of no name at all.  *)
LEMMA WorkersObject ==
  ASSUME TypeOK, MemoryInv, curAt # Nil
  PROVE  /\ key \in Names /\ curAt \in Ids /\ Points(key, curAt)
         /\ cur = heap[curAt] /\ cur \in Cluster
         /\ \A k \in Names : at[k] = curAt <=> k = key /\ shared
<1>1. cur # NoCluster /\ cur = heap[curAt] /\ (shared <=> at[key] = curAt)
  BY DEF MemoryInv, WorkerView
<1>2. key \in Names /\ cur \in Cluster
  BY <1>1 DEF TypeOK, WorkerTypeOK
<1>3. curAt \in Ids /\ Points(key, curAt)
  BY DEF MemoryInv, MemoryTypeOK, Pointer, Points
<1>4. ASSUME NEW k \in Names, at[k] = curAt PROVE k = key
  <2>1. Points(k, curAt)
    BY <1>4 DEF Points
  <2> QED BY <1>2, <1>3, <2>1 DEF MemoryInv, OneName
<1> QED BY <1>1, <1>2, <1>3, <1>4
-----------------------------------------------------------------------------
(* The steps of the provisioner.  Their effect on the values is known.     *)
LEMMA ProvisionerKeeps ==
  ASSUME ProvisionerInv, LogInv, [Next]_vars
  PROVE  ProvisionerInv' /\ LogInv' /\ CopiesStay
<1>1. ProvisionerInv'
  BY TypeStep, HistoryStep, GuardStep DEF ProvisionerInv
<1>2. ServerStep /\ LogStep
  BY StoreSteps, ProvisionerLogs DEF ProvisionerInv, HistoryInv
<1> QED BY <1>1, <1>2, CopiesKept
        DEF ProvisionerInv, HistoryInv, TypeOK, TiedInv, GuardInv, CopiesStay

(* The worker writes into its object; rke up failing is the last edit      *)
(* before it lets go.                                                      *)
WorkerEdits(o) ==
  /\ pc # "lookup" /\ cur \in Cluster /\ EditOf(cur, o) /\ UNCHANGED key
  /\ cache' = IF shared THEN [cache EXCEPT ![key] = o] ELSE cache
  /\ \/ cur' = o /\ UNCHANGED shared
     \/ cur' = NoCluster /\ pc = "rkeUp" /\ o = [cur EXCEPT !.provisioned = "False"]

(* The worker lets go of its object, takes the cached one, keeps the one   *)
(* it has, or edits it.                                                    *)
LEMMA WorkerEffect ==
  ASSUME TypeOK, HandInv, GuardInv, Worker
  PROVE  \/ cur' = NoCluster /\ UNCHANGED cache /\ pc # "rkeUp"
         \/ pc = "lookup" /\ Cached(key) /\ cur' = cache[key] /\ shared' /\ UNCHANGED <<cache, key>>
         \/ pc # "lookup" /\ cur \in Cluster /\ UNCHANGED <<cache, key, shared, cur>>
         \/ \E o : WorkerEdits(o)
<1>1. CASE \/ \E k \in Names : TakeKey(k)
           \/ SyncMissing \/ ConfigUnreadable \/ ConfigUnchanged \/ SyncReturns
           \/ FinalizeGetFails \/ FinalizeNothing \/ RemoveFails
           \/ AppliedConfigUpdated \/ ReleaseSucceeds \/ ReleaseFails
  <2>1. UNCHANGED cache /\ pc # "rkeUp"
    BY <1>1 DEF TakeKey, SyncMissing, ConfigUnreadable, ConfigUnchanged, SyncReturns,
                FinalizeGetFails, FinalizeNothing, RemoveFails, AppliedConfigUpdated, LeaveUpdate,
                ReleaseSucceeds, ReleaseFails, informerVars
  <2>2. CASE (\E k \in Names : TakeKey(k)) \/ SyncReturns
    BY <2>1, <2>2 DEF TakeKey, SyncReturns, TypeOK, WorkerTypeOK
  <2>3. CASE \/ SyncMissing \/ ConfigUnreadable \/ ConfigUnchanged
             \/ FinalizeGetFails \/ FinalizeNothing \/ RemoveFails
             \/ AppliedConfigUpdated \/ ReleaseSucceeds \/ ReleaseFails
    BY <2>1, <2>3 DEF SyncMissing, ConfigUnreadable, ConfigUnchanged, FinalizeGetFails,
                FinalizeNothing, RemoveFails, AppliedConfigUpdated, ReleaseSucceeds, ReleaseFails,
                Requeue, Return, Forget
  <2> QED BY <1>1, <2>2, <2>3
<1>2. CASE SyncFound
  BY <1>2 DEF SyncFound, Goto, informerVars
<1>3. CASE \/ TryUpdate("initialize") \/ TryUpdate("applied") \/ Initialized
           \/ FinalizeStart \/ RemoveSucceeds \/ TryRelease
  <2>1. pc \in {"initialize", "applied", "finalize", "rkeRemove", "release"}
    BY <1>3 DEF TryUpdate, Initialized, LeaveUpdate, FinalizeStart, RemoveSucceeds, TryRelease
  <2>2. UNCHANGED <<cache, key, shared, cur>>
    BY <1>3 DEF TryUpdate, Initialized, FinalizeStart, RemoveSucceeds, TryRelease, Goto,
                informerVars
  <2> QED BY <2>1, <2>2 DEF TypeOK, WorkerTypeOK
<1>4. ASSUME pc \in {"compare", "provision", "rkeUp"}
      PROVE  cur \in Cluster /\ ~cur.deleting /\ (pc # "compare" => Guarded(cur))
  BY <1>4 DEF TypeOK, WorkerTypeOK, HandInv, GuardInv, WritesGuarded
<1>5. CASE ConfigChanged
  <2> DEFINE o == [cur EXCEPT !.finalizers = @ \cup {ProvisionerFinalizer}]
  <2>1. /\ pc = "compare" /\ UNCHANGED <<key, shared>>
        /\ cur' = o /\ cache' = IF shared THEN [cache EXCEPT ![key] = o] ELSE cache
    BY <1>5 DEF ConfigChanged, WriteThrough, Goto
  <2>2. /\ o \in Cluster /\ SameOutside(cur, o) /\ cur.rv = o.rv /\ cur.version = o.version
        /\ Guarded(o) /\ ~cur.deleting
    BY <1>4, <2>1 DEF SameOutside, Foreign, Guarded, Cluster
  <2>3. EditOf(cur, o)
    BY <2>2 DEF EditOf, StatusGuarded
  <2> HIDE DEF o
  <2> QED BY <1>4, <2>1, <2>3 DEF WorkerEdits
<1>6. ASSUME pc \in {"provision", "rkeUp"}, NEW o, o \in Cluster, SameOutside(cur, o),
             cur.rv = o.rv, cur.version = o.version, cur.finalizers = o.finalizers
      PROVE  EditOf(cur, o)
  BY <1>4, <1>6 DEF EditOf, StatusGuarded, Guarded
<1>7. CASE StartUp
  <2> DEFINE o == [cur EXCEPT !.provisioned = IF @ = "False" THEN "False" ELSE "Unknown"]
  <2>1. /\ pc = "provision" /\ UNCHANGED <<key, shared>>
        /\ cur' = o /\ cache' = IF shared THEN [cache EXCEPT ![key] = o] ELSE cache
    BY <1>7 DEF StartUp, WriteThrough, Goto
  <2>2. /\ o \in Cluster /\ SameOutside(cur, o) /\ cur.rv = o.rv /\ cur.version = o.version
        /\ cur.finalizers = o.finalizers
    BY <1>4, <2>1 DEF SameOutside, Foreign, Cluster, ConditionStatus
  <2> HIDE DEF o
  <2> QED BY <1>4, <1>6, <2>1, <2>2 DEF WorkerEdits
<1>8. CASE UpSucceeds
  <2> DEFINE o == [cur EXCEPT !.provisioned = "True", !.applied = config]
  <2>1. /\ pc = "rkeUp" /\ UNCHANGED <<key, shared>> /\ config \in Contents \cup {NoConfig}
        /\ cur' = o /\ cache' = IF shared THEN [cache EXCEPT ![key] = o] ELSE cache
    BY <1>8 DEF UpSucceeds, WriteThrough, Goto, TypeOK, WorkerTypeOK
  <2>2. /\ o \in Cluster /\ SameOutside(cur, o) /\ cur.rv = o.rv /\ cur.version = o.version
        /\ cur.finalizers = o.finalizers
    BY <1>4, <2>1 DEF SameOutside, Foreign, Cluster, ConditionStatus
  <2> HIDE DEF o
  <2> QED BY <1>4, <1>6, <2>1, <2>2 DEF WorkerEdits
<1>9. CASE UpFails
  <2> DEFINE o == [cur EXCEPT !.provisioned = "False"]
  <2>1. /\ pc = "rkeUp" /\ UNCHANGED key /\ cur' = NoCluster
        /\ cache' = IF shared THEN [cache EXCEPT ![key] = o] ELSE cache
    BY <1>9 DEF UpFails, Requeue, Return, Forget, Goto
  <2>2. /\ o \in Cluster /\ SameOutside(cur, o) /\ cur.rv = o.rv /\ cur.version = o.version
        /\ cur.finalizers = o.finalizers
    BY <1>4, <2>1 DEF SameOutside, Foreign, Cluster, ConditionStatus
  <2>3. EditOf(cur, o)
    BY <1>6, <2>1, <2>2
  <2>4. o = [cur EXCEPT !.provisioned = "False"]
    OBVIOUS
  <2> HIDE DEF o
  <2> QED BY <1>4, <2>1, <2>3, <2>4 DEF WorkerEdits
<1> QED BY <1>1, <1>2, <1>3, <1>5, <1>7, <1>8, <1>9 DEF Worker

(* A step that hands on addresses and edits objects, and puts nothing new  *)
(* into memory.                                                            *)
LEMMA EditStep ==
  ASSUME OneName, HeapInv, CopiesStay, NEW h, Follows(h),
         \A k \in Names, a \in Ids : Points(k, a)' => Points(k, a),
         \A k \in Names, a \in Ids : Points(k, a) => h[a] = heap[a] \/ EditOf(heap[a], h[a])
  PROVE  OneName' /\ HeapInv'
<1>1. ASSUME NEW k \in Names, NEW a \in Ids, Points(k, a)'
      PROVE  Points(k, a) /\ EditOf(heap[a], h[a])
  <2>1. Points(k, a) /\ IsCopy(store, events, k, heap[a])
    BY <1>1 DEF HeapInv
  <2> QED BY <2>1, NoEdit
<1> QED BY <1>1, HeapStep

(* What the listeners and the handlers hold is not touched. *)
LEMMA ListenerFrame ==
  ASSUME ListenerTypeOK, TaskInv, CopiesStay, UNCHANGED handlerVars
  PROVE  ListenerTypeOK' /\ TaskInv'
<1>1. UNCHANGED <<inbox, task, kubeconfigs>>
  BY DEF handlerVars
<1>2. TaskInv'
  BY <1>1 DEF TaskInv, Held, CopiesStay
<1> QED BY <1>1, <1>2 DEF ListenerTypeOK

(* The worker edits its own object only, which is the cached one of its    *)
(* key as long as they share it.                                           *)
LEMMA WorkerMemory ==
  ASSUME AllInv, CopiesStay, WorkerStep
  PROVE  MemoryInv'
<1> DEFINE last == [cur EXCEPT !.provisioned = "False"]
           h == IF curAt = Nil THEN heap
                ELSE [heap EXCEPT ![curAt] =
                        IF cur' # NoCluster THEN cur'
                        ELSE IF pc = "rkeUp" THEN last ELSE @]
<1>0. /\ Worker /\ UNCHANGED <<at, inbox, task, kubeconfigs>> /\ Keep(h)
      /\ curAt' = IF cur' = NoCluster THEN Nil ELSE IF pc = "lookup" THEN at[key] ELSE curAt
  BY DEF WorkerStep, handlerVars
<1>1. TypeOK /\ HandInv /\ GuardInv /\ MemoryTypeOK /\ CacheView /\ OneName /\ HeapInv
  BY DEF AllInv, ProvisionerInv, HistoryInv, MemoryInv
<1>2. curAt # Nil =>
        /\ key \in Names /\ curAt \in Ids /\ Points(key, curAt)
        /\ cur = heap[curAt] /\ cur \in Cluster
        /\ \A k \in Names : at[k] = curAt <=> k = key /\ shared
  BY <1>1, WorkersObject DEF AllInv
<1>3. /\ NoCluster \notin Cluster /\ Nil \notin Ids
      /\ curAt = Nil <=> cur = NoCluster
  BY ProvisionerAssumption, HandlersAssumption DEF AllInv, MemoryInv, WorkerView
<1>4. CASE cur' = NoCluster /\ UNCHANGED cache /\ pc # "rkeUp"
  <2>1. h = heap /\ curAt' = Nil
    BY <1>0, <1>1, <1>4 DEF MemoryTypeOK
  <2> HIDE DEF h
  <2>2. Follows(h)
    BY <1>0, <1>1, <2>1, KeepFollows DEF MemoryTypeOK
  <2>3. \A k \in Names, a \in Ids : Points(k, a)' => Points(k, a)
    BY <1>0, <1>3, <2>1 DEF Points, Pending
  <2>4. OneName' /\ HeapInv'
    BY <1>1, <2>1, <2>2, <2>3, EditStep
  <2>5. MemoryTypeOK' /\ CacheView' /\ WorkerView'
    BY <1>0, <1>1, <1>4, <2>1, <2>2, ViewStep DEF MemoryTypeOK, CacheView, Pointer
  <2> QED BY <2>4, <2>5 DEF MemoryInv
<1>5. CASE pc = "lookup" /\ Cached(key) /\ cur' = cache[key] /\ shared' /\ UNCHANGED <<cache, key>>
  <2>1. key \in Names /\ cur = NoCluster /\ curAt = Nil
    BY <1>1, <1>3, <1>5 DEF TypeOK, WorkerTypeOK
  <2>2. h = heap /\ curAt' = at[key] /\ at[key] # Nil /\ cur' = heap[at[key]] /\ cur' # NoCluster
    BY <1>0, <1>1, <1>5, <2>1 DEF Cached, CacheView
  <2> HIDE DEF h
  <2>3. Follows(h)
    BY <1>0, <1>1, <2>2, KeepFollows DEF MemoryTypeOK
  <2>4. \A k \in Names, a \in Ids : Points(k, a)' => Points(k, a)
    BY <1>0, <1>5, <2>2 DEF Points, Pending
  <2>5. OneName' /\ HeapInv'
    BY <1>1, <2>2, <2>3, <2>4, EditStep
  <2>6. MemoryTypeOK' /\ CacheView' /\ WorkerView'
    BY <1>0, <1>1, <1>5, <2>1, <2>2, <2>3, ViewStep DEF MemoryTypeOK, CacheView
  <2> QED BY <2>5, <2>6 DEF MemoryInv
<1>6. CASE pc # "lookup" /\ cur \in Cluster /\ UNCHANGED <<cache, key, shared, cur>>
  <2>1. curAt # Nil /\ cur' # NoCluster /\ curAt' = curAt
    BY <1>0, <1>3, <1>6
  <2>2. h = heap
    BY <1>1, <1>2, <1>6, <2>1 DEF MemoryTypeOK
  <2> HIDE DEF h
  <2>3. Follows(h)
    BY <1>0, <1>1, <2>2, KeepFollows DEF MemoryTypeOK
  <2>4. \A k \in Names, a \in Ids : Points(k, a)' => Points(k, a)
    BY <1>0, <1>6, <2>1 DEF Points, Pending
  <2>5. OneName' /\ HeapInv'
    BY <1>1, <2>2, <2>3, <2>4, EditStep
  <2>6. shared' <=> at'[key'] = curAt'
    BY <1>0, <1>2, <1>6, <2>1
  <2>7. MemoryTypeOK' /\ CacheView' /\ WorkerView'
    BY <1>0, <1>1, <1>2, <1>6, <2>1, <2>2, <2>3, <2>6, ViewStep DEF MemoryTypeOK, CacheView
  <2> QED BY <2>5, <2>7 DEF MemoryInv
<1>7. ASSUME NEW o, WorkerEdits(o) PROVE MemoryInv'
  <2>1. /\ pc # "lookup" /\ cur \in Cluster /\ EditOf(cur, o) /\ UNCHANGED key /\ o \in Cluster
        /\ cache' = IF shared THEN [cache EXCEPT ![key] = o] ELSE cache
        /\ \/ cur' = o /\ UNCHANGED shared
           \/ cur' = NoCluster /\ pc = "rkeUp" /\ o = last
    BY <1>7 DEF WorkerEdits, EditOf
  <2>2. curAt # Nil /\ curAt' = IF cur' = NoCluster THEN Nil ELSE curAt
    BY <1>0, <1>3, <2>1
  <2>3. h = [heap EXCEPT ![curAt] = o]
    BY <1>3, <2>1, <2>2
  <2> HIDE DEF h, last
  <2>4. h \in [Ids -> Cluster \cup {NoCluster}] /\ h[curAt] = o
        /\ \A a \in Ids \ {curAt} : h[a] = heap[a]
    BY <1>1, <1>2, <2>1, <2>2, <2>3 DEF MemoryTypeOK
  <2>5. Follows(h)
    BY <1>0, <2>4, KeepFollows
  <2>6. \A k \in Names, a \in Ids : Points(k, a)' => Points(k, a)
    BY <1>0, <1>3, <2>1, <2>2 DEF Points, Pending
  <2>7. \A a \in Ids : h[a] = heap[a] \/ EditOf(heap[a], h[a])
    BY <1>2, <2>1, <2>2, <2>4
  <2>8. OneName' /\ HeapInv'
    BY <1>1, <2>5, <2>6, <2>7, EditStep
  <2>9. ASSUME NEW k \in Names
        PROVE  cache'[k] = IF at'[k] = Nil THEN NoCluster ELSE h[at'[k]]
    <3>1. CASE k = key /\ shared
      <4>1. at[k] = curAt /\ cache'[k] = o
        BY <1>1, <1>2, <2>1, <2>2, <3>1 DEF TypeOK, InformerTypeOK
      <4> QED BY <1>0, <2>2, <2>4, <4>1
    <3>2. CASE ~(k = key /\ shared)
      <4>1. at[k] # curAt /\ cache'[k] = cache[k]
        BY <1>1, <1>2, <2>1, <2>2, <3>2 DEF TypeOK, InformerTypeOK
      <4>2. at[k] = Nil \/ at[k] \in Ids \ {curAt}
        BY <1>1, <4>1 DEF MemoryTypeOK, Pointer
      <4> QED BY <1>0, <1>1, <2>4, <4>1, <4>2 DEF CacheView
    <3> QED BY <3>1, <3>2
  <2>10. IF curAt' = Nil THEN cur' = NoCluster
         ELSE cur' = h[curAt'] /\ cur' # NoCluster /\ (shared' <=> at'[key'] = curAt')
    BY <1>0, <1>2, <1>3, <2>1, <2>2, <2>4
  <2>11. at' \in [Names -> Pointer] /\ curAt' \in Pointer
    BY <1>0, <1>1, <2>2 DEF MemoryTypeOK, Pointer
  <2>12. MemoryTypeOK' /\ CacheView' /\ WorkerView'
    BY <2>4, <2>5, <2>9, <2>10, <2>11, ViewStep
  <2> QED BY <2>8, <2>12 DEF MemoryInv
<1> QED BY <1>0, <1>1, <1>4, <1>5, <1>6, <1>7, WorkerEffect
-----------------------------------------------------------------------------
(* The steps of the informer.  What a listener holds after an announcement *)
(* it held before, or it has the old and the new address of a name of S.   *)
Announced(S, new) ==
  \A c \in Controllers : \A i \in DOMAIN inbox'[c] :
    \/ inbox'[c][i] \in Pending(c)
    \/ /\ inbox'[c][i].key \in S
       /\ inbox'[c][i].old = at[inbox'[c][i].key]
       /\ inbox'[c][i].new = new[inbox'[c][i].key]

(* That is what Announce does.                                             *)
LEMMA AnnounceEffect ==
  ASSUME ListenerTypeOK, MemoryTypeOK, NEW S \in SUBSET Names, NEW new,
         \A k \in S : new[k] \in Ids, Announce(S, new)
  PROVE  inbox' \in [Controllers -> Seq(Notification)] /\ Announced(S, new)
<1>1. CASE S = {}
  BY <1>1 DEF Announce, Announced, ListenerTypeOK, Pending
<1>2. CASE S # {}
  <2>1. Cardinality(S) \in Nat
    BY HandlersAssumption, FS_Subset, FS_CardinalityType
  <2>2. PICK order \in [1..Cardinality(S) -> S] :
          inbox' = [c \in Controllers |->
            inbox[c] \o [i \in DOMAIN order |->
              [key |-> order[i], old |-> at[order[i]], new |-> new[order[i]]]]]
    BY <1>2 DEF Announce
  <2> DEFINE list == [i \in DOMAIN order |->
                       [key |-> order[i], old |-> at[order[i]], new |-> new[order[i]]]]
  <2>3. ASSUME NEW i \in 1..Cardinality(S)
        PROVE  /\ list[i] \in Notification /\ list[i].key \in S
               /\ list[i].old = at[list[i].key] /\ list[i].new = new[list[i].key]
    BY <2>2, <2>3 DEF Notification, MemoryTypeOK
  <2>4. list \in [1..Cardinality(S) -> Notification]
    BY <2>2, <2>3
  <2>5. list \in Seq(Notification) /\ Len(list) = Cardinality(S)
    BY <2>1, <2>4, SeqDef, LenProperties
  <2>6. \A c \in Controllers : inbox'[c] = inbox[c] \o list
    BY <2>2
  <2>7. inbox' = [c \in Controllers |-> inbox[c] \o list]
    BY <2>2
  <2> HIDE DEF list
  <2>8. inbox' \in [Controllers -> Seq(Notification)]
    BY <2>5, <2>7, ConcatProperties DEF ListenerTypeOK
  <2>9. ASSUME NEW c \in Controllers, NEW i \in DOMAIN inbox'[c]
        PROVE  \/ inbox'[c][i] \in Pending(c)
               \/ /\ inbox'[c][i].key \in S
                  /\ inbox'[c][i].old = at[inbox'[c][i].key]
                  /\ inbox'[c][i].new = new[inbox'[c][i].key]
    <3>1. /\ inbox[c] \in Seq(Notification) /\ Len(inbox[c]) \in Nat
          /\ DOMAIN inbox[c] = 1..Len(inbox[c])
          /\ Len(inbox'[c]) = Len(inbox[c]) + Cardinality(S)
          /\ DOMAIN inbox'[c] = 1..(Len(inbox[c]) + Cardinality(S))
      BY <2>5, <2>6, <2>8, ConcatProperties, LenProperties DEF ListenerTypeOK
    <3>2. inbox'[c][i] = IF i <= Len(inbox[c]) THEN inbox[c][i] ELSE list[i - Len(inbox[c])]
      BY <2>5, <2>6, <2>9, <3>1, ConcatProperties
    <3>3. CASE i <= Len(inbox[c])
      BY <2>9, <3>1, <3>2, <3>3 DEF Pending
    <3>4. CASE ~(i <= Len(inbox[c]))
      <4>1. i - Len(inbox[c]) \in 1..Cardinality(S)
        BY <2>1, <2>9, <3>1, <3>4
      <4> QED BY <2>3, <3>2, <3>4, <4>1
    <3> QED BY <3>3, <3>4
  <2> QED BY <2>8, <2>9 DEF Announced
<1> QED BY <1>1, <1>2

(* Copies put at free addresses, for the cache and the listeners: nobody   *)
(* else is affected.                                                       *)
LEMMA LoadStep ==
  ASSUME ListenerTypeOK, MemoryTypeOK, OneName, HeapInv, TaskInv, CopiesStay,
         NEW S \in SUBSET Names, NEW A \in SUBSET S, NEW new \in Allocations(S),
         Announce(A, new), UNCHANGED <<key, curAt, task, kubeconfigs>>,
         \A k \in Names : IF k \in S THEN at'[k] = new[k] ELSE at'[k] \in {at[k], Nil},
         NEW h, Follows(h),
         \A a \in Ids : (\A k \in S : new[k] # a) => h[a] = heap[a],
         \A k \in S : IsCopy(store', events', k, h[new[k]]) /\ SameVersion(events', h[new[k]])
  PROVE  OneName' /\ HeapInv' /\ ListenerTypeOK' /\ TaskInv'
<1>1. /\ \A k \in S : new[k] \in Ids /\ new[k] \notin Live
      /\ \A j, k \in S : new[j] = new[k] => j = k
  BY DEF Allocations
<1>2. inbox' \in [Controllers -> Seq(Notification)] /\ Announced(A, new)
  <2>1. A \in SUBSET Names /\ \A k \in A : new[k] \in Ids
    BY <1>1
  <2> QED BY <2>1, AnnounceEffect
<1>3. ASSUME NEW k \in Names, NEW a \in Ids, Points(k, a)'
      PROVE  Points(k, a) \/ (k \in S /\ a = new[k])
  <2>1. CASE at'[k] = a
    BY <2>1, HandlersAssumption DEF Points
  <2>2. CASE (key = k /\ curAt = a)' \/ \E p \in Procs : (task[p].key = k /\ task[p].obj = a)'
    BY <2>2 DEF Points
  <2>3. ASSUME NEW c \in Controllers, NEW n \in Pending(c)', n.key = k, a \in {n.old, n.new}
        PROVE  Points(k, a) \/ (k \in S /\ a = new[k])
    <3>1. n \in Pending(c) \/ (n.key \in A /\ n.old = at[n.key] /\ n.new = new[n.key])
      BY <1>2, <2>3 DEF Announced, Pending
    <3> QED BY <2>3, <3>1 DEF Points
  <2> QED BY <1>3, <2>1, <2>2, <2>3 DEF Points
<1>4. ASSUME NEW k \in Names, NEW a \in Ids, Points(k, a)
      PROVE  \A j \in S : new[j] # a
  BY <1>1, <1>4, PointsLive
<1>5. ASSUME NEW k \in Names, NEW a \in Ids, Points(k, a)'
      PROVE  \/ Points(k, a) /\ EditOf(heap[a], h[a])
             \/ /\ GivenFor(k, a)
                /\ IsCopy(store', events', k, h[a]) /\ SameVersion(events', h[a])
  <2>1. CASE Points(k, a)
    <3>1. h[a] = heap[a]
      BY <1>4, <2>1
    <3>2. IsCopy(store, events, k, heap[a])
      BY <2>1 DEF HeapInv
    <3> QED BY <2>1, <3>1, <3>2, NoEdit
  <2>2. CASE k \in S /\ a = new[k]
    <3>1. \A j \in Names : ~Points(j, a)
      BY <1>4, <2>2
    <3>2. \A j \in Names : Points(j, a)' => j = k
      BY <1>1, <1>3, <2>2, <3>1
    <3> QED BY <2>2, <3>1, <3>2 DEF GivenFor
  <2> QED BY <1>3, <1>5, <2>1, <2>2
<1>6. OneName' /\ HeapInv'
  BY <1>5, HeapStep
<1>7. ListenerTypeOK'
  BY <1>2 DEF ListenerTypeOK
<1>8. TaskInv'
  BY DEF TaskInv, Held, CopiesStay
<1> QED BY <1>6, <1>7, <1>8

(* Objects put at free addresses are in nobody's way.                      *)
LEMMA LoadBeside ==
  ASSUME MemoryTypeOK, NEW S \in SUBSET Names, NEW new \in Allocations(S), NEW h,
         \A a \in Ids : (\A k \in S : new[k] # a) => h[a] = heap[a]
  PROVE  /\ \A k \in Names : at[k] # Nil =>
              h[at[k]] = heap[at[k]] /\ \A j \in S : new[j] # at[k]
         /\ curAt # Nil => h[curAt] = heap[curAt] /\ \A j \in S : new[j] # curAt
         /\ \A j \in S : new[j] \in Ids
<1>1. \A k \in S : new[k] \in Ids /\ new[k] \notin Live
  BY DEF Allocations
<1>2. /\ \A k \in Names : at[k] # Nil => at[k] \in Live /\ at[k] \in Ids
      /\ curAt # Nil => curAt \in Live /\ curAt \in Ids
  BY DEF Live, MemoryTypeOK, Pointer
<1> QED BY <1>1, <1>2

(* A watch event.                                                          *)
LEMMA DeliverMemory ==
  ASSUME AllInv, CopiesStay, NEW r \in Reflectors, DeliverStep(r)
  PROVE  MemoryInv' /\ ListenerTypeOK' /\ TaskInv'
<1> DEFINE e == events[pos[r] + 1]
           S == IF e.type = "put" THEN {e.key} ELSE {}
           new == Fresh(S)
           h == IF S = {} THEN heap ELSE [heap EXCEPT ![new[e.key]] = e.obj]
<1>0. /\ TypeOK /\ TiedInv /\ LogInv
      /\ MemoryTypeOK /\ CacheView /\ WorkerView /\ OneName /\ HeapInv
      /\ ListenerTypeOK /\ TaskInv
      /\ NoCluster \notin Cluster /\ Nil \notin Ids
  BY ProvisionerAssumption, HandlersAssumption
     DEF AllInv, ProvisionerInv, HistoryInv, MemoryInv
<1>1. /\ Deliver(r) /\ Allocations(S) # {} /\ Announce(S, new)
      /\ at' = [at EXCEPT ![e.key] = IF S = {} THEN Nil ELSE new[e.key]]
      /\ UNCHANGED <<curAt, task, kubeconfigs>> /\ Keep(h)
  BY DEF DeliverStep
<1>2. /\ UNCHANGED <<store, events, key, cur>> /\ shared' = (shared /\ e.key # key)
      /\ cache' = [cache EXCEPT ![e.key] = IF e.type = "put" THEN e.obj ELSE NoCluster]
  BY <1>1 DEF Deliver, storeVars
<1>3. new \in Allocations(S)
  BY <1>1 DEF Fresh
<1>4. e \in Event /\ e.key \in Names /\ e.obj \in Cluster
      /\ (e.type = "put" =>
            IsCopy(store, events, e.key, e.obj) /\ SameVersion(events, e.obj))
  <2>1. pos[r] + 1 \in DOMAIN events
    BY <1>0, <1>1, LenProperties DEF Deliver, TypeOK, InformerTypeOK, StoreTypeOK, Revision
  <2>2. e \in Event
    BY <1>0, <2>1, ElementOfSeq, LenProperties DEF TypeOK, StoreTypeOK
  <2> QED BY <1>0, <2>1, <2>2, EventIsCopy DEF Event, TypeOK, TiedInv
<1> HIDE DEF e, new
<1>5. S \in SUBSET Names /\ \A k \in S : k = e.key /\ e.type = "put"
  BY <1>4
<1>6. /\ h \in [Ids -> Cluster \cup {NoCluster}]
      /\ \A a \in Ids : (\A k \in S : new[k] # a) => h[a] = heap[a]
      /\ \A k \in S : h[new[k]] = e.obj
  BY <1>0, <1>3, <1>4, <1>5 DEF MemoryTypeOK, Allocations
<1> HIDE DEF h
<1>7. Follows(h)
  BY <1>1, <1>6, KeepFollows
<1>8. at' \in [Names -> Pointer] /\ \A k \in Names :
        at'[k] = IF k = e.key THEN IF k \in S THEN new[k] ELSE Nil ELSE at[k]
  BY <1>0, <1>1, <1>3, <1>4 DEF MemoryTypeOK, Pointer, Allocations
<1>9. e.key \in S <=> e.type = "put"
  OBVIOUS
<1> HIDE DEF S
<1>10. OneName' /\ HeapInv' /\ ListenerTypeOK' /\ TaskInv'
  <2>1. \A k \in S : IsCopy(store', events', k, h[new[k]]) /\ SameVersion(events', h[new[k]])
    BY <1>2, <1>4, <1>5, <1>6
  <2>2. \A k \in Names : IF k \in S THEN at'[k] = new[k] ELSE at'[k] \in {at[k], Nil}
    BY <1>5, <1>8
  <2>3. UNCHANGED <<key, curAt, task, kubeconfigs>> /\ S \in SUBSET S
    BY <1>1, <1>2
  <2> QED BY <1>0, <1>1, <1>3, <1>5, <1>6, <1>7, <2>1, <2>2, <2>3, LoadStep
<1>11. /\ \A k \in Names : at[k] # Nil =>
            h[at[k]] = heap[at[k]] /\ \A j \in S : new[j] # at[k]
       /\ curAt # Nil => h[curAt] = heap[curAt] /\ \A j \in S : new[j] # curAt
       /\ \A j \in S : new[j] \in Ids
  BY <1>0, <1>3, <1>5, <1>6, LoadBeside
<1>12. ASSUME NEW k \in Names
       PROVE  cache'[k] = IF at'[k] = Nil THEN NoCluster ELSE h[at'[k]]
  <2>1. cache'[k] = IF k = e.key THEN IF e.type = "put" THEN e.obj ELSE NoCluster ELSE cache[k]
    BY <1>0, <1>2 DEF TypeOK, InformerTypeOK
  <2>2. CASE k = e.key
    BY <1>0, <1>6, <1>8, <1>9, <1>11, <2>1, <2>2
  <2>3. CASE k # e.key
    BY <1>0, <1>8, <1>11, <2>1, <2>3 DEF CacheView
  <2> QED BY <2>2, <2>3
<1>13. IF curAt' = Nil THEN cur' = NoCluster
       ELSE cur' = h[curAt'] /\ cur' # NoCluster /\ (shared' <=> at'[key'] = curAt')
  <2>1. curAt # Nil => key \in Names
    BY <1>0 DEF WorkerView, TypeOK, WorkerTypeOK
  <2> QED BY <1>0, <1>1, <1>2, <1>8, <1>11, <2>1 DEF WorkerView
<1>14. MemoryTypeOK' /\ CacheView' /\ WorkerView'
  BY <1>0, <1>1, <1>7, <1>8, <1>12, <1>13, ViewStep DEF MemoryTypeOK
<1> QED BY <1>10, <1>14 DEF MemoryInv

(* The list of a reflector.                                                *)
LEMMA ListMemory ==
  ASSUME AllInv, CopiesStay, NEW r \in Reflectors, ListStep(r)
  PROVE  MemoryInv' /\ ListenerTypeOK' /\ TaskInv'
<1> DEFINE S == {k \in Names : Exists(k)}
           new == Fresh(S)
           A == IF syncing THEN S ELSE {}
           h == [i \in Ids |-> IF \E k \in S : new[k] = i
                               THEN store[CHOOSE k \in S : new[k] = i] ELSE heap[i]]
<1>0. /\ TypeOK /\ TiedInv /\ StoreGuarded /\ LogInv
      /\ MemoryTypeOK /\ CacheView /\ WorkerView /\ OneName /\ HeapInv
      /\ ListenerTypeOK /\ TaskInv
      /\ NoCluster \notin Cluster /\ Nil \notin Ids
  BY ProvisionerAssumption, HandlersAssumption
     DEF AllInv, ProvisionerInv, HistoryInv, GuardInv, MemoryInv
<1>1. /\ List(r) /\ Allocations(S) # {} /\ Announce(A, new)
      /\ at' = [k \in Names |-> IF k \in S THEN new[k] ELSE Nil]
      /\ UNCHANGED <<curAt, task, kubeconfigs>> /\ Keep(h)
  BY DEF ListStep
<1>2. UNCHANGED <<store, events, key, cur>> /\ ~shared' /\ cache' = store
  BY <1>1 DEF List, storeVars
<1>3. new \in Allocations(S)
  BY <1>1 DEF Fresh
<1> HIDE DEF new
<1>4. S \in SUBSET Names /\ A \in SUBSET S
  OBVIOUS
<1>5. /\ \A k \in S : new[k] \in Ids
      /\ \A j, k \in S : new[j] = new[k] => j = k
  BY <1>3 DEF Allocations
<1>6. /\ \A a \in Ids : (\A k \in S : new[k] # a) => h[a] = heap[a]
      /\ \A k \in S : h[new[k]] = store[k]
  BY <1>5
<1>7. \A k \in S : store[k] \in Cluster
  BY <1>0 DEF TypeOK, StoreTypeOK, Exists
<1>8. h \in [Ids -> Cluster \cup {NoCluster}]
  BY <1>0, <1>7 DEF MemoryTypeOK
<1> HIDE DEF h
<1>9. Follows(h)
  BY <1>1, <1>8, KeepFollows
<1>10. OneName' /\ HeapInv' /\ ListenerTypeOK' /\ TaskInv'
  <2>1. ASSUME NEW k \in S
        PROVE  IsCopy(store', events', k, h[new[k]]) /\ SameVersion(events', h[new[k]])
    BY <1>0, <1>2, <1>6, StoredIsCopy DEF TypeOK, TiedInv
  <2>2. \A k \in Names : IF k \in S THEN at'[k] = new[k] ELSE at'[k] \in {at[k], Nil}
    BY <1>1
  <2>3. UNCHANGED <<key, curAt, task, kubeconfigs>>
    BY <1>1, <1>2
  <2> HIDE DEF S, A
  <2> QED BY <1>0, <1>1, <1>3, <1>4, <1>6, <1>9, <2>1, <2>2, <2>3, LoadStep
<1>11. /\ curAt # Nil => h[curAt] = heap[curAt] /\ \A j \in S : new[j] # curAt
       /\ \A j \in S : new[j] \in Ids
  BY <1>0, <1>3, <1>4, <1>6, LoadBeside
<1>12. at' \in [Names -> Pointer]
  BY <1>1, <1>5 DEF Pointer
<1>13. \A k \in Names : cache'[k] = IF at'[k] = Nil THEN NoCluster ELSE h[at'[k]]
  BY <1>0, <1>1, <1>2, <1>5, <1>6 DEF Exists
<1>14. IF curAt' = Nil THEN cur' = NoCluster
       ELSE cur' = h[curAt'] /\ cur' # NoCluster /\ (shared' <=> at'[key'] = curAt')
  <2>1. curAt # Nil => key \in Names
    BY <1>0 DEF WorkerView, TypeOK, WorkerTypeOK
  <2> QED BY <1>0, <1>1, <1>2, <1>11, <2>1 DEF WorkerView
<1>15. MemoryTypeOK' /\ CacheView' /\ WorkerView'
  BY <1>0, <1>1, <1>9, <1>12, <1>13, <1>14, ViewStep DEF MemoryTypeOK
<1> QED BY <1>10, <1>15 DEF MemoryInv

(* The resync: the cached objects are announced as they are.               *)
LEMMA ResyncMemory ==
  ASSUME AllInv, CopiesStay, ResyncStep
  PROVE  MemoryInv' /\ ListenerTypeOK' /\ TaskInv'
<1> DEFINE S == {k \in Names : Cached(k)}
<1>0. /\ MemoryTypeOK /\ CacheView /\ WorkerView /\ OneName /\ HeapInv
      /\ ListenerTypeOK /\ TaskInv /\ Nil \notin Ids
  BY HandlersAssumption DEF AllInv, MemoryInv
<1>1. /\ Announce(S, at) /\ UNCHANGED <<heap, at, curAt, task, kubeconfigs>>
      /\ UNCHANGED <<cache, key, cur, shared>>
  BY DEF ResyncStep, Resync, memoryVars, workerVars
<1>2. S \in SUBSET Names /\ \A k \in S : at[k] \in Ids
  BY <1>0 DEF Cached, CacheView, MemoryTypeOK, Pointer
<1> HIDE DEF S
<1>3. inbox' \in [Controllers -> Seq(Notification)] /\ Announced(S, at)
  BY <1>0, <1>1, <1>2, AnnounceEffect
<1>4. Follows(heap)
  BY <1>0, <1>1 DEF Follows, MemoryTypeOK
<1>5. ASSUME NEW k \in Names, NEW a \in Ids, Points(k, a)'
      PROVE  Points(k, a)
  <2>1. CASE at'[k] = a \/ (key' = k /\ curAt' = a)
             \/ \E p \in Procs : task'[p].key = k /\ task'[p].obj = a
    BY <1>1, <2>1 DEF Points
  <2>2. ASSUME NEW c \in Controllers, NEW n \in Pending(c)', n.key = k, a \in {n.old, n.new}
        PROVE  Points(k, a)
    <3>1. n \in Pending(c) \/ (n.key \in S /\ n.old = at[n.key] /\ n.new = at[n.key])
      BY <1>3, <2>2 DEF Announced, Pending
    <3> QED BY <2>2, <3>1 DEF Points
  <2> QED BY <1>5, <2>1, <2>2 DEF Points
<1>6. OneName' /\ HeapInv'
  BY <1>0, <1>4, <1>5, EditStep
<1>7. MemoryTypeOK' /\ CacheView' /\ WorkerView'
  BY <1>0, <1>1 DEF MemoryTypeOK, CacheView, WorkerView
<1>8. ListenerTypeOK'
  BY <1>0, <1>1, <1>3 DEF ListenerTypeOK
<1>9. TaskInv'
  BY <1>0, <1>1 DEF TaskInv, Held, CopiesStay
<1> QED BY <1>6, <1>7, <1>8, <1>9 DEF MemoryInv

(* A goroutine that does nothing holds nothing.                            *)
LEMMA IdleType == Idle \in Task /\ Idle.pc = "idle" /\ Idle.obj = Nil
BY DEF Idle, Task, Pointer, MaxTries

(* When every pointer is nil and no notification waits, nobody points to   *)
(* anything.                                                               *)
LEMMA NothingInMemory ==
  /\ (\A k \in Names : at[k] = Nil) /\ curAt = Nil
  /\ (\A c \in Controllers : inbox[c] = <<>>) /\ (\A p \in Procs : task[p] = Idle)
  => \A k \in Names, a \in Ids : ~Points(k, a)
<1> SUFFICES ASSUME \A k \in Names : at[k] = Nil, curAt = Nil,
                    \A c \in Controllers : inbox[c] = <<>>,
                    \A p \in Procs : task[p] = Idle,
                    NEW k \in Names, NEW a \in Ids, Points(k, a)
             PROVE  FALSE
  OBVIOUS
<1>1. a # Nil /\ \A c \in Controllers : Pending(c) = {}
  BY HandlersAssumption DEF Pending
<1> QED BY <1>1, IdleType DEF Points

(* Nor after the step.                                                     *)
LEMMA NothingInMemoryNext ==
  (/\ (\A k \in Names : at[k] = Nil) /\ curAt = Nil
   /\ (\A c \in Controllers : inbox[c] = <<>>) /\ (\A p \in Procs : task[p] = Idle)
   => \A k \in Names, a \in Ids : ~Points(k, a))'
BY NothingInMemory, PTL

(* The memory of a new process. *)
LEMMA CrashMemory ==
  ASSUME AllInv, CrashStep
  PROVE  MemoryInv' /\ ListenerTypeOK' /\ TaskInv'
<1>1. /\ heap' = [i \in Ids |-> NoCluster] /\ at' = [k \in Names |-> Nil] /\ curAt' = Nil
      /\ inbox' = [c \in Controllers |-> <<>>] /\ task' = [p \in Procs |-> Idle]
      /\ UNCHANGED kubeconfigs
      /\ cache' = [k \in Names |-> NoCluster] /\ cur' = NoCluster
  BY DEF CrashStep, Crash, Forget
<1>2. \A k \in Names, a \in Ids : ~Points(k, a)'
  BY <1>1, NothingInMemoryNext
<1>3. OneName' /\ HeapInv'
  BY <1>2 DEF OneName, HeapInv
<1>4. MemoryTypeOK' /\ CacheView' /\ WorkerView'
  BY <1>1 DEF MemoryTypeOK, CacheView, WorkerView, Pointer
<1>5. ListenerTypeOK'
  <2>1. inbox' \in [Controllers -> Seq(Notification)]
    BY <1>1, EmptySeq
  <2>2. task' \in [Procs -> Task]
    BY <1>1, IdleType
  <2> QED BY <1>1, <2>1, <2>2 DEF ListenerTypeOK, AllInv
<1>6. TaskInv'
  BY <1>1, IdleType DEF TaskInv, Held
<1> QED BY <1>3, <1>4, <1>5, <1>6 DEF MemoryInv

(* The provisioner's own listener, users, and a watch that ends.           *)
LEMMA OtherMemory ==
  ASSUME AllInv, CopiesStay, UNCHANGED <<memoryVars, handlerVars, cache, key, cur, shared>>
  PROVE  MemoryInv' /\ ListenerTypeOK' /\ TaskInv'
<1>1. UNCHANGED <<heap, at, curAt, inbox, task, kubeconfigs, cache, key, cur, shared>>
  BY DEF memoryVars, handlerVars
<1>2. MemoryTypeOK /\ CacheView /\ WorkerView /\ OneName /\ HeapInv /\ ListenerTypeOK /\ TaskInv
  BY DEF AllInv, MemoryInv
<1>3. Follows(heap)
  BY <1>1, <1>2 DEF Follows, MemoryTypeOK
<1>4. \A k \in Names, a \in Ids : Points(k, a)' => Points(k, a)
  BY <1>1 DEF Points, Pending
<1>5. OneName' /\ HeapInv'
  BY <1>2, <1>3, <1>4, EditStep
<1>6. MemoryTypeOK' /\ CacheView' /\ WorkerView'
  BY <1>1, <1>2 DEF MemoryTypeOK, CacheView, WorkerView
<1> QED BY <1>2, <1>5, <1>6, ListenerFrame DEF MemoryInv

(* The provisioner keeps the invariant.                                    *)
LEMMA ProvisionerAll ==
  ASSUME AllInv,
         \/ WorkerStep
         \/ \E r \in Reflectors : ListStep(r) \/ DeliverStep(r)
         \/ ResyncStep \/ OtherStep \/ CrashStep \/ UNCHANGED allVars
  PROVE  AllInv' /\ [Next]_vars
<1>1. [Next]_vars
  BY DEF WorkerStep, ListStep, DeliverStep, ResyncStep, OtherStep, CrashStep, Next, Informer,
         allVars
<1>2. ProvisionerInv' /\ LogInv' /\ CopiesStay
  BY <1>1, ProvisionerKeeps DEF AllInv
<1>3. ListenerTypeOK /\ TaskInv
  BY DEF AllInv
<1>4. CASE WorkerStep
  <2>1. UNCHANGED handlerVars
    BY <1>4 DEF WorkerStep
  <2> QED BY <1>1, <1>2, <1>3, <1>4, <2>1, WorkerMemory, ListenerFrame DEF AllInv
<1>5. CASE \E r \in Reflectors : ListStep(r) \/ DeliverStep(r)
  BY <1>1, <1>2, <1>5, ListMemory, DeliverMemory DEF AllInv
<1>6. CASE ResyncStep
  BY <1>1, <1>2, <1>6, ResyncMemory DEF AllInv
<1>7. CASE CrashStep
  BY <1>1, <1>2, <1>7, CrashMemory DEF AllInv
<1>8. CASE OtherStep \/ UNCHANGED allVars
  <2>1. UNCHANGED <<cache, key, cur, shared>>
    BY <1>8 DEF OtherStep, ResyncNotDue, User, StoreStep, UserStep, WatchBreaks, Enqueue,
                informerVars, workerVars, allVars, vars
  <2>2. UNCHANGED <<memoryVars, handlerVars>>
    BY <1>8 DEF OtherStep, allVars
  <2> QED BY <1>1, <1>2, <2>1, <2>2, OtherMemory DEF AllInv
<1> QED BY <1>4, <1>5, <1>6, <1>7, <1>8
-----------------------------------------------------------------------------
(* The steps of the handlers: first what they do to the task of their      *)
(* goroutine, to the notifications and to the Kubeconfigs.                 *)
HandlerPart(p) ==
  /\ \E t \in Task :
       /\ task' = [task EXCEPT ![p] = t]
       /\ Held(store, events, p, t)
       /\ t.obj \in Ids => Points(t.key, t.obj)
  /\ inbox' \in [Controllers -> Seq(Notification)]
  /\ \A c \in Controllers : \A i \in DOMAIN inbox'[c] : inbox'[c][i] \in Pending(c)
  /\ kubeconfigs' \in [Names -> Kubeconfig \cup {NoKubeconfig}]

(* Then to the server and the memory: they call it, if at all, with a copy *)
(* of an object, ...                                                       *)
ServerQuiet == UNCHANGED <<store, events>> /\ faults' \in Nat

CallsServer ==
  \/ ServerQuiet
  \/ \E k \in Names : \E c :
       /\ IsCopy(store, events, k, c)
       /\ UpdateSucceeds(k, c) \/ UpdateFails(k, c)

HandlerQuiet == CallsServer /\ UNCHANGED <<provisionerVars, at, curAt>> /\ Follows(heap)

(* ... or they write the condition of the healthchecker into an object.    *)
HandlerWrites ==
  /\ ServerQuiet
  /\ UNCHANGED <<queueVars, listed, syncing, pos, notified, pc, key, shared, localVars, worldVars>>
  /\ \E k \in Names, a \in Ids : \E r \in ConditionStatus :
       Points(k, a) /\ WriteObject(a, [heap[a] EXCEPT !.ready = r])

HandlerEffect(p) == HandlerPart(p) /\ (HandlerQuiet \/ HandlerWrites)

(* A handler that has begun holds an object of its key. *)
LEMMA TasksObject ==
  ASSUME AllInv, NEW p \in Procs, task[p].pc # "idle"
  PROVE  /\ task[p] \in Task /\ task[p].key \in Names /\ task[p].obj \in Ids
         /\ Points(task[p].key, task[p].obj)
         /\ IsCopy(store, events, task[p].key, Object(p))
         /\ Held(store, events, p, task[p])
<1>1. /\ task[p] \in Task /\ Held(store, events, p, task[p])
      /\ task[p].key \in Names /\ task[p].obj \in Ids
  BY DEF AllInv, ListenerTypeOK, TaskInv, Held
<1>2. Points(task[p].key, task[p].obj)
  BY DEF Points
<1>3. IsCopy(store, events, task[p].key, Object(p))
  BY <1>1, <1>2 DEF AllInv, MemoryInv, HeapInv, Object
<1> QED BY <1>1, <1>2, <1>3

(* A notification that is taken. *)
LEMMA TakesEffect ==
  ASSUME AllInv, NEW p \in Procs, NEW i \in DOMAIN inbox[p[1]], Takes(p, i),
         NEW n, n = inbox[p[1]][i]
  PROVE  /\ inbox' \in [Controllers -> Seq(Notification)]
         /\ \A c \in Controllers : \A j \in DOMAIN inbox'[c] : inbox'[c][j] \in Pending(c)
         /\ n.key \in Names /\ n.new \in Ids /\ n.old \in Pointer
         /\ OldObject(n) \in Ids /\ Points(n.key, n.new) /\ Points(n.key, OldObject(n))
<1> DEFINE s == inbox[p[1]]
           t == SubSeq(s, 1, i - 1) \o SubSeq(s, i + 1, Len(s))
<1>1. p[1] \in Controllers /\ s \in Seq(Notification) /\ i \in 1..Len(s) /\ Len(s) \in Nat
  BY LenProperties DEF Procs, AllInv, ListenerTypeOK
<1>2. n \in Notification /\ n \in Pending(p[1])
  BY <1>1, ElementOfSeq DEF Pending
<1>3. n.key \in Names /\ n.new \in Ids /\ n.old \in Pointer /\ OldObject(n) \in {n.old, n.new}
      /\ OldObject(n) \in Ids
  BY <1>2 DEF Notification, OldObject, Pointer
<1>4. Points(n.key, n.new) /\ Points(n.key, OldObject(n))
  BY <1>1, <1>2, <1>3 DEF Points
<1>5. inbox' = [inbox EXCEPT ![p[1]] = t]
  BY DEF Takes
<1>6. /\ SubSeq(s, 1, i - 1) \in Seq(Notification) /\ Len(SubSeq(s, 1, i - 1)) = i - 1
      /\ \A j \in 1..(i - 1) : SubSeq(s, 1, i - 1)[j] = s[j]
  BY <1>1, SubSeqProperties
<1>7. /\ SubSeq(s, i + 1, Len(s)) \in Seq(Notification)
      /\ Len(SubSeq(s, i + 1, Len(s))) = Len(s) - i
      /\ \A j \in 1..(Len(s) - i) : SubSeq(s, i + 1, Len(s))[j] = s[i + j]
  BY <1>1, SubSeqProperties
<1>8. /\ t \in Seq(Notification) /\ DOMAIN t = 1..(Len(s) - 1)
      /\ \A j \in DOMAIN t : t[j] = IF j <= i - 1 THEN s[j] ELSE s[j + 1]
  <2> DEFINE u == SubSeq(s, 1, i - 1)
             v == SubSeq(s, i + 1, Len(s))
  <2>1. u \in Seq(Notification) /\ v \in Seq(Notification) /\ t = u \o v
    BY <1>6, <1>7
  <2>2. Len(u) = i - 1 /\ Len(v) = Len(s) - i
    BY <1>6, <1>7
  <2> HIDE DEF u, v, s, t
  <2>3. t \in Seq(Notification) /\ Len(t) = Len(u) + Len(v)
        /\ \A j \in 1..(Len(u) + Len(v)) :
             t[j] = IF j <= Len(u) THEN u[j] ELSE v[j - Len(u)]
    BY <2>1, ConcatProperties
  <2>4. Len(u) + Len(v) = Len(s) - 1
    BY <1>1, <2>2
  <2>5. DOMAIN t = 1..(Len(s) - 1)
    BY <2>3, <2>4, LenProperties
  <2>6. ASSUME NEW j \in DOMAIN t PROVE t[j] = IF j <= i - 1 THEN s[j] ELSE s[j + 1]
    <3>1. j \in 1..(Len(s) - 1) /\ t[j] = IF j <= i - 1 THEN u[j] ELSE v[j - (i - 1)]
      BY <2>2, <2>3, <2>4, <2>5
    <3>2. CASE j <= i - 1
      <4>1. u[j] = s[j]
        BY <1>1, <1>6, <3>1, <3>2 DEF u, s
      <4> QED BY <3>1, <3>2, <4>1
    <3>3. CASE ~(j <= i - 1)
      <4>1. j - (i - 1) \in 1..(Len(s) - i) /\ i + (j - (i - 1)) = j + 1
        BY <1>1, <3>1, <3>3
      <4>2. v[j - (i - 1)] = s[i + (j - (i - 1))]
        BY <1>7, <4>1 DEF v, s
      <4> QED BY <3>1, <3>3, <4>1, <4>2
    <3> QED BY <3>2, <3>3
  <2> QED BY <2>3, <2>5, <2>6
<1> HIDE DEF t
<1>9. \A j \in DOMAIN t : t[j] \in Pending(p[1])
  BY <1>1, <1>8 DEF Pending
<1>10. /\ inbox' \in [Controllers -> Seq(Notification)]
       /\ \A c \in Controllers : \A j \in DOMAIN inbox'[c] : inbox'[c][j] \in Pending(c)
  BY <1>1, <1>5, <1>8, <1>9 DEF AllInv, ListenerTypeOK, Pending
<1> QED BY <1>3, <1>4, <1>10

(* The listener's side of a step that takes no notification and leaves     *)
(* the Kubeconfigs alone, ...                                              *)
LEMMA KeepsPart ==
  ASSUME AllInv, NEW p \in Procs, NEW t \in Task, task' = [task EXCEPT ![p] = t],
         Held(store, events, p, t), t.obj \in Ids => Points(t.key, t.obj),
         UNCHANGED <<inbox, kubeconfigs>>
  PROVE  HandlerPart(p)
BY DEF HandlerPart, AllInv, ListenerTypeOK, Pending

(* ... of one in which the handler returns, ...                            *)
LEMMA ReturnsPart ==
  ASSUME AllInv, NEW p \in Procs, Returns(p), UNCHANGED inbox,
         kubeconfigs' \in [Names -> Kubeconfig \cup {NoKubeconfig}]
  PROVE  HandlerPart(p)
<1>1. task' = [task EXCEPT ![p] = Idle]
  BY DEF Returns
<1>2. Held(store, events, p, Idle) /\ Idle.obj \notin Ids
  BY IdleType, HandlersAssumption DEF Held
<1> QED BY <1>1, <1>2, IdleType DEF HandlerPart, AllInv, ListenerTypeOK, Pending

(* ... of one that skips a notification, and of one that begins with the   *)
(* object a.                                                               *)
LEMMA TakesPart ==
  ASSUME AllInv, NEW p \in Procs, NEW i \in DOMAIN inbox[p[1]], Takes(p, i),
         NEW n, n = inbox[p[1]][i], UNCHANGED kubeconfigs,
         \/ UNCHANGED task
         \/ \E a \in {n.new, OldObject(n)} : Starts(p, n, a)
  PROVE  HandlerPart(p)
<1>1. /\ inbox' \in [Controllers -> Seq(Notification)]
      /\ \A c \in Controllers : \A j \in DOMAIN inbox'[c] : inbox'[c][j] \in Pending(c)
      /\ n.key \in Names /\ n.new \in Ids
      /\ OldObject(n) \in Ids /\ Points(n.key, n.new) /\ Points(n.key, OldObject(n))
  BY TakesEffect
<1>2. kubeconfigs' \in [Names -> Kubeconfig \cup {NoKubeconfig}] /\ task \in [Procs -> Task]
  BY DEF AllInv, ListenerTypeOK
<1>3. CASE UNCHANGED task
  <2>1. task' = [task EXCEPT ![p] = task[p]] /\ task[p] \in Task
    BY <1>2, <1>3
  <2>2. Held(store, events, p, task[p]) /\ (task[p].obj \in Ids => Points(task[p].key, task[p].obj))
    BY DEF AllInv, TaskInv, Points
  <2> QED BY <1>1, <1>2, <2>1, <2>2 DEF HandlerPart
<1>4. ASSUME NEW a \in {n.new, OldObject(n)}, Starts(p, n, a) PROVE HandlerPart(p)
  <2> DEFINE t == [Idle EXCEPT !.pc = "ask", !.key = n.key, !.obj = a]
  <2>1. /\ a \in Ids /\ Points(n.key, a)
        /\ t.pc = "ask" /\ t.key = n.key /\ t.obj = a
    <3>1. a \in Ids /\ Points(n.key, a)
      <4>1. a = n.new \/ a = OldObject(n)
        BY <1>4
      <4> QED BY <1>1, <4>1
    <3> QED BY <3>1 DEF Idle
  <2>4. t \in Task
    BY <1>1, <2>1, IdleType DEF Task, Pointer
  <2>2. task' = [task EXCEPT ![p] = t]
    BY <1>4 DEF Starts
  <2> HIDE DEF t
  <2>3. Held(store, events, p, t)
    BY <1>1, <2>1 DEF Held
  <2> QED BY <1>1, <1>2, <2>1, <2>2, <2>3, <2>4 DEF HandlerPart
<1> QED BY <1>3, <1>4

(* What it takes for a step to be quiet: the server's side of a call that  *)
(* reads, of one that a fault loses, and of a call to the built cluster.   *)
LEMMA ReadsOnly ==
  ASSUME AllInv,
         \/ UNCHANGED storeVars
         \/ Fault /\ UNCHANGED <<store, events>>
         \/ \E f, v : Answers(f, v)
         \/ \E f : NoAnswer(f)
  PROVE  ServerQuiet
<1>1. faults \in Nat /\ (Fault => faults' \in Nat)
  BY DEF AllInv, ProvisionerInv, TypeOK, StoreTypeOK, Fault
<1> QED BY <1>1 DEF ServerQuiet, storeVars, Answers, NoAnswer

(* The handler touches no object, whether it lets go of its own or not.    *)
LEMMA TouchesNothing ==
  ASSUME AllInv, CallsServer,
         \/ OnlyPointersDropped
         \/ RestUnchanged /\ UNCHANGED <<cache, cur, memoryVars>>
  PROVE  HandlerQuiet
<1>0. heap \in [Ids -> Cluster \cup {NoCluster}]
  BY DEF AllInv, MemoryInv, MemoryTypeOK
<1>1. CASE OnlyPointersDropped
  BY <1>0, <1>1, KeepFollows DEF HandlerQuiet, OnlyPointersDropped
<1>2. CASE RestUnchanged /\ UNCHANGED <<cache, cur, memoryVars>>
  <2>1. UNCHANGED <<provisionerVars, at, curAt, heap>>
    BY <1>2 DEF RestUnchanged, memoryVars, provisionerVars, informerVars, workerVars
  <2> QED BY <1>0, <2>1 DEF HandlerQuiet, Follows
<1> QED BY <1>1, <1>2

(* A handler's step from one call to the next; only the annotator brings a *)
(* copy to its PUT.                                                        *)
LEMMA GoesOnPart ==
  ASSUME AllInv, NEW p \in Procs, task[p].pc # "idle", NEW t \in Task,
         task' = [task EXCEPT ![p] = t], t.key = task[p].key, t.obj = task[p].obj,
         t.pc \in {"contact", "create", "update"} => t.kubeconfig \in Kubeconfig,
         (p \in AnnotatorProcs /\ t.pc = "put") => IsCopy(store, events, t.key, t.copy),
         UNCHANGED <<inbox, kubeconfigs>>
  PROVE  HandlerPart(p)
<1>1. /\ task[p].key \in Names /\ task[p].obj \in Ids
      /\ Points(task[p].key, task[p].obj)
  BY TasksObject
<1>2. Held(store, events, p, t)
  BY <1>1 DEF Held
<1> QED BY <1>1, <1>2, KeepsPart

(* Both the healthchecker and the annotator dial with the Kubeconfig found.*)
LEMMA DialsEffect ==
  ASSUME AllInv, NEW p \in Procs, At(p, "ask"), KubeconfigFound(p),
         task' = [task EXCEPT ![p].pc = "contact", ![p].kubeconfig = kubeconfigs[task[p].key]],
         RestUnchanged, UNCHANGED <<cache, cur, memoryVars>>
  PROVE  HandlerEffect(p)
<1> DEFINE q == kubeconfigs[task[p].key]
           t == [task[p] EXCEPT !.pc = "contact", !.kubeconfig = q]
<1>1. task[p].pc # "idle" /\ task[p] \in Task /\ task[p].key \in Names
  BY TasksObject DEF At
<1>2. q \in Kubeconfig
  BY <1>1 DEF KubeconfigFound, AllInv, ListenerTypeOK
<1> HIDE DEF q
<1>3. /\ t \in Task /\ t.pc = "contact" /\ t.key = task[p].key /\ t.obj = task[p].obj
      /\ t.kubeconfig = q
  BY <1>1, <1>2 DEF Task
<1>4. task' = [task EXCEPT ![p] = t]
  BY DEF q
<1> HIDE DEF t
<1>5. HandlerPart(p)
  BY <1>1, <1>2, <1>3, <1>4, GoesOnPart DEF RestUnchanged
<1>6. CallsServer
  BY ReadsOnly DEF CallsServer, KubeconfigFound
<1> QED BY <1>5, <1>6, TouchesNothing DEF HandlerEffect

(* The loop of PUTs, of an object that is a copy.                          *)
LEMMA PutEffect ==
  ASSUME AllInv, NEW p \in Procs, At(p, "put"), NEW c,
         IsCopy(store, events, task[p].key, c),
         p \in AnnotatorProcs => c = task[p].copy,
         PutSucceeds(p, c) \/ PutFails(p, c),
         UNCHANGED <<inbox, kubeconfigs>>, OnlyPointersDropped
  PROVE  HandlerEffect(p)
<1>1. task[p].pc # "idle" /\ task[p].pc = "put" /\ task[p] \in Task /\ task[p].key \in Names
  BY TasksObject DEF At
<1>2. CallsServer
  BY <1>1 DEF CallsServer, PutSucceeds, PutFails
<1>3. Returns(p) => HandlerPart(p)
  BY ReturnsPart DEF AllInv, ListenerTypeOK
<1>4. ASSUME task[p].tries + 1 < MaxTries, task' = [task EXCEPT ![p].tries = @ + 1]
      PROVE  HandlerPart(p)
  <2> DEFINE t == [task[p] EXCEPT !.tries = @ + 1]
  <2>1. task[p].tries + 1 \in 0..(MaxTries - 1)
    BY <1>1, <1>4 DEF Task, MaxTries
  <2>2. /\ t \in Task /\ t.pc = task[p].pc /\ t.key = task[p].key /\ t.obj = task[p].obj
        /\ t.copy = task[p].copy
    BY <1>1, <2>1 DEF Task
  <2>3. task' = [task EXCEPT ![p] = t]
    BY <1>4
  <2> HIDE DEF t
  <2> QED BY <1>1, <2>2, <2>3, GoesOnPart
<1>5. HandlerPart(p)
  BY <1>3, <1>4 DEF PutSucceeds, PutFails
<1> QED BY <1>2, <1>5, TouchesNothing DEF HandlerEffect

(* The steps of the healthchecker.                                         *)
LEMMA HealthEffect ==
  ASSUME AllInv, NEW p \in HealthProcs, HealthStep(p)
  PROVE  HandlerEffect(p)
<1>0. p \in Procs /\ p \notin AnnotatorProcs
  BY DEF HealthProcs, AnnotatorProcs
<1>1. ASSUME NEW i \in DOMAIN inbox[p[1]], HealthSkipped(p, i) PROVE HandlerEffect(p)
  <2>1. HandlerPart(p)
    BY <1>0, <1>1, TakesPart DEF HealthSkipped
  <2>2. CallsServer
    BY <1>1, ReadsOnly DEF CallsServer, HealthSkipped
  <2> QED BY <1>1, <2>1, <2>2, TouchesNothing DEF HandlerEffect, HealthSkipped
<1>2. ASSUME NEW i \in DOMAIN inbox[p[1]], HealthStarts(p, i) PROVE HandlerEffect(p)
  <2> DEFINE n == inbox[p[1]][i]
             r == IF heap[n.new].ready = "False" THEN "False" ELSE "Unknown"
  <2>1. /\ Takes(p, i) /\ Starts(p, n, n.new)
        /\ UNCHANGED <<storeVars, queueVars, listed, syncing, pos, notified, pc, key, shared,
                       localVars, worldVars, kubeconfigs>>
        /\ WriteObject(n.new, [heap[n.new] EXCEPT !.ready = r])
    BY <1>2 DEF HealthStarts
  <2>2. n.key \in Names /\ n.new \in Ids /\ Points(n.key, n.new) /\ r \in ConditionStatus
    BY <1>0, <2>1, TakesEffect DEF ConditionStatus
  <2> HIDE DEF n, r
  <2>3. HandlerPart(p)
    BY <1>0, <2>1, TakesPart DEF n
  <2>4. ServerQuiet
    BY <2>1, ReadsOnly
  <2> QED BY <2>1, <2>2, <2>3, <2>4 DEF HandlerEffect, HandlerWrites
<1>3. ASSUME task[p].pc # "idle", Goes(p, "put"), RestUnchanged, ServerQuiet,
             NEW r \in ConditionStatus, SetReady(p, r)
      PROVE  HandlerEffect(p)
  <2> DEFINE t == [task[p] EXCEPT !.pc = "put"]
  <2>1. task[p] \in Task /\ task[p].key \in Names /\ task[p].obj \in Ids
        /\ Points(task[p].key, task[p].obj)
    BY <1>0, <1>3, TasksObject
  <2>2. t \in Task /\ t.pc = "put" /\ t.key = task[p].key /\ t.obj = task[p].obj
    BY <2>1 DEF Task
  <2>3. task' = [task EXCEPT ![p] = t]
    BY <1>3 DEF Goes
  <2> HIDE DEF t
  <2>4. HandlerPart(p)
    BY <1>0, <1>3, <2>2, <2>3, GoesOnPart DEF RestUnchanged
  <2> QED BY <1>3, <2>1, <2>4 DEF HandlerEffect, HandlerWrites, RestUnchanged, SetReady, Object
<1>4. CASE HealthNoKubeconfig(p) \/ HealthGetFails(p)
  <2>1. task[p].pc # "idle" /\ ServerQuiet
    BY <1>4, ReadsOnly DEF HealthNoKubeconfig, HealthGetFails, At, KubeconfigMissing,
                           KubeconfigGetFails
  <2> QED BY <1>3, <1>4, <2>1 DEF HealthNoKubeconfig, HealthGetFails, ConditionStatus
<1>5. CASE Healthy(p) \/ Unhealthy(p)
  <2>1. task[p].pc # "idle" /\ ServerQuiet
    BY <1>5, ReadsOnly DEF Healthy, Unhealthy, At
  <2> QED BY <1>3, <1>5, <2>1 DEF Healthy, Unhealthy, ConditionStatus
<1>6. CASE HealthDials(p)
  BY <1>0, <1>6, DialsEffect DEF HealthDials
<1>7. CASE HealthUpdate(p)
  <2>1. IsCopy(store, events, task[p].key, Object(p))
    BY <1>0, <1>7, TasksObject DEF HealthUpdate, At
  <2> QED BY <1>0, <1>7, <2>1, PutEffect DEF HealthUpdate
<1> QED BY <1>1, <1>2, <1>4, <1>5, <1>6, <1>7 DEF HealthStep

(* The steps of the annotator.                                             *)
LEMMA AnnotatorEffect ==
  ASSUME AllInv, NEW p \in AnnotatorProcs, AnnotatorStep(p)
  PROVE  HandlerEffect(p)
<1>0. p \in Procs
  BY DEF AnnotatorProcs
<1>1. ASSUME NEW i \in DOMAIN inbox[p[1]], AnnotateSkipped(p, i) \/ AnnotateStarts(p, i)
      PROVE  HandlerEffect(p)
  <2>1. HandlerPart(p)
    BY <1>0, <1>1, TakesPart DEF AnnotateSkipped, AnnotateStarts
  <2>2. CallsServer
    BY <1>1, ReadsOnly DEF CallsServer, AnnotateSkipped, AnnotateStarts
  <2> QED BY <1>1, <2>1, <2>2, TouchesNothing
          DEF HandlerEffect, AnnotateSkipped, AnnotateStarts
<1>2. CASE VersionDials(p)
  BY <1>0, <1>2, DialsEffect DEF VersionDials
<1>3. ASSUME NEW v \in Contents \cup {NoConfig}, VersionUnchanged(p, v) \/ VersionChanged(p, v)
      PROVE  HandlerEffect(p)
  <2>1. GotVersion(p, v)
    BY <1>3 DEF VersionUnchanged, VersionChanged
  <2>2. task[p].pc # "idle" /\ ServerQuiet
    BY <2>1, ReadsOnly DEF GotVersion, At, KubeconfigMissing, KubeconfigGetFails
  <2>3. CallsServer
    BY <2>2 DEF CallsServer
  <2>4. CASE VersionUnchanged(p, v)
    <3>1. HandlerPart(p)
      BY <1>0, <2>4, ReturnsPart DEF VersionUnchanged, AllInv, ListenerTypeOK
    <3> QED BY <2>3, <2>4, <3>1, TouchesNothing DEF HandlerEffect, VersionUnchanged
  <2>5. CASE VersionChanged(p, v)
    <3> DEFINE c == [Object(p) EXCEPT !.version = v]
               t == [task[p] EXCEPT !.pc = "put", !.copy = c]
    <3>1. /\ task[p] \in Task /\ task[p].key \in Names
          /\ IsCopy(store, events, task[p].key, Object(p)) /\ Object(p) \in Cluster
      BY <1>0, <2>2, TasksObject DEF IsCopy
    <3>2. /\ c \in Cluster /\ c.uid = Object(p).uid /\ c.rv = Object(p).rv
          /\ c.deleting = Object(p).deleting /\ c.finalizers = Object(p).finalizers
          /\ c.path = Object(p).path /\ c.applied = Object(p).applied
          /\ c.provisioned = Object(p).provisioned
      BY <3>1 DEF Cluster
    <3>3. task' = [task EXCEPT ![p] = t]
      BY <2>5 DEF VersionChanged
    <3> HIDE DEF c
    <3>4. IsCopy(store, events, task[p].key, c)
      <4>1. SameOutside(Object(p), c) /\ StatusGuarded(c)
        BY <3>1, <3>2 DEF SameOutside, Foreign, StatusGuarded, Guarded, IsCopy
      <4>2. TiedTo(store[task[p].key], Len(events), c)
        BY <3>1, <3>2, <4>1, TiedWrite DEF IsCopy
      <4>3. FromLog(events, task[p].key, c)
        BY <3>1, <3>2, <4>1 DEF IsCopy, FromLog, SameOutside, Foreign, Guarded
      <4> QED BY <3>2, <4>1, <4>2, <4>3 DEF IsCopy
    <3>5. /\ t \in Task /\ t.pc = "put" /\ t.key = task[p].key /\ t.obj = task[p].obj
          /\ t.copy = c
      BY <3>1, <3>2 DEF Task
    <3> HIDE DEF t
    <3>6. HandlerPart(p)
      BY <1>0, <2>2, <2>5, <3>3, <3>4, <3>5, GoesOnPart DEF VersionChanged, RestUnchanged
    <3> QED BY <2>3, <2>5, <3>6, TouchesNothing DEF HandlerEffect, VersionChanged
  <2> QED BY <1>3, <2>4, <2>5
<1>4. CASE AnnotateUpdate(p)
  <2>1. task[p].pc = "put" /\ IsCopy(store, events, task[p].key, task[p].copy)
    BY <1>0, <1>4, TasksObject DEF AnnotateUpdate, At, Held
  <2> QED BY <1>0, <1>4, <2>1, PutEffect DEF AnnotateUpdate
<1> QED BY <1>1, <1>2, <1>3, <1>4 DEF AnnotatorStep

(* The steps of the configgenerator.                                       *)
LEMMA ConfigEffect ==
  ASSUME AllInv, NEW p \in ConfigProcs, ConfigStep(p)
  PROVE  HandlerEffect(p)
<1>0. p \in Procs /\ p \notin AnnotatorProcs
  BY DEF ConfigProcs, AnnotatorProcs
<1>1. ASSUME NEW i \in DOMAIN inbox[p[1]], GenerateSkipped(p, i) \/ GenerateStarts(p, i)
      PROVE  HandlerEffect(p)
  <2>1. HandlerPart(p)
    BY <1>0, <1>1, TakesPart DEF GenerateSkipped, GenerateStarts
  <2>2. CallsServer
    BY <1>1, ReadsOnly DEF CallsServer, GenerateSkipped, GenerateStarts
  <2> QED BY <1>1, <2>1, <2>2, TouchesNothing
          DEF HandlerEffect, GenerateSkipped, GenerateStarts
<1>2. CASE GenerateNothing(p)
  <2>1. HandlerPart(p)
    BY <1>0, <1>2, ReturnsPart DEF GenerateNothing, AllInv, ListenerTypeOK
  <2>2. CallsServer
    BY <1>2, ReadsOnly DEF CallsServer, GenerateNothing, KubeconfigGetFails, KubeconfigFound
  <2> QED BY <1>2, <2>1, <2>2, TouchesNothing DEF HandlerEffect, GenerateNothing
<1>3. ASSUME task[p].pc # "idle", NEW q \in Kubeconfig, NEW s \in {"create", "update"},
             task' = [task EXCEPT ![p].pc = s, ![p].kubeconfig = q],
             UNCHANGED storeVars, RestUnchanged, UNCHANGED <<cache, cur, memoryVars>>
      PROVE  HandlerEffect(p)
  <2> DEFINE t == [task[p] EXCEPT !.pc = s, !.kubeconfig = q]
  <2>1. task[p] \in Task
    BY <1>0, <1>3, TasksObject
  <2>2. /\ t \in Task /\ t.pc # "put" /\ t.key = task[p].key /\ t.obj = task[p].obj
        /\ t.kubeconfig = q
    BY <1>3, <2>1 DEF Task
  <2>3. task' = [task EXCEPT ![p] = t]
    BY <1>3
  <2> HIDE DEF t
  <2>4. HandlerPart(p)
    BY <1>0, <1>3, <2>2, <2>3, GoesOnPart DEF RestUnchanged
  <2>5. CallsServer
    BY <1>3, ReadsOnly DEF CallsServer
  <2> QED BY <1>3, <2>4, <2>5, TouchesNothing DEF HandlerEffect
<1>4. ASSUME task[p].pc # "idle"
      PROVE  Object(p).uid \in Nat /\ Wanted(p) \in KubeconfigFile
  <2>1. Object(p) \in Cluster
    BY <1>0, <1>4, TasksObject DEF IsCopy
  <2>2. Object(p).uid \in Nat /\ Object(p).path \in Paths
    BY <2>1 DEF Cluster
  <2> QED BY <2>2 DEF Wanted, getKubeConfigPath, KubeconfigFile
<1>5. CASE GenerateCreates(p)
  <2> DEFINE q == [owner |-> Object(p).uid, rv |-> 0, path |-> Wanted(p)]
  <2>1. task[p].pc # "idle"
    BY <1>5 DEF GenerateCreates, At
  <2>2. q \in Kubeconfig
    BY <1>4, <2>1 DEF Kubeconfig
  <2>3. task' = [task EXCEPT ![p].pc = "create", ![p].kubeconfig = q]
    BY <1>5 DEF GenerateCreates
  <2> HIDE DEF q
  <2> QED BY <1>3, <1>5, <2>1, <2>2, <2>3 DEF GenerateCreates, KubeconfigMissing
<1>6. CASE GenerateUpdates(p)
  <2> DEFINE q == [kubeconfigs[task[p].key] EXCEPT !.path = Wanted(p)]
  <2>1. task[p].pc # "idle"
    BY <1>6 DEF GenerateUpdates, At
  <2>2. task[p].key \in Names
    BY <1>0, <2>1, TasksObject
  <2>3. kubeconfigs[task[p].key] \in Kubeconfig
    BY <1>6, <2>2 DEF GenerateUpdates, KubeconfigFound, AllInv, ListenerTypeOK
  <2>4. q \in Kubeconfig
    BY <1>4, <2>1, <2>3 DEF Kubeconfig
  <2>5. task' = [task EXCEPT ![p].pc = "update", ![p].kubeconfig = q]
    BY <1>6 DEF GenerateUpdates
  <2> HIDE DEF q
  <2> QED BY <1>3, <1>6, <2>1, <2>4, <2>5 DEF GenerateUpdates, KubeconfigFound
<1>7. CASE GenerateWrites(p)
  <2>1. task[p].pc \in {"create", "update"}
    BY <1>7 DEF GenerateWrites, At
  <2>2. task[p].key \in Names /\ task[p].kubeconfig \in Kubeconfig
    BY <1>0, <2>1, TasksObject DEF Held
  <2>3. [task[p].kubeconfig EXCEPT !.rv = @ + 1] \in Kubeconfig
    BY <2>2 DEF Kubeconfig
  <2>4. kubeconfigs \in [Names -> Kubeconfig \cup {NoKubeconfig}]
    BY DEF AllInv, ListenerTypeOK
  <2>5. UNCHANGED kubeconfigs \/ Stored(p)
    BY <1>7 DEF GenerateWrites, KubeconfigCreate, KubeconfigUpdate
  <2>6. kubeconfigs' \in [Names -> Kubeconfig \cup {NoKubeconfig}]
    BY <2>2, <2>3, <2>4, <2>5 DEF Stored
  <2>7. HandlerPart(p)
    BY <1>0, <1>7, <2>6, ReturnsPart DEF GenerateWrites
  <2>8. CallsServer
    BY <1>7, ReadsOnly DEF CallsServer, GenerateWrites
  <2> QED BY <1>7, <2>7, <2>8, TouchesNothing DEF HandlerEffect, GenerateWrites
<1> QED BY <1>1, <1>2, <1>5, <1>6, <1>7 DEF ConfigStep

(* The steps of all handlers.                                              *)
LEMMA HandlersEffect ==
  ASSUME AllInv, NEW p \in Procs, HandlerStep(p)
  PROVE  HandlerEffect(p)
BY HealthEffect, AnnotatorEffect, ConfigEffect DEF HandlerStep
-----------------------------------------------------------------------------
(* What the server makes of a handler's call.  The finalizers can only     *)
(* grow, and not any more once the object is being deleted.                *)
HandlersWrite(k) ==
  \/ store'[k] = store[k]
  \/ Exists(k) /\ store'[k] = NoCluster /\ ~Guarded(store[k])
  \/ /\ Exists(k) /\ store'[k] \in Cluster /\ SameOutside(store[k], store'[k])
     /\ Guarded(store[k]) => Guarded(store'[k])
     /\ store'[k].deleting => store[k].finalizers = store'[k].finalizers

(* What a handler's step is to the rest of the system: at most one write,  *)
(* which leaves to the provisioner what it has in hand and what it built.  *)
HandlersStep ==
  /\ \A k \in Names : HandlersWrite(k)
  /\ LogStep
  /\ UNCHANGED <<key, infra, userSteps, Built, Removed>>

(* A PUT that the server accepts is of a copy of the stored object.        *)
LEMMA HandlerServer ==
  ASSUME AllInv, CallsServer
  PROVE  /\ StoreTypeOK' /\ Revision' \in {Revision, Revision + 1}
         /\ ServerStep /\ LogStep /\ StoreGuarded'
         /\ \A k \in Names : HandlersWrite(k)
<1>0. StoreTypeOK /\ StoreTied /\ StoreGuarded /\ LogInv /\ Revision \in Nat
  BY LenProperties
     DEF AllInv, ProvisionerInv, TypeOK, HistoryInv, TiedInv, GuardInv, Revision, StoreTypeOK
<1>1. CASE ServerQuiet
  <2>1. UNCHANGED <<store, events>> /\ faults' \in Nat
    BY <1>1 DEF ServerQuiet
  <2>2. StoreTypeOK' /\ Revision' = Revision /\ StoreGuarded' /\ LogStep
    BY <1>0, <2>1 DEF StoreTypeOK, Revision, LogStep, StoreGuarded, StatusGuarded, Guarded, Exists
  <2>3. \A j \in Names : Moves(store[j], Revision, store'[j], Revision')
    BY <1>0, <2>1 DEF Moves, Revision
  <2> QED BY <2>1, <2>2, <2>3 DEF ServerStep, HandlersWrite
<1>2. ASSUME NEW k \in Names, NEW c, IsCopy(store, events, k, c),
             UpdateSucceeds(k, c) \/ UpdateFails(k, c)
      PROVE  /\ StoreTypeOK' /\ Revision' \in {Revision, Revision + 1}
             /\ ServerStep /\ LogStep /\ StoreGuarded'
             /\ \A j \in Names : HandlersWrite(j)
  <2>1. c \in Cluster /\ TiedTo(store[k], Revision, c) /\ StatusGuarded(c)
        /\ FromLog(events, k, c)
    BY <1>2 DEF IsCopy, Revision
  <2>2. StoreTypeOK' /\ Revision' \in {Revision, Revision + 1} /\ LogStep /\ StoreGuarded'
    BY <1>0, <1>2, <2>1, UpdateType, UpdateLogs, UpdateGuarded
  <2>3. /\ ServerStep
        /\ \/ UNCHANGED store
           \/ Accepts(k, c) /\ SameOutside(store[k], c) /\ Written(k, c)
    BY <1>0, <1>2, <2>1, UpdateMoves
  <2>4. ASSUME NEW j \in Names, Accepts(k, c), SameOutside(store[k], c), Written(k, c)
        PROVE  HandlersWrite(j)
    <3>1. j # k => store'[j] = store[j]
      BY <2>4 DEF Written
    <3>2. Exists(k) /\ events[c.rv].obj = store[k]
      BY <1>0, <2>4 DEF Accepts, LogInv
    <3>3. /\ Guarded(store[k]) => Guarded(c)
          /\ c.deleting => store[k].finalizers = c.finalizers
      BY <2>1, <3>2 DEF FromLog
    <3>4. CASE store'[k] = NoCluster /\ c.deleting /\ c.finalizers = {}
      <4>1. ~Guarded(store[k])
        BY <3>3, <3>4 DEF Guarded
      <4> QED BY <3>1, <3>2, <3>4, <4>1 DEF HandlersWrite
    <3>5. CASE /\ store'[k] \in Cluster /\ SameOutside(c, store'[k])
               /\ store'[k].finalizers = c.finalizers
      <4>1. SameOutside(store[k], store'[k]) /\ (Guarded(store[k]) => Guarded(store'[k]))
        BY <2>4, <3>3, <3>5 DEF SameOutside, Guarded
      <4>2. store'[k].deleting => store[k].finalizers = store'[k].finalizers
        BY <3>3, <3>5 DEF SameOutside
      <4> QED BY <3>1, <3>2, <3>5, <4>1, <4>2 DEF HandlersWrite
    <3> QED BY <2>4, <3>4, <3>5 DEF Written
  <2> QED BY <2>2, <2>3, <2>4 DEF HandlersWrite
<1> QED BY <1>1, <1>2 DEF CallsServer

(* What a handler leaves of the provisioner's variables; somebody else's   *)
(* object it may edit.                                                     *)
HandlerLeaves ==
  /\ UNCHANGED <<queueVars, listed, syncing, pos, notified, pc, key, shared, localVars, worldVars>>
  /\ cache' \in [Names -> Cluster \cup {NoCluster}]
  /\ \A k \in Names : cache'[k] = cache[k] \/ (cache[k] \in Cluster /\ EditOf(cache[k], cache'[k]))
  /\ cur' = cur \/ (cur \in Cluster /\ EditOf(cur, cur'))

(* The memory after a handler's step.                                      *)
LEMMA HandlerMemory ==
  ASSUME AllInv, CopiesStay, NEW p \in Procs, HandlerEffect(p)
  PROVE  MemoryInv' /\ ListenerTypeOK' /\ TaskInv' /\ HandlerLeaves
<1>0. /\ TypeOK /\ MemoryTypeOK /\ CacheView /\ WorkerView /\ OneName /\ HeapInv
      /\ ListenerTypeOK /\ TaskInv
      /\ NoCluster \notin Cluster /\ Nil \notin Ids
  BY ProvisionerAssumption, HandlersAssumption DEF AllInv, ProvisionerInv, MemoryInv
<1>1. PICK t \in Task : /\ task' = [task EXCEPT ![p] = t]
                        /\ Held(store, events, p, t)
                        /\ t.obj \in Ids => Points(t.key, t.obj)
  BY DEF HandlerEffect, HandlerPart
<1>2. /\ inbox' \in [Controllers -> Seq(Notification)]
      /\ \A c \in Controllers : \A i \in DOMAIN inbox'[c] : inbox'[c][i] \in Pending(c)
      /\ kubeconfigs' \in [Names -> Kubeconfig \cup {NoKubeconfig}]
      /\ UNCHANGED <<at, curAt, key, pc, shared>>
  BY DEF HandlerEffect, HandlerPart, HandlerQuiet, HandlerWrites, WriteObject, provisionerVars,
         workerVars
<1>3. task'[p] = t /\ \A q \in Procs \ {p} : task'[q] = task[q]
  BY <1>0, <1>1 DEF ListenerTypeOK
<1>4. ListenerTypeOK'
  BY <1>0, <1>1, <1>2 DEF ListenerTypeOK
<1>5. TaskInv'
  <2> SUFFICES ASSUME NEW q \in Procs PROVE Held(store', events', q, task'[q])
    BY DEF TaskInv
  <2>1. Held(store, events, q, task'[q])
    BY <1>0, <1>1, <1>3 DEF TaskInv
  <2> QED BY <2>1 DEF Held, CopiesStay
<1>6. ASSUME NEW k \in Names, NEW a \in Ids, Points(k, a)'
      PROVE  Points(k, a)
  <2>1. CASE at'[k] = a \/ (key' = k /\ curAt' = a)
    BY <1>2, <2>1 DEF Points
  <2>2. ASSUME NEW q \in Procs, task'[q].key = k, task'[q].obj = a PROVE Points(k, a)
    <3>1. CASE q = p
      BY <1>1, <1>3, <2>2, <3>1
    <3>2. CASE q # p
      BY <1>3, <2>2, <3>2 DEF Points
    <3> QED BY <3>1, <3>2
  <2>3. ASSUME NEW c \in Controllers, NEW n \in Pending(c)', n.key = k, a \in {n.old, n.new}
        PROVE  Points(k, a)
    <3>1. n \in Pending(c)
      BY <1>2, <2>3 DEF Pending
    <3> QED BY <2>3, <3>1 DEF Points
  <2> QED BY <1>6, <2>1, <2>2, <2>3 DEF Points
<1>7. CASE HandlerQuiet
  <2>1. Follows(heap) /\ UNCHANGED provisionerVars
    BY <1>7 DEF HandlerQuiet
  <2>2. HandlerLeaves /\ UNCHANGED <<cache, cur>>
    BY <1>0, <2>1 DEF HandlerLeaves, provisionerVars, informerVars, workerVars, TypeOK,
                      InformerTypeOK
  <2>3. OneName' /\ HeapInv'
    BY <1>0, <1>6, <2>1, EditStep
  <2>4. at' \in [Names -> Pointer] /\ curAt' \in Pointer
    BY <1>0, <1>2 DEF MemoryTypeOK
  <2>5. \A k \in Names : cache'[k] = IF at'[k] = Nil THEN NoCluster ELSE heap[at'[k]]
    BY <1>0, <1>2, <2>2 DEF CacheView
  <2>6. IF curAt' = Nil THEN cur' = NoCluster
        ELSE cur' = heap[curAt'] /\ cur' # NoCluster /\ (shared' <=> at'[key'] = curAt')
    BY <1>0, <1>2, <2>2 DEF WorkerView
  <2>7. MemoryTypeOK' /\ CacheView' /\ WorkerView'
    BY <2>1, <2>4, <2>5, <2>6, ViewStep
  <2> QED BY <1>4, <1>5, <2>2, <2>3, <2>7 DEF MemoryInv
<1>8. ASSUME HandlerWrites, NEW k \in Names, NEW a \in Ids, NEW r \in ConditionStatus,
             Points(k, a), WriteObject(a, [heap[a] EXCEPT !.ready = r])
      PROVE  MemoryInv' /\ ListenerTypeOK' /\ TaskInv' /\ HandlerLeaves
  <2> DEFINE o == [heap[a] EXCEPT !.ready = r]
             h == [heap EXCEPT ![a] = o]
  <2>1. /\ cache' = [j \in Names |-> IF at[j] = a THEN o ELSE cache[j]]
        /\ cur' = IF curAt = a THEN o ELSE cur
        /\ Keep(h)
    BY <1>8 DEF WriteObject
  <2>2. heap[a] \in Cluster /\ StatusGuarded(heap[a])
    BY <1>0, <1>8 DEF HeapInv, IsCopy
  <2>3. EditOf(heap[a], o)
    BY <2>2, ReadyEdit
  <2>4. o \in Cluster
    BY <2>3 DEF EditOf
  <2> HIDE DEF o
  <2>5. /\ h \in [Ids -> Cluster \cup {NoCluster}]
        /\ h[a] = o /\ \A b \in Ids \ {a} : h[b] = heap[b]
    BY <1>0, <2>4 DEF MemoryTypeOK
  <2> HIDE DEF h
  <2>6. Follows(h)
    BY <2>1, <2>5, KeepFollows
  <2>7. OneName' /\ HeapInv'
    <3>1. \A b \in Ids : h[b] = heap[b] \/ EditOf(heap[b], h[b])
      BY <2>3, <2>5
    <3> QED BY <1>0, <1>6, <2>6, <3>1, EditStep
  <2>8. at' \in [Names -> Pointer] /\ curAt' \in Pointer
    BY <1>0, <1>2 DEF MemoryTypeOK
  <2>9. ASSUME NEW j \in Names
        PROVE  /\ cache'[j] = IF at'[j] = Nil THEN NoCluster ELSE h[at'[j]]
               /\ cache'[j] = cache[j] \/ (cache[j] \in Cluster /\ EditOf(cache[j], cache'[j]))
    <3>1. at[j] = Nil \/ at[j] \in Ids
      BY <1>0 DEF MemoryTypeOK, Pointer
    <3>2. CASE at[j] = a
      BY <1>0, <1>2, <2>1, <2>2, <2>3, <2>5, <3>2 DEF CacheView
    <3>3. CASE at[j] # a
      BY <1>0, <1>2, <2>1, <2>5, <3>1, <3>3 DEF CacheView
    <3> QED BY <3>2, <3>3
  <2>10. IF curAt' = Nil THEN cur' = NoCluster
         ELSE cur' = h[curAt'] /\ cur' # NoCluster /\ (shared' <=> at'[key'] = curAt')
    <3>1. curAt = Nil \/ curAt \in Ids
      BY <1>0 DEF MemoryTypeOK, Pointer
    <3>2. CASE curAt = a
      BY <1>0, <1>2, <2>1, <2>4, <2>5, <3>2 DEF WorkerView
    <3>3. CASE curAt # a
      BY <1>0, <1>2, <2>1, <2>5, <3>1, <3>3 DEF WorkerView
    <3> QED BY <3>2, <3>3
  <2>11. cur' = cur \/ (cur \in Cluster /\ EditOf(cur, cur'))
    BY <1>0, <2>1, <2>2, <2>3 DEF WorkerView
  <2>12. MemoryTypeOK' /\ CacheView' /\ WorkerView'
    BY <2>6, <2>8, <2>9, <2>10, ViewStep
  <2>13. cache' \in [Names -> Cluster \cup {NoCluster}]
    BY <1>0, <2>1, <2>4 DEF TypeOK, InformerTypeOK
  <2>14. HandlerLeaves
    BY <1>8, <2>9, <2>11, <2>13 DEF HandlerLeaves, HandlerWrites
  <2> QED BY <1>4, <1>5, <2>7, <2>12, <2>14 DEF MemoryInv
<1> QED BY <1>7, <1>8 DEF HandlerEffect, HandlerWrites

(* Seen through the pointers, the cached objects and the worker's are      *)
(* copies.                                                                 *)
LEMMA ViewsTied ==
  (WorkerTypeOK /\ MemoryInv) =>
    CacheTied /\ (cur # NoCluster => TiedTo(store[key], Revision, cur))
<1> SUFFICES ASSUME WorkerTypeOK, MemoryInv
             PROVE  CacheTied /\ (cur # NoCluster => TiedTo(store[key], Revision, cur))
  OBVIOUS
<1>1. ASSUME NEW k \in Names, Cached(k) PROVE TiedTo(store[k], Revision, cache[k])
  <2>1. at[k] \in Ids /\ cache[k] = heap[at[k]] /\ Points(k, at[k])
    BY <1>1 DEF Cached, MemoryInv, CacheView, MemoryTypeOK, Pointer, Points
  <2> QED BY <2>1 DEF MemoryInv, HeapInv, IsCopy, Revision
<1>2. ASSUME cur # NoCluster PROVE TiedTo(store[key], Revision, cur)
  <2>1. key \in Names /\ curAt \in Ids /\ cur = heap[curAt] /\ Points(key, curAt)
    BY <1>2 DEF WorkerTypeOK, MemoryInv, WorkerView, MemoryTypeOK, Pointer, Points
  <2> QED BY <2>1 DEF MemoryInv, HeapInv, IsCopy, Revision
<1> QED BY <1>1, <1>2 DEF CacheTied

(* And after the step.                                                     *)
LEMMA ViewsTiedNext ==
  ((WorkerTypeOK /\ MemoryInv) =>
     CacheTied /\ (cur # NoCluster => TiedTo(store[key], Revision, cur)))'
BY ViewsTied, PTL

(* The handlers keep the invariant.                                        *)
LEMMA HandlerAll ==
  ASSUME AllInv, NEW p \in Procs, HandlerStep(p)
  PROVE  AllInv' /\ HandlersStep
<1>0. /\ TypeOK /\ HistoryInv /\ GuardInv /\ LogInv /\ MemoryInv
      /\ StoreTypeOK /\ InformerTypeOK /\ WorkerTypeOK /\ TiedInv /\ HandInv /\ Told
      /\ LeavingInv
      /\ NoCluster \notin Cluster
  BY ProvisionerAssumption DEF AllInv, ProvisionerInv, HistoryInv, TypeOK
<1>1. HandlerEffect(p) /\ CallsServer
  BY HandlersEffect DEF HandlerEffect, HandlerQuiet, HandlerWrites, CallsServer
<1>2. /\ StoreTypeOK' /\ Revision' \in {Revision, Revision + 1}
      /\ ServerStep /\ LogStep /\ StoreGuarded'
      /\ \A k \in Names : HandlersWrite(k)
  BY <1>1, HandlerServer
<1>3. LogInv' /\ CopiesStay
  BY <1>0, <1>2, CopiesKept DEF TiedInv, CopiesStay
<1>4. MemoryInv' /\ ListenerTypeOK' /\ TaskInv' /\ HandlerLeaves
  BY <1>1, <1>3, HandlerMemory
<1>5. /\ UNCHANGED <<queueVars, listed, syncing, pos, notified, pc, key, shared, localVars,
                     worldVars, dirty, shuttingDown, infra, userSteps, toUpdate,
                     config, applying, tries>>
      /\ cache' \in [Names -> Cluster \cup {NoCluster}]
      /\ cur' = cur \/ (cur \in Cluster /\ EditOf(cur, cur'))
  BY <1>4 DEF HandlerLeaves, queueVars, localVars, worldVars
<1>6. WorkerTypeOK'
  <2>1. cur' = cur \/ (cur \in Cluster /\ cur' \in Cluster)
    BY <1>5 DEF EditOf
  <2> QED BY <1>0, <1>5, <2>1 DEF WorkerTypeOK
<1>7. TypeOK'
  <2>1. Revision \in Nat
    BY <1>0, LenProperties DEF Revision, StoreTypeOK
  <2>2. InformerTypeOK'
    BY <1>0, <1>2, <1>5, <2>1 DEF InformerTypeOK
  <2> QED BY <1>0, <1>2, <1>5, <1>6, <2>2, FrameType DEF TypeOK
<1>8. TiedInv'
  <2>1. StoreTied' /\ EventsTied'
        /\ \A k \in Names, c \in Cluster :
             TiedTo(store[k], Revision, c) => TiedTo(store'[k], Revision', c)
    BY <1>0, <1>2, ServerKeepsTied DEF TiedInv
  <2>2. CacheTied' /\ (cur' # NoCluster => TiedTo(store'[key'], Revision', cur'))
    BY <1>4, <1>6, ViewsTiedNext
  <2>3. toUpdate # NoCluster => key \in Names /\ toUpdate \in Cluster
    BY <1>0 DEF WorkerTypeOK
  <2>4. toUpdate' # NoCluster => TiedTo(store'[key'], Revision', toUpdate')
    BY <1>0, <1>5, <2>1, <2>3 DEF TiedInv, WorkerTied
  <2> QED BY <2>1, <2>2, <2>4 DEF TiedInv, WorkerTied
<1>9. HandInv'
  <2>1. shared' => cache'[key'] = cur'
    <3> SUFFICES ASSUME shared PROVE cache'[key'] = cur'
      BY <1>5
    <3>1. cur \in Cluster /\ key \in Names
      BY <1>0 DEF HandInv, WorkerTypeOK
    <3>2. cur' # NoCluster
      BY <1>0, <1>5, <3>1 DEF EditOf
    <3>3. curAt' # Nil /\ cur' = heap'[curAt'] /\ at'[key'] = curAt'
      BY <1>4, <1>5, <3>2 DEF MemoryInv, WorkerView
    <3> QED BY <1>4, <1>5, <3>1, <3>3 DEF MemoryInv, CacheView
  <2>2. cur'.deleting = cur.deleting /\ cur'.path = cur.path
    BY <1>5 DEF EditOf, SameOutside
  <2> QED BY <1>0, <1>5, <2>1, <2>2 DEF HandInv, Guarded
<1>10. WritesGuarded'
  <2>1. Guarded(cur) => Guarded(cur')
    BY <1>5 DEF EditOf, Guarded
  <2> QED BY <1>0, <1>5, <2>1 DEF GuardInv, WritesGuarded, Guarded
<1>11. Told'
  <2>1. ASSUME NEW k \in Names, Owed(k)' PROVE Owed(k)
    <3>1. /\ store'[k] # NoCluster /\ store'[k].deleting /\ Guarded(store'[k]) /\ syncing
          /\ cache'[k] # NoCluster /\ cache'[k].deleting /\ cache'[k].uid = store'[k].uid
      BY <1>5, <2>1 DEF Owed, ToBeFinalized, Exists, Guarded, Cached
    <3>2. cache[k] # NoCluster /\ cache[k].deleting /\ cache[k].uid = store'[k].uid
      BY <1>0, <1>4, <3>1 DEF HandlerLeaves, EditOf, SameOutside
    <3>3. HandlersWrite(k)
      BY <1>2
    <3>4. /\ store[k] # NoCluster /\ store[k].deleting /\ Guarded(store[k])
          /\ store[k].uid = store'[k].uid
      BY <3>1, <3>3 DEF HandlersWrite, SameOutside, Exists, Guarded
    <3> QED BY <3>1, <3>2, <3>4 DEF Owed, ToBeFinalized, Exists, Cached
  <2>2. \A k \in Names : InHand(k) => InHand(k)'
    BY <1>5 DEF InHand
  <2>3. dirty \subseteq dirty' /\ UNCHANGED notified
    BY <1>5
  <2> QED BY <1>0, <2>1, <2>2, <2>3, ToldFrame
<1>12. LeavingInv'
  <2>1. GuardStays
    BY <1>0, <1>2 DEF GuardStays, HandlersWrite, SameOutside, Exists, Guarded
  <2> QED BY <1>0, <1>2, <1>5, <2>1, LeavingKept
<1>13. AllInv'
  BY <1>2, <1>3, <1>4, <1>7, <1>8, <1>9, <1>10, <1>11, <1>12
     DEF AllInv, ProvisionerInv, HistoryInv, GuardInv
<1>14. UNCHANGED <<Built, Removed>>
  <2>1. pc = "release" => cur'.path = cur.path
    BY <1>5 DEF EditOf, SameOutside
  <2> QED BY <1>5, <2>1 DEF Built, Removed
<1> QED BY <1>2, <1>5, <1>13, <1>14 DEF HandlersStep
-----------------------------------------------------------------------------
(* When the process first starts nobody holds anything.                    *)
LEMMA AllInitInv == AllInit => AllInv
<1> SUFFICES ASSUME Init, HandlersInit PROVE AllInv
  BY DEF AllInit
<1>1. ProvisionerInv
  BY TypeInit, HistoryInit, GuardInit DEF ProvisionerInv
<1>2. /\ heap = [i \in Ids |-> NoCluster] /\ at = [k \in Names |-> Nil] /\ curAt = Nil
      /\ inbox = [c \in Controllers |-> <<>>] /\ task = [p \in Procs |-> Idle]
      /\ kubeconfigs \in [Names -> {NoKubeconfig} \cup OldKubeconfigs]
      /\ cache = [k \in Names |-> NoCluster] /\ cur = NoCluster
      /\ store = [k \in Names |-> NoCluster] /\ events = <<>>
  BY DEF HandlersInit, Init, StoreInit
<1>3. OneName /\ HeapInv
  BY <1>2, NothingInMemory DEF OneName, HeapInv
<1>4. MemoryTypeOK /\ CacheView /\ WorkerView
  BY <1>2 DEF MemoryTypeOK, CacheView, WorkerView, Pointer
<1>5. ListenerTypeOK
  <2>1. inbox \in [Controllers -> Seq(Notification)] /\ task \in [Procs -> Task]
    BY <1>2, EmptySeq, IdleType
  <2>2. \A p \in LeftOver : [owner |-> 0, rv |-> 1, path |-> getKubeConfigPath(p)] \in Kubeconfig
    BY HandlersAssumption DEF Kubeconfig, KubeconfigFile, getKubeConfigPath
  <2>3. OldKubeconfigs \subseteq Kubeconfig
    BY <2>2 DEF OldKubeconfigs
  <2> QED BY <1>2, <2>1, <2>3 DEF ListenerTypeOK
<1>6. TaskInv
  BY <1>2, IdleType DEF TaskInv, Held
<1>7. LogInv
  BY <1>2 DEF LogInv, Exists
<1> QED BY <1>1, <1>3, <1>4, <1>5, <1>6, <1>7 DEF AllInv, MemoryInv

(* A step of the whole system is one of the provisioner's side or of a     *)
(* handler; either keeps the invariant.                                    *)
LEMMA AllSteps ==
  ASSUME AllInv, [AllNext]_allVars
  PROVE  /\ AllInv'
         /\ \/ [Next]_vars
            \/ HandlersStep
<1>1. CASE \E p \in Procs : HandlerStep(p)
  BY <1>1, HandlerAll
<1>2. CASE \/ WorkerStep
           \/ \E r \in Reflectors : ListStep(r) \/ DeliverStep(r)
           \/ ResyncStep \/ OtherStep \/ CrashStep \/ UNCHANGED allVars
  BY <1>2, ProvisionerAll
<1> QED BY <1>1, <1>2 DEF AllNext

(* So it always holds.                                                     *)
LEMMA AllHolds == AllSpec => []AllInv
<1>1. AllInv /\ [AllNext]_allVars => AllInv'
  BY AllSteps
<1> QED BY <1>1, AllInitInv, PTL DEF AllSpec

(* HandlersTypeOK: the memory, the notifications, the handlers and the     *)
(* Kubeconfigs are well-typed, and the object the provisioner reads from   *)
(* the cache, or has in its hands, is the one its pointer leads to.        *)
THEOREM HandlersTypeCorrect == AllSpec => []HandlersTypeOK
<1>1. AllInv => HandlersTypeOK
  BY DEF AllInv, ProvisionerInv, MemoryInv, MemoryTypeOK, ListenerTypeOK, CacheView, WorkerView,
         HandlersTypeOK
<1> QED BY <1>1, AllHolds, PTL

(* CacheKeepsServersPart: four controllers write through pointers to the   *)
(* cached objects, and not one of them ever touches the uid, the config    *)
(* path, the deletion mark or the annotation the server stored.            *)
THEOREM ServersPartKept == AllSpec => []CacheKeepsServersPart
<1>1. ASSUME AllInv, NEW k \in Names, Cached(k)
      PROVE  LET c == cache[k]
                 e == events[c.rv].obj
             IN  c.uid = e.uid /\ c.path = e.path /\ c.deleting = e.deleting
                   /\ c.version = e.version
  <2>1. at[k] \in Ids /\ cache[k] = heap[at[k]] /\ Points(k, at[k])
    BY <1>1 DEF Cached, AllInv, MemoryInv, CacheView, MemoryTypeOK, Pointer, Points
  <2>2. FromLog(events, k, cache[k]) /\ SameVersion(events, cache[k])
    BY <1>1, <2>1 DEF AllInv, MemoryInv, HeapInv, IsCopy
  <2> QED BY <2>2 DEF FromLog, SameVersion, SameOutside
<1>2. AllInv => CacheKeepsServersPart
  BY <1>1 DEF CacheKeepsServersPart
<1> QED BY <1>2, AllHolds, PTL

(* StatusIsGuarded also when the other controllers PUT the objects the     *)
(* provisioner is writing into: in memory the finalizer comes before the   *)
(* status, so no copy anybody can send has the one without the other.      *)
THEOREM StatusGuardedWithHandlers == AllSpec => []StatusIsGuarded
<1>1. AllInv => StatusIsGuarded
  BY DEF AllInv, ProvisionerInv, GuardInv, StoreGuarded, StatusGuarded, StatusIsGuarded
<1> QED BY <1>1, AllHolds, PTL

(* NoForgottenDeletion also when they edit the cached objects and PUT them.*)
THEOREM DeletionNotForgottenWithHandlers == AllSpec => []NoForgottenDeletion
<1>1. AllInv => NoForgottenDeletion
  BY DEF AllInv, ProvisionerInv, HistoryInv, Told, Owed, InHand, NoForgottenDeletion
<1> QED BY <1>1, AllHolds, PTL

(* NoLostUpdate of all four controllers: the healthchecker and the         *)
(* annotator PUT whole objects, of whatever age, and take nothing back     *)
(* that a user or another client has written.                              *)
THEOREM UpdatesNotLostWithHandlers == AllSpec => NoLostUpdate
<1>1. ASSUME AllInv, [AllNext]_allVars,
             NEW k \in Names, userSteps' = userSteps, Exists(k), store'[k] # NoCluster
      PROVE  /\ store'[k].path = store[k].path
             /\ store'[k].deleting = store[k].deleting
             /\ store'[k].finalizers \ {ProvisionerFinalizer}
                  = store[k].finalizers \ {ProvisionerFinalizer}
  <2>1. CASE [Next]_vars
    BY <1>1, <2>1, NothingTakenBack DEF AllInv, ProvisionerInv
  <2>2. CASE HandlersWrite(k)
    BY <1>1, <2>2 DEF HandlersWrite, SameOutside, Foreign
  <2> QED BY <1>1, <2>1, <2>2, AllSteps DEF HandlersStep
<1>2. AllInv /\ [AllNext]_allVars
        => [\A k \in Names :
              (userSteps' = userSteps /\ Exists(k) /\ store'[k] # NoCluster)
                => /\ store'[k].path = store[k].path
                   /\ store'[k].deleting = store[k].deleting
                   /\ store'[k].finalizers \ {ProvisionerFinalizer}
                        = store[k].finalizers \ {ProvisionerFinalizer}]_vars
  BY <1>1
<1> QED BY <1>2, AllHolds, PTL DEF AllSpec, NoLostUpdate

(* ReleasedOnlyAfterCleanup of all four controllers: no PUT of a handler   *)
(* takes the provisioner's finalizer off, not even of a copy from before   *)
(* it was put on.                                                          *)
THEOREM ReleasedAfterCleanupWithHandlers == AllSpec => ReleasedOnlyAfterCleanup
<1>1. ASSUME AllInv, [AllNext]_allVars,
             NEW k \in Names, Exists(k), Guarded(store[k]),
             ~(store'[k] # NoCluster /\ store'[k].uid = store[k].uid /\ Guarded(store'[k]))
      PROVE  key = k /\ infra[cur.path] = NoInfra
  <2>1. CASE [Next]_vars
    BY <1>1, <2>1, ReleaseStep DEF AllInv, ProvisionerInv
  <2>2. ~HandlersWrite(k)
    BY <1>1, ProvisionerAssumption DEF HandlersWrite, SameOutside, Exists
  <2> QED BY <1>1, <2>1, <2>2, AllSteps DEF HandlersStep
<1>2. AllInv /\ [AllNext]_allVars
        => [\A k \in Names :
              (Exists(k) /\ Guarded(store[k])
                 /\ ~(store'[k] # NoCluster /\ store'[k].uid = store[k].uid /\ Guarded(store'[k])))
                => key = k /\ infra[cur.path] = NoInfra]_vars
  BY <1>1
<1> QED BY <1>2, AllHolds, PTL DEF AllSpec, ReleasedOnlyAfterCleanup

(* A handler's step in the life of a cluster: it may store the finalizer   *)
(* the provisioner has so far only put on the cached object.               *)
LEMMA HandlersLife ==
  ASSUME AllInv, HandlersStep
  PROVE  [Life!LifeNext]_(Life!lifeVars)
<1>0. /\ StoreTypeOK /\ NoCluster \notin Cluster /\ LifeOfAll \in [Names -> Life!Stages]
      /\ \A k \in Names : LifeOfAll[k] = LifeOf(store[k])
  BY ProvisionerAssumption
     DEF AllInv, ProvisionerInv, TypeOK, LifeOfAll, LifeOf, Life!Stages
<1>1. UNCHANGED <<Built, Removed>>
  BY DEF HandlersStep
<1>2. CASE UNCHANGED store
  BY <1>1, <1>2 DEF Life!lifeVars, LifeOfAll
<1>3. ASSUME NEW k \in Names, NEW o, store' = [store EXCEPT ![k] = o]
      PROVE  [Life!LifeNext]_(Life!lifeVars)
  <2>1. LifeOfAll' = [LifeOfAll EXCEPT ![k] = LifeOf(store'[k])]
    BY <1>0, <1>3 DEF LifeOfAll, StoreTypeOK
  <2>2. HandlersWrite(k)
    BY DEF HandlersStep
  <2>3. CASE store'[k] = store[k]
    BY <1>0, <1>1, <2>1, <2>3 DEF Life!lifeVars
  <2>4. CASE Exists(k) /\ store'[k] = NoCluster /\ ~Guarded(store[k])
    <3>1. LifeOf(store'[k]) = "absent" /\ LifeOfAll[k] \in {"free", "released"}
      BY <1>0, <2>4 DEF LifeOf, Exists
    <3>2. Life!Delete(k) \/ Life!Vanish(k)
      BY <1>1, <2>1, <3>1 DEF Life!Delete, Life!Vanish, Life!Becomes
    <3> QED BY <3>2 DEF Life!LifeNext
  <2>5. CASE /\ Exists(k) /\ store'[k] \in Cluster /\ SameOutside(store[k], store'[k])
             /\ Guarded(store[k]) => Guarded(store'[k])
             /\ store'[k].deleting => store[k].finalizers = store'[k].finalizers
    <3>1. \/ LifeOfAll[k] = "free" /\ LifeOf(store'[k]) = "guarded"
          \/ LifeOf(store'[k]) = LifeOfAll[k]
      BY <1>0, <2>5 DEF LifeOf, Exists, SameOutside, Guarded
    <3>2. Life!Guard(k) \/ UNCHANGED Life!lifeVars
      BY <1>0, <1>1, <2>1, <3>1 DEF Life!Guard, Life!Becomes, Life!lifeVars
    <3> QED BY <3>2 DEF Life!LifeNext
  <2> QED BY <2>2, <2>3, <2>4, <2>5 DEF HandlersWrite
<1>4. \A e \in Event : e.key \in Names
  BY DEF Event
<1> QED BY <1>2, <1>3, <1>4 DEF HandlersStep, LogStep

(* ImplementsClusterLife of all four controllers: the PUTs of the handlers *)
(* add no step that ClusterLife does not have.                             *)
THEOREM ControllersImplementClusterLife == AllSpec => ImplementsClusterLife
<1>1. AllInit => Life!LifeInit
  BY DEF AllInit, Init, StoreInit, Life!LifeInit, LifeOfAll, LifeOf, Built, Removed
<1>2. AllInv /\ [AllNext]_allVars => [Life!LifeNext]_(Life!lifeVars)
  BY AllSteps, LifeStep, HandlersLife DEF AllInv, ProvisionerInv
<1> QED BY <1>1, <1>2, AllHolds, PTL DEF AllSpec, ImplementsClusterLife, Life!LifeSpec
=============================================================================
