-------------------------- MODULE ProvisionerProofs --------------------------
(***************************************************************************)
(* Theorems about the provisioner for every set of names, paths, contents  *)
(* and reflectors and for every bound on user steps, faults and crashes.   *)
(***************************************************************************)
EXTENDS Provisioner, ClusterStoreProofs

(* Add (queue.go) leaves the queue well-typed.                             *)
LEMMA QueueAddType ==
  ASSUME WQ!QueueTypeOK, NEW k \in Names, WQ!Add(k)
  PROVE  WQ!QueueTypeOK'
<1>1. Append(queue, k) \in Seq(Names)
  BY AppendProperties DEF WQ!QueueTypeOK
<1> QED BY <1>1 DEF WQ!QueueTypeOK, WQ!Add

(* Get (queue.go) hands out a key and leaves the queue well-typed.         *)
LEMMA QueueGetType ==
  ASSUME WQ!QueueTypeOK, NEW k \in Names, WQ!Get(k)
  PROVE  WQ!QueueTypeOK'
<1>1. Tail(queue) \in Seq(Names)
  BY HeadTailProperties DEF WQ!QueueTypeOK, WQ!Get
<1> QED BY <1>1 DEF WQ!QueueTypeOK, WQ!Get

(* Done (queue.go) leaves the queue well-typed.                            *)
LEMMA QueueDoneType ==
  ASSUME WQ!QueueTypeOK, NEW k \in Names, WQ!Done(k)
  PROVE  WQ!QueueTypeOK'
<1>1. Append(queue, k) \in Seq(Names)
  BY AppendProperties DEF WQ!QueueTypeOK
<1> QED BY <1>1 DEF WQ!QueueTypeOK, WQ!Done

(* Parts of the state a step leaves alone keep their types. *)
LEMMA FrameType ==
  /\ StoreTypeOK /\ UNCHANGED storeVars => StoreTypeOK' /\ UNCHANGED Revision
  /\ WQ!QueueTypeOK /\ UNCHANGED queueVars => WQ!QueueTypeOK'
  /\ InformerTypeOK /\ UNCHANGED informerVars /\ UNCHANGED Revision => InformerTypeOK'
  /\ WorkerTypeOK /\ UNCHANGED workerVars => WorkerTypeOK'
  /\ WorldTypeOK /\ UNCHANGED worldVars => WorldTypeOK'
<1>1. StoreTypeOK /\ UNCHANGED storeVars => StoreTypeOK' /\ UNCHANGED Revision
  BY DEF StoreTypeOK, storeVars, Revision
<1>2. WQ!QueueTypeOK /\ UNCHANGED queueVars => WQ!QueueTypeOK'
  BY DEF WQ!QueueTypeOK, queueVars
<1>3. InformerTypeOK /\ UNCHANGED informerVars /\ UNCHANGED Revision => InformerTypeOK'
  BY DEF InformerTypeOK, informerVars
<1>4. WorkerTypeOK /\ UNCHANGED workerVars => WorkerTypeOK'
  BY DEF WorkerTypeOK, workerVars, localVars
<1>5. WorldTypeOK /\ UNCHANGED worldVars => WorldTypeOK'
  BY DEF WorldTypeOK, worldVars
<1> QED BY <1>1, <1>2, <1>3, <1>4, <1>5

(* New events do not disturb the positions of the reflectors.              *)
LEMMA InformerGrows ==
  ASSUME StoreTypeOK, InformerTypeOK, UNCHANGED informerVars,
         Revision' \in {Revision, Revision + 1}
  PROVE  InformerTypeOK'
<1>1. Revision \in Nat
  BY LenProperties DEF Revision, StoreTypeOK
<1> QED BY <1>1 DEF InformerTypeOK, informerVars

(* The process starts, over any config files, in a well-typed state.       *)
LEMMA TypeInit == Init => TypeOK
<1> SUFFICES ASSUME Init PROVE TypeOK
  OBVIOUS
<1>1. StoreTypeOK
  BY StoreInitType DEF Init
<1>2. WQ!QueueTypeOK
  BY EmptySeq DEF Init, WQ!QueueInit, WQ!QueueTypeOK
<1>3. InformerTypeOK
  <2>1. Revision = 0
    BY EmptySeq DEF Init, StoreInit, Revision
  <2> QED BY <2>1 DEF Init, InformerTypeOK
<1>4. WorkerTypeOK
  <2>1. pc = "idle" /\ key = NoKey /\ cur = NoCluster /\ shared = FALSE
    BY DEF Init
  <2>2. config = NoConfig /\ applying = NoConfig /\ tries = 0 /\ toUpdate = NoCluster
    BY DEF Init
  <2>3. pc \in WorkerStates /\ shared \in BOOLEAN
    BY <2>1 DEF WorkerStates
  <2>4. tries \in 0..(MaxTries - 1)
    BY <2>2 DEF MaxTries
  <2>5. config \in Contents \cup {NoConfig} /\ applying \in Contents \cup {NoConfig, Missing}
    BY <2>2
  <2> QED BY <2>1, <2>2, <2>3, <2>4, <2>5 DEF WorkerTypeOK
<1>5. WorldTypeOK
  BY DEF Init, WorldTypeOK
<1> QED BY <1>1, <1>2, <1>3, <1>4, <1>5 DEF TypeOK

(* A failed request, watch or rke run only counts. *)
LEMMA FaultType ==
  ASSUME StoreTypeOK, UNCHANGED <<store, events>>, Fault \/ UNCHANGED faults
  PROVE  StoreTypeOK' /\ UNCHANGED Revision
BY DEF StoreTypeOK, Fault, Revision

(* A worker that drops its locals and is idle or done is well-typed.       *)
LEMMA ForgetType ==
  ASSUME WorkerTypeOK, pc' \in {"idle", "done"}, Forget,
         IF pc' = "idle" THEN key' = NoKey ELSE key' \in Names
  PROVE  WorkerTypeOK'
<1>1. cur' = NoCluster /\ toUpdate' = NoCluster /\ pc' \in {"idle", "lookup", "done"}
      /\ pc' \notin {"rkeRemove", "release"}
  BY DEF Forget
<1>2. shared' \in BOOLEAN /\ pc' \in WorkerStates
  BY DEF Forget, WorkerStates
<1>3. config' \in Contents \cup {NoConfig} /\ applying' \in Contents \cup {NoConfig, Missing}
  BY DEF Forget
<1>4. tries' \in 0..(MaxTries - 1)
  BY DEF Forget, MaxTries
<1> QED BY <1>1, <1>2, <1>3, <1>4 DEF WorkerTypeOK

(* sync returning without an error keeps the worker well-typed.            *)
LEMMA ReturnType ==
  ASSUME WorkerTypeOK, pc # "idle", Return
  PROVE  WorkerTypeOK'
<1>1. key' \in Names /\ pc' = "done" /\ Forget
  BY DEF Return, Goto, WorkerTypeOK
<1> QED BY <1>1, ForgetType

(* sync returning with an error requeues a cluster name, never NoKey.      *)
LEMMA RequeueType ==
  ASSUME WQ!QueueTypeOK, WorkerTypeOK, pc # "idle", Requeue
  PROVE  WQ!QueueTypeOK' /\ WorkerTypeOK'
<1>1. key \in Names
  BY DEF WorkerTypeOK
<1> QED BY <1>1, QueueAddType, ReturnType DEF Requeue

(* A write through the worker's pointer keeps the cache well-typed. *)
LEMMA CacheWriteType ==
  ASSUME InformerTypeOK, key \in Names, NEW o \in Cluster,
         cache' = IF shared THEN [cache EXCEPT ![key] = o] ELSE cache,
         UNCHANGED <<listed, syncing, pos, notified>>, UNCHANGED Revision
  PROVE  InformerTypeOK'
BY DEF InformerTypeOK

(* A starting rke reads a file content and leaves every path well-typed. *)
LEMMA RkeType ==
  ASSUME WorldTypeOK, cur \in Cluster, RkeStarts, UNCHANGED <<file, userSteps>>
  PROVE  WorldTypeOK' /\ applying' \in Contents \cup {NoConfig, Missing}
<1>1. cur.path \in Paths
  BY DEF Cluster
<1>2. applying' \in Contents \cup {NoConfig, Missing}
  BY <1>1 DEF RkeStarts, WorldTypeOK
<1>3. infra' \in [Paths -> Contents \cup {NoConfig, NoInfra, Partial}]
  BY <1>1 DEF RkeStarts, WorldTypeOK
<1> QED BY <1>2, <1>3 DEF WorldTypeOK

(* The worker moves on with its object in hand. *)
LEMMA GotoType ==
  ASSUME WorkerTypeOK, pc # "idle", cur' \in Cluster,
         NEW label \in WorkerStates \ {"idle", "lookup", "done", "rkeRemove", "release"},
         Goto(label), shared' \in BOOLEAN,
         config' \in Contents \cup {NoConfig}, applying' \in Contents \cup {NoConfig, Missing},
         tries' \in 0..(MaxTries - 1), toUpdate' = NoCluster
  PROVE  WorkerTypeOK'
BY DEF WorkerTypeOK, Goto
-----------------------------------------------------------------------------
(* The steps of the informer. *)
LEMMA InformerStepType == TypeOK /\ Informer => TypeOK'
<1> SUFFICES ASSUME TypeOK, Informer PROVE TypeOK'
  OBVIOUS
<1> USE DEF TypeOK
<1>0. Revision \in Nat
  BY LenProperties DEF Revision, StoreTypeOK
<1>1. ASSUME NEW r \in Reflectors, List(r) PROVE TypeOK'
  <2>1. StoreTypeOK' /\ WQ!QueueTypeOK' /\ WorldTypeOK' /\ UNCHANGED Revision
    BY <1>1, FrameType DEF List
  <2>2. cache' \in [Names -> Cluster \cup {NoCluster}]
    BY <1>1 DEF List, StoreTypeOK
  <2>3. notified' \in [Names -> Nat]
    BY <1>1 DEF List, InformerTypeOK
  <2>4. pos' \in [Reflectors -> Nat] /\ \A q \in Reflectors : pos'[q] <= Revision'
    BY <1>0, <1>1, <2>1 DEF List, InformerTypeOK
  <2>5. listed' \in SUBSET Reflectors /\ syncing' \in BOOLEAN
    BY <1>1 DEF List, InformerTypeOK
  <2>6. WorkerTypeOK'
    BY <1>1 DEF List, WorkerTypeOK, localVars
  <2> QED BY <2>1, <2>2, <2>3, <2>4, <2>5, <2>6 DEF InformerTypeOK
<1>2. ASSUME NEW r \in Reflectors, Deliver(r) PROVE TypeOK'
  <2> DEFINE e == events[pos[r] + 1]
  <2>1. StoreTypeOK' /\ WQ!QueueTypeOK' /\ WorldTypeOK' /\ UNCHANGED Revision
    BY <1>2, FrameType DEF Deliver
  <2>2. pos[r] + 1 \in 1..Revision
    BY <1>0, <1>2 DEF Deliver, InformerTypeOK
  <2>3. e \in Event
    BY <2>2, ElementOfSeq DEF StoreTypeOK, Revision
  <2>4. e.key \in Names /\ e.obj \in Cluster
    BY <2>3 DEF Event
  <2> HIDE DEF e
  <2>5. cache' \in [Names -> Cluster \cup {NoCluster}]
    BY <1>2, <2>4 DEF Deliver, InformerTypeOK, e
  <2>6. notified' \in [Names -> Nat]
    BY <1>2, <2>4 DEF Deliver, InformerTypeOK, e
  <2>7. pos' \in [Reflectors -> Nat] /\ \A q \in Reflectors : pos'[q] <= Revision'
    BY <1>0, <1>2, <2>1 DEF Deliver, InformerTypeOK
  <2>8. listed' \in SUBSET Reflectors /\ syncing' \in BOOLEAN
    BY <1>2 DEF Deliver, InformerTypeOK
  <2>9. shared' \in BOOLEAN
    BY <1>2 DEF Deliver
  <2>10. UNCHANGED <<pc, key, cur, config, applying, tries, toUpdate>>
    BY <1>2 DEF Deliver, localVars
  <2>11. WorkerTypeOK'
    BY <2>9, <2>10 DEF WorkerTypeOK
  <2> QED BY <2>1, <2>5, <2>6, <2>7, <2>8, <2>11 DEF InformerTypeOK
<1>3. ASSUME NEW r \in Reflectors, WatchBreaks(r) PROVE TypeOK'
  <2>1. StoreTypeOK' /\ UNCHANGED Revision
    BY <1>3, FaultType DEF WatchBreaks
  <2>2. WQ!QueueTypeOK' /\ WorkerTypeOK' /\ WorldTypeOK'
    BY <1>3, FrameType DEF WatchBreaks
  <2>3. InformerTypeOK'
    BY <1>3, <2>1 DEF WatchBreaks, InformerTypeOK
  <2> QED BY <2>1, <2>2, <2>3
<1>4. CASE Resync
  <2>1. StoreTypeOK' /\ WQ!QueueTypeOK' /\ WorkerTypeOK' /\ WorldTypeOK' /\ UNCHANGED Revision
    BY <1>4, FrameType DEF Resync
  <2>2. InformerTypeOK'
    BY <1>4, <2>1 DEF Resync, InformerTypeOK
  <2> QED BY <2>1, <2>2
<1>5. CASE ResyncNotDue
  <2>1. StoreTypeOK' /\ WQ!QueueTypeOK' /\ WorkerTypeOK' /\ WorldTypeOK' /\ UNCHANGED Revision
    BY <1>5, FrameType DEF ResyncNotDue
  <2>2. InformerTypeOK'
    BY <1>5, <2>1 DEF ResyncNotDue, InformerTypeOK
  <2> QED BY <2>1, <2>2
<1>6. ASSUME NEW k \in Names, Enqueue(k) PROVE TypeOK'
  <2>1. StoreTypeOK' /\ WorkerTypeOK' /\ WorldTypeOK' /\ UNCHANGED Revision
    BY <1>6, FrameType DEF Enqueue
  <2>2. WQ!QueueTypeOK'
    BY <1>6, QueueAddType DEF Enqueue
  <2>3. InformerTypeOK'
    BY <1>6, <2>1 DEF Enqueue, InformerTypeOK
  <2> QED BY <2>1, <2>2, <2>3
<1> QED BY <1>1, <1>2, <1>3, <1>4, <1>5, <1>6 DEF Informer
-----------------------------------------------------------------------------
(* The steps of the worker, in three lemmas.  The first: taking a key, the *)
(* lister, and handleClusterAdd up to the end of initialize.               *)
LEMMA PrepareStepType ==
  ASSUME TypeOK,
         \/ \E k \in Names : TakeKey(k)
         \/ SyncMissing \/ SyncFound
         \/ ConfigUnreadable \/ ConfigUnchanged \/ ConfigChanged
         \/ SyncReturns
  PROVE  TypeOK'
<1> USE DEF TypeOK
<1>1. ASSUME NEW k \in Names, TakeKey(k) PROVE TypeOK'
  <2>1. StoreTypeOK' /\ InformerTypeOK' /\ WorldTypeOK'
    BY <1>1, FrameType DEF TakeKey
  <2>2. WQ!QueueTypeOK'
    BY <1>1, QueueGetType DEF TakeKey
  <2>3. pc = "idle" /\ pc' = "lookup" /\ key' \in Names
    BY <1>1 DEF TakeKey
  <2>4. UNCHANGED <<cur, shared, config, applying, tries, toUpdate>>
    BY <1>1 DEF TakeKey, localVars
  <2>5. WorkerTypeOK'
    BY <2>3, <2>4 DEF WorkerTypeOK, WorkerStates
  <2> QED BY <2>1, <2>2, <2>5
<1>2. CASE SyncMissing
  <2>1. StoreTypeOK' /\ InformerTypeOK' /\ WorldTypeOK'
    BY <1>2, FrameType DEF SyncMissing
  <2> QED BY <1>2, <2>1, RequeueType DEF SyncMissing
<1>3. CASE SyncFound
  <2>1. StoreTypeOK' /\ WQ!QueueTypeOK' /\ InformerTypeOK' /\ WorldTypeOK'
    BY <1>3, FrameType DEF SyncFound
  <2>2. cur' \in Cluster
    BY <1>3 DEF SyncFound, Cached, InformerTypeOK, WorkerTypeOK
  <2>3. pc # "idle" /\ pc \notin {"rkeRemove", "release"} /\ shared' \in BOOLEAN
        /\ UNCHANGED <<config, applying, tries, toUpdate>>
    BY <1>3 DEF SyncFound, localVars
  <2>4. WorkerTypeOK'
    <3>1. CASE Goto("finalize")
      BY <2>2, <2>3, <3>1, GotoType DEF WorkerTypeOK, WorkerStates
    <3>2. CASE Goto("compare")
      BY <2>2, <2>3, <3>2, GotoType DEF WorkerTypeOK, WorkerStates
    <3> QED BY <1>3, <3>1, <3>2 DEF SyncFound
  <2> QED BY <2>1, <2>4
<1>4. CASE ConfigUnreadable
  <2>1. StoreTypeOK' /\ InformerTypeOK' /\ WorldTypeOK'
    BY <1>4, FrameType DEF ConfigUnreadable
  <2> QED BY <1>4, <2>1, RequeueType DEF ConfigUnreadable
<1>5. CASE ConfigUnchanged
  <2>1. StoreTypeOK' /\ WQ!QueueTypeOK' /\ InformerTypeOK' /\ WorldTypeOK'
    BY <1>5, FrameType DEF ConfigUnchanged
  <2> QED BY <1>5, <2>1, ReturnType DEF ConfigUnchanged
<1>6. CASE ConfigChanged
  <2> DEFINE o == [cur EXCEPT !.finalizers = @ \cup {ProvisionerFinalizer}]
  <2>1. StoreTypeOK' /\ WQ!QueueTypeOK' /\ WorldTypeOK' /\ UNCHANGED Revision
    BY <1>6, FrameType DEF ConfigChanged
  <2>2. cur \in Cluster /\ key \in Names /\ pc = "compare"
    BY <1>6 DEF ConfigChanged, WorkerTypeOK
  <2>3. o \in Cluster
    BY <2>2 DEF Cluster
  <2>4. cur' = o /\ cache' = IF shared THEN [cache EXCEPT ![key] = o] ELSE cache
    BY <1>6 DEF ConfigChanged, WriteThrough
  <2>5. UNCHANGED <<listed, syncing, pos, notified, shared, applying, tries, toUpdate>>
    BY <1>6 DEF ConfigChanged
  <2> HIDE DEF o
  <2>6. InformerTypeOK'
    BY <2>1, <2>2, <2>3, <2>4, <2>5, CacheWriteType
  <2>7. cur.path \in Paths
    BY <2>2 DEF Cluster
  <2>8. config' \in Contents \cup {NoConfig}
    BY <1>6, <2>7 DEF ConfigChanged, WorldTypeOK
  <2>9. WorkerTypeOK'
    <3>1. CASE Goto("provision")
      BY <2>2, <2>3, <2>4, <2>5, <2>8, <3>1, GotoType DEF WorkerTypeOK, WorkerStates
    <3>2. CASE Goto("initialize")
      BY <2>2, <2>3, <2>4, <2>5, <2>8, <3>2, GotoType DEF WorkerTypeOK, WorkerStates
    <3> QED BY <1>6, <3>1, <3>2 DEF ConfigChanged
  <2> QED BY <2>1, <2>6, <2>9
<1>7. CASE SyncReturns
  <2>1. StoreTypeOK' /\ InformerTypeOK' /\ WorldTypeOK'
    BY <1>7, FrameType DEF SyncReturns
  <2>2. pc = "done" /\ key \in Names /\ cur = NoCluster
    BY <1>7 DEF SyncReturns, WorkerTypeOK
  <2>3. WQ!QueueTypeOK'
    BY <1>7, <2>2, QueueDoneType DEF SyncReturns
  <2>4. pc' = "idle" /\ key' = NoKey /\ UNCHANGED <<cur, shared, config, applying, tries, toUpdate>>
    BY <1>7 DEF SyncReturns, localVars
  <2>5. WorkerTypeOK'
    BY <2>2, <2>4 DEF WorkerTypeOK, WorkerStates
  <2> QED BY <2>1, <2>3, <2>5
<1> QED BY <1>1, <1>2, <1>3, <1>4, <1>5, <1>6, <1>7

(* The steps of handleClusterAdd from rke up to the recorded config.       *)
LEMMA ProvisionStepType ==
  ASSUME TypeOK,
         \/ TryUpdate("initialize") \/ Initialized
         \/ StartUp \/ UpSucceeds \/ UpFails
         \/ TryUpdate("applied") \/ AppliedConfigUpdated
  PROVE  TypeOK'
<1> USE DEF TypeOK
<1>1. ASSUME pc \in {"initialize", "applied"}, UpdateSucceeds(key, cur) \/ UpdateFails(key, cur),
             UNCHANGED <<queueVars, informerVars, worldVars>>
      PROVE  StoreTypeOK' /\ WQ!QueueTypeOK' /\ InformerTypeOK' /\ WorldTypeOK'
  <2>1. key \in Names /\ cur \in Cluster
    BY <1>1 DEF WorkerTypeOK
  <2>2. StoreTypeOK' /\ Revision' \in {Revision, Revision + 1}
    BY <1>1, <2>1, UpdateType
  <2> QED BY <1>1, <2>2, FrameType, InformerGrows
<1>2. ASSUME NEW here \in {"initialize", "applied"}, TryUpdate(here) PROVE TypeOK'
  <2>1. StoreTypeOK' /\ WQ!QueueTypeOK' /\ InformerTypeOK' /\ WorldTypeOK'
    BY <1>1, <1>2 DEF TryUpdate
  <2>2. tries' \in 0..(MaxTries - 1)
    BY <1>2 DEF TryUpdate, WorkerTypeOK, MaxTries
  <2>3. WorkerTypeOK'
    BY <1>2, <2>2 DEF TryUpdate, WorkerTypeOK
  <2> QED BY <2>1, <2>3
<1>3. CASE Initialized
  <2>1. StoreTypeOK' /\ WQ!QueueTypeOK' /\ InformerTypeOK' /\ WorldTypeOK'
    BY <1>1, <1>3 DEF Initialized, LeaveUpdate
  <2>2. pc = "initialize" /\ Goto("provision") /\ tries' = 0
        /\ UNCHANGED <<cur, shared, config, applying, toUpdate>>
    BY <1>3 DEF Initialized, LeaveUpdate
  <2>3. tries' \in 0..(MaxTries - 1)
    BY <2>2 DEF MaxTries
  <2>4. WorkerTypeOK'
    BY <2>2, <2>3, GotoType DEF WorkerTypeOK, WorkerStates
  <2> QED BY <2>1, <2>4
<1>4. CASE StartUp
  <2> DEFINE o == [cur EXCEPT !.provisioned = IF @ = "False" THEN "False" ELSE "Unknown"]
  <2>1. StoreTypeOK' /\ WQ!QueueTypeOK' /\ UNCHANGED Revision
    BY <1>4, FrameType DEF StartUp
  <2>2. cur \in Cluster /\ key \in Names /\ pc = "provision" /\ toUpdate = NoCluster
    BY <1>4 DEF StartUp, WorkerTypeOK
  <2>3. o \in Cluster
    BY <2>2 DEF Cluster, ConditionStatus
  <2>4. cur' = o /\ cache' = IF shared THEN [cache EXCEPT ![key] = o] ELSE cache
    BY <1>4 DEF StartUp, WriteThrough
  <2>5. UNCHANGED <<listed, syncing, pos, notified, shared, config, tries, toUpdate>>
    BY <1>4 DEF StartUp
  <2> HIDE DEF o
  <2>6. InformerTypeOK'
    BY <2>1, <2>2, <2>3, <2>4, <2>5, CacheWriteType
  <2>7. WorldTypeOK' /\ applying' \in Contents \cup {NoConfig, Missing}
    BY <1>4, <2>2, RkeType DEF StartUp
  <2>8. WorkerTypeOK'
    BY <1>4, <2>2, <2>3, <2>4, <2>5, <2>7, GotoType DEF StartUp, WorkerTypeOK, WorkerStates
  <2> QED BY <2>1, <2>6, <2>7, <2>8
<1>5. CASE UpSucceeds
  <2> DEFINE o == [cur EXCEPT !.provisioned = "True", !.applied = config]
  <2>1. StoreTypeOK' /\ WQ!QueueTypeOK' /\ UNCHANGED Revision
    BY <1>5, FrameType DEF UpSucceeds
  <2>2. cur \in Cluster /\ key \in Names /\ pc = "rkeUp" /\ toUpdate = NoCluster
        /\ config \in Contents \cup {NoConfig}
    BY <1>5 DEF UpSucceeds, WorkerTypeOK
  <2>3. o \in Cluster
    BY <2>2 DEF Cluster, ConditionStatus
  <2>4. cur' = o /\ cache' = IF shared THEN [cache EXCEPT ![key] = o] ELSE cache
    BY <1>5 DEF UpSucceeds, WriteThrough
  <2>5. UNCHANGED <<listed, syncing, pos, notified, shared, config, applying, tries, toUpdate>>
    BY <1>5 DEF UpSucceeds, localVars
  <2> HIDE DEF o
  <2>6. InformerTypeOK'
    BY <2>1, <2>2, <2>3, <2>4, <2>5, CacheWriteType
  <2>7. WorkerTypeOK'
    BY <1>5, <2>2, <2>3, <2>4, <2>5, GotoType DEF UpSucceeds, WorkerTypeOK, WorkerStates
  <2>8. applying \in Contents \cup {NoConfig}
    BY <1>5 DEF UpSucceeds, WorkerTypeOK
  <2>9. cur.path \in Paths
    BY <2>2 DEF Cluster
  <2>10. WorldTypeOK'
    BY <1>5, <2>8, <2>9 DEF UpSucceeds, WorldTypeOK
  <2> QED BY <2>1, <2>6, <2>7, <2>10
<1>6. CASE UpFails
  <2> DEFINE o == [cur EXCEPT !.provisioned = "False"]
  <2>1. StoreTypeOK' /\ UNCHANGED Revision
    BY <1>6, FaultType DEF UpFails
  <2>2. cur \in Cluster /\ key \in Names /\ pc # "idle"
    BY <1>6 DEF UpFails, WorkerTypeOK
  <2>3. o \in Cluster
    BY <2>2 DEF Cluster, ConditionStatus
  <2>4. cache' = IF shared THEN [cache EXCEPT ![key] = o] ELSE cache
    BY <1>6 DEF UpFails
  <2>5. UNCHANGED <<listed, syncing, pos, notified>>
    BY <1>6 DEF UpFails
  <2> HIDE DEF o
  <2>6. InformerTypeOK'
    BY <2>1, <2>2, <2>3, <2>4, <2>5, CacheWriteType
  <2>7. WQ!QueueTypeOK' /\ WorkerTypeOK'
    BY <1>6, <2>2, RequeueType DEF UpFails
  <2>8. WorldTypeOK'
    BY <1>6, FrameType DEF UpFails
  <2> QED BY <2>1, <2>6, <2>7, <2>8
<1>7. CASE AppliedConfigUpdated
  <2>1. StoreTypeOK' /\ WQ!QueueTypeOK' /\ InformerTypeOK' /\ WorldTypeOK'
    BY <1>1, <1>7 DEF AppliedConfigUpdated, LeaveUpdate
  <2>2. WorkerTypeOK'
    BY <1>7, ReturnType DEF AppliedConfigUpdated, LeaveUpdate
  <2> QED BY <2>1, <2>2
<1> QED BY <1>2, <1>3, <1>4, <1>5, <1>6, <1>7

(* The steps of handleClusterRemove, finalize and removeCluster.           *)
LEMMA RemoveStepType ==
  ASSUME TypeOK,
         \/ FinalizeGetFails \/ FinalizeNothing \/ FinalizeStart
         \/ RemoveSucceeds \/ RemoveFails
         \/ TryRelease \/ ReleaseSucceeds \/ ReleaseFails
  PROVE  TypeOK'
<1> USE DEF TypeOK
<1>1. CASE FinalizeGetFails
  <2>1. StoreTypeOK' /\ UNCHANGED Revision
    BY <1>1, FaultType DEF FinalizeGetFails
  <2>2. InformerTypeOK' /\ WorldTypeOK'
    BY <1>1, <2>1, FrameType DEF FinalizeGetFails
  <2> QED BY <1>1, <2>1, <2>2, RequeueType DEF FinalizeGetFails
<1>2. CASE FinalizeNothing
  <2>1. StoreTypeOK' /\ WQ!QueueTypeOK' /\ InformerTypeOK' /\ WorldTypeOK'
    BY <1>2, FrameType DEF FinalizeNothing
  <2> QED BY <1>2, <2>1, ReturnType DEF FinalizeNothing
<1>3. CASE FinalizeStart
  <2>1. StoreTypeOK' /\ WQ!QueueTypeOK' /\ InformerTypeOK'
    BY <1>3, FrameType DEF FinalizeStart
  <2>2. pc = "finalize" /\ pc' = "rkeRemove" /\ key \in Names /\ UNCHANGED key
        /\ cur \in Cluster /\ UNCHANGED <<cur, shared, config, tries>>
    BY <1>3 DEF FinalizeStart, Goto, WorkerTypeOK
  <2>3. toUpdate' \in Cluster
    BY <1>3, <2>2 DEF FinalizeStart, ToBeFinalized, Exists, StoreTypeOK
  <2>4. WorldTypeOK' /\ applying' \in Contents \cup {NoConfig, Missing}
    BY <1>3, <2>2, RkeType DEF FinalizeStart
  <2>5. WorkerTypeOK'
    BY <2>2, <2>3, <2>4 DEF WorkerTypeOK, WorkerStates
  <2> QED BY <2>1, <2>4, <2>5
<1>4. CASE RemoveSucceeds
  <2>1. StoreTypeOK' /\ WQ!QueueTypeOK' /\ InformerTypeOK'
    BY <1>4, FrameType DEF RemoveSucceeds
  <2>2. pc = "rkeRemove" /\ pc' = "release" /\ key \in Names /\ UNCHANGED key
        /\ UNCHANGED <<cur, shared, config, applying, tries>>
    BY <1>4 DEF RemoveSucceeds, Goto, WorkerTypeOK
  <2>3. toUpdate \in Cluster /\ cur \in Cluster
    BY <2>2 DEF WorkerTypeOK
  <2>4. toUpdate' \in Cluster
    BY <1>4, <2>3 DEF RemoveSucceeds, Cluster
  <2>5. WorkerTypeOK'
    BY <2>2, <2>4 DEF WorkerTypeOK, WorkerStates
  <2>6. cur.path \in Paths
    BY <2>3 DEF Cluster
  <2>7. WorldTypeOK'
    BY <1>4, <2>6 DEF RemoveSucceeds, WorldTypeOK
  <2> QED BY <2>1, <2>5, <2>7
<1>5. CASE RemoveFails
  <2>1. StoreTypeOK' /\ UNCHANGED Revision
    BY <1>5, FaultType DEF RemoveFails
  <2>2. InformerTypeOK' /\ WorldTypeOK'
    BY <1>5, <2>1, FrameType DEF RemoveFails
  <2> QED BY <1>5, <2>1, <2>2, RequeueType DEF RemoveFails
<1>6. ASSUME pc = "release", UpdateSucceeds(key, toUpdate) \/ UpdateFails(key, toUpdate),
             UNCHANGED <<informerVars, worldVars>>
      PROVE  StoreTypeOK' /\ InformerTypeOK' /\ WorldTypeOK'
  <2>1. key \in Names /\ toUpdate \in Cluster
    BY <1>6 DEF WorkerTypeOK
  <2>2. StoreTypeOK' /\ Revision' \in {Revision, Revision + 1}
    BY <1>6, <2>1, UpdateType
  <2> QED BY <1>6, <2>2, FrameType, InformerGrows
<1>7. CASE TryRelease
  <2>1. StoreTypeOK' /\ InformerTypeOK' /\ WorldTypeOK'
    BY <1>6, <1>7 DEF TryRelease
  <2>2. WQ!QueueTypeOK'
    BY <1>7, FrameType DEF TryRelease
  <2>3. tries' \in 0..(MaxTries - 1)
    BY <1>7 DEF TryRelease, WorkerTypeOK, MaxTries
  <2>4. WorkerTypeOK'
    BY <1>7, <2>3 DEF TryRelease, WorkerTypeOK
  <2> QED BY <2>1, <2>2, <2>4
<1>8. CASE ReleaseSucceeds
  <2>1. StoreTypeOK' /\ InformerTypeOK' /\ WorldTypeOK'
    BY <1>6, <1>8 DEF ReleaseSucceeds
  <2>2. WQ!QueueTypeOK'
    BY <1>8, FrameType DEF ReleaseSucceeds
  <2> QED BY <1>8, <2>1, <2>2, ReturnType DEF ReleaseSucceeds
<1>9. CASE ReleaseFails
  <2>1. StoreTypeOK' /\ InformerTypeOK' /\ WorldTypeOK'
    BY <1>6, <1>9 DEF ReleaseFails
  <2> QED BY <1>9, <2>1, RequeueType DEF ReleaseFails
<1> QED BY <1>1, <1>2, <1>3, <1>4, <1>5, <1>7, <1>8, <1>9

(* A crash leaves the state of a fresh process over the old store and infra. *)
LEMMA CrashType == TypeOK /\ Crash => TypeOK'
<1> SUFFICES ASSUME TypeOK, Crash PROVE TypeOK'
  OBVIOUS
<1> USE DEF TypeOK
<1>1. StoreTypeOK' /\ UNCHANGED Revision
  BY FaultType DEF Crash
<1>2. WQ!QueueTypeOK'
  BY EmptySeq DEF Crash, WQ!QueueTypeOK
<1>3. InformerTypeOK'
  <2>1. Revision \in Nat
    BY LenProperties DEF Revision, StoreTypeOK
  <2> QED BY <1>1, <2>1 DEF Crash, InformerTypeOK
<1>4. WorkerTypeOK'
  BY ForgetType DEF Crash
<1>5. WorldTypeOK'
  <2>1. file' = file /\ userSteps' = userSteps
    BY DEF Crash
  <2>2. CASE UNCHANGED infra
    BY <2>1, <2>2 DEF WorldTypeOK
  <2>3. CASE ~UNCHANGED infra
    <3>1. PICK left \in InterruptedRke : infra' = [infra EXCEPT ![cur.path] = left]
      BY <2>3 DEF Crash
    <3>2. cur \in Cluster
      BY <3>1 DEF InterruptedRke, WorkerTypeOK
    <3>3. cur.path \in Paths
      BY <3>2 DEF Cluster
    <3>4. left \in Contents \cup {NoConfig, NoInfra, Partial}
      BY <3>1, <3>3 DEF InterruptedRke, WorkerTypeOK, WorldTypeOK
    <3> QED BY <2>1, <3>1, <3>4 DEF WorldTypeOK
  <2> QED BY <2>2, <2>3
<1> QED BY <1>1, <1>2, <1>3, <1>4, <1>5

(* What users and other clients write keeps store and files well-typed.    *)
LEMMA UserStepType == TypeOK /\ User => TypeOK'
<1> SUFFICES ASSUME TypeOK, User PROVE TypeOK'
  OBVIOUS
<1> USE DEF TypeOK
<1>1. WQ!QueueTypeOK' /\ WorkerTypeOK' /\ UNCHANGED informerVars /\ userSteps' \in Nat
  <2>1. UserStep
    BY DEF User, StoreStep
  <2> QED BY <2>1, FrameType DEF UserStep, WorldTypeOK
<1>2. ASSUME NEW k \in Names, UserWrites(k), UNCHANGED <<file, infra>> PROVE TypeOK'
  <2>1. StoreTypeOK' /\ Revision' \in {Revision, Revision + 1}
    BY <1>2, UserType
  <2>2. InformerTypeOK'
    BY <1>1, <2>1, InformerGrows
  <2>3. WorldTypeOK'
    BY <1>1, <1>2 DEF WorldTypeOK
  <2> QED BY <1>1, <2>1, <2>2, <2>3
<1>3. ASSUME NEW p \in Paths, NEW text \in FileTexts,
             UserWritesFile(p, text)
      PROVE  TypeOK'
  <2>1. StoreTypeOK' /\ UNCHANGED Revision
    BY <1>3, FrameType DEF UserWritesFile
  <2>2. InformerTypeOK'
    BY <1>1, <2>1, FrameType
  <2>3. WorldTypeOK'
    BY <1>1, <1>3, ProvisionerAssumption DEF UserWritesFile, WorldTypeOK
  <2> QED BY <1>1, <2>1, <2>2, <2>3
<1> QED BY <1>2, <1>3 DEF User, StoreStep, UserWrites

(* Every step keeps TypeOK: one case per part of Next.                     *)
LEMMA TypeStep == TypeOK /\ [Next]_vars => TypeOK'
<1>1. TypeOK /\ UNCHANGED vars => TypeOK'
  BY FrameType DEF TypeOK, vars
<1>2. TypeOK /\ Worker => TypeOK'
  BY PrepareStepType, ProvisionStepType, RemoveStepType DEF Worker
<1> QED BY <1>1, <1>2, InformerStepType, CrashType, UserStepType DEF Next

(* The variables of Provisioner keep their types: in particular the retry  *)
(* loops stop in time, no reflector runs ahead of the API server, and the  *)
(* worker has the objects each of its labels needs.                        *)
THEOREM TypeCorrect == Spec => []TypeOK
BY TypeInit, TypeStep, PTL DEF Spec
-----------------------------------------------------------------------------
(* What the worker is about to write.  Between initialize and the record   *)
(* of the applied config its object carries the finalizer, so none of the  *)
(* swallowed conflicts can lead to an unguarded status; and what it        *)
(* releases is being deleted.                                              *)
WritesGuarded ==
  /\ pc \in {"initialize", "provision", "rkeUp", "applied"} => Guarded(cur)
  /\ pc \in {"rkeRemove", "release"} => toUpdate.deleting

GuardInv == StoreGuarded /\ WritesGuarded

(* Nothing is stored or about to be written when the process first starts. *)
LEMMA GuardInit == Init => GuardInv
BY DEF Init, StoreInit, GuardInv, StoreGuarded, Exists, WritesGuarded

(* A step that neither writes to the store nor moves the worker. *)
LEMMA GuardFrame ==
  /\ StoreGuarded /\ UNCHANGED store => StoreGuarded'
  /\ WritesGuarded /\ UNCHANGED <<pc, cur, toUpdate>> => WritesGuarded'
  /\ pc' \in {"idle", "lookup", "compare", "finalize", "done"} => WritesGuarded'
BY DEF StoreGuarded, StatusGuarded, Guarded, Exists, WritesGuarded

(* Every step keeps GuardInv: one case per action that writes or prepares one. *)
LEMMA GuardStep == TypeOK /\ GuardInv /\ [Next]_vars => GuardInv'
<1> SUFFICES ASSUME TypeOK, GuardInv, [Next]_vars PROVE GuardInv'
  OBVIOUS
<1> USE DEF GuardInv
<1>1. CASE Informer
  <2>1. UNCHANGED <<store, pc, cur, toUpdate>>
    BY <1>1 DEF Informer, List, Deliver, WatchBreaks, Resync, ResyncNotDue, Enqueue,
                storeVars, workerVars, localVars
  <2> QED BY <2>1, GuardFrame
<1>2. CASE User
  <2>1. UNCHANGED <<pc, cur, toUpdate>>
    BY <1>2 DEF User, StoreStep, UserStep, workerVars, localVars
  <2>2. StoreGuarded'
    BY <1>2, UserGuarded, GuardFrame
       DEF User, UserWrites, UserWritesFile, TypeOK, storeVars
  <2> QED BY <2>1, <2>2, GuardFrame
<1>3. CASE Crash
  BY <1>3, GuardFrame DEF Crash
<1>4. CASE UNCHANGED vars
  BY <1>4, GuardFrame DEF vars, storeVars, workerVars, localVars
<1>5. CASE \/ \E k \in Names : TakeKey(k)
           \/ SyncMissing \/ SyncFound \/ ConfigUnreadable \/ ConfigUnchanged
           \/ SyncReturns \/ UpFails
           \/ FinalizeGetFails \/ FinalizeNothing \/ RemoveFails
  <2>1. UNCHANGED store
    BY <1>5 DEF TakeKey, SyncMissing, SyncFound, ConfigUnreadable, ConfigUnchanged, SyncReturns,
                UpFails, FinalizeGetFails, FinalizeNothing, RemoveFails, storeVars
  <2>2. pc' \in {"idle", "lookup", "compare", "finalize", "done"}
    BY <1>5 DEF TakeKey, SyncMissing, SyncFound, ConfigUnreadable, ConfigUnchanged, SyncReturns,
                UpFails, FinalizeGetFails, FinalizeNothing, RemoveFails, Requeue, Return, Goto
  <2> QED BY <2>1, <2>2, GuardFrame
<1>6. CASE ConfigChanged
  <2>1. UNCHANGED store /\ pc' \in {"initialize", "provision"}
    BY <1>6 DEF ConfigChanged, Goto, storeVars
  <2>2. cur \in Cluster
    BY <1>6 DEF ConfigChanged, TypeOK, WorkerTypeOK
  <2>3. Guarded(cur')
    BY <1>6, <2>2 DEF ConfigChanged, WriteThrough, Guarded, Cluster
  <2> QED BY <2>1, <2>3, GuardFrame DEF WritesGuarded, Guarded
<1>7. CASE StartUp \/ UpSucceeds
  <2>1. UNCHANGED store /\ pc \in {"provision", "rkeUp"} /\ pc' \in {"rkeUp", "applied"}
    BY <1>7 DEF StartUp, UpSucceeds, Goto, storeVars
  <2>2. cur \in Cluster /\ Guarded(cur)
    BY <2>1 DEF TypeOK, WorkerTypeOK, WritesGuarded
  <2>3. cur'.finalizers = cur.finalizers
    BY <1>7, <2>2 DEF StartUp, UpSucceeds, WriteThrough, Cluster
  <2> QED BY <2>1, <2>2, <2>3, GuardFrame DEF WritesGuarded, Guarded
<1>8. CASE TryUpdate("initialize") \/ TryUpdate("applied") \/ Initialized \/ AppliedConfigUpdated
  <2>1. pc \in {"initialize", "applied"} /\ (UpdateSucceeds(key, cur) \/ UpdateFails(key, cur))
    BY <1>8 DEF TryUpdate, Initialized, AppliedConfigUpdated, LeaveUpdate
  <2>2. key \in Names /\ cur \in Cluster /\ Guarded(cur)
    BY <2>1 DEF TypeOK, WorkerTypeOK, WritesGuarded
  <2>3. StoreGuarded'
    BY <2>1, <2>2, UpdateGuarded DEF TypeOK, StatusGuarded
  <2>4. pc' = "done" \/ (cur' = cur /\ pc' \in {"initialize", "applied", "provision"})
    BY <1>8 DEF TryUpdate, Initialized, AppliedConfigUpdated, Return, Goto
  <2> QED BY <2>2, <2>3, <2>4, GuardFrame DEF WritesGuarded, Guarded
<1>9. CASE FinalizeStart
  <2>1. UNCHANGED store /\ pc' = "rkeRemove" /\ toUpdate' = store[key] /\ store[key].deleting
    BY <1>9 DEF FinalizeStart, ToBeFinalized, Goto, storeVars
  <2> QED BY <2>1, GuardFrame DEF WritesGuarded
<1>10. CASE RemoveSucceeds
  <2>1. UNCHANGED store /\ pc = "rkeRemove" /\ pc' = "release"
    BY <1>10 DEF RemoveSucceeds, Goto, storeVars
  <2>2. toUpdate \in Cluster /\ toUpdate.deleting
    BY <2>1 DEF TypeOK, WorkerTypeOK, WritesGuarded
  <2>3. toUpdate'.deleting
    BY <1>10, <2>2 DEF RemoveSucceeds, Cluster
  <2> QED BY <2>1, <2>3, GuardFrame DEF WritesGuarded
<1>11. CASE TryRelease \/ ReleaseSucceeds \/ ReleaseFails
  <2>1. pc = "release" /\ (UpdateSucceeds(key, toUpdate) \/ UpdateFails(key, toUpdate))
    BY <1>11 DEF TryRelease, ReleaseSucceeds, ReleaseFails
  <2>2. key \in Names /\ toUpdate \in Cluster /\ toUpdate.deleting
    BY <2>1 DEF TypeOK, WorkerTypeOK, WritesGuarded
  <2>3. StoreGuarded'
    BY <2>1, <2>2, UpdateGuarded DEF TypeOK, StatusGuarded
  <2>4. pc' = "done" \/ UNCHANGED <<pc, cur, toUpdate>>
    BY <1>11 DEF TryRelease, ReleaseSucceeds, ReleaseFails, Requeue, Return, Goto
  <2> QED BY <2>3, <2>4, GuardFrame
<1> QED BY <1>1, <1>2, <1>3, <1>4, <1>5, <1>6, <1>7, <1>8, <1>9, <1>10, <1>11 DEF Next, Worker

(* No stored live cluster has a status without the finalizer, whatever     *)
(* conflicts, retries, crashes and stale caches there are.                 *)
THEOREM StatusAlwaysGuarded == Spec => []StatusIsGuarded
<1>1. GuardInv => StatusIsGuarded
  BY DEF GuardInv, StoreGuarded, StatusGuarded, StatusIsGuarded
<1> QED BY <1>1, TypeCorrect, GuardInit, GuardStep, PTL DEF Spec
=============================================================================
