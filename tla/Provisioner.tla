------------------------------ MODULE Provisioner ------------------------------
(***************************************************************************)
(* The provisioner controller with everything it touches: the API server   *)
(* (ClusterStore), the shared informer that fills its cache and tells it   *)
(* about changes, its task queue (WorkQueue), and the rke binary that      *)
(* builds and removes the clusters described by the config files.          *)
(*                                                                         *)
(* The informer hands out pointers: the object the worker gets from the    *)
(* lister is the one in the cache, and what the worker writes into it is   *)
(* seen by everyone until the cache replaces the object.  "shared" says    *)
(* whether that has not happened yet.  Three controllers call Run on the   *)
(* one shared informer, so several reflectors feed the same cache, each at *)
(* its own pace.                                                           *)
(***************************************************************************)
EXTENDS ClusterStore

CONSTANTS
  Reflectors,            \* the Run calls on the shared informer
  Missing,               \* a config file that cannot be read
  NoKey,                 \* no key
  NoInfra, Partial,      \* nothing built; what an rke that has not finished leaves
  MaxUserSteps,          \* bound on the steps of users and other clients
  FileTexts,             \* what users write into config files
  Edits                  \* their edits: "move" (configPath), "other" (other fields)

MaxTries == 3            \* for i := 0; i < 3; i++

ASSUME ProvisionerAssumption ==
  /\ NoCluster \notin Cluster
  /\ NoKey \notin Names
  /\ Missing \notin Contents \cup {NoConfig}
  /\ {NoInfra, Partial} \cap (Contents \cup {NoConfig}) = {}
  /\ MaxUserSteps \in Nat
  /\ FileTexts \subseteq Contents \cup {NoConfig, Missing}
  /\ NoInfra # Partial

VARIABLES
  queue, dirty, processing, shuttingDown,
  listed,                \* reflectors that watch: their list is done
  syncing,               \* the listener is in the processor's syncingListeners
  pos,                   \* reflector -> last event it has put into the cache
  cache,                 \* the indexer: name -> cluster or NoCluster
  notified,              \* name -> notifications the listener has not handled
  pc, key,               \* the worker and the key it syncs
  cur,                   \* the object it got from the lister
  shared,                \* cur is still the object in the cache
  config,                \* the config text it read
  applying,              \* the config text the running rke read
  tries,                 \* failed Update calls in the current loop
  toUpdate,              \* finalize's own copy from the API server
  file,                  \* path -> content of the config file, or Missing
  infra,                 \* path -> what rke has built from it
  userSteps              \* what users have done so far

WQ == INSTANCE WorkQueue WITH Keys <- Names

queueVars == <<queue, dirty, processing, shuttingDown>>
informerVars == <<listed, syncing, pos, cache, notified>>
localVars == <<config, applying, tries, toUpdate>>
workerVars == <<pc, key, cur, shared, localVars>>
worldVars == <<file, infra, userSteps>>
vars == <<storeVars, queueVars, informerVars, workerVars, worldVars>>

WorkerStates ==
  {"idle", "lookup", "compare", "initialize", "provision", "rkeUp", "applied",
   "finalize", "rkeRemove", "release", "done"}

InformerTypeOK ==
  /\ listed \in SUBSET Reflectors
  /\ syncing \in BOOLEAN
  /\ pos \in [Reflectors -> Nat]
  /\ \A r \in Reflectors : pos[r] <= Revision
  /\ cache \in [Names -> Cluster \cup {NoCluster}]
  /\ notified \in [Names -> Nat]

WorkerTypeOK ==
  /\ pc \in WorkerStates
  /\ IF pc = "idle" THEN key = NoKey ELSE key \in Names
  /\ IF pc \in {"idle", "lookup", "done"} THEN cur = NoCluster ELSE cur \in Cluster
  /\ shared \in BOOLEAN
  /\ config \in Contents \cup {NoConfig}
  /\ applying \in Contents \cup {NoConfig, Missing}
  /\ tries \in 0..(MaxTries - 1)
  /\ IF pc \in {"rkeRemove", "release"} THEN toUpdate \in Cluster ELSE toUpdate = NoCluster

WorldTypeOK ==
  /\ file \in [Paths -> Contents \cup {NoConfig, Missing}]
  /\ infra \in [Paths -> Contents \cup {NoConfig, NoInfra, Partial}]
  /\ userSteps \in Nat

(* The types of all parts of the state.  A reflector is never ahead of the *)
(* server, a worker past lookup has an object, and no loop tries too often. *)
TypeOK ==
  StoreTypeOK /\ WQ!QueueTypeOK /\ InformerTypeOK /\ WorkerTypeOK /\ WorldTypeOK

(* The worker drops its locals: between two syncs, and when sync returns.  *)
Forget ==
  /\ cur' = NoCluster /\ shared' = FALSE
  /\ config' = NoConfig /\ applying' = NoConfig /\ tries' = 0 /\ toUpdate' = NoCluster

Init ==
  /\ StoreInit
  /\ WQ!QueueInit
  /\ listed = {} /\ syncing = TRUE
  /\ pos = [r \in Reflectors |-> 0]
  /\ cache = [k \in Names |-> NoCluster]
  /\ notified = [k \in Names |-> 0]
  /\ pc = "idle" /\ key = NoKey
  /\ cur = NoCluster /\ shared = FALSE
  /\ config = NoConfig /\ applying = NoConfig /\ tries = 0 /\ toUpdate = NoCluster
  /\ file \in [Paths -> Contents]
  /\ infra = [p \in Paths |-> NoInfra]
  /\ userSteps = 0
-----------------------------------------------------------------------------
(* The shared informer.  HandleDeltas runs under a lock, so putting one    *)
(* event into the cache and notifying the listeners is one step.           *)
Cached(k) == cache[k] # NoCluster

(* The initial list of a reflector, and the list after a watch has ended:  *)
(* the stored objects replace the cache, names not listed are deleted from *)
(* it.  The changes are Sync deltas, which only syncingListeners hear of.  *)
List(r) ==
  /\ r \notin listed
  /\ listed' = listed \cup {r}
  /\ pos' = [pos EXCEPT ![r] = Revision]
  /\ cache' = store
  /\ notified' = [k \in Names |-> IF syncing /\ Exists(k) THEN notified[k] + 1 ELSE notified[k]]
  /\ shared' = FALSE
  /\ UNCHANGED <<storeVars, queueVars, syncing, pc, key, cur, localVars, worldVars>>

(* The next watch event.  The provisioner registers no DeleteFunc.         *)
Deliver(r) ==
  /\ r \in listed
  /\ pos[r] < Revision
  /\ pos' = [pos EXCEPT ![r] = @ + 1]
  /\ LET e == events[pos[r] + 1]
     IN  /\ cache' = [cache EXCEPT ![e.key] = IF e.type = "put" THEN e.obj ELSE NoCluster]
         /\ notified' = [notified EXCEPT ![e.key] = IF e.type = "put" THEN @ + 1 ELSE @]
         /\ shared' = (shared /\ e.key # key)
  /\ UNCHANGED <<storeVars, queueVars, listed, syncing, pc, key, cur, localVars, worldVars>>

(* A watch that ends in an error makes the reflector list again; the       *)
(* events in between are never seen.                                       *)
WatchBreaks(r) ==
  /\ r \in listed
  /\ Fault
  /\ listed' = listed \ {r}
  /\ UNCHANGED <<store, events, queueVars, syncing, pos, cache, notified, workerVars, worldVars>>

(* The resync timer of the first reflector to get there in a period of 30  *)
(* seconds (controllers/controller.go:18): every cached object is announced *)
(* again, as it is.  An announcement still outstanding makes another one   *)
(* of the same key redundant.                                              *)
Resync ==
  /\ listed # {}
  /\ \E k \in Names : Cached(k) /\ notified[k] = 0
  /\ syncing' = TRUE
  /\ notified' = [k \in Names |-> IF Cached(k) /\ notified[k] = 0 THEN 1 ELSE notified[k]]
  /\ UNCHANGED <<storeVars, queueVars, listed, pos, cache, workerVars, worldVars>>

(* The timer of another reflector in the same period: no listener is due   *)
(* any more, and syncingListeners is emptied.                              *)
ResyncNotDue ==
  /\ \E r, q \in listed : r # q
  /\ syncing
  /\ syncing' = FALSE
  /\ UNCHANGED <<storeVars, queueVars, listed, pos, cache, notified, workerVars, worldVars>>

(* The provisioner's listener: AddFunc and UpdateFunc enqueue the key.     *)
Enqueue(k) ==
  /\ notified[k] > 0
  /\ notified' = [notified EXCEPT ![k] = @ - 1]
  /\ WQ!Add(k)
  /\ UNCHANGED <<storeVars, listed, syncing, pos, cache, workerVars, worldVars>>
-----------------------------------------------------------------------------
(* The worker.  Each action is one stretch of sync between two points where *)
(* another goroutine, process or client can get in.                         *)

(* A write through the pointer reaches the cached object while the cache   *)
(* still holds it.                                                         *)
WriteThrough(o) ==
  /\ cur' = o
  /\ cache' = IF shared THEN [cache EXCEPT ![key] = o] ELSE cache

(* The rke child process reads the config file itself, and from then on    *)
(* until it has finished nothing is known of what it built.                *)
RkeStarts ==
  /\ applying' = file[cur.path]
  /\ infra' = IF file[cur.path] = Missing THEN infra ELSE [infra EXCEPT ![cur.path] = Partial]

Goto(label) == pc' = label /\ UNCHANGED key
Return == Goto("done") /\ Forget

(* sync's error path. *)
Requeue == WQ!Add(key) /\ Return

TakeKey(k) ==
  /\ pc = "idle"
  /\ WQ!Get(k)
  /\ pc' = "lookup"
  /\ key' = k
  /\ UNCHANGED <<storeVars, informerVars, cur, shared, localVars, worldVars>>

(* sync: the lister no longer has the cluster. *)
SyncMissing ==
  /\ pc = "lookup"
  /\ ~Cached(key)
  /\ Requeue
  /\ UNCHANGED <<storeVars, informerVars, worldVars>>

(* sync: handleClusterRemove when DeletionTimestamp is set, and otherwise  *)
(* handleClusterAdd.                                                       *)
SyncFound ==
  /\ pc = "lookup"
  /\ Cached(key)
  /\ cur' = cache[key]
  /\ shared' = TRUE
  /\ Goto(IF cache[key].deleting THEN "finalize" ELSE "compare")
  /\ UNCHANGED <<storeVars, queueVars, informerVars, localVars, worldVars>>

(* handleClusterAdd: getConfigStr fails. *)
ConfigUnreadable ==
  /\ pc = "compare"
  /\ file[cur.path] = Missing
  /\ Requeue
  /\ UNCHANGED <<storeVars, informerVars, worldVars>>

(* handleClusterAdd: the applied config is the current one. *)
ConfigUnchanged ==
  /\ pc = "compare"
  /\ file[cur.path] = cur.applied
  /\ Return
  /\ UNCHANGED <<storeVars, queueVars, informerVars, worldVars>>

(* Mutant of ConfigChanged: initialize is left out. *)
ConfigChangedUninitialized ==
  /\ pc = "compare"
  /\ file[cur.path] \notin {Missing, cur.applied}
  /\ config' = file[cur.path]
  /\ Goto("provision")
  /\ UNCHANGED <<storeVars, queueVars, informerVars, cur, shared, applying, tries, toUpdate,
                 worldVars>>

(* handleClusterAdd and the first half of initialize: the finalizer is put *)
(* on the cached object before the API server has accepted it.             *)
ConfigChanged ==
  /\ pc = "compare"
  /\ file[cur.path] \notin {Missing, cur.applied}
  /\ config' = file[cur.path]
  /\ WriteThrough([cur EXCEPT !.finalizers = @ \cup {ProvisionerFinalizer}])
  /\ Goto(IF Guarded(cur) THEN "provision" ELSE "initialize")
  /\ UNCHANGED <<storeVars, queueVars, listed, syncing, pos, notified, shared,
                 applying, tries, toUpdate, worldVars>>

(* Mutant of TryUpdate: one iteration too many. *)
TryUpdateOnceMore(here) ==
  /\ pc = here
  /\ UpdateFails(key, cur)
  /\ tries < MaxTries
  /\ tries' = tries + 1
  /\ UNCHANGED <<queueVars, informerVars, pc, key, cur, shared, config, applying,
                 toUpdate, worldVars>>

(* Mutant of TryUpdate: the retry takes over the stored resource version,  *)
(* and nothing else, so that it is not refused again.                      *)
TryUpdateForced(here) ==
  /\ pc = here
  /\ UpdateFails(key, cur)
  /\ tries + 1 < MaxTries
  /\ tries' = tries + 1
  /\ cur' = IF Exists(key) THEN [cur EXCEPT !.rv = store[key].rv] ELSE cur
  /\ UNCHANGED <<queueVars, informerVars, pc, key, shared, config, applying,
                 toUpdate, worldVars>>

(* The update loop of initialize and updateAppliedConfig.  The answer to a *)
(* successful PUT is thrown away, so the resource version in hand stays    *)
(* the old one; after the last failed try the loop reports success.        *)
TryUpdate(here) ==
  /\ pc = here
  /\ UpdateFails(key, cur)
  /\ tries + 1 < MaxTries
  /\ tries' = tries + 1
  /\ UNCHANGED <<queueVars, informerVars, pc, key, cur, shared, config, applying,
                 toUpdate, worldVars>>

LeaveUpdate(here) ==
  /\ pc = here
  /\ UpdateSucceeds(key, cur) \/ (tries + 1 = MaxTries /\ UpdateFails(key, cur))

Initialized ==
  /\ LeaveUpdate("initialize")
  /\ tries' = 0
  /\ Goto("provision")
  /\ UNCHANGED <<queueVars, informerVars, cur, shared, config, applying, toUpdate, worldVars>>

(* Condition Provisioned.Do: Unknown unless False, then rke up.            *)
StartUp ==
  /\ pc = "provision"
  /\ WriteThrough([cur EXCEPT !.provisioned = IF @ = "False" THEN "False" ELSE "Unknown"])
  /\ RkeStarts
  /\ Goto("rkeUp")
  /\ UNCHANGED <<storeVars, queueVars, listed, syncing, pos, notified, shared, config, tries,
                 toUpdate, file, userSteps>>

(* Mutant of UpSucceeds: AppliedConfig is set but never sent. *)
UpSucceedsUnsaved ==
  /\ pc = "rkeUp"
  /\ applying # Missing
  /\ infra' = [infra EXCEPT ![cur.path] = applying]
  /\ cache' = IF shared
              THEN [cache EXCEPT ![key] = [cur EXCEPT !.provisioned = "True", !.applied = config]]
              ELSE cache
  /\ Return
  /\ UNCHANGED <<storeVars, queueVars, listed, syncing, pos, notified, file, userSteps>>

(* rke up succeeds: the condition is True, and updateAppliedConfig records *)
(* the text that was read before rke started.                              *)
UpSucceeds ==
  /\ pc = "rkeUp"
  /\ applying # Missing
  /\ infra' = [infra EXCEPT ![cur.path] = applying]
  /\ WriteThrough([cur EXCEPT !.provisioned = "True", !.applied = config])
  /\ Goto("applied")
  /\ UNCHANGED <<storeVars, queueVars, listed, syncing, pos, notified, shared, localVars,
                 file, userSteps>>

(* Mutant of UpFails: the error of rke up is ignored. *)
UpFailsUnnoticed ==
  /\ pc = "rkeUp"
  /\ IF applying = Missing THEN UNCHANGED faults ELSE Fault
  /\ WriteThrough([cur EXCEPT !.provisioned = "False", !.applied = config])
  /\ Goto("applied")
  /\ UNCHANGED <<store, events, queueVars, listed, syncing, pos, notified, shared, localVars,
                 worldVars>>

(* rke up fails: the condition is False on the cached object only. *)
UpFails ==
  /\ pc = "rkeUp"
  /\ IF applying = Missing THEN UNCHANGED faults ELSE Fault
  /\ cache' = IF shared THEN [cache EXCEPT ![key] = [cur EXCEPT !.provisioned = "False"]]
              ELSE cache
  /\ Requeue
  /\ UNCHANGED <<store, events, listed, syncing, pos, notified, worldVars>>

AppliedConfigUpdated ==
  /\ LeaveUpdate("applied")
  /\ Return
  /\ UNCHANGED <<queueVars, informerVars, worldVars>>

(* finalize: the Get fails with an error other than NotFound. *)
FinalizeGetFails ==
  /\ pc = "finalize"
  /\ Fault
  /\ Requeue
  /\ UNCHANGED <<store, events, informerVars, worldVars>>

ToBeFinalized(k) == Exists(k) /\ store[k].deleting /\ Guarded(store[k])

(* finalize: gone, not being deleted, or without our finalizer. *)
FinalizeNothing ==
  /\ pc = "finalize"
  /\ ~ToBeFinalized(key)
  /\ Return
  /\ UNCHANGED <<storeVars, queueVars, informerVars, worldVars>>

(* finalize starts removeCluster: rke remove with the config path of the   *)
(* cached object.                                                          *)
FinalizeStart ==
  /\ pc = "finalize"
  /\ ToBeFinalized(key)
  /\ toUpdate' = store[key]
  /\ RkeStarts
  /\ Goto("rkeRemove")
  /\ UNCHANGED <<storeVars, queueVars, informerVars, cur, shared, config, tries, file, userSteps>>

(* Mutant of RemoveSucceeds: the finalizer stays on the object sent back. *)
RemoveSucceedsUnreleased ==
  /\ pc = "rkeRemove"
  /\ applying # Missing
  /\ infra' = [infra EXCEPT ![cur.path] = NoInfra]
  /\ Goto("release")
  /\ UNCHANGED <<storeVars, queueVars, informerVars, cur, shared, localVars, file, userSteps>>

(* The finalizer comes off the copy that finalize read before rke ran.     *)
RemoveSucceeds ==
  /\ pc = "rkeRemove"
  /\ applying # Missing
  /\ infra' = [infra EXCEPT ![cur.path] = NoInfra]
  /\ toUpdate' = [toUpdate EXCEPT !.finalizers = @ \ {ProvisionerFinalizer}]
  /\ Goto("release")
  /\ UNCHANGED <<storeVars, queueVars, informerVars, cur, shared, config, applying, tries,
                 file, userSteps>>

(* Mutant of RemoveFails: the error is swallowed like those of the PUTs.   *)
RemoveFailsSwallowed ==
  /\ pc = "rkeRemove"
  /\ IF applying = Missing THEN UNCHANGED faults ELSE Fault
  /\ Return
  /\ UNCHANGED <<store, events, queueVars, informerVars, worldVars>>

(* Mutant of RemoveFails: the error is ignored and the finalizer taken off. *)
RemoveFailsUnnoticed ==
  /\ pc = "rkeRemove"
  /\ IF applying = Missing THEN UNCHANGED faults ELSE Fault
  /\ toUpdate' = [toUpdate EXCEPT !.finalizers = @ \ {ProvisionerFinalizer}]
  /\ Goto("release")
  /\ UNCHANGED <<store, events, queueVars, informerVars, cur, shared, config, applying, tries,
                 worldVars>>

RemoveFails ==
  /\ pc = "rkeRemove"
  /\ IF applying = Missing THEN UNCHANGED faults ELSE Fault
  /\ Requeue
  /\ UNCHANGED <<store, events, informerVars, worldVars>>

(* The update loop of finalize returns its last error. *)
TryRelease ==
  /\ pc = "release"
  /\ UpdateFails(key, toUpdate)
  /\ tries + 1 < MaxTries
  /\ tries' = tries + 1
  /\ UNCHANGED <<queueVars, informerVars, pc, key, cur, shared, config, applying, toUpdate,
                 worldVars>>

ReleaseSucceeds ==
  /\ pc = "release"
  /\ UpdateSucceeds(key, toUpdate)
  /\ Return
  /\ UNCHANGED <<queueVars, informerVars, worldVars>>

ReleaseFails ==
  /\ pc = "release"
  /\ tries + 1 = MaxTries
  /\ UpdateFails(key, toUpdate)
  /\ Requeue
  /\ UNCHANGED <<informerVars, worldVars>>

(* sync has returned: queue.Done. *)
SyncReturns ==
  /\ pc = "done"
  /\ WQ!Done(key)
  /\ pc' = "idle"
  /\ key' = NoKey
  /\ UNCHANGED <<storeVars, informerVars, cur, shared, localVars, worldVars>>

Worker ==
  \/ \E k \in Names : TakeKey(k)
  \/ SyncMissing \/ SyncFound
  \/ ConfigUnreadable \/ ConfigUnchanged \/ ConfigChanged
  \/ TryUpdate("initialize") \/ Initialized
  \/ StartUp \/ UpSucceeds \/ UpFails
  \/ TryUpdate("applied") \/ AppliedConfigUpdated
  \/ FinalizeGetFails \/ FinalizeNothing \/ FinalizeStart
  \/ RemoveSucceeds \/ RemoveFails
  \/ TryRelease \/ ReleaseSucceeds \/ ReleaseFails
  \/ SyncReturns
-----------------------------------------------------------------------------
(* The process dies and is started again: everything in memory is lost. An *)
(* rke that was running has either finished or stopped where it was.       *)
InterruptedRke ==
  IF pc = "rkeUp" /\ applying # Missing THEN {Partial, applying}
  ELSE IF pc = "rkeRemove" /\ applying # Missing THEN {Partial, NoInfra}
  ELSE {}

Crash ==
  /\ Fault
  /\ queue' = <<>> /\ dirty' = {} /\ processing' = {} /\ shuttingDown' = FALSE
  /\ listed' = {} /\ syncing' = TRUE
  /\ pos' = [r \in Reflectors |-> 0]
  /\ cache' = [k \in Names |-> NoCluster]
  /\ notified' = [k \in Names |-> 0]
  /\ pc' = "idle" /\ key' = NoKey /\ Forget
  /\ IF InterruptedRke = {} THEN UNCHANGED infra
     ELSE \E left \in InterruptedRke : infra' = [infra EXCEPT ![cur.path] = left]
  /\ UNCHANGED <<store, events, file, userSteps>>

UserWritesFile(p, text) ==
  /\ text # file[p]
  /\ file' = [file EXCEPT ![p] = text]
  /\ UNCHANGED <<storeVars, infra>>

(* One step of a user or another client, on a file or on the store. *)
UserStep ==
  /\ userSteps < MaxUserSteps
  /\ userSteps' = userSteps + 1
  /\ UNCHANGED <<queueVars, informerVars, workerVars>>

StoreStep == UserStep /\ UNCHANGED <<file, infra>>

User ==
  \/ \E k \in Names, p \in Paths, fs \in SUBSET ForeignFinalizers :
       StoreStep /\ UserCreates(k, p, fs)
  \/ \E k \in Names : StoreStep /\ UserDeletes(k)
  \/ \E k \in Names, p \in Paths : "move" \in Edits /\ StoreStep /\ UserMovesConfig(k, p)
  \/ \E k \in Names : "other" \in Edits /\ StoreStep /\ OtherFieldWritten(k)
  \/ \E k \in Names, f \in ForeignFinalizers : StoreStep /\ ForeignFinalizerDone(k, f)
  \/ \E p \in Paths, text \in FileTexts : UserStep /\ UserWritesFile(p, text)

Informer ==
  \/ \E r \in Reflectors : List(r) \/ Deliver(r) \/ WatchBreaks(r)
  \/ Resync \/ ResyncNotDue
  \/ \E k \in Names : Enqueue(k)

Next == Worker \/ Informer \/ Crash \/ User

Spec == Init /\ [][Next]_vars

(* The goroutines are scheduled: the worker, each reflector, the listener. *)
(* Users, faults and crashes are never due.                                *)
Fairness ==
  /\ WF_vars(Worker)
  /\ \A r \in Reflectors : WF_vars(List(r)) /\ WF_vars(Deliver(r))
  /\ \A k \in Names : WF_vars(Enqueue(k))

FairSpec == Spec /\ Fairness

(* Where the resync matters, its timer fires again and again. *)
ResyncSpec == FairSpec /\ WF_vars(Resync)
-----------------------------------------------------------------------------
(* A stored cluster that says something was provisioned for it carries the *)
(* provisioner's finalizer until it is being deleted, so a delete can not  *)
(* make it vanish behind the provisioner's back.                           *)
StatusIsGuarded ==
  \A k \in Names :
    (Exists(k) /\ ~store[k].deleting
       /\ (store[k].applied # NoConfig \/ store[k].provisioned # ""))
      => Guarded(store[k])

(* "remove finalizer when/if the cleanup passed successfully"              *)
(* (provisioner.go:238): whatever step takes the provisioner's finalizer   *)
(* off a stored cluster, be it a late answer, a stale copy or a retry,     *)
(* nothing is left of what rke built from the config path the worker       *)
(* removed.                                                                *)
ReleasedOnlyAfterCleanup ==
  [][\A k \in Names :
       (Exists(k) /\ Guarded(store[k])
          /\ ~(store'[k] # NoCluster /\ store'[k].uid = store[k].uid /\ Guarded(store'[k])))
         => key = k /\ infra[cur.path] = NoInfra]_vars

(* A PUT of a whole cached object never takes back what a user or another  *)
(* client has written since the object was cached.                         *)
NoLostUpdate ==
  [][\A k \in Names :
       (userSteps' = userSteps /\ Exists(k) /\ store'[k] # NoCluster)
         => /\ store'[k].path = store[k].path
            /\ store'[k].deleting = store[k].deleting
            /\ store'[k].finalizers \ {ProvisionerFinalizer}
                 = store[k].finalizers \ {ProvisionerFinalizer}]_vars

(* AppliedConfig and Provisioned=True are stored only at a moment when rke *)
(* up has completed for that cluster's path and nothing has undone it.     *)
AppliedOnlyAfterUp ==
  [][\A k \in Names :
       (Exists(k) /\ store'[k] # NoCluster /\ store'[k].applied # store[k].applied)
         => /\ store'[k].provisioned = "True"
            /\ infra[store'[k].path] \notin {NoInfra, Partial}]_vars

(* The stage of a stored cluster.                                          *)
LifeOf(c) ==
  IF c = NoCluster THEN "absent"
  ELSE IF c.deleting THEN IF Guarded(c) THEN "leaving" ELSE "released"
  ELSE IF Guarded(c) THEN "guarded" ELSE "free"

LifeOfAll == [k \in Names |-> LifeOf(store[k])]
Built == {p \in Paths : infra[p] # NoInfra}
Removed == IF pc = "release" THEN {[key |-> key, path |-> cur.path]} ELSE {}

Life == INSTANCE ClusterLife WITH life <- LifeOfAll, built <- Built, removed <- Removed

(* Through stale copies, lost answers, retries and crashes, a cluster only *)
(* goes through the stages of ClusterLife: a deletion is never undone, the *)
(* finalizer of a live cluster never lost nor given to one that is being   *)
(* deleted, rke removes nothing but for a cluster that is leaving, and it  *)
(* leaves by the worker whose removal of it nothing has undone.            *)
ImplementsClusterLife == Life!LifeSpec

(* A deletion the cache has shown is never forgotten: until the finalizer  *)
(* is off, the key is queued, announced or in the worker's hands.          *)
NoForgottenDeletion ==
  \A k \in Names :
    (/\ ToBeFinalized(k)
     /\ syncing
     /\ Cached(k) /\ cache[k].deleting /\ cache[k].uid = store[k].uid
     /\ key = k => pc = "done")
      => k \in dirty \/ notified[k] > 0

(* A cluster that is being deleted is eventually released, whatever        *)
(* finitely many faults, crashes and conflicts there are on the way.       *)
DeletionCompletes == \A k \in Names : ToBeFinalized(k) ~> ~ToBeFinalized(k)

(* The server has recorded that the current config is applied. *)
Applied(k) == Exists(k) /\ store[k].applied = file[store[k].path]

(* When users have done their last step, the stored AppliedConfig of every *)
(* live cluster ends up equal to its config file: provisioner.go:86 and    *)
(* the resync make up for what was lost.                                   *)
AppliedConverges ==
  \A k \in Names : <>[](Exists(k) /\ ~store[k].deleting) => <>[]Applied(k)

(* provisioner.go:91 "Compare applied vs current config, and only run      *)
(* update when there are changes": rke up does not start for a path that   *)
(* already runs what rke is about to apply.                                *)
UpOnlyOnChange ==
  [][StartUp => infra[cur.path] # applying']_vars

(* provisioner.go:97 "Add finalizer and other init fields", before rke up: *)
(* when rke up starts the stored cluster carries the finalizer.            *)
FinalizerBeforeUp ==
  [][StartUp => Exists(key) /\ Guarded(store[key])]_vars

(* provisioner.go:111 "Update cluster with applied spec": the config that  *)
(* is recorded is the one rke applied.                                     *)
RecordsWhatWasApplied ==
  [][\A k \in Names :
       (Exists(k) /\ store'[k] # NoCluster /\ store'[k].applied # store[k].applied)
         => infra[store'[k].path] = store'[k].applied]_vars

(* provisioner.go:238 "remove finalizer when/if the cleanup passed          *)
(* successfully": when the finalizer comes off, rke has nothing left at    *)
(* the config path the released object names.                              *)
CleansWhatItReleases ==
  [][\A k \in Names :
       (Exists(k) /\ store[k].deleting /\ Guarded(store[k])
          /\ (store'[k] = NoCluster \/ ~Guarded(store'[k])))
         => infra[store[k].path] = NoInfra]_vars

(* types.go:72 "Conditions represent the latest available observations of  *)
(* an object's current state": when the worker has seen rke up fail and    *)
(* moved on, and it is the latest version of the object it has marked so,  *)
(* the stored condition does not go on saying True.                        *)
ConditionIsLatest ==
  \A k \in Names :
    (/\ pc = "idle" /\ Exists(k) /\ Cached(k)
     /\ cache[k].rv = store[k].rv /\ cache[k].provisioned = "False")
      => store[k].provisioned # "True"
=============================================================================
