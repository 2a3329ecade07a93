------------------------------- MODULE Startup -------------------------------
(***************************************************************************)
(* The program from its start: main applies the CRD files with kubectl and *)
(* registers the controllers one after the other on the one informer of    *)
(* the factory.  What the earlier ones have started already runs while the *)
(* later ones register.                                                    *)
(***************************************************************************)
EXTENDS SharedInformer, FiniteSets

CONSTANT MaxFailures     \* bound on kubectl calls that fail

ASSUME StartupAssumption ==
  /\ Listeners \subseteq {"provisioner", "configgenerator", "healthchecker", "annotator"}
  /\ Runs \subseteq Listeners \ {"provisioner"}
  /\ MaxFailures \in Nat

VARIABLES
  main,                  \* what main does
  applied,               \* CRD files it has applied since it started
  crds,                  \* the CRD files the API server has accepted
  failures

mainVars == <<main, applied, crds, failures>>
startupVars == <<informerVars, mainVars>>

Files == <<"cluster_crd.yml", "kubeconfig_crd.yml">>      \* ReadDir sorts by name
Crds == {Files[i] : i \in DOMAIN Files}
Order == <<"provisioner", "configgenerator", "healthchecker", "annotator">>

StartupInit ==
  /\ InformerInit
  /\ main = "crds" /\ applied = 0 /\ crds = {} /\ failures = 0
-----------------------------------------------------------------------------
(* createCRDS: kubectl apply -f, file by file.                             *)
CrdApplied ==
  /\ main = "crds" /\ applied < Len(Files)
  /\ applied' = applied + 1
  /\ crds' = crds \cup {Files[applied + 1]}
  /\ UNCHANGED <<informerVars, main, failures>>

(* Mutant of CrdFails: the error is logged and the next file taken. *)
CrdFailsUnnoticed ==
  /\ main = "crds" /\ applied < Len(Files)
  /\ failures < MaxFailures /\ failures' = failures + 1
  /\ applied' = applied + 1
  /\ crds' \in {crds, crds \cup {Files[applied + 1]}}
  /\ UNCHANGED <<informerVars, main>>

(* The first file that fails ends the program; the server may have it.     *)
CrdFails ==
  /\ main = "crds" /\ applied < Len(Files)
  /\ failures < MaxFailures /\ failures' = failures + 1
  /\ main' = "exited"
  /\ crds' \in {crds, crds \cup {Files[applied + 1]}}
  /\ UNCHANGED <<informerVars, applied>>

(* Somebody starts the program again. *)
Restart ==
  /\ main = "exited"
  /\ main' = "crds" /\ applied' = 0
  /\ UNCHANGED <<informerVars, crds, failures>>

CrdsCreated ==
  /\ main = "crds" /\ applied = Len(Files)
  /\ main' = "register"
  /\ UNCHANGED <<informerVars, applied, crds, failures>>
-----------------------------------------------------------------------------
(* controllers.Register: the next in this order registers.                 *)
IsNext(l) ==
  /\ main = "register" /\ l \in Listeners \ joined
  /\ \A i, j \in DOMAIN Order :
       (Order[j] = l /\ i < j /\ Order[i] \in Listeners) => Order[i] \in joined

Registers(l) ==
  /\ IsNext(l)
  /\ AddEventHandler(l)
  /\ UNCHANGED <<serverVars, reflectorVars, indexer, mainVars>>

(* The provisioner's Register starts its task queue, not the informer.     *)
RegisterProvisioner == Registers("provisioner") /\ UNCHANGED run

RegisterAndRun(l) ==
  /\ Registers(l)
  /\ IF l \in Runs THEN Go(l) ELSE UNCHANGED run

RegisterConfiggenerator == RegisterAndRun("configgenerator")
RegisterHealthchecker == RegisterAndRun("healthchecker")
RegisterAnnotator == RegisterAndRun("annotator")

(* Nothing is left for main but to sleep.                                  *)
AllRegistered ==
  /\ main = "register" /\ joined = Listeners
  /\ main' = "running"
  /\ UNCHANGED <<informerVars, applied, crds, failures>>

Main ==
  \/ CrdApplied \/ CrdFails \/ CrdsCreated
  \/ RegisterProvisioner \/ RegisterConfiggenerator \/ RegisterHealthchecker
  \/ RegisterAnnotator
  \/ AllRegistered

StartupNext == Main \/ Restart \/ (InformerNext /\ UNCHANGED mainVars)

StartupSpec == StartupInit /\ [][StartupNext]_startupVars

(* Main, the goroutines of the Runs and those of the listeners are         *)
(* scheduled; writes, timers, failing requests and watches are not due.    *)
StartupFairSpec ==
  /\ StartupSpec
  /\ WF_startupVars(Main) /\ WF_startupVars(Restart)
  /\ \A r \in Runs :
       WF_startupVars((RunStarts(r) \/ ProcessorRuns(r) \/ ListAndWatch(r) \/ WatchEvent(r)
                         \/ HandleDelta(r)) /\ UNCHANGED mainVars)
  /\ \A l \in Listeners : WF_startupVars(Handle(l) /\ UNCHANGED mainVars)
-----------------------------------------------------------------------------
StartupTypeOK ==
  /\ log \in Seq([key : Keys, there : BOOLEAN])
  /\ run \in [Runs -> {"no", "go", "started", "on"}]
  /\ watching \in SUBSET Runs /\ seen \in [Runs -> 0..Len(log)]
  /\ \A r \in Runs : \A i \in DOMAIN queue[r] :
       /\ queue[r][i].deltas \in Seq(Delta) \ {<<>>}
       /\ \A j \in DOMAIN queue[r] : queue[r][i].key = queue[r][j].key => i = j
  /\ handling \in SUBSET Runs /\ indexer \in [Keys -> 0..Len(log)]
  /\ joined \in SUBSET Listeners /\ syncing \in SUBSET joined
  /\ goroutines \in [Listeners -> 0..(Cardinality(Runs) + 1)]
  /\ pending \in [Listeners -> Seq(Nat)] /\ told \in [Listeners -> SUBSET Nat]
  /\ main \in {"crds", "register", "running", "exited"} /\ applied \in 0..Len(Files)
  /\ crds \in SUBSET Crds /\ failures \in 0..MaxFailures

(* main.go:48 "Create custom resource definitions" comes before anything   *)
(* is listed: a CRD that failed to apply, and a restart after it, never    *)
(* leave a reflector asking for a resource the server does not know.       *)
RunsAfterCrds == Started => crds = Crds

Quiet == \A r \in Runs : r \in watching /\ seen[r] = Len(log) /\ queue[r] = <<>>

(* The cache says of k what the server says. *)
Current(k) ==
  LET n == Version(k, Len(log)) IN IF There(n) THEN indexer[k] = n ELSE ~There(indexer[k])

(* What has come by lists, watches and resyncs in whatever order, and from *)
(* whatever Run: when every Run has seen and popped everything, the cache  *)
(* holds what the server holds.                                            *)
QuietCacheIsCurrent == Quiet => \A k \in Keys : Current(k)

(* reflector.go:243 "Reflector framework will catch up via Watch()         *)
(* eventually": the cache ends up as current as the server.                *)
CacheCatchesUp == \A k \in Keys : <>[]Current(k)

(* delta_fifo.go:462 "Replace will delete the contents of 'f', using       *)
(* instead the given map": what is not listed does not reach the cache     *)
(* after all.                                                              *)
DeletedLeavesTheCache ==
  Quiet => \A k \in Keys : ~There(Version(k, Len(log))) => ~There(indexer[k])

(* The cache never goes back to an older version of an object, be it by a  *)
(* relist, a resync or what waits in the queue.                            *)
CacheNeverGoesBack == [][\A k \in Keys : indexer'[k] >= indexer[k]]_startupVars

(* shared_informer.go:34 "When you receive a notification, the cache will  *)
(* be AT LEAST as fresh as the notification".                              *)
CacheAsFreshAsNotifications ==
  \A l \in Listeners : \A i \in DOMAIN pending[l] :
    pending[l][i] <= indexer[log[pending[l][i]].key]

(* However late a handler joins, and whoever runs the informer: it has     *)
(* been told of every object the cache holds, in the version it holds.     *)
NobodyMissesAnObject ==
  \A l \in joined, k \in Keys : There(indexer[k]) => indexer[k] \in told[l]

(* shared_informer.go:43 "Events to a single handler are delivered         *)
(* sequentially": one goroutine calls it.                                  *)
OneGoroutinePerHandler == \A l \in Listeners : goroutines[l] <= 1

(* delta_fifo.go:464 "upon return, it will contain the items in the map":  *)
(* after Replace the newest delta of every listed object is that object.   *)
ReplaceKeepsTheList ==
  [][\A r \in Runs : ListAndWatch(r) => \A k \in Keys :
       There(Version(k, seen'[r])) =>
         \E i \in DOMAIN queue'[r] :
           queue'[r][i].key = k /\ Last(queue'[r][i].deltas).version = Version(k, seen'[r])
    ]_startupVars

(* Every handler is called with the last version of every object that      *)
(* stays, also a handler that joins when the informer has long started.    *)
EveryHandlerHears ==
  \A l \in Listeners, k \in Keys, n \in 1..MaxWrites :
    <>[](Version(k, Len(log)) = n /\ There(n))
      => <>(n \in told[l] /\ \A i \in DOMAIN pending[l] : pending[l][i] # n)
=============================================================================
