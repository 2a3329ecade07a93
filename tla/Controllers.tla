----------------------------- MODULE Controllers -----------------------------
(***************************************************************************)
(* All controllers of controllers.Register on one informer: the            *)
(* provisioner with its queue and its worker, and the three controllers    *)
(* that work in their event handlers.  They meet in the API server's       *)
(* objects and, behind its back, in the objects of the shared cache.       *)
(***************************************************************************)
EXTENDS HealthChecker, Annotator, ConfigGenerator

AllInit == Init /\ HandlersInit

HandlerStep(p) ==
  \/ p \in HealthProcs /\ HealthStep(p)
  \/ p \in AnnotatorProcs /\ AnnotatorStep(p)
  \/ p \in ConfigProcs /\ ConfigStep(p)

AllNext ==
  \/ WorkerStep
  \/ \E r \in Reflectors : ListStep(r) \/ DeliverStep(r)
  \/ ResyncStep
  \/ OtherStep
  \/ CrashStep
  \/ \E p \in Procs : HandlerStep(p)

AllSpec == AllInit /\ [][AllNext]_allVars

(* Every goroutine is scheduled, and the resync timer fires again and      *)
(* again; users, faults and crashes are never due.  The buffer of a        *)
(* listener has no bound in the code, so MaxPending must not hold up a     *)
(* delivery for ever: strong fairness.                                     *)
AllFairSpec ==
  /\ AllSpec
  /\ WF_allVars(WorkerStep)
  /\ \A r \in Reflectors : WF_allVars(ListStep(r)) /\ SF_allVars(DeliverStep(r))
  /\ WF_allVars(\E k \in Names : Enqueue(k) /\ OtherStep)
  /\ WF_allVars(ResyncStep)
  /\ \A p \in Procs : WF_allVars(HandlerStep(p))

(* Each resync sets off the annotator and the healthchecker together, and  *)
(* while the healthchecker asks, the object they share says Ready=Unknown  *)
(* and the annotator skips it.  The annotator does not lose every race.    *)
AnnotatorFairSpec ==
  /\ AllFairSpec
  /\ \A p \in AnnotatorProcs : SF_allVars(\E i \in DOMAIN inbox[p[1]] : AnnotateStarts(p, i))
-----------------------------------------------------------------------------
(* The types of what the handlers add, and that the two views of an object *)
(* agree: what the Provisioner calls the cached object and the worker's    *)
(* object is what their pointers lead to.                                  *)
HandlersTypeOK ==
  /\ TypeOK
  /\ heap \in [Ids -> Cluster \cup {NoCluster}]
  /\ at \in [Names -> Pointer] /\ curAt \in Pointer
  /\ inbox \in [Controllers -> Seq(Notification)]
  /\ task \in [Procs -> Task]
  /\ kubeconfigs \in [Names -> Kubeconfig \cup {NoKubeconfig}]
  /\ \A k \in Names : cache[k] = IF at[k] = Nil THEN NoCluster ELSE heap[at[k]]
  /\ IF curAt = Nil THEN cur = NoCluster
     ELSE cur = heap[curAt] /\ (shared <=> at[key] = curAt)

(* The controllers keep to their own part of an object they share: path,   *)
(* deletion and annotation of a cached object are those the server stored  *)
(* under its resource version, whatever was written into it in memory.     *)
CacheKeepsServersPart ==
  \A k \in Names : Cached(k) =>
    LET c == cache[k]
        e == events[c.rv].obj
    IN  c.uid = e.uid /\ c.path = e.path /\ c.deleting = e.deleting /\ c.version = e.version

(* A live cluster whose provisioning has been recorded and that rke is not *)
(* changing.                                                               *)
Running(k) ==
  /\ Exists(k) /\ ~store[k].deleting /\ store[k].provisioned = "True"
  /\ infra[store[k].path] \in Contents

Configured(k) ==
  kubeconfigs[k] # NoKubeconfig /\ kubeconfigs[k].path = RkeKubeConfig(store[k].path)

(* A running cluster ends up with a Kubeconfig that leads to the file rke  *)
(* wrote for its current config path, though configgenerator acts on the   *)
(* old object of each notification and never retries.  Not if the path is  *)
(* a bare file name: the Kubeconfig then leads to the root directory.      *)
KubeconfigConverges ==
  \A k \in Names :
    <>[](Running(k) /\ store[k].path \notin BarePaths) => <>[](Exists(k) /\ Configured(k))

(* A running cluster whose Kubeconfig leads to it ends up with Ready=True  *)
(* in the API server, though the handler swallows every error and sends an *)
(* object the provisioner writes into meanwhile.                           *)
ReadyConverges ==
  \A k \in Names :
    <>[](Running(k) /\ Configured(k)) => <>[](Exists(k) /\ store[k].ready = "True")

(* The annotation of a running and ready cluster ends up with the version  *)
(* the cluster runs, though a failure to fetch it erases the annotation    *)
(* and nothing tries again before the next notification.                   *)
AnnotationConverges ==
  \A k \in Names :
    <>[](Running(k) /\ Configured(k) /\ store[k].ready = "True")
      => <>[](Exists(k) /\ store[k].version = infra[store[k].path])

(* types.go:12 "Cluster ready to serve API (healthy when true, unhealthy   *)
(* when false)": a cluster whose stored Ready turns True has a Kubeconfig, *)
(* without which nobody can have asked it.                                 *)
ReadyMeansContacted ==
  [][\A k \in Names :
       (Exists(k) /\ store'[k] # NoCluster /\ store[k].ready # "True" /\ store'[k].ready = "True")
         => kubeconfigs[k] # NoKubeconfig]_allVars
=============================================================================
