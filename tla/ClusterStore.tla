----------------------------- MODULE ClusterStore -----------------------------
(***************************************************************************)
(* The Kubernetes API server as the controllers see it through the         *)
(* generated clientset: the stored Cluster objects, the ordered stream of  *)
(* watch events, and the rules every write obeys (optimistic concurrency   *)
(* on the resource version, finalizers that delay a deletion).  The server *)
(* is not part of this repository; what it does is taken from how the      *)
(* controllers use it.                                                     *)
(*                                                                         *)
(* A resource version is the number of the event the write produced, and   *)
(* the uid of an object is the resource version of its creation.           *)
(***************************************************************************)
EXTENDS Naturals, Sequences

CONSTANTS
  Names,                 \* cluster names
  Paths,                 \* values of spec.configPath
  Contents,              \* what a config file can contain
  NoConfig,              \* the empty string: AppliedConfig of a new cluster
  ForeignFinalizers,     \* finalizers other clients put on a cluster
  NoCluster,             \* the absent object
  MaxFaults              \* bound on what fails in a behaviour

ProvisionerFinalizer == "provisioner"

ASSUME StoreAssumption ==
  /\ ProvisionerFinalizer \notin ForeignFinalizers
  /\ NoConfig \notin Contents
  /\ MaxFaults \in Nat

VARIABLES
  store,                 \* name -> the stored cluster, or NoCluster
  events,                \* every watch event so far, oldest first
  faults                 \* requests, watches and rke runs that failed so far

storeVars == <<store, events, faults>>

ConditionStatus == {"", "Unknown", "True", "False"}

Cluster ==
  [uid : Nat, rv : Nat, deleting : BOOLEAN,
   finalizers : SUBSET (ForeignFinalizers \cup {ProvisionerFinalizer}),
   path : Paths,
   applied : Contents \cup {NoConfig},
   provisioned : ConditionStatus,
   ready : ConditionStatus,                 \* the healthchecker's condition
   version : Contents \cup {NoConfig}]      \* the annotator's annotation

Event == [type : {"put", "gone"}, key : Names, obj : Cluster]

Revision == Len(events)
Exists(k) == store[k] # NoCluster
Guarded(c) == ProvisionerFinalizer \in c.finalizers

StoreTypeOK ==
  /\ store \in [Names -> Cluster \cup {NoCluster}]
  /\ events \in Seq(Event)
  /\ faults \in Nat

StoreInit ==
  /\ store = [k \in Names |-> NoCluster]
  /\ events = <<>>
  /\ faults = 0
-----------------------------------------------------------------------------
(* An accepted write gets the next resource version and one watch event.   *)
Commit(k, c) ==
  LET n == [c EXCEPT !.rv = Revision + 1]
  IN  /\ store' = [store EXCEPT ![k] = n]
      /\ events' = Append(events, [type |-> "put", key |-> k, obj |-> n])

Erase(k) ==
  /\ store' = [store EXCEPT ![k] = NoCluster]
  /\ events' = Append(events, [type |-> "gone", key |-> k, obj |-> store[k]])

(* A PUT is refused with NotFound or Conflict unless it carries the        *)
(* resource version of the stored object.                                  *)
Accepts(k, c) == Exists(k) /\ store[k].rv = c.rv

(* A PUT that changes nothing writes nothing.  One that takes the last     *)
(* finalizer off an object being deleted removes the object.               *)
Put(k, c) ==
  IF c = store[k] THEN UNCHANGED <<store, events>>
  ELSE IF c.deleting /\ c.finalizers = {} THEN Erase(k)
  ELSE Commit(k, c)

(* Clusters().Update(c) as the caller sees it.  A fault loses the request  *)
(* or, worse, only its answer.                                             *)
UpdateSucceeds(k, c) ==
  /\ Accepts(k, c)
  /\ Put(k, c)
  /\ UNCHANGED faults

Fault == faults < MaxFaults /\ faults' = faults + 1

UpdateFails(k, c) ==
  \/ ~Accepts(k, c) /\ UNCHANGED storeVars
  \/ Fault /\ UNCHANGED <<store, events>>
  \/ Fault /\ Accepts(k, c) /\ Put(k, c)
-----------------------------------------------------------------------------
(* What users and other clients do with kubectl.                           *)
UserCreates(k, p, fs) ==
  /\ ~Exists(k)
  /\ Commit(k, [uid |-> Revision + 1, rv |-> 0, deleting |-> FALSE,
                finalizers |-> fs, path |-> p,
                applied |-> NoConfig, provisioned |-> "",
                ready |-> "", version |-> NoConfig])
  /\ UNCHANGED faults

(* Without finalizers the object goes at once; with finalizers it is only  *)
(* marked (DeletionTimestamp).                                             *)
UserDeletes(k) ==
  /\ Exists(k)
  /\ ~store[k].deleting
  /\ IF store[k].finalizers = {} THEN Erase(k)
     ELSE Commit(k, [store[k] EXCEPT !.deleting = TRUE])
  /\ UNCHANGED faults

UserMovesConfig(k, p) ==
  /\ Exists(k)
  /\ p # store[k].path
  /\ Commit(k, [store[k] EXCEPT !.path = p])
  /\ UNCHANGED faults

(* A write that touches nothing the provisioner uses: the Ready condition, *)
(* or a label, which makes no difference to anybody.                       *)
OtherFieldWritten(k) ==
  /\ Exists(k)
  /\ Commit(k, [store[k] EXCEPT !.ready = "True"])
  /\ UNCHANGED faults

(* The owner of a foreign finalizer takes it off. *)
ForeignFinalizerDone(k, f) ==
  /\ Exists(k)
  /\ f \in store[k].finalizers \cap ForeignFinalizers
  /\ Put(k, [store[k] EXCEPT !.finalizers = @ \ {f}])
  /\ UNCHANGED faults
=============================================================================
