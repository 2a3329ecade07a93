------------------------------ MODULE Handlers ------------------------------
(***************************************************************************)
(* What the controllers that work inside their event handlers share:       *)
(* configgenerator, healthchecker and annotator.  The informer hands every *)
(* listener pointers to the objects of its cache, so this module adds to   *)
(* the Provisioner the memory those pointers point into, a listener per    *)
(* controller, the goroutines that call the handlers, the Kubeconfig       *)
(* objects of the API server, and how a handler reaches a built cluster.   *)
(*                                                                         *)
(* Every Run on the informer starts the listeners' goroutines once more    *)
(* (shared_informer.go:412), so a handler can run in several goroutines at *)
(* once, and notifications can overtake each other.                        *)
(***************************************************************************)
EXTENDS Provisioner, FiniteSets

CONSTANTS
  Controllers,           \* which of the three controllers run
  Threads,               \* the goroutines that call each handler
  Ids,                   \* addresses; bounds the objects alive at once
  Nil,                   \* the nil pointer
  MaxPending,            \* bound on the notifications a listener holds
  MaxRevision,           \* bound on the writes the API server accepts from handlers
  NoKubeconfig,          \* the absent Kubeconfig
  BarePaths,             \* config paths that are a file name without a directory
  LeftOver               \* config paths of earlier clusters of the same names

ASSUME HandlersAssumption ==
  /\ IsFiniteSet(Names)
  /\ Nil \notin Ids
  /\ MaxPending \in Nat /\ MaxRevision \in Nat
  /\ BarePaths \subseteq Paths
  /\ LeftOver \subseteq Paths

VARIABLES
  heap,                  \* address -> the object there
  at,                    \* name -> address of the cached object
  curAt,                 \* address of the worker's object
  inbox,                 \* controller -> notifications not yet handled
  task,                  \* goroutine -> what its handler is doing
  kubeconfigs            \* name -> the stored Kubeconfig

Procs == Controllers \X Threads

(* getKubeConfigPath puts kube_config_ in front of the file name and one    *)
(* slash too many in front of that: without a directory the file ends up   *)
(* in the root.  rke writes its file beside the config file.               *)
getKubeConfigPath(p) == [dir |-> IF p \in BarePaths THEN "root" ELSE "config", of |-> p]
RkeKubeConfig(p) == [dir |-> "config", of |-> p]

KubeconfigFile == [dir : {"root", "config"}, of : Paths]
Kubeconfig == [owner : Nat, rv : Nat, path : KubeconfigFile]

Pointer == Ids \cup {Nil}
Notification == [key : Names, old : Pointer, new : Ids]

Task ==
  [pc : {"idle", "ask", "contact", "put", "create", "update"},
   key : Names \cup {NoKey},
   obj : Pointer,                               \* the object of the notification
   kubeconfig : Kubeconfig \cup {NoKubeconfig}, \* the Kubeconfig it works with
   copy : Cluster \cup {NoCluster},             \* the annotator's toUpdate
   tries : 0..(MaxTries - 1)]

Idle == [pc |-> "idle", key |-> NoKey, obj |-> Nil, kubeconfig |-> NoKubeconfig,
         copy |-> NoCluster, tries |-> 0]

memoryVars == <<heap, at, curAt>>
handlerVars == <<inbox, task, kubeconfigs>>
provisionerVars == <<queueVars, informerVars, workerVars, worldVars>>
allVars == <<vars, memoryVars, handlerVars>>

(* Nothing deletes a Kubeconfig when its cluster goes.                     *)
OldKubeconfigs == {[owner |-> 0, rv |-> 1, path |-> getKubeConfigPath(p)] : p \in LeftOver}

HandlersInit ==
  /\ heap = [i \in Ids |-> NoCluster]
  /\ at = [k \in Names |-> Nil]
  /\ curAt = Nil
  /\ inbox = [c \in Controllers |-> <<>>]
  /\ task = [p \in Procs |-> Idle]
  /\ kubeconfigs \in [Names -> {NoKubeconfig} \cup OldKubeconfigs]
-----------------------------------------------------------------------------
(* Memory.  An address nothing points to any more is free.                 *)
Pending(c) == {inbox[c][i] : i \in DOMAIN inbox[c]}

Live ==
  ({at[k] : k \in Names} \cup {curAt} \cup {task[p].obj : p \in Procs}
    \cup UNION {{n.old, n.new} : n \in UNION {Pending(c) : c \in Controllers}}) \ {Nil}

(* The objects of h that something still points to after the step.         *)
Keep(h) == heap' = [i \in Ids |-> IF i \in Live' THEN h[i] ELSE NoCluster]

(* New addresses for the objects decoded for the names of S.  There can be *)
(* none: Ids bounds the objects alive at once.                             *)
Allocations(S) == {f \in [S -> Ids \ Live] : \A j, k \in S : j # k => f[j] # f[k]}

Fresh(S) == CHOOSE f \in Allocations(S) : TRUE

(* A handler writes through its pointer: whoever has the same object sees  *)
(* the new value, the cache and the provisioner's worker included.         *)
WriteObject(a, o) ==
  /\ cache' = [k \in Names |-> IF at[k] = a THEN o ELSE cache[k]]
  /\ cur' = IF curAt = a THEN o ELSE cur
  /\ UNCHANGED <<at, curAt>>
  /\ Keep([heap EXCEPT ![a] = o])
-----------------------------------------------------------------------------
(* The steps of the Provisioner, with what they do to pointers.            *)

(* The worker's pointer is the cached one when it looks the object up.  A   *)
(* sync that returns has written its object one last time if rke up failed.*)
WorkerStep ==
  /\ Worker
  /\ curAt' = IF cur' = NoCluster THEN Nil ELSE IF pc = "lookup" THEN at[key] ELSE curAt
  /\ UNCHANGED <<at, handlerVars>>
  /\ Keep(IF curAt = Nil THEN heap
          ELSE [heap EXCEPT ![curAt] =
                  IF cur' # NoCluster THEN cur'
                  ELSE IF pc = "rkeUp" THEN [cur EXCEPT !.provisioned = "False"] ELSE @])

Room == \A c \in Controllers : Len(inbox[c]) < MaxPending

(* Every listener hears of the names in S, whose objects are now at new[k].*)
(* A name that was not cached is an add: there is no old object.           *)
Announce(S, new) ==
  IF S = {} THEN UNCHANGED inbox
  ELSE /\ Room
       /\ \E order \in [1..Cardinality(S) -> S] :
            /\ \A k \in S : \E i \in DOMAIN order : order[i] = k
            /\ inbox' = [c \in Controllers |->
                 inbox[c] \o [i \in DOMAIN order |->
                   [key |-> order[i], old |-> at[order[i]], new |-> new[order[i]]]]]

ListStep(r) ==
  /\ List(r)
  /\ LET S == {k \in Names : Exists(k)}
         new == Fresh(S)
     IN  /\ Allocations(S) # {}
         /\ at' = [k \in Names |-> IF k \in S THEN new[k] ELSE Nil]
         /\ Announce(IF syncing THEN S ELSE {}, new)
         /\ UNCHANGED <<curAt, task, kubeconfigs>>
         /\ Keep([i \in Ids |-> IF \E k \in S : new[k] = i
                                THEN store[CHOOSE k \in S : new[k] = i] ELSE heap[i]])

DeliverStep(r) ==
  /\ Deliver(r)
  /\ LET e == events[pos[r] + 1]
         S == IF e.type = "put" THEN {e.key} ELSE {}
         new == Fresh(S)
     IN  /\ Allocations(S) # {}
         /\ at' = [at EXCEPT ![e.key] = IF S = {} THEN Nil ELSE new[e.key]]
         /\ Announce(S, new)
         /\ UNCHANGED <<curAt, task, kubeconfigs>>
         /\ Keep(IF S = {} THEN heap ELSE [heap EXCEPT ![new[e.key]] = e.obj])

(* A resync announces every cached object as both the old and the new one. *)
(* In the 30 seconds before it the handlers have done what they had to do. *)
ResyncStep ==
  /\ Resync
  /\ \A c \in Controllers : inbox[c] = <<>>
  /\ \A p \in Procs : task[p] = Idle
  /\ Announce({k \in Names : Cached(k)}, at)
  /\ UNCHANGED <<memoryVars, task, kubeconfigs>>

(* A crash takes the memory and the goroutines; what is stored stays.      *)
CrashStep ==
  /\ Crash
  /\ heap' = [i \in Ids |-> NoCluster]
  /\ at' = [k \in Names |-> Nil]
  /\ curAt' = Nil
  /\ inbox' = [c \in Controllers |-> <<>>]
  /\ task' = [p \in Procs |-> Idle]
  /\ UNCHANGED kubeconfigs

OtherStep ==
  /\ \/ ResyncNotDue
     \/ User
     \/ \E r \in Reflectors : WatchBreaks(r)
     \/ \E k \in Names : Enqueue(k)
  /\ UNCHANGED <<memoryVars, handlerVars>>
-----------------------------------------------------------------------------
(* What the handlers have in common.                                       *)

(* Nobody's object changes: the handler may only let go of its own.        *)
OnlyPointersDropped == UNCHANGED <<provisionerVars, at, curAt>> /\ Keep(heap)

(* The other variables of a step that writes into an object.               *)
RestUnchanged ==
  UNCHANGED <<queueVars, listed, syncing, pos, notified, pc, key, shared, localVars, worldVars,
              inbox, kubeconfigs>>

At(p, state) == task[p].pc = state
Goes(p, state) == task' = [task EXCEPT ![p].pc = state]
Returns(p) == task' = [task EXCEPT ![p] = Idle]
Object(p) == heap[task[p].obj]

(* A goroutine takes a notification.  With one goroutine per listener they *)
(* come in order; with several each also runs its own pop, and any of the  *)
(* waiting ones can be the next.                                           *)
Takes(p, i) ==
  /\ At(p, "idle")
  /\ i \in DOMAIN inbox[p[1]]
  /\ i = 1 \/ Cardinality(Threads) > 1
  /\ inbox' = [inbox EXCEPT ![p[1]] = SubSeq(@, 1, i - 1) \o SubSeq(@, i + 1, Len(@))]

Starts(p, n, a) == task' = [task EXCEPT ![p] = [Idle EXCEPT !.pc = "ask", !.key = n.key, !.obj = a]]

(* The object addConfig, updateConfig, addAnnotation and updateAnnotation  *)
(* pass to sync: of an update it is the old one.                           *)
OldObject(n) == IF n.old = Nil THEN n.new ELSE n.old

(* Kubeconfigs().Get.                                                      *)
KubeconfigMissing(p) == kubeconfigs[task[p].key] = NoKubeconfig /\ UNCHANGED storeVars
KubeconfigGetFails == Fault /\ UNCHANGED <<store, events>>
KubeconfigFound(p) == kubeconfigs[task[p].key] # NoKubeconfig /\ UNCHANGED storeVars

(* Discovery().ServerVersion of the cluster the Kubeconfig leads to.  What *)
(* rke applied stands for the version.  A cluster that rke is changing may *)
(* answer, but only so often.                                              *)
Serves(f) == f = RkeKubeConfig(f.of) /\ infra[f.of] \notin {NoInfra, Partial}

Answers(f, v) ==
  /\ UNCHANGED <<store, events>>
  /\ \/ Serves(f) /\ v = infra[f.of] /\ UNCHANGED faults
     \/ f = RkeKubeConfig(f.of) /\ infra[f.of] = Partial /\ Fault

NoAnswer(f) ==
  /\ UNCHANGED <<store, events>>
  /\ (~Serves(f) /\ UNCHANGED faults) \/ Fault

(* Mutant of PutSucceeds: the PUT names no resource version. *)
PutSucceedsUnversioned(p, c) ==
  /\ Revision < MaxRevision
  /\ Exists(task[p].key) /\ Put(task[p].key, c) /\ UNCHANGED faults
  /\ Returns(p)

(* The loop of three Clusters().Update calls.                              *)
PutSucceeds(p, c) ==
  /\ Revision < MaxRevision
  /\ UpdateSucceeds(task[p].key, c)
  /\ Returns(p)

(* Mutant of PutFails: one try too many. *)
PutFailsOnceMore(p, c) ==
  /\ UpdateFails(task[p].key, c)
  /\ IF task[p].tries < MaxTries THEN task' = [task EXCEPT ![p].tries = @ + 1] ELSE Returns(p)

PutFails(p, c) ==
  /\ UpdateFails(task[p].key, c)
  /\ IF task[p].tries + 1 < MaxTries THEN task' = [task EXCEPT ![p].tries = @ + 1] ELSE Returns(p)
=============================================================================
