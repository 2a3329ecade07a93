------------------------------ MODULE TaskQueue ------------------------------
(***************************************************************************)
(* util.TaskQueue: a work queue and the one worker goroutine that calls    *)
(* sync for each key.  Run keeps the worker alive with wait.Until, which   *)
(* calls it again one period after it returns unless stopCh is closed.     *)
(* Clients are the informer's listener (Enqueue), sync itself (Requeue)    *)
(* and whoever calls Shutdown.                                             *)
(***************************************************************************)
EXTENDS WorkQueue

CONSTANT NoKey
ASSUME NoKeyAssumption == NoKey \notin Keys

VARIABLES
  pc,                    \* where the worker goroutine is
  current,               \* the key the worker passes to sync
  workerDone,            \* the channel workerDone is closed
  stopCh,                \* the channel given to Run is closed
  caller                 \* the caller of Shutdown

workerVars == <<pc, current>>
vars == <<queueVars, workerVars, workerDone, stopCh, caller>>

(* The type of the queue's fields, the worker, the channels and the caller: *)
(* the key given to sync is one that was added.                            *)
TypeOK ==
  /\ QueueTypeOK
  /\ pc \in {"starting", "get", "sync", "exited", "stopped", "panicked"}
  /\ current \in Keys \cup {NoKey}
  /\ workerDone \in BOOLEAN
  /\ stopCh \in BOOLEAN
  /\ caller \in {"running", "waiting", "returned"}

Init ==
  /\ QueueInit
  /\ pc = "starting"
  /\ current = NoKey
  /\ workerDone = FALSE
  /\ stopCh = FALSE
  /\ caller = "running"
-----------------------------------------------------------------------------
(* A panic in any goroutine ends the process.                              *)
Alive == pc # "panicked"

Enqueue(k) ==
  /\ Alive
  /\ Add(k)
  /\ UNCHANGED <<workerVars, workerDone, stopCh, caller>>

(* wait.Until looks at stopCh before every call of the worker.  Its period *)
(* of one second is taken to be longer than a goroutine that is waiting    *)
(* for workerDone needs to wake up.                                        *)
RunWorker ==
  /\ pc \in {"starting", "exited"}
  /\ workerDone => caller # "waiting"
  /\ pc' = IF stopCh THEN "stopped" ELSE "get"
  /\ UNCHANGED <<queueVars, current, workerDone, stopCh, caller>>

WorkerGet(k) ==
  /\ pc = "get"
  /\ Get(k)
  /\ pc' = "sync"
  /\ current' = k
  /\ UNCHANGED <<workerDone, stopCh, caller>>

(* Mutant of Requeue: a retry that comes after the worker is done. *)
RequeueLate ==
  /\ Alive
  /\ Add(current)
  /\ UNCHANGED <<workerVars, workerDone, stopCh, caller>>

(* sync puts its own key back when it fails. *)
Requeue ==
  /\ pc = "sync"
  /\ Add(current)
  /\ UNCHANGED <<workerVars, workerDone, stopCh, caller>>

WorkerDone ==
  /\ pc = "sync"
  /\ Done(current)
  /\ pc' = "get"
  /\ current' = NoKey
  /\ UNCHANGED <<workerDone, stopCh, caller>>

(* Mutant of WorkerQuit: the worker exits without closing workerDone. *)
WorkerQuitSilently ==
  /\ pc = "get"
  /\ GetQuits
  /\ pc' = "exited"
  /\ UNCHANGED <<queueVars, current, workerDone, stopCh, caller>>

(* close(workerDone): closing a closed channel panics, and HandleCrash     *)
(* re-raises the panic.                                                    *)
WorkerQuit ==
  /\ pc = "get"
  /\ GetQuits
  /\ pc' = IF workerDone THEN "panicked" ELSE "exited"
  /\ workerDone' = TRUE
  /\ UNCHANGED <<queueVars, current, stopCh, caller>>

Shutdown ==
  /\ Alive
  /\ caller = "running"
  /\ ShutDown
  /\ caller' = "waiting"
  /\ UNCHANGED <<workerVars, workerDone, stopCh>>

ShutdownReturn ==
  /\ Alive
  /\ caller = "waiting"
  /\ workerDone
  /\ caller' = "returned"
  /\ UNCHANGED <<queueVars, workerVars, workerDone, stopCh>>

CloseStopCh ==
  /\ Alive
  /\ stopCh' = TRUE
  /\ UNCHANGED <<queueVars, workerVars, workerDone, caller>>

Worker == RunWorker \/ WorkerDone \/ WorkerQuit \/ \E k \in Keys : WorkerGet(k)

Next ==
  \/ Worker
  \/ Requeue
  \/ \E k \in Keys : Enqueue(k)
  \/ Shutdown
  \/ ShutdownReturn
  \/ CloseStopCh

(* The goroutines are scheduled fairly and every sync returns; clients     *)
(* need never call, and sync need never requeue.                           *)
Spec == Init /\ [][Next]_vars

FairSpec ==
  /\ Spec
  /\ WF_vars(RunWorker) /\ WF_vars(WorkerQuit) /\ WF_vars(ShutdownReturn)
  /\ WF_vars(\E k \in Keys : WorkerGet(k))
  /\ WF_vars(WorkerDone)
-----------------------------------------------------------------------------
(* The one worker holds exactly the keys in processing.                    *)
WorkerHoldsProcessing ==
  processing = IF pc = "sync" THEN {current} ELSE {}

(* Once Shutdown has returned nothing accepted before it is left behind:   *)
(* no key waits and none is being synced (util.go:60, Shutdown "waits for  *)
(* the worker to ACK").                                                    *)
ShutdownDrains == caller = "returned" => dirty = {} /\ processing = {}

(* wait.Until never calls the worker when stopCh is closed before Run.     *)
Started == pc \notin {"starting", "stopped"}

(* Shutdown does return when the worker has been started: refusing new     *)
(* keys lets even a sync that always requeues run dry.                     *)
ShutdownReturns == (caller = "waiting" /\ Started) ~> caller = "returned"

(* "The sync function is called for every element inserted into the queue" *)
(* (util.go:67): a key that is dirty, even one added while it is being     *)
(* synced, is picked up again, however often other keys are requeued.      *)
EveryKeyIsSynced ==
  \A k \in Keys : (k \in dirty /\ Started) ~> (k \in processing /\ k \notin dirty)

(* The queue with its order, its two sets and its worker keeps the promise *)
(* of TaskPool: what is dirty is pending, what is in processing is running.*)
Pool == INSTANCE TaskPool
  WITH pending <- dirty, running <- processing, closed <- shuttingDown

(* util.TaskQueue implements TaskPool. *)
ImplementsPool == Pool!Spec

(* util.go:19 says workerDone is closed when the worker exits; the worker  *)
(* exits again one period after Shutdown when stopCh is still open, and    *)
(* then closes a closed channel.                                           *)
ClosesWorkerDoneOnce == pc # "panicked"
=============================================================================
