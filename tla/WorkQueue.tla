------------------------------ MODULE WorkQueue ------------------------------
(***************************************************************************)
(* The work queue of client-go (vendor/k8s.io/client-go/util/workqueue).   *)
(* It hands out each key to one worker at a time, collapses the keys added *)
(* while they wait, and gives a key added while it is processed back to    *)
(* the queue when the worker reports Done.                                 *)
(*                                                                         *)
(* The module declares the fields of the Go struct and one action formula  *)
(* per method.  Every method runs under the lock of q.cond, so each is one *)
(* step.  The modules that own a worker (TaskQueue, Provisioner) conjoin   *)
(* these formulas with what the caller does in the same step.              *)
(***************************************************************************)
EXTENDS Naturals, Sequences

CONSTANT Keys            \* the keys that can be added: the cluster names

VARIABLES
  queue,                 \* the order in which waiting keys are handed out
  dirty,                 \* the keys that need processing
  processing,            \* the keys a worker has taken and not yet given back
  shuttingDown           \* ShutDown was called

queueVars == <<queue, dirty, processing, shuttingDown>>

Waiting == {queue[i] : i \in DOMAIN queue}

QueueTypeOK ==
  /\ queue \in Seq(Keys)
  /\ dirty \in SUBSET Keys
  /\ processing \in SUBSET Keys
  /\ shuttingDown \in BOOLEAN

QueueInit ==
  /\ queue = <<>>
  /\ dirty = {}
  /\ processing = {}
  /\ shuttingDown = FALSE
-----------------------------------------------------------------------------
(* Mutant of Accepted: shutdown does not close the door. *)
AcceptedAlways(k) == k \notin dirty

(* Add: ignored on shutdown and for a key that is already dirty; a key in  *)
(* processing only becomes dirty, it joins the queue when it is Done.      *)
Accepted(k) == ~shuttingDown /\ k \notin dirty

(* Mutant of Add: a key that is being processed joins the queue at once. *)
AddAtOnce(k) ==
  /\ dirty' = IF Accepted(k) THEN dirty \cup {k} ELSE dirty
  /\ queue' = IF Accepted(k) THEN Append(queue, k) ELSE queue
  /\ UNCHANGED <<processing, shuttingDown>>

Add(k) ==
  /\ dirty' = IF Accepted(k) THEN dirty \cup {k} ELSE dirty
  /\ queue' = IF Accepted(k) /\ k \notin processing THEN Append(queue, k) ELSE queue
  /\ UNCHANGED <<processing, shuttingDown>>

(* Get blocks until the queue has a key. *)
Get(k) ==
  /\ queue # <<>>
  /\ k = Head(queue)
  /\ queue' = Tail(queue)
  /\ processing' = processing \cup {k}
  /\ dirty' = dirty \ {k}
  /\ UNCHANGED shuttingDown

(* Mutant of GetQuits: shutdown does not wait for the queue to run dry. *)
GetQuitsEarly == shuttingDown

(* The other way out of Get: nothing is left and the queue is shut down. *)
GetQuits == queue = <<>> /\ shuttingDown

(* Mutant of Done: a key added while it was processed is dropped. *)
DoneForgets(k) ==
  /\ processing' = processing \ {k}
  /\ UNCHANGED <<queue, dirty, shuttingDown>>

Done(k) ==
  /\ processing' = processing \ {k}
  /\ queue' = IF k \in dirty THEN Append(queue, k) ELSE queue
  /\ UNCHANGED <<dirty, shuttingDown>>

ShutDown ==
  /\ shuttingDown' = TRUE
  /\ UNCHANGED <<queue, dirty, processing>>
-----------------------------------------------------------------------------
(* The comment on Type.queue (queue.go:48-50): every element of the queue  *)
(* is in the dirty set and not in the processing set.  Together with the   *)
(* converse (a dirty key is queued or in processing) and the absence of    *)
(* duplicates this is what makes a wake-up impossible to lose and a key    *)
(* impossible to hand to two workers.                                      *)
QueueMatchesSets ==
  /\ Waiting = dirty \ processing
  /\ \A i, j \in DOMAIN queue : i # j => queue[i] # queue[j]
=============================================================================
