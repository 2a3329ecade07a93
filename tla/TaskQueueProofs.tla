--------------------------- MODULE TaskQueueProofs ---------------------------
(***************************************************************************)
(* The safety properties of TaskQueue for every set of keys.  First what   *)
(* each method of the work queue preserves, whoever calls it; then one     *)
(* inductive invariant, IInv: the queue is consistent, the worker holds    *)
(* exactly the keys in processing, and a closed workerDone means that      *)
(* nothing is left.                                                        *)
(***************************************************************************)
EXTENDS TaskQueue, SequenceTheorems, TLAPS

(* The work queue by itself: its variables' types and no lost or doubled   *)
(* key.                                                                    *)
QueueInv == QueueTypeOK /\ QueueMatchesSets

(* A new queue is consistent. *)
LEMMA QueueInitInv == QueueInit => QueueInv
<1> SUFFICES ASSUME QueueInit PROVE QueueInv
  OBVIOUS
<1>1. queue \in Seq(Keys) /\ DOMAIN queue = {}
  BY EmptySeq DEF QueueInit
<1> QED BY <1>1 DEF QueueInit, QueueInv, QueueTypeOK, QueueMatchesSets, Waiting

(* Only the queue's own state decides whether it is consistent.            *)
LEMMA QueueStutter ==
  ASSUME QueueInv, UNCHANGED queueVars
  PROVE  QueueInv'
BY DEF QueueInv, QueueTypeOK, QueueMatchesSets, Waiting, queueVars

(* Appending a key that does not wait yet keeps the entries distinct.      *)
LEMMA AppendDistinct ==
  ASSUME NEW s \in Seq(Keys), NEW k \in Keys,
         \A i, j \in DOMAIN s : i # j => s[i] # s[j],
         \A i \in DOMAIN s : s[i] # k
  PROVE  LET t == Append(s, k)
         IN  /\ t \in Seq(Keys)
             /\ {t[i] : i \in DOMAIN t} = {s[i] : i \in DOMAIN s} \cup {k}
             /\ \A i, j \in DOMAIN t : i # j => t[i] # t[j]
<1> DEFINE t == Append(s, k)
<1>1. /\ t \in Seq(Keys)
      /\ Len(t) = Len(s) + 1
      /\ \A i \in 1..Len(s) : t[i] = s[i]
      /\ t[Len(s) + 1] = k
  BY AppendProperties
<1>2. DOMAIN s = 1..Len(s) /\ DOMAIN t = 1..(Len(s) + 1) /\ Len(s) \in Nat
  BY <1>1, LenProperties
<1> HIDE DEF t
<1>3. {t[i] : i \in DOMAIN t} = {s[i] : i \in DOMAIN s} \cup {k}
  <2>1. ASSUME NEW i \in DOMAIN t PROVE t[i] \in {s[j] : j \in DOMAIN s} \cup {k}
    BY <1>1, <1>2
  <2>2. ASSUME NEW i \in DOMAIN s PROVE s[i] \in {t[j] : j \in DOMAIN t}
    <3>1. i \in DOMAIN t /\ t[i] = s[i]
      BY <1>1, <1>2
    <3> QED BY <3>1
  <2>3. k \in {t[j] : j \in DOMAIN t}
    <3>1. Len(s) + 1 \in DOMAIN t
      BY <1>2
    <3> QED BY <1>1, <3>1
  <2> QED BY <2>1, <2>2, <2>3
<1>4. \A i, j \in DOMAIN t : i # j => t[i] # t[j]
  BY <1>1, <1>2
<1> QED BY <1>1, <1>3, <1>4 DEF t

(* Taking the first key keeps the others in place.                         *)
LEMMA TailDistinct ==
  ASSUME NEW s \in Seq(Keys), s # <<>>,
         \A i, j \in DOMAIN s : i # j => s[i] # s[j]
  PROVE  LET t == Tail(s)
         IN  /\ t \in Seq(Keys)
             /\ Head(s) \in {s[i] : i \in DOMAIN s}
             /\ {t[i] : i \in DOMAIN t} = {s[i] : i \in DOMAIN s} \ {Head(s)}
             /\ \A i, j \in DOMAIN t : i # j => t[i] # t[j]
<1> DEFINE t == Tail(s)
<1>1. /\ t \in Seq(Keys)
      /\ Len(t) = Len(s) - 1
      /\ \A i \in 1..Len(t) : t[i] = s[i + 1]
  BY HeadTailProperties
<1>2. /\ DOMAIN s = 1..Len(s) /\ DOMAIN t = 1..(Len(s) - 1)
      /\ Len(s) \in Nat /\ Len(s) # 0
  BY <1>1, LenProperties, EmptySeq
<1>3. Head(s) = s[1]
  BY <1>2
<1> HIDE DEF t
<1>4. {t[i] : i \in DOMAIN t} = {s[i] : i \in DOMAIN s} \ {s[1]}
  <2>1. ASSUME NEW i \in DOMAIN t PROVE t[i] \in {s[j] : j \in DOMAIN s} \ {s[1]}
    <3>1. i + 1 \in DOMAIN s /\ 1 \in DOMAIN s /\ i + 1 # 1 /\ t[i] = s[i + 1]
      BY <1>1, <1>2
    <3> QED BY <3>1
  <2>2. ASSUME NEW i \in DOMAIN s, i # 1 PROVE s[i] \in {t[j] : j \in DOMAIN t}
    <3>1. i - 1 \in DOMAIN t /\ t[i - 1] = s[i]
      BY <1>1, <1>2, <2>2
    <3> QED BY <3>1
  <2> QED BY <2>1, <2>2
<1>5. ASSUME NEW i \in DOMAIN t, NEW j \in DOMAIN t, i # j PROVE t[i] # t[j]
  <2>1. i + 1 \in DOMAIN s /\ j + 1 \in DOMAIN s /\ i + 1 # j + 1
    BY <1>2, <1>5
  <2>2. t[i] = s[i + 1] /\ t[j] = s[j + 1]
    BY <1>1, <1>2
  <2> QED BY <2>1, <2>2
<1>6. s[1] \in {s[i] : i \in DOMAIN s}
  <2>1. 1 \in DOMAIN s
    BY <1>2
  <2> QED BY <2>1
<1> QED BY <1>1, <1>3, <1>4, <1>5, <1>6 DEF t

(* Add keeps the queue consistent.                                         *)
LEMMA AddInv ==
  ASSUME QueueInv, NEW k \in Keys, Add(k)
  PROVE  QueueInv'
<1> USE DEF QueueInv, QueueTypeOK, QueueMatchesSets, Waiting, Add
<1>1. CASE Accepted(k) /\ k \notin processing
  <2>1. \A i \in DOMAIN queue : queue[i] # k
    BY <1>1 DEF Accepted
  <2>2. queue' = Append(queue, k) /\ dirty' = dirty \cup {k} /\ processing' = processing
    BY <1>1
  <2> QED BY <2>1, <2>2, <1>1, AppendDistinct
<1>2. CASE ~Accepted(k) \/ k \in processing
  <2>1. queue' = queue /\ processing' = processing /\ dirty' \in {dirty, dirty \cup {k}}
    BY <1>2
  <2>2. dirty' \ processing' = dirty \ processing
    BY <1>2, <2>1
  <2> QED BY <2>1, <2>2
<1> QED BY <1>1, <1>2

(* Get hands out a key that needs processing and that no worker holds, and *)
(* keeps the queue consistent.                                             *)
LEMMA GetInv ==
  ASSUME QueueInv, NEW k, Get(k)
  PROVE  QueueInv' /\ k \in dirty \ processing
<1> USE DEF QueueInv, QueueTypeOK, QueueMatchesSets, Waiting, Get
<1>1. k \in dirty \ processing /\ k \in Keys
  BY TailDistinct
<1>2. {queue'[i] : i \in DOMAIN queue'} = {queue[i] : i \in DOMAIN queue} \ {k}
  BY TailDistinct
<1>3. dirty' \ processing' = (dirty \ processing) \ {k}
  OBVIOUS
<1>4. queue' \in Seq(Keys) /\ \A i, j \in DOMAIN queue' : i # j => queue'[i] # queue'[j]
  BY TailDistinct
<1> QED BY <1>1, <1>2, <1>3, <1>4

(* Done keeps the queue consistent, provided the caller had the key.       *)
LEMMA DoneInv ==
  ASSUME QueueInv, NEW k \in processing, Done(k)
  PROVE  QueueInv'
<1> USE DEF QueueInv, QueueTypeOK, QueueMatchesSets, Waiting, Done
<1>1. CASE k \in dirty
  <2>1. \A i \in DOMAIN queue : queue[i] # k
    OBVIOUS
  <2>2. queue' = Append(queue, k)
    BY <1>1
  <2>3. dirty' \ processing' = (dirty \ processing) \cup {k}
    BY <1>1
  <2> QED BY <2>1, <2>2, <2>3, AppendDistinct
<1>2. CASE k \notin dirty
  BY <1>2
<1> QED BY <1>1, <1>2
-----------------------------------------------------------------------------
(* workerDone is closed only by a worker that found the queue empty while  *)
(* it held no key; nothing is accepted afterwards.                         *)
DoneMeansDrained ==
  /\ workerDone => shuttingDown /\ dirty = {} /\ processing = {}
  /\ caller = "returned" => workerDone

IInv ==
  /\ TypeOK
  /\ QueueMatchesSets
  /\ WorkerHoldsProcessing
  /\ DoneMeansDrained

(* The inductive invariant holds when NewTaskQueue returns.                *)
LEMMA IInvInit == Init => IInv
<1> SUFFICES ASSUME Init PROVE IInv
  OBVIOUS
<1>1. QueueInv
  BY QueueInitInv DEF Init
<1> QED BY <1>1 DEF Init, QueueInit, IInv, TypeOK, QueueInv, QueueTypeOK,
                    WorkerHoldsProcessing, DoneMeansDrained

(* Every step keeps IInv: one case per action. *)
LEMMA IInvStep == IInv /\ [Next]_vars => IInv'
<1> SUFFICES ASSUME IInv, [Next]_vars PROVE IInv'
  OBVIOUS
<1> USE NoKeyAssumption DEF IInv, TypeOK, QueueInv, WorkerHoldsProcessing, DoneMeansDrained
<1>0. QueueInv /\ QueueTypeOK
  BY DEF QueueTypeOK
<1>1. CASE RunWorker
  <2>1. QueueInv'
    BY <1>0, <1>1, QueueStutter DEF RunWorker
  <2> QED BY <1>1, <2>1 DEF RunWorker, workerVars, queueVars
<1>2. ASSUME NEW k \in Keys, WorkerGet(k) PROVE IInv'
  <2>1. QueueInv' /\ k \in dirty \ processing
    BY <1>0, <1>2, GetInv DEF WorkerGet
  <2>2. processing' = {k} /\ pc' = "sync" /\ current' = k /\ UNCHANGED <<workerDone, caller>>
    BY <1>2 DEF WorkerGet, Get
  <2>3. ~workerDone
    BY <2>1
  <2> QED BY <1>2, <2>1, <2>2, <2>3 DEF WorkerGet
<1>3. CASE WorkerDone
  <2>1. QueueInv'
    BY <1>0, <1>3, DoneInv DEF WorkerDone
  <2>2. processing' = {}
    BY <1>3 DEF WorkerDone, Done
  <2>3. ~workerDone
    BY <1>3 DEF WorkerDone
  <2> QED BY <1>3, <2>1, <2>2, <2>3 DEF WorkerDone
<1>4. CASE WorkerQuit
  <2>1. QueueInv'
    BY <1>0, <1>4, QueueStutter DEF WorkerQuit
  <2>2. processing = {}
    BY <1>4 DEF WorkerQuit
  <2>3. Waiting = {}
    BY <1>4 DEF WorkerQuit, GetQuits, Waiting
  <2>4. dirty = {}
    BY <2>2, <2>3 DEF QueueMatchesSets
  <2>5. workerDone' /\ shuttingDown' /\ dirty' = {} /\ processing' = {} /\ pc' # "sync"
    BY <1>4, <2>2, <2>4 DEF WorkerQuit, GetQuits, queueVars
  <2> QED BY <1>4, <2>1, <2>5 DEF WorkerQuit
<1>5. ASSUME NEW k \in Keys, Add(k), UNCHANGED <<workerVars, workerDone, stopCh, caller>>
      PROVE  IInv'
  <2>1. QueueInv'
    BY <1>0, <1>5, AddInv
  <2>2. processing' = processing /\ shuttingDown' = shuttingDown /\ (shuttingDown => dirty' = dirty)
    BY <1>5 DEF Add, Accepted
  <2> QED BY <1>5, <2>1, <2>2 DEF workerVars
<1>6. ASSUME NEW k \in Keys, Enqueue(k) PROVE IInv'
  BY <1>5, <1>6 DEF Enqueue
<1>7. CASE Requeue
  <2>1. current \in Keys
    BY <1>7 DEF Requeue, QueueTypeOK
  <2> QED BY <1>5, <1>7, <2>1 DEF Requeue
<1>8. CASE Shutdown
  <2>1. QueueInv'
    BY <1>0, <1>8 DEF Shutdown, ShutDown, QueueTypeOK, QueueMatchesSets, Waiting
  <2> QED BY <1>8, <2>1 DEF Shutdown, ShutDown, workerVars
<1>9. CASE ShutdownReturn
  <2>1. QueueInv'
    BY <1>0, <1>9, QueueStutter DEF ShutdownReturn
  <2> QED BY <1>9, <2>1 DEF ShutdownReturn, workerVars, queueVars
<1>10. CASE CloseStopCh
  <2>1. QueueInv'
    BY <1>0, <1>10, QueueStutter DEF CloseStopCh
  <2> QED BY <1>10, <2>1 DEF CloseStopCh, workerVars, queueVars
<1>11. CASE UNCHANGED vars
  <2>1. QueueInv'
    BY <1>0, <1>11, QueueStutter DEF vars
  <2> QED BY <1>11, <2>1 DEF vars, workerVars, queueVars
<1> QED BY <1>1, <1>2, <1>3, <1>4, <1>6, <1>7, <1>8, <1>9, <1>10, <1>11 DEF Next, Worker

(* The inductive invariant holds in every reachable state.                 *)
LEMMA IInvAlways == Spec => []IInv
BY IInvInit, IInvStep, PTL DEF Spec

(* The variables of TaskQueue keep their types. *)
THEOREM TypeCorrect == Spec => []TypeOK
<1>1. IInv => TypeOK
  BY DEF IInv
<1> QED BY <1>1, IInvAlways, PTL

(* The queue, the dirty set and the processing set stay consistent, with   *)
(* the worker and the clients the queue has in this program.               *)
THEOREM QueueConsistent == Spec => []QueueMatchesSets
<1>1. IInv => QueueMatchesSets
  BY DEF IInv
<1> QED BY <1>1, IInvAlways, PTL

(* When Shutdown returns, every key accepted before it has been synced.    *)
THEOREM ShutdownIsComplete == Spec => []ShutdownDrains
<1>1. IInv => ShutdownDrains
  BY DEF IInv, DoneMeansDrained, ShutdownDrains
<1> QED BY <1>1, IInvAlways, PTL

(* Every step of the task queue is a step of TaskPool or a stutter.        *)
LEMMA PoolStep == IInv /\ [Next]_vars => [Pool!Next]_(Pool!poolVars)
<1> SUFFICES ASSUME IInv, [Next]_vars PROVE [Pool!Next]_(Pool!poolVars)
  OBVIOUS
<1> USE DEF Pool!Next, Pool!poolVars
<1>1. ASSUME NEW k \in Keys, Add(k) PROVE [Pool!Next]_(Pool!poolVars)
  <2>1. CASE Accepted(k)
    BY <1>1, <2>1 DEF Add, Accepted, Pool!Submit
  <2>2. CASE ~Accepted(k)
    BY <1>1, <2>2 DEF Add
  <2> QED BY <2>1, <2>2
<1>2. ASSUME NEW k \in Keys, WorkerGet(k) PROVE [Pool!Next]_(Pool!poolVars)
  <2>1. Get(k) /\ k \in dirty \ processing
    BY <1>2, GetInv DEF WorkerGet, IInv, TypeOK, QueueInv
  <2> QED BY <2>1 DEF Get, Pool!Start
<1>3. CASE WorkerDone
  <2>1. Done(current) /\ current \in processing /\ current \in Keys
    BY <1>3 DEF WorkerDone, IInv, WorkerHoldsProcessing, TypeOK, QueueTypeOK
  <2> QED BY <2>1 DEF Done, Pool!Finish
<1>4. CASE Shutdown
  BY <1>4 DEF Shutdown, ShutDown, Pool!Close
<1>5. CASE Requeue
  <2>1. current \in Keys
    BY <1>5 DEF Requeue, IInv, WorkerHoldsProcessing, TypeOK, QueueTypeOK
  <2> QED BY <1>1, <1>5, <2>1 DEF Requeue
<1>6. ASSUME NEW k \in Keys, Enqueue(k) PROVE [Pool!Next]_(Pool!poolVars)
  BY <1>1, <1>6 DEF Enqueue
<1>7. CASE RunWorker \/ WorkerQuit \/ ShutdownReturn \/ CloseStopCh \/ UNCHANGED vars
  BY <1>7 DEF RunWorker, WorkerQuit, ShutdownReturn, CloseStopCh, vars, queueVars
<1> QED BY <1>2, <1>3, <1>4, <1>5, <1>6, <1>7 DEF Next, Worker

(* TaskQueue implements TaskPool: a key is synced after it was submitted,  *)
(* never by two workers at once, and none is accepted after shutdown.      *)
THEOREM TaskQueueImplementsTaskPool == Spec => ImplementsPool
<1>1. Init => Pool!Init
  BY DEF Init, QueueInit, Pool!Init
<1> QED BY <1>1, PoolStep, IInvAlways, PTL DEF Spec, ImplementsPool, Pool!Spec
=============================================================================
