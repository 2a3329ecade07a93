-------------------------- MODULE ClusterStoreProofs --------------------------
(***************************************************************************)
(* What the API server's operations preserve, whichever client calls them. *)
(***************************************************************************)
EXTENDS ClusterStore, SequenceTheorems, TLAPS

(* The conditions a stored cluster must meet on its way in.                *)
StatusGuarded(c) ==
  (~c.deleting /\ (c.applied # NoConfig \/ c.provisioned # "")) => Guarded(c)

StoreGuarded == \A k \in Names : Exists(k) => StatusGuarded(store[k])

(* The empty store is well-typed.                                          *)
LEMMA StoreInitType == StoreInit => StoreTypeOK
<1> SUFFICES ASSUME StoreInit PROVE StoreTypeOK
  OBVIOUS
<1>1. events \in Seq(Event)
  BY EmptySeq DEF StoreInit
<1> QED BY <1>1 DEF StoreInit, StoreTypeOK

(* A committed write is a cluster with the next revision. *)
LEMMA CommitType ==
  ASSUME StoreTypeOK, NEW k \in Names, NEW c \in Cluster, Commit(k, c)
  PROVE  /\ store' \in [Names -> Cluster \cup {NoCluster}]
         /\ events' \in Seq(Event)
         /\ Revision' = Revision + 1
<1>1. Revision \in Nat
  BY LenProperties DEF Revision, StoreTypeOK
<1> DEFINE n == [c EXCEPT !.rv = Revision + 1]
           e == [type |-> "put", key |-> k, obj |-> n]
<1>2. n \in Cluster
  BY <1>1 DEF Cluster
<1>3. e \in Event
  BY <1>2 DEF Event
<1>4. store' = [store EXCEPT ![k] = n] /\ events' = Append(events, e)
  BY DEF Commit
<1> HIDE DEF n, e
<1>5. store' \in [Names -> Cluster \cup {NoCluster}]
  BY <1>2, <1>4 DEF StoreTypeOK
<1>6. events' \in Seq(Event) /\ Len(events') = Len(events) + 1
  BY <1>3, <1>4, AppendProperties DEF StoreTypeOK
<1> QED BY <1>5, <1>6 DEF Revision

(* Removing an object leaves store and events well-typed.                  *)
LEMMA EraseType ==
  ASSUME StoreTypeOK, NEW k \in Names, Exists(k), Erase(k)
  PROVE  /\ store' \in [Names -> Cluster \cup {NoCluster}]
         /\ events' \in Seq(Event)
         /\ Revision' = Revision + 1
<1> DEFINE e == [type |-> "gone", key |-> k, obj |-> store[k]]
<1>1. store[k] \in Cluster
  BY DEF StoreTypeOK, Exists
<1>2. e \in Event
  BY <1>1 DEF Event
<1>3. store' = [store EXCEPT ![k] = NoCluster] /\ events' = Append(events, e)
  BY DEF Erase
<1> HIDE DEF e
<1>4. store' \in [Names -> Cluster \cup {NoCluster}]
  BY <1>3 DEF StoreTypeOK
<1>5. events' \in Seq(Event) /\ Len(events') = Len(events) + 1
  BY <1>2, <1>3, AppendProperties DEF StoreTypeOK
<1> QED BY <1>4, <1>5 DEF Revision

(* A PUT of a well-typed cluster leaves store and events well-typed.       *)
LEMMA PutType ==
  ASSUME StoreTypeOK, NEW k \in Names, NEW c \in Cluster, Exists(k), Put(k, c)
  PROVE  /\ store' \in [Names -> Cluster \cup {NoCluster}]
         /\ events' \in Seq(Event)
         /\ Revision' \in {Revision, Revision + 1}
<1>1. CASE UNCHANGED <<store, events>>
  BY <1>1 DEF StoreTypeOK, Revision
<1>2. CASE Erase(k)
  BY <1>2, EraseType
<1>3. CASE Commit(k, c)
  BY <1>3, CommitType
<1> QED BY <1>1, <1>2, <1>3 DEF Put

(* Whatever becomes of an Update, the store stays well-typed. *)
LEMMA UpdateType ==
  ASSUME StoreTypeOK, NEW k \in Names, NEW c \in Cluster,
         UpdateSucceeds(k, c) \/ UpdateFails(k, c)
  PROVE  StoreTypeOK' /\ Revision' \in {Revision, Revision + 1}
<1>1. CASE UNCHANGED <<store, events>> /\ faults' \in Nat
  BY <1>1 DEF StoreTypeOK, Revision
<1>2. CASE Accepts(k, c) /\ Put(k, c) /\ faults' \in Nat
  BY <1>2, PutType DEF StoreTypeOK, Accepts
<1>3. faults' \in Nat
  BY DEF UpdateSucceeds, UpdateFails, Fault, storeVars, StoreTypeOK
<1> QED BY <1>1, <1>2, <1>3 DEF UpdateSucceeds, UpdateFails, storeVars

(* The writes of users and other clients.                                  *)
UserWrites(k) ==
  \/ \E p \in Paths, fs \in SUBSET ForeignFinalizers : UserCreates(k, p, fs)
  \/ UserDeletes(k)
  \/ \E p \in Paths : UserMovesConfig(k, p)
  \/ OtherFieldWritten(k)
  \/ \E f \in ForeignFinalizers : ForeignFinalizerDone(k, f)

(* Whatever users and other clients do, the store stays well-typed.        *)
LEMMA UserType ==
  ASSUME StoreTypeOK, NEW k \in Names, UserWrites(k)
  PROVE  StoreTypeOK' /\ Revision' \in {Revision, Revision + 1}
<1>0. Revision \in Nat
  BY LenProperties DEF Revision, StoreTypeOK
<1>1. ASSUME NEW c \in Cluster, Commit(k, c), UNCHANGED faults
      PROVE  StoreTypeOK' /\ Revision' \in {Revision, Revision + 1}
  BY <1>1, CommitType DEF StoreTypeOK
<1>2. ASSUME Exists(k), Erase(k), UNCHANGED faults
      PROVE  StoreTypeOK' /\ Revision' \in {Revision, Revision + 1}
  BY <1>2, EraseType DEF StoreTypeOK
<1>3. ASSUME NEW p \in Paths, NEW fs \in SUBSET ForeignFinalizers, UserCreates(k, p, fs)
      PROVE  StoreTypeOK' /\ Revision' \in {Revision, Revision + 1}
  <2> DEFINE c == [uid |-> Revision + 1, rv |-> 0, deleting |-> FALSE,
                   finalizers |-> fs, path |-> p,
                   applied |-> NoConfig, provisioned |-> "",
                ready |-> "", version |-> NoConfig]
  <2>1. c \in Cluster
    BY <1>0 DEF Cluster, ConditionStatus
  <2>2. Commit(k, c) /\ UNCHANGED faults
    BY <1>3 DEF UserCreates
  <2> QED BY <1>1, <2>1, <2>2
<1>4. ASSUME Exists(k) PROVE store[k] \in Cluster
  BY <1>4 DEF Exists, StoreTypeOK
<1>5. CASE UserDeletes(k)
  <2>1. [store[k] EXCEPT !.deleting = TRUE] \in Cluster
    BY <1>4, <1>5 DEF UserDeletes, Cluster
  <2> QED BY <1>1, <1>2, <1>5, <2>1 DEF UserDeletes
<1>6. ASSUME NEW p \in Paths, UserMovesConfig(k, p)
      PROVE  StoreTypeOK' /\ Revision' \in {Revision, Revision + 1}
  <2>1. [store[k] EXCEPT !.path = p] \in Cluster
    BY <1>4, <1>6 DEF UserMovesConfig, Cluster
  <2> QED BY <1>1, <1>6, <2>1 DEF UserMovesConfig
<1>7. CASE OtherFieldWritten(k)
  <2>1. [store[k] EXCEPT !.ready = "True"] \in Cluster
    BY <1>4, <1>7 DEF OtherFieldWritten, Cluster, ConditionStatus
  <2> QED BY <1>1, <1>7, <2>1 DEF OtherFieldWritten
<1>8. ASSUME NEW f \in ForeignFinalizers, ForeignFinalizerDone(k, f)
      PROVE  StoreTypeOK' /\ Revision' \in {Revision, Revision + 1}
  <2>1. [store[k] EXCEPT !.finalizers = @ \ {f}] \in Cluster
    BY <1>4, <1>8 DEF ForeignFinalizerDone, Cluster
  <2>2. /\ Exists(k) /\ UNCHANGED faults
        /\ Put(k, [store[k] EXCEPT !.finalizers = @ \ {f}])
    BY <1>8 DEF ForeignFinalizerDone
  <2> QED BY <2>1, <2>2, PutType DEF StoreTypeOK
<1> QED BY <1>3, <1>5, <1>6, <1>7, <1>8 DEF UserWrites
-----------------------------------------------------------------------------
(* A write of a guarded cluster keeps every stored cluster guarded.        *)
LEMMA CommitGuarded ==
  ASSUME StoreTypeOK, StoreGuarded, NEW k \in Names, NEW c \in Cluster,
         StatusGuarded(c), Commit(k, c)
  PROVE  StoreGuarded'
<1> DEFINE n == [c EXCEPT !.rv = Revision + 1]
<1>1. n.deleting = c.deleting /\ n.applied = c.applied /\ n.provisioned = c.provisioned
      /\ n.finalizers = c.finalizers
  BY DEF Cluster
<1>2. StatusGuarded(n)
  BY <1>1 DEF StatusGuarded, Guarded
<1>3. store' = [store EXCEPT ![k] = n]
  BY DEF Commit
<1> HIDE DEF n
<1> QED BY <1>2, <1>3 DEF StoreGuarded, StatusGuarded, Guarded, Exists, StoreTypeOK

(* Removing an object keeps every other stored cluster guarded.            *)
LEMMA EraseGuarded ==
  ASSUME StoreTypeOK, StoreGuarded, NEW k \in Names, Erase(k)
  PROVE  StoreGuarded'
BY DEF StoreGuarded, StatusGuarded, Guarded, Exists, StoreTypeOK, Erase

(* A PUT of a guarded cluster keeps every stored cluster guarded.          *)
LEMMA PutGuarded ==
  ASSUME StoreTypeOK, StoreGuarded, NEW k \in Names, NEW c \in Cluster,
         StatusGuarded(c), Put(k, c)
  PROVE  StoreGuarded'
<1>1. CASE UNCHANGED <<store, events>>
  BY <1>1 DEF StoreGuarded, StatusGuarded, Guarded, Exists
<1> QED BY <1>1, CommitGuarded, EraseGuarded DEF Put

(* An Update of a guarded cluster, lost or not, keeps the store guarded.   *)
LEMMA UpdateGuarded ==
  ASSUME StoreTypeOK, StoreGuarded, NEW k \in Names, NEW c \in Cluster,
         StatusGuarded(c), UpdateSucceeds(k, c) \/ UpdateFails(k, c)
  PROVE  StoreGuarded'
<1>1. CASE UNCHANGED store
  BY <1>1 DEF StoreGuarded, StatusGuarded, Guarded, Exists
<1> QED BY <1>1, PutGuarded DEF UpdateSucceeds, UpdateFails, storeVars

(* No user or other client takes the finalizer off a live cluster with a   *)
(* status.                                                                 *)
LEMMA UserGuarded ==
  ASSUME StoreTypeOK, StoreGuarded, NEW k \in Names, UserWrites(k)
  PROVE  StoreGuarded'
<1>1. ASSUME Exists(k) PROVE store[k] \in Cluster /\ StatusGuarded(store[k])
  BY <1>1 DEF Exists, StoreTypeOK, StoreGuarded
<1>2. ASSUME NEW p \in Paths, NEW fs \in SUBSET ForeignFinalizers, UserCreates(k, p, fs)
      PROVE  StoreGuarded'
  <2> DEFINE c == [uid |-> Revision + 1, rv |-> 0, deleting |-> FALSE,
                   finalizers |-> fs, path |-> p,
                   applied |-> NoConfig, provisioned |-> "",
                ready |-> "", version |-> NoConfig]
  <2>1. Revision \in Nat
    BY LenProperties DEF Revision, StoreTypeOK
  <2>2. c \in Cluster /\ StatusGuarded(c)
    BY <2>1 DEF Cluster, ConditionStatus, StatusGuarded
  <2>3. Commit(k, c)
    BY <1>2 DEF UserCreates
  <2> QED BY <2>2, <2>3, CommitGuarded
<1>3. CASE UserDeletes(k)
  <2>1. [store[k] EXCEPT !.deleting = TRUE] \in Cluster
        /\ StatusGuarded([store[k] EXCEPT !.deleting = TRUE])
    BY <1>1, <1>3 DEF UserDeletes, Cluster, StatusGuarded
  <2> QED BY <1>3, <2>1, CommitGuarded, EraseGuarded DEF UserDeletes
<1>4. ASSUME NEW p \in Paths, UserMovesConfig(k, p) PROVE StoreGuarded'
  <2>1. [store[k] EXCEPT !.path = p] \in Cluster
        /\ StatusGuarded([store[k] EXCEPT !.path = p])
    BY <1>1, <1>4 DEF UserMovesConfig, Cluster, StatusGuarded, Guarded
  <2> QED BY <1>4, <2>1, CommitGuarded DEF UserMovesConfig
<1>5. CASE OtherFieldWritten(k)
  <2>1. [store[k] EXCEPT !.ready = "True"] \in Cluster
        /\ StatusGuarded([store[k] EXCEPT !.ready = "True"])
    BY <1>1, <1>5 DEF OtherFieldWritten, Cluster, ConditionStatus, StatusGuarded, Guarded
  <2> QED BY <1>5, <2>1, CommitGuarded DEF OtherFieldWritten
<1>6. ASSUME NEW f \in ForeignFinalizers, ForeignFinalizerDone(k, f) PROVE StoreGuarded'
  <2> DEFINE c == [store[k] EXCEPT !.finalizers = @ \ {f}]
  <2>1. c \in Cluster
    BY <1>1, <1>6 DEF ForeignFinalizerDone, Cluster
  <2>2. f # ProvisionerFinalizer
    BY StoreAssumption
  <2>3. StatusGuarded(c)
    BY <1>1, <1>6, <2>2 DEF ForeignFinalizerDone, Cluster, StatusGuarded, Guarded
  <2>4. Put(k, c)
    BY <1>6 DEF ForeignFinalizerDone
  <2> QED BY <2>1, <2>3, <2>4, PutGuarded
<1> QED BY <1>2, <1>3, <1>4, <1>5, <1>6 DEF UserWrites
=============================================================================
