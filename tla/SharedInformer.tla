---------------------------- MODULE SharedInformer ----------------------------
(***************************************************************************)
(* The shared informer of client-go one level below the Provisioner's: the *)
(* reflector and the DeltaFIFO of every Run, the indexer they all feed,    *)
(* and the listeners.  Provisioner puts a watch event into the cache in    *)
(* one step; here it waits in the queue of its Run first, next to what     *)
(* lists and resyncs have put there.                                       *)
(*                                                                         *)
(* Clusters are looked at as a log of writes.  A version is the number of  *)
(* a write, and the key's state until its next one.                        *)
(***************************************************************************)
EXTENDS Naturals, Sequences, SequencesExt

CONSTANTS
  Keys,                  \* names of clusters
  Listeners,             \* registered handlers
  Runs,                  \* the Run calls on the informer
  MaxWrites,             \* bound on writes
  MaxBreaks,             \* bound on watches that end
  MaxResyncs,            \* bound on resync timers that fire
  Lag,                   \* by how many writes a list served from a cache may be late
  Deletions              \* clusters may be deleted, and their names used again

ASSUME InformerAssumption ==
  /\ MaxWrites \in Nat /\ MaxBreaks \in Nat /\ MaxResyncs \in Nat /\ Lag \in Nat
  /\ Deletions \in BOOLEAN

VARIABLES
  log,                   \* every write: the key, and whether it is there afterwards
  run,                   \* Run -> how far its goroutine has come
  watching,              \* the Runs whose reflector has listed and watches
  seen,                  \* Run -> the resource version its reflector is at
  queue,                 \* Run -> DeltaFIFO: keys in order with their deltas
  handling,              \* the Run that is half through the deltas of a key, if any
  indexer,               \* key -> the version in the cache; 0 before the first
  joined,                \* the listeners that have been added
  syncing,               \* the syncingListeners
  goroutines,            \* listener -> pairs of run and pop goroutines
  pending,               \* listener -> versions its handler has not been called with
  told,                  \* listener -> versions it has ever been notified of
  breaks, resyncs

serverVars == <<log, breaks, resyncs>>
reflectorVars == <<watching, seen, queue, handling>>
listenerVars == <<joined, syncing, goroutines, pending, told>>
informerVars == <<serverVars, run, reflectorVars, indexer, listenerVars>>

Delta == [type : {"Put", "Deleted", "Sync"}, version : Nat]

There(n) == n > 0 /\ log[n].there

(* The version of k after the first n writes. *)
Version(k, n) ==
  IF \E i \in 1..n : log[i].key = k
  THEN CHOOSE i \in 1..n : log[i].key = k /\ \A j \in (i + 1)..n : log[j].key # k
  ELSE 0

InformerInit ==
  /\ log = <<>> /\ breaks = 0 /\ resyncs = 0
  /\ run = [r \in Runs |-> "no"]
  /\ watching = {} /\ seen = [r \in Runs |-> 0] /\ queue = [r \in Runs |-> <<>>]
  /\ handling = {}
  /\ indexer = [k \in Keys |-> 0]
  /\ joined = {} /\ syncing = {}
  /\ goroutines = [l \in Listeners |-> 0]
  /\ pending = [l \in Listeners |-> <<>>]
  /\ told = [l \in Listeners |-> {}]
-----------------------------------------------------------------------------
(* DeltaFIFO.                                                              *)
Queued(q, k) == \E i \in DOMAIN q : q[i].key = k

(* dedupDeltas: of two deletions in a row one is kept. *)
Dedup(ds) ==
  IF Len(ds) > 1 /\ ds[Len(ds)].type = "Deleted" /\ ds[Len(ds) - 1].type = "Deleted"
  THEN Append(SubSeq(ds, 1, Len(ds) - 2), ds[Len(ds)])
  ELSE ds

(* A Sync is dropped while the last delta of its key is a deletion. *)
WillBeDeleted(q, k) == \E i \in DOMAIN q : q[i].key = k /\ Last(q[i].deltas).type = "Deleted"

(* Mutant of queueActionLocked: a key is queued once more for every delta. *)
queueActionAgain(q, ds) ==
  q \o SetToSeq({[key |-> k, deltas |-> <<ds[k]>>] :
                   k \in {j \in DOMAIN ds : ~(ds[j].type = "Sync" /\ WillBeDeleted(q, j))}})

(* The calls for the objects of a list, which has at most one of every key *)
(* and no order that matters: ds has the delta of each.                    *)
queueActionLocked(q, ds) ==
  LET taken == {k \in DOMAIN ds : ~(ds[k].type = "Sync" /\ WillBeDeleted(q, k))}
  IN  [i \in DOMAIN q |->
         IF q[i].key \in taken
         THEN [q[i] EXCEPT !.deltas = Dedup(Append(@, ds[q[i].key]))] ELSE q[i]]
      \o SetToSeq({[key |-> k, deltas |-> <<ds[k]>>] : k \in {j \in taken : ~Queued(q, j)}})

(* Replace: a Sync for every object of a list of version n, a deletion for *)
(* every other object in the indexer; what was queued stays.               *)
Replace(q, n) ==
  LET listed == {k \in Keys : There(Version(k, n))}
      gone == {k \in Keys \ listed : There(indexer[k])}
      synced == queueActionLocked(q, [k \in listed |-> [type |-> "Sync", version |-> Version(k, n)]])
  IN  queueActionLocked(synced, [k \in gone |-> [type |-> "Deleted", version |-> Version(k, n)]])

(* Mutant of Resync: objects that have deltas waiting are synced as well. *)
ResyncAll(q) ==
  queueActionLocked(q, [k \in {j \in Keys : There(indexer[j])} |->
                          [type |-> "Sync", version |-> indexer[k]]])

(* Resync: a Sync for every object in the indexer that has nothing queued, *)
(* with the object as the indexer has it now.                              *)
Resync(q) ==
  queueActionLocked(q, [k \in {j \in Keys : There(indexer[j]) /\ ~Queued(q, j)} |->
                          [type |-> "Sync", version |-> indexer[k]]])
-----------------------------------------------------------------------------
(* The API server. *)
Write(k, there) ==
  /\ Len(log) < MaxWrites
  /\ there \/ (Deletions /\ There(Version(k, Len(log))))
  /\ log' = Append(log, [key |-> k, there |-> there])
  /\ UNCHANGED <<breaks, resyncs, run, reflectorVars, indexer, listenerVars>>
-----------------------------------------------------------------------------
(* Listeners and Runs.                                                     *)
Started == \E r \in Runs : run[r] \in {"started", "on"}

(* Mutant of AddEventHandler: a late listener is not told what is there.   *)
AddEventHandlerSilently(l) ==
  /\ handling = {}
  /\ joined' = joined \cup {l} /\ syncing' = syncing \cup {l}
  /\ goroutines' = [goroutines EXCEPT ![l] = IF Started THEN 1 ELSE 0]
  /\ UNCHANGED <<pending, told>>

(* A listener that joins after the start waits until no deltas are being   *)
(* handled.  It gets its goroutines at once, and the objects of the indexer *)
(* as adds.                                                                *)
AddEventHandler(l) ==
  LET known == IF Started THEN {indexer[k] : k \in {j \in Keys : There(indexer[j])}} ELSE {}
  IN  /\ handling = {}
      /\ joined' = joined \cup {l} /\ syncing' = syncing \cup {l}
      /\ goroutines' = [goroutines EXCEPT ![l] = IF Started THEN 1 ELSE 0]
      /\ pending' = [pending EXCEPT ![l] = SetToSeq(known)]
      /\ told' = [told EXCEPT ![l] = known]

Go(r) == run[r] = "no" /\ run' = [run EXCEPT ![r] = "go"]

(* Run begins: the informer counts as started, the Run has its own queue.  *)
RunStarts(r) ==
  /\ run[r] = "go"
  /\ run' = [run EXCEPT ![r] = "started"]
  /\ UNCHANGED <<serverVars, reflectorVars, indexer, listenerVars>>

(* The goroutine of processor.run: it starts the goroutines of every       *)
(* listener there is by now.                                               *)
ProcessorRuns(r) ==
  /\ run[r] = "started"
  /\ run' = [run EXCEPT ![r] = "on"]
  /\ goroutines' = [l \in Listeners |-> goroutines[l] + IF l \in joined THEN 1 ELSE 0]
  /\ UNCHANGED <<serverVars, reflectorVars, indexer, joined, syncing, pending, told>>

(* Mutant of ListAndWatch: the list may be as old as it likes. *)
ListAndWatchAnything(r) ==
  /\ run[r] \in {"started", "on"} /\ r \notin watching /\ r \notin handling
  /\ \E n \in 0..Len(log) :
       /\ queue' = [queue EXCEPT ![r] = Replace(@, n)]
       /\ seen' = [seen EXCEPT ![r] = n]
  /\ watching' = watching \cup {r}
  /\ UNCHANGED <<serverVars, run, handling, indexer, listenerVars>>

(* The list may come from a cache of the server. *)
ListAndWatch(r) ==
  /\ run[r] \in {"started", "on"} /\ r \notin watching /\ r \notin handling
  /\ \E n \in 0..Len(log) :
       /\ n + Lag >= Len(log)
       /\ queue' = [queue EXCEPT ![r] = Replace(@, n)]
       /\ seen' = [seen EXCEPT ![r] = n]
  /\ watching' = watching \cup {r}
  /\ UNCHANGED <<serverVars, run, handling, indexer, listenerVars>>

(* Mutant of WatchEvent: what is queued is not looked at before a Delete is *)
(* skipped.                                                                *)
WatchEventSkipped(r) ==
  /\ r \in watching /\ seen[r] < Len(log) /\ r \notin handling
  /\ LET n == seen[r] + 1
         k == log[n].key
         type == IF log[n].there THEN "Put" ELSE "Deleted"
     IN  /\ seen' = [seen EXCEPT ![r] = n]
         /\ queue' = IF type = "Deleted" /\ ~There(indexer[k])
              THEN queue
              ELSE [queue EXCEPT ![r] =
                      queueActionLocked(@, [j \in {k} |-> [type |-> type, version |-> n]])]
  /\ UNCHANGED <<serverVars, run, watching, handling, indexer, listenerVars>>

(* Delete is skipped for a key that is neither in the indexer nor queued.  *)
WatchEvent(r) ==
  /\ r \in watching /\ seen[r] < Len(log) /\ r \notin handling
  /\ LET n == seen[r] + 1
         k == log[n].key
         type == IF log[n].there THEN "Put" ELSE "Deleted"
     IN  /\ seen' = [seen EXCEPT ![r] = n]
         /\ queue' = IF type = "Deleted" /\ ~There(indexer[k]) /\ ~Queued(queue[r], k)
              THEN queue
              ELSE [queue EXCEPT ![r] =
                      queueActionLocked(@, [j \in {k} |-> [type |-> type, version |-> n]])]
  /\ UNCHANGED <<serverVars, run, watching, handling, indexer, listenerVars>>

WatchEnds(r) ==
  /\ r \in watching /\ breaks < MaxBreaks
  /\ breaks' = breaks + 1
  /\ watching' = watching \ {r}
  /\ UNCHANGED <<log, resyncs, run, seen, queue, handling, indexer, listenerVars>>

(* The resync timer of a Run: the listeners whose time has come become the *)
(* syncing ones, be they none, and if there are any the queue is resynced. *)
ResyncTimer(r) ==
  /\ r \in watching /\ resyncs < MaxResyncs
  /\ resyncs' = resyncs + 1
  /\ \E due \in SUBSET joined :
       /\ syncing' = due
       /\ IF due = {} THEN UNCHANGED queue
          ELSE r \notin handling /\ queue' = [queue EXCEPT ![r] = Resync(@)]
  /\ UNCHANGED <<log, breaks, run, watching, seen, handling, indexer, joined, goroutines, pending, told>>

(* Mutant of Hears: what a list brings is taken for old news. *)
HearsOnlyPuts(l, d) == d.type = "Put"

(* Does l hear of d?  The handlers have no DeleteFunc.                     *)
Hears(l, d) == d.type = "Put" \/ (d.type = "Sync" /\ l \in syncing)

(* Mutant of HandleDelta: the newest delta of a key goes first. *)
HandleNewestDelta(r) ==
  /\ queue[r] # <<>> /\ handling \subseteq {r}
  /\ LET k == Head(queue[r]).key
         deltas == Head(queue[r]).deltas
         d == Last(deltas)
     IN  /\ \A l \in joined : (d.type = "Deleted" \/ Hears(l, d)) => goroutines[l] > 0
         /\ indexer' = [indexer EXCEPT ![k] = d.version]
         /\ pending' = [l \in Listeners |->
              IF l \in joined /\ Hears(l, d) THEN Append(pending[l], d.version) ELSE pending[l]]
         /\ told' = [l \in Listeners |->
              IF l \in joined /\ Hears(l, d) THEN told[l] \cup {d.version} ELSE told[l]]
         /\ queue' = [queue EXCEPT ![r] =
              IF Len(deltas) = 1 THEN Tail(@) ELSE [@ EXCEPT ![1].deltas = Front(@)]]
         /\ handling' = IF Len(deltas) = 1 THEN {} ELSE {r}
  /\ UNCHANGED <<serverVars, run, watching, seen, joined, syncing, goroutines>>

(* A queue without the first delta of its first key. *)
Rest(q) == IF Len(Head(q).deltas) = 1 THEN Tail(q) ELSE [q EXCEPT ![1].deltas = Tail(@)]

(* Pop and HandleDeltas: one after the other, the deltas of the first key  *)
(* go into the indexer and to the listeners.  To tell a listener without   *)
(* goroutines blocks.  Until it is through, the Run keeps its own queue    *)
(* and all informers' deltas locked.                                       *)
HandleDelta(r) ==
  /\ queue[r] # <<>> /\ handling \subseteq {r}
  /\ LET k == Head(queue[r]).key
         deltas == Head(queue[r]).deltas
         d == Head(deltas)
     IN  /\ \A l \in joined : (d.type = "Deleted" \/ Hears(l, d)) => goroutines[l] > 0
         /\ indexer' = [indexer EXCEPT ![k] = d.version]
         /\ pending' = [l \in Listeners |->
              IF l \in joined /\ Hears(l, d) THEN Append(pending[l], d.version) ELSE pending[l]]
         /\ told' = [l \in Listeners |->
              IF l \in joined /\ Hears(l, d) THEN told[l] \cup {d.version} ELSE told[l]]
         /\ queue' = [queue EXCEPT ![r] = Rest(@)]
         /\ handling' = IF Len(deltas) = 1 THEN {} ELSE {r}
  /\ UNCHANGED <<serverVars, run, watching, seen, joined, syncing, goroutines>>

(* A goroutine of the listener calls the handler.  With several, a         *)
(* notification can overtake another.                                      *)
Handle(l) ==
  /\ goroutines[l] > 0
  /\ \E i \in DOMAIN pending[l] :
       /\ i = 1 \/ goroutines[l] > 1
       /\ pending' = [pending EXCEPT ![l] = RemoveAt(@, i)]
  /\ UNCHANGED <<serverVars, run, reflectorVars, indexer, joined, syncing, goroutines, told>>

InformerNext ==
  \/ \E k \in Keys, there \in BOOLEAN : Write(k, there)
  \/ \E r \in Runs :
       \/ RunStarts(r) \/ ProcessorRuns(r)
       \/ ListAndWatch(r) \/ WatchEvent(r) \/ WatchEnds(r) \/ ResyncTimer(r) \/ HandleDelta(r)
  \/ \E l \in Listeners : Handle(l)
=============================================================================
