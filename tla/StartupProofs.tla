---------------------------- MODULE StartupProofs ----------------------------
(***************************************************************************)
(* Theorems about the program from its start: main creates the CRDs before *)
(* a controller lists anything, and what the informer promises the         *)
(* controllers that register on it.  The steps of the informer itself are  *)
(* the lemmas of SharedInformerProofs.                                     *)
(***************************************************************************)
EXTENDS Startup, SharedInformerProofs

(* At most three controllers start a Run.                                  *)
LEMMA RunsFinite == IsFiniteSet(Runs)
<1>1. Runs \subseteq {"configgenerator", "healthchecker", "annotator"}
  BY StartupAssumption
<1>2. IsFiniteSet({"configgenerator"} \cup {"healthchecker"} \cup {"annotator"})
  BY FS_Singleton, FS_Union
<1>3. {"configgenerator"} \cup {"healthchecker"} \cup {"annotator"}
        = {"configgenerator", "healthchecker", "annotator"}
  OBVIOUS
<1> QED BY <1>1, <1>2, <1>3, FS_Subset

(* A Run begins, and starts the goroutines of the listeners.               *)
LEMMA BeginStep ==
  ASSUME InformerInv, NEW r \in Runs, RunStarts(r) \/ ProcessorRuns(r)
  PROVE  InformerInv'
<1>1. UNCHANGED <<log, watching, seen, queue, handling, indexer, joined, syncing, pending, told>>
  BY DEF RunStarts, ProcessorRuns, serverVars, reflectorVars, listenerVars
<1>2. LogOK' /\ CacheInv' /\ QueuesInv'
  BY <1>1, QueuesStay DEF InformerInv, LogOK, CacheInv, VersionOf
<1>3. ReflectorsInv'
  <2>1. run' \in [Runs -> {"no", "go", "started", "on"}] /\ run'[r] \in {"started", "on"}
        /\ \A x \in Runs : x # r => run'[x] = run[x]
        /\ (Started => Started')
    BY DEF RunStarts, ProcessorRuns, InformerInv, ReflectorsInv, Started
  <2>2. \A x \in Runs : run'[x] \in {"no", "go"} => x \notin watching /\ queue[x] = <<>>
    BY <2>1 DEF InformerInv, ReflectorsInv
  <2>3. ~Started' => \A k \in Keys : indexer[k] = 0
    BY <2>1 DEF InformerInv, ReflectorsInv, Started
  <2> QED BY <1>1, <2>1, <2>2, <2>3 DEF InformerInv, ReflectorsInv
<1> DEFINE on == {x \in Runs : run[x] = "on"}
<1>4. IsFiniteSet(Runs)
  BY RunsFinite
<1>5. IsFiniteSet(on) /\ Cardinality(on) \in Nat
  BY <1>4, FS_Subset, FS_CardinalityType
<1>6. ListenersInv'
  <2>1. CASE RunStarts(r)
    <3>1. {x \in Runs : run'[x] = "on"} = on /\ UNCHANGED goroutines
      BY <2>1 DEF RunStarts, InformerInv, ReflectorsInv, listenerVars
    <3> QED BY <1>1, <3>1 DEF InformerInv, ListenersInv
  <2>2. CASE ProcessorRuns(r)
    <3>1. {x \in Runs : run'[x] = "on"} = on \cup {r} /\ r \notin on
      BY <2>2 DEF ProcessorRuns, InformerInv, ReflectorsInv
    <3>2. Cardinality(on \cup {r}) = Cardinality(on) + 1
      BY <1>5, <3>1, FS_AddElement
    <3>3. goroutines' = [l \in Listeners |-> goroutines[l] + IF l \in joined THEN 1 ELSE 0]
      BY <2>2 DEF ProcessorRuns
    <3>4. goroutines' \in [Listeners -> Nat]
      BY <3>3 DEF InformerInv, ListenersInv
    <3>5. \A l \in Listeners : goroutines'[l] <= Cardinality(on) + 1 + 1
      <4> HIDE DEF on
      <4>1. \A l \in Listeners : goroutines[l] \in Nat /\ goroutines[l] <= Cardinality(on) + 1
        BY DEF InformerInv, ListenersInv, on
      <4> QED BY <1>5, <3>3, <4>1
    <3> QED BY <1>1, <1>5, <3>1, <3>2, <3>4, <3>5 DEF InformerInv, ListenersInv
  <2> QED BY <2>1, <2>2
<1> QED BY <1>2, <1>3, <1>6 DEF InformerInv

(* A listener joins.                                                       *)
LEMMA RegisterStep ==
  ASSUME InformerInv, NEW l,
         IsNext(l), AddEventHandler(l), UNCHANGED <<serverVars, reflectorVars, indexer>>,
         Go(l) \/ UNCHANGED run
  PROVE  InformerInv'
<1> DEFINE known == IF Started THEN {indexer[k] : k \in {j \in Keys : There(indexer[j])}} ELSE {}
<1>1. /\ UNCHANGED <<log, watching, seen, queue, handling, indexer>> /\ l \in Listeners
      /\ joined' = joined \cup {l} /\ syncing' = syncing \cup {l}
      /\ goroutines' = [goroutines EXCEPT ![l] = IF Started THEN 1 ELSE 0]
      /\ pending' = [pending EXCEPT ![l] = SetToSeq(known)]
      /\ told' = [told EXCEPT ![l] = known]
  BY DEF AddEventHandler, IsNext, serverVars, reflectorVars
<1>2. LogOK' /\ CacheInv' /\ QueuesInv'
  BY <1>1, QueuesStay DEF InformerInv, LogOK, CacheInv, VersionOf
<1>3. /\ run' \in [Runs -> {"no", "go", "started", "on"}]
      /\ \A x \in Runs : run'[x] = run[x] \/ (run[x] = "no" /\ run'[x] = "go")
  BY DEF Go, InformerInv, ReflectorsInv
<1>4. ReflectorsInv'
  <2>1. Started' = Started
    BY <1>3 DEF Started
  <2>2. \A x \in Runs : run'[x] \in {"no", "go"} => x \notin watching /\ queue[x] = <<>>
    BY <1>3 DEF InformerInv, ReflectorsInv
  <2>3. ~Started' => \A k \in Keys : indexer[k] = 0
    BY <2>1 DEF InformerInv, ReflectorsInv
  <2> QED BY <1>1, <1>3, <2>2, <2>3 DEF InformerInv, ReflectorsInv
<1>5. known \subseteq 0..Len(log) /\ known \subseteq Nat /\ IsFiniteSet(known)
  <2>1. known \subseteq 0..Len(log) /\ known \subseteq Nat
    BY DEF InformerInv, CacheInv, VersionOf
  <2>2. IsFiniteSet(0..Len(log))
    BY LogEntry, FS_Interval DEF InformerInv
  <2> HIDE DEF known
  <2> QED BY <2>1, <2>2, FS_Subset
<1> HIDE DEF known
<1>6. SetToSeq(known) \in Seq(Nat)
  <2>1. SetToSeq(known) \in Seq(known)
    BY <1>5, Enumeration
  <2> QED BY <1>5, <2>1, SeqMonotonic
<1>7. {x \in Runs : run'[x] = "on"} = {x \in Runs : run[x] = "on"}
  BY <1>3
<1>8. Cardinality({x \in Runs : run[x] = "on"}) \in Nat
  BY RunsFinite, FS_Subset, FS_CardinalityType
<1>9. ListenersInv'
  <2>1. pending' \in [Listeners -> Seq(Nat)] /\ told' \in [Listeners -> SUBSET Nat]
    BY <1>1, <1>5, <1>6 DEF InformerInv, ListenersInv
  <2>2. goroutines' \in [Listeners -> Nat]
    BY <1>1 DEF InformerInv, ListenersInv
  <2>3. \A x \in Listeners : goroutines'[x] <= Cardinality({y \in Runs : run[y] = "on"}) + 1
    BY <1>1, <1>8 DEF InformerInv, ListenersInv
  <2>4. joined' \in SUBSET Listeners /\ syncing' \in SUBSET joined'
    BY <1>1 DEF InformerInv, ListenersInv
  <2> QED BY <1>7, <2>1, <2>2, <2>3, <2>4 DEF ListenersInv
<1> QED BY <1>2, <1>4, <1>9 DEF InformerInv

(* Nothing happens to the informer.                                        *)
LEMMA InformerStays ==
  ASSUME InformerInv, UNCHANGED informerVars
  PROVE  InformerInv'
<1>1. UNCHANGED <<log, run, watching, seen, queue, handling, indexer, joined, syncing, goroutines,
                  pending, told>>
  BY DEF informerVars, serverVars, reflectorVars, listenerVars
<1>2. LogOK' /\ CacheInv' /\ ReflectorsInv'
  BY <1>1 DEF InformerInv, LogOK, CacheInv, ReflectorsInv, VersionOf, Started
<1>3. ListenersInv'
  BY <1>1, ListenersStay DEF InformerInv, ListenersInv
<1> QED BY <1>1, <1>2, <1>3, QueuesStay DEF InformerInv

(* What main does to the informer is to register listeners.                *)
LEMMA MainEffect ==
  ASSUME Main \/ Restart
  PROVE  \/ UNCHANGED informerVars
         \/ \E l : /\ IsNext(l) /\ AddEventHandler(l)
                   /\ UNCHANGED <<serverVars, reflectorVars, indexer>>
                   /\ Go(l) \/ UNCHANGED run
<1>1. CASE CrdApplied \/ CrdFails \/ CrdsCreated \/ AllRegistered \/ Restart
  BY <1>1 DEF CrdApplied, CrdFails, CrdsCreated, AllRegistered, Restart
<1>2. CASE RegisterProvisioner
  BY <1>2 DEF RegisterProvisioner, Registers
<1>3. CASE RegisterConfiggenerator \/ RegisterHealthchecker \/ RegisterAnnotator
  BY <1>3 DEF RegisterConfiggenerator, RegisterHealthchecker, RegisterAnnotator, RegisterAndRun,
              Registers
<1> QED BY <1>1, <1>2, <1>3 DEF Main

(* So InformerInv is inductive.                                            *)
LEMMA InformerStep ==
  ASSUME InformerInv, [StartupNext]_startupVars
  PROVE  InformerInv'
<1>1. CASE Main \/ Restart
  BY <1>1, MainEffect, InformerStays, RegisterStep
<1>2. CASE InformerNext
  <2>1. CASE \E k \in Keys, there \in BOOLEAN : Write(k, there)
    BY <2>1, WriteStep
  <2>2. CASE \E r \in Runs : RunStarts(r) \/ ProcessorRuns(r)
    BY <2>2, BeginStep
  <2>3. CASE \E r \in Runs : ListAndWatch(r) \/ WatchEvent(r) \/ WatchEnds(r) \/ ResyncTimer(r)
    BY <2>3, ReflectorStep
  <2>4. CASE \E r \in Runs : HandleDelta(r)
    BY <2>4, HandleDeltaStep
  <2>5. CASE \E l \in Listeners : Handle(l)
    BY <2>5, HandlerStep
  <2> QED BY <1>2, <2>1, <2>2, <2>3, <2>4, <2>5 DEF InformerNext
<1>3. CASE UNCHANGED startupVars
  BY <1>3, InformerStays DEF startupVars
<1> QED BY <1>1, <1>2, <1>3 DEF StartupNext

(* It holds at the start. *)
LEMMA InformerStart == StartupInit => InformerInv
<1> SUFFICES ASSUME InformerInit PROVE InformerInv
  BY DEF StartupInit
<1>1. LogOK /\ CacheInv /\ Len(log) = 0
  BY EmptySeq DEF InformerInit, LogOK, CacheInv, VersionOf
<1>2. ReflectorsInv
  BY <1>1 DEF InformerInit, ReflectorsInv
<1>3. QueueOK(<<>>) /\ SoundQueue(<<>>)
  BY EmptySeq DEF QueueOK, SoundQueue, Has
<1>4. QueuesInv
  BY <1>3, EmptySeq DEF InformerInit, QueuesInv
<1>5. ListenersInv
  <2>1. Cardinality({r \in Runs : run[r] = "on"}) \in Nat
    BY RunsFinite, FS_Subset, FS_CardinalityType
  <2> DEFINE c == Cardinality({r \in Runs : run[r] = "on"})
  <2>2. c \in Nat /\ c = Cardinality({r \in Runs : run[r] = "on"})
    BY <2>1
  <2> HIDE DEF c
  <2>3. \A l \in Listeners : goroutines[l] = 0 /\ 0 <= c + 1
    BY <2>2 DEF InformerInit
  <2>4. joined = {} /\ syncing = {} /\ goroutines \in [Listeners -> Nat]
    BY DEF InformerInit
  <2>5. pending \in [Listeners -> Seq(Nat)]
    BY EmptySeq DEF InformerInit
  <2>6. told \in [Listeners -> SUBSET Nat]
    BY DEF InformerInit
  <2> QED BY <2>2, <2>3, <2>4, <2>5, <2>6 DEF ListenersInv
<1> QED BY <1>1, <1>2, <1>4, <1>5 DEF InformerInv
-----------------------------------------------------------------------------
(* How far main has come, and what the server has accepted by then.        *)
CrdInv ==
  /\ main \in {"crds", "register", "running", "exited"}
  /\ applied \in 0..2 /\ crds \subseteq Crds
  /\ main = "crds" => \A i \in 1..applied : Files[i] \in crds
  /\ main \in {"register", "running"} => crds = Crds

(* Only Register starts Runs. *)
RunInv ==
  /\ run \in [Runs -> {"no", "go", "started", "on"}]
  /\ main \in {"crds", "exited"} => \A r \in Runs : run[r] = "no"

(* There are two files. *)
LEMMA TwoFiles ==
  Len(Files) = 2 /\ Crds = {Files[1], Files[2]}
BY DEF Files, Crds

(* main's own steps keep CrdInv. *)
LEMMA CrdStep ==
  ASSUME CrdInv, [StartupNext]_startupVars
  PROVE  CrdInv'
<1>1. CASE CrdApplied
  BY <1>1, TwoFiles DEF CrdApplied, CrdInv
<1>2. CASE CrdFails
  BY <1>2, TwoFiles DEF CrdFails, CrdInv
<1>3. CASE CrdsCreated
  BY <1>3, TwoFiles DEF CrdsCreated, CrdInv
<1>4. CASE AllRegistered \/ Restart
  BY <1>4 DEF AllRegistered, Restart, CrdInv
<1>5. CASE UNCHANGED mainVars
  BY <1>5 DEF mainVars, CrdInv
<1>6. CASE \/ RegisterProvisioner \/ RegisterConfiggenerator \/ RegisterHealthchecker
           \/ RegisterAnnotator
  BY <1>5, <1>6 DEF RegisterProvisioner, RegisterConfiggenerator, RegisterHealthchecker,
                    RegisterAnnotator, RegisterAndRun, Registers
<1> QED BY <1>1, <1>2, <1>3, <1>4, <1>5, <1>6 DEF StartupNext, Main, startupVars

(* A Run that has not been started does nothing. *)
LEMMA RunStep ==
  ASSUME CrdInv, RunInv, [StartupNext]_startupVars
  PROVE  RunInv'
<1>1. CASE CrdApplied \/ CrdFails \/ CrdsCreated \/ AllRegistered \/ Restart
  BY <1>1 DEF CrdApplied, CrdFails, CrdsCreated, AllRegistered, Restart, RunInv, informerVars
<1>2. CASE RegisterProvisioner
  BY <1>2 DEF RegisterProvisioner, Registers, RunInv, mainVars
<1>3. ASSUME NEW l, RegisterAndRun(l) PROVE RunInv'
  <2>1. main = "register" /\ UNCHANGED main
    BY <1>3 DEF RegisterAndRun, Registers, IsNext, mainVars
  <2>2. run' \in [Runs -> {"no", "go", "started", "on"}]
    BY <1>3 DEF RegisterAndRun, Go, RunInv
  <2> QED BY <2>1, <2>2 DEF RunInv
<1>4. CASE RegisterConfiggenerator \/ RegisterHealthchecker \/ RegisterAnnotator
  BY <1>3, <1>4 DEF RegisterConfiggenerator, RegisterHealthchecker, RegisterAnnotator
<1>5. CASE InformerNext /\ UNCHANGED mainVars
  <2>1. ASSUME NEW r \in Runs, RunStarts(r) \/ ProcessorRuns(r) PROVE RunInv'
    BY <1>5, <2>1 DEF RunStarts, ProcessorRuns, RunInv, mainVars
  <2>2. CASE UNCHANGED run
    BY <1>5, <2>2 DEF RunInv, mainVars
  <2>3. (\E r \in Runs : RunStarts(r) \/ ProcessorRuns(r)) \/ UNCHANGED run
    BY <1>5 DEF InformerNext, Write, ListAndWatch, WatchEvent, WatchEnds, ResyncTimer, HandleDelta,
              Handle
  <2> QED BY <2>1, <2>2, <2>3
<1>6. CASE UNCHANGED startupVars
  BY <1>6 DEF startupVars, informerVars, mainVars, RunInv
<1> QED BY <1>1, <1>2, <1>4, <1>5, <1>6 DEF StartupNext, Main

(* RunsAfterCrds: main.go creates the CRDs first, so no reflector asks for *)
(* a resource the server does not know, whatever fails and is restarted.   *)
THEOREM CrdsComeFirst == StartupSpec => []RunsAfterCrds
<1>1. StartupInit => CrdInv /\ RunInv
  BY DEF StartupInit, InformerInit, CrdInv, RunInv
<1>2. CrdInv /\ RunInv /\ [StartupNext]_startupVars => CrdInv' /\ RunInv'
  BY CrdStep, RunStep
<1>3. CrdInv /\ RunInv => RunsAfterCrds
  BY DEF CrdInv, RunInv, RunsAfterCrds, Started
<1> QED BY <1>1, <1>2, <1>3, PTL DEF StartupSpec

(* kubectl is not called again after too many failures. *)
LEMMA FailureStep ==
  ASSUME failures \in 0..MaxFailures, [StartupNext]_startupVars
  PROVE  failures' \in 0..MaxFailures
<1>1. CASE CrdFails
  BY <1>1, StartupAssumption DEF CrdFails
<1>2. CASE UNCHANGED mainVars
  BY <1>2 DEF mainVars
<1>3. CASE CrdApplied \/ CrdsCreated \/ AllRegistered \/ Restart
  BY <1>3 DEF CrdApplied, CrdsCreated, AllRegistered, Restart
<1>4. CASE \/ RegisterProvisioner \/ RegisterConfiggenerator \/ RegisterHealthchecker
           \/ RegisterAnnotator
  BY <1>2, <1>4 DEF RegisterProvisioner, RegisterConfiggenerator, RegisterHealthchecker,
                    RegisterAnnotator, RegisterAndRun, Registers
<1> QED BY <1>1, <1>2, <1>3, <1>4 DEF StartupNext, Main, startupVars

(* The invariants together imply the type invariant. *)
LEMMA TypesFollow ==
  ASSUME InformerInv, CrdInv, failures \in 0..MaxFailures
  PROVE  StartupTypeOK
<1>1. log \in Seq([key : Keys, there : BOOLEAN]) /\ Len(log) \in Nat
  BY LogEntry DEF InformerInv, LogOK
<1>2. run \in [Runs -> {"no", "go", "started", "on"}] /\ watching \in SUBSET Runs
  BY DEF InformerInv, ReflectorsInv
<1>3. seen \in [Runs -> 0..Len(log)]
  BY <1>1 DEF InformerInv, ReflectorsInv
<1>4. ASSUME NEW r \in Runs, NEW i \in DOMAIN queue[r]
      PROVE  /\ queue[r][i].deltas \in Seq(Delta) \ {<<>>}
             /\ \A j \in DOMAIN queue[r] : queue[r][i].key = queue[r][j].key => i = j
  <2>1. QueueOK(queue[r])
    BY DEF InformerInv, QueuesInv
  <2>2. queue[r][i] \in Item
    BY <2>1, LenProperties, ElementOfSeq DEF QueueOK
  <2>3. \A e \in Item : e.deltas \in Seq(Delta) \ {<<>>}
    BY DEF Item
  <2> QED BY <2>1, <2>2, <2>3 DEF QueueOK
<1>5. indexer \in [Keys -> 0..Len(log)]
  BY <1>1 DEF InformerInv, CacheInv, VersionOf
<1>6. goroutines \in [Listeners -> 0..(Cardinality(Runs) + 1)]
  <2> DEFINE on == {r \in Runs : run[r] = "on"}
             c == Cardinality(on)
             m == Cardinality(Runs)
  <2>1. c \in Nat /\ m \in Nat /\ c <= m
    BY RunsFinite, FS_Subset, FS_CardinalityType
  <2>2. goroutines \in [Listeners -> Nat] /\ \A l \in Listeners : goroutines[l] <= c + 1
    BY DEF InformerInv, ListenersInv
  <2> HIDE DEF c, m
  <2>3. goroutines \in [Listeners -> 0..(m + 1)]
    BY <2>1, <2>2
  <2> QED BY <2>3 DEF m
<1>7. /\ joined \in SUBSET Listeners /\ syncing \in SUBSET joined /\ handling \in SUBSET Runs
      /\ pending \in [Listeners -> Seq(Nat)] /\ told \in [Listeners -> SUBSET Nat]
  BY DEF InformerInv, ListenersInv, QueuesInv
<1>8. /\ main \in {"crds", "register", "running", "exited"} /\ applied \in 0..Len(Files)
      /\ crds \in SUBSET Crds
  BY TwoFiles DEF CrdInv
<1> QED BY <1>1, <1>2, <1>3, <1>4, <1>5, <1>6, <1>7, <1>8 DEF StartupTypeOK

(* StartupTypeOK: every DeltaFIFO has one item per key and deltas in it    *)
(* (delta_fifo.go:297), the cache and the reflectors are at versions that  *)
(* have been written, and a listener has at most one pair of goroutines    *)
(* more than there are Runs (shared_informer.go:189, :415), for every set  *)
(* of keys, listeners and Runs.                                            *)
THEOREM StartupTypeCorrect == StartupSpec => []StartupTypeOK
<1> DEFINE Inv == InformerInv /\ CrdInv /\ failures \in 0..MaxFailures
<1>1. StartupInit => Inv
  BY InformerStart, StartupAssumption DEF StartupInit, CrdInv
<1>2. Inv /\ [StartupNext]_startupVars => Inv'
  BY InformerStep, CrdStep, FailureStep
<1>3. Inv => StartupTypeOK
  BY TypesFollow
<1> QED BY <1>1, <1>2, <1>3, PTL DEF StartupSpec

-----------------------------------------------------------------------------
(* Until a resync timer has fired, all listeners are syncing ones and have *)
(* heard of what is in the cache.                                          *)
HeardInv == resyncs \in Nat /\ (resyncs = 0 => syncing = joined /\ NobodyMissesAnObject)

(* Every delta that reaches the cache reaches the listeners.               *)
LEMMA HeardStep ==
  ASSUME InformerInv, HeardInv, [StartupNext]_startupVars
  PROVE  HeardInv'
<1>1. \A k \in Keys : indexer[k] \in 0..Len(log)
  BY DEF InformerInv, CacheInv, VersionOf
<1>2. CASE \E k \in Keys, there \in BOOLEAN : Write(k, there)
  <2>1. UNCHANGED <<resyncs, syncing, joined, indexer, told>>
    BY <1>2 DEF Write, listenerVars
  <2>2. \A n \in 0..Len(log) : There(n)' = There(n)
    BY <1>2, WriteEffect DEF InformerInv
  <2> QED BY <1>1, <2>1, <2>2 DEF HeardInv, NobodyMissesAnObject
<1>3. ASSUME UNCHANGED <<log, resyncs, syncing, joined, indexer, told>> PROVE HeardInv'
  BY <1>3 DEF HeardInv, NobodyMissesAnObject, There
<1>4. CASE \E r \in Runs : RunStarts(r) \/ ProcessorRuns(r)
  BY <1>3, <1>4 DEF RunStarts, ProcessorRuns, serverVars, listenerVars
<1>5. CASE \E r \in Runs : ListAndWatch(r) \/ WatchEvent(r) \/ WatchEnds(r)
  BY <1>3, <1>5 DEF ListAndWatch, WatchEvent, WatchEnds, serverVars, listenerVars
<1>6. CASE \E l \in Listeners : Handle(l)
  BY <1>3, <1>6 DEF Handle, serverVars
<1>7. CASE \E r \in Runs : ResyncTimer(r)
  BY <1>7 DEF ResyncTimer, HeardInv
<1>8. ASSUME NEW r \in Runs, HandleDelta(r) PROVE HeardInv'
  <2> DEFINE k == queue[r][1].key
             d == First(r)
  <2>1. /\ k \in Keys /\ d \in Delta /\ Sound(k, d)
        /\ indexer' = [indexer EXCEPT ![k] = d.version]
        /\ told' = [l \in Listeners |->
             IF l \in joined /\ Hears(l, d) THEN told[l] \cup {d.version} ELSE told[l]]
        /\ UNCHANGED <<log, resyncs, joined, syncing>>
    BY <1>8, HandleEffect DEF serverVars
  <2> HIDE DEF k, d
  <2>2. indexer \in [Keys -> Nat] /\ joined \in SUBSET Listeners
    BY DEF InformerInv, CacheInv, ListenersInv
  <2>3. ASSUME resyncs = 0, NEW l \in joined, NEW j \in Keys, There(indexer'[j])
        PROVE  indexer'[j] \in told'[l]
    <3>1. CASE j = k
      <4>1. indexer'[j] = d.version /\ d.type # "Deleted"
        BY <2>1, <2>2, <2>3, <3>1 DEF Sound
      <4>2. Hears(l, d)
        BY <2>1, <2>3, <4>1 DEF Hears, HeardInv, Delta
      <4> QED BY <2>1, <2>2, <2>3, <4>1, <4>2
    <3>2. CASE j # k
      <4>1. indexer'[j] = indexer[j] /\ There(indexer[j])
        BY <2>1, <2>2, <2>3, <3>2
      <4>2. indexer[j] \in told[l]
        BY <2>3, <4>1 DEF HeardInv, NobodyMissesAnObject
      <4> QED BY <2>1, <2>2, <2>3, <4>1, <4>2
    <3> QED BY <3>1, <3>2
  <2> QED BY <2>1, <2>3 DEF HeardInv, NobodyMissesAnObject, There
<1>9. ASSUME NEW l, IsNext(l), AddEventHandler(l),
             UNCHANGED <<serverVars, reflectorVars, indexer>>
      PROVE  HeardInv'
  <2> DEFINE known == IF Started THEN {indexer[k] : k \in {j \in Keys : There(indexer[j])}} ELSE {}
  <2>1. /\ UNCHANGED <<log, resyncs, indexer>> /\ l \in Listeners
        /\ joined' = joined \cup {l} /\ syncing' = syncing \cup {l}
        /\ told' = [told EXCEPT ![l] = known]
    BY <1>9 DEF AddEventHandler, IsNext, serverVars
  <2>2. \A k \in Keys : There(indexer[k]) => indexer[k] \in known
    BY DEF InformerInv, ReflectorsInv, There
  <2> HIDE DEF known
  <2>3. told \in [Listeners -> SUBSET Nat] /\ joined \in SUBSET Listeners
    BY DEF InformerInv, ListenersInv
  <2>4. ASSUME resyncs = 0, NEW x \in joined', NEW k \in Keys, There(indexer[k])
        PROVE  indexer[k] \in told'[x]
    <3>1. CASE x = l
      BY <2>1, <2>2, <2>3, <2>4, <3>1
    <3>2. CASE x # l
      BY <2>1, <2>3, <2>4, <3>2 DEF HeardInv, NobodyMissesAnObject
    <3> QED BY <3>1, <3>2
  <2> QED BY <2>1, <2>4 DEF HeardInv, NobodyMissesAnObject, There
<1>10. CASE Main \/ Restart
  <2>1. CASE UNCHANGED informerVars
    BY <1>3, <2>1 DEF informerVars, serverVars, listenerVars
  <2> QED BY <1>9, <1>10, <2>1, MainEffect
<1>11. CASE UNCHANGED startupVars
  BY <1>3, <1>11 DEF startupVars, informerVars, serverVars, listenerVars
<1> QED BY <1>2, <1>4, <1>5, <1>6, <1>7, <1>8, <1>10, <1>11 DEF StartupNext, InformerNext

(* NobodyMissesAnObject, for any number of controllers and of Runs on the  *)
(* one informer, any list that is late and any watch that breaks: as long  *)
(* as no resync timer has made some listeners the syncing ones             *)
(* (shared_informer.go:436), every handler has been told of the version    *)
(* the cache holds, also a handler that joined when it was full.           *)
THEOREM NobodyIsMissed == StartupSpec => [](resyncs = 0 => NobodyMissesAnObject)
<1>1. StartupInit => InformerInv /\ HeardInv
  BY InformerStart DEF StartupInit, InformerInit, HeardInv, NobodyMissesAnObject
<1>2. InformerInv /\ HeardInv /\ [StartupNext]_startupVars => InformerInv' /\ HeardInv'
  BY InformerStep, HeardStep
<1>3. HeardInv => (resyncs = 0 => NobodyMissesAnObject)
  BY DEF HeardInv
<1> QED BY <1>1, <1>2, <1>3, PTL DEF StartupSpec

-----------------------------------------------------------------------------
(* Main and the listeners do not disturb the order.                        *)
LEMMA OrderStep ==
  ASSUME Lag = 0, NEW r, Runs = {r}, InformerInv, OrderInv(r), [StartupNext]_startupVars
  PROVE  OrderInv(r)' /\ \A k \in Keys : indexer[k] <= indexer'[k]
<1>1. /\ LogOK /\ CacheInv /\ SoundQueue(queue[r]) /\ Len(log) \in Nat
      /\ seen \in [Runs -> Nat] /\ seen[r] \in Nat /\ NotesInv
      /\ pending \in [Listeners -> Seq(Nat)] /\ indexer \in [Keys -> Nat]
      /\ \A j \in Keys : indexer[j] <= seen[r] /\ indexer[j] \in Nat /\ indexer[j] <= Len(log)
  BY LogEntry DEF InformerInv, QueuesInv, ReflectorsInv, OrderInv, ListenersInv, CacheInv, VersionOf
<1>2. ASSUME UNCHANGED <<indexer, seen, queue>>, NotesInv'
      PROVE  OrderInv(r)' /\ \A k \in Keys : indexer[k] <= indexer'[k]
  BY <1>1, <1>2 DEF OrderInv, Ordered
<1>3. CASE UNCHANGED <<log, indexer, seen, queue, pending>>
  BY <1>1, <1>2, <1>3 DEF NotesInv, Noted
<1>4. CASE \E w \in Keys, there \in BOOLEAN : Write(w, there)
  <2>1. UNCHANGED <<indexer, seen, queue, pending>>
    BY <1>4 DEF Write, reflectorVars, listenerVars
  <2>2. Len(log') = Len(log) + 1 /\ \A n \in 1..Len(log) : log'[n] = log[n]
    BY <1>1, <1>4, WriteEffect
  <2>3. NotesInv'
    BY <1>1, <2>1, <2>2 DEF NotesInv, Noted
  <2> QED BY <1>2, <2>1, <2>3
<1>5. CASE RunStarts(r) \/ ProcessorRuns(r)
  BY <1>3, <1>5 DEF RunStarts, ProcessorRuns, serverVars, reflectorVars, listenerVars
<1>6. CASE ListAndWatch(r) \/ WatchEvent(r) \/ WatchEnds(r) \/ ResyncTimer(r)
  <2>1. UNCHANGED indexer
    BY <1>6 DEF ListAndWatch, WatchEvent, WatchEnds, ResyncTimer
  <2>2. OrderInv(r)'
    BY <1>6, OrderReflectorStep
  <2> QED BY <1>1, <2>1, <2>2
<1>7. CASE HandleDelta(r)
  BY <1>7, OrderHandleStep
<1>8. ASSUME NEW l \in Listeners, Handle(l)
      PROVE  OrderInv(r)' /\ \A k \in Keys : indexer[k] <= indexer'[k]
  <2>1. /\ UNCHANGED <<log, indexer, seen, queue>>
        /\ \E i \in DOMAIN pending[l] : pending' = [pending EXCEPT ![l] = RemoveAt(pending[l], i)]
    BY <1>8 DEF Handle, serverVars, reflectorVars
  <2>2. PICK i \in DOMAIN pending[l] : pending' = [pending EXCEPT ![l] = RemoveAt(pending[l], i)]
    BY <2>1
  <2>3. \A j \in DOMAIN RemoveAt(pending[l], i) :
          \E m \in DOMAIN pending[l] : RemoveAt(pending[l], i)[j] = pending[l][m]
    BY <1>1, Removed
  <2>4. \A x \in Listeners : \A j \in DOMAIN pending'[x] :
          \E m \in DOMAIN pending[x] : pending'[x][j] = pending[x][m]
    BY <1>1, <2>2, <2>3
  <2>5. \A x \in Listeners : \A j \in DOMAIN pending'[x] : Noted(pending'[x][j])
    BY <1>1, <2>4 DEF NotesInv
  <2>6. NotesInv'
    BY <2>1, <2>5 DEF NotesInv, Noted
  <2> QED BY <1>2, <2>1, <2>6
<1>9. ASSUME NEW l, IsNext(l), AddEventHandler(l),
             UNCHANGED <<serverVars, reflectorVars, indexer>>
      PROVE  OrderInv(r)' /\ \A k \in Keys : indexer[k] <= indexer'[k]
  <2> DEFINE known == IF Started THEN {indexer[k] : k \in {j \in Keys : There(indexer[j])}} ELSE {}
  <2>1. /\ UNCHANGED <<log, indexer, seen, queue>> /\ l \in Listeners
        /\ pending' = [pending EXCEPT ![l] = SetToSeq(known)]
    BY <1>9 DEF AddEventHandler, IsNext, serverVars, reflectorVars
  <2>2. \A n \in known : Noted(n)
    BY <1>1 DEF There, Noted, CacheInv, VersionOf
  <2>3. IsFiniteSet(known)
    <3>1. known \subseteq 0..Len(log)
      BY <1>1
    <3>2. IsFiniteSet(0..Len(log))
      BY <1>1, FS_Interval
    <3> HIDE DEF known
    <3> QED BY <3>1, <3>2, FS_Subset
  <2> HIDE DEF known
  <2>4. \A j \in DOMAIN SetToSeq(known) : SetToSeq(known)[j] \in known
    BY <2>3, Enumeration, LenProperties, ElementOfSeq
  <2>5. \A x \in Listeners : \A j \in DOMAIN pending'[x] : Noted(pending'[x][j])
    <3>1. ASSUME NEW x \in Listeners, NEW j \in DOMAIN pending'[x] PROVE Noted(pending'[x][j])
      <4>1. CASE x = l
        BY <1>1, <2>1, <2>2, <2>4, <3>1, <4>1
      <4>2. CASE x # l
        BY <1>1, <2>1, <3>1, <4>2 DEF NotesInv
      <4> QED BY <4>1, <4>2
    <3> QED BY <3>1
  <2>6. NotesInv'
    BY <2>1, <2>5 DEF NotesInv, Noted
  <2> QED BY <1>2, <2>1, <2>6
<1>10. CASE Main \/ Restart
  <2>1. CASE UNCHANGED informerVars
    BY <1>3, <2>1 DEF informerVars, serverVars, listenerVars, reflectorVars
  <2> QED BY <1>9, <1>10, <2>1, MainEffect
<1>11. CASE UNCHANGED startupVars
  BY <1>3, <1>11 DEF startupVars, informerVars, serverVars, listenerVars, reflectorVars
<1> QED BY <1>4, <1>5, <1>6, <1>7, <1>8, <1>10, <1>11 DEF StartupNext, InformerNext

(* At the start there is nothing to be in order. *)
LEMMA OrderStart ==
  ASSUME NEW r \in Runs, StartupInit
  PROVE  OrderInv(r)
BY DEF StartupInit, InformerInit, OrderInv, Ordered, Has, NotesInv

(* CacheAsFreshAsNotifications: with one Run on the informer and lists     *)
(* that are not late, whatever is deleted and created again, however often *)
(* the watch breaks or the timer resyncs, and whenever a handler joins:    *)
(* its lister never shows it an older object than the notification it is   *)
(* called with (shared_informer.go:34).                                    *)
THEOREM CacheIsFresh ==
  ASSUME Lag = 0, NEW r, Runs = {r}
  PROVE  StartupSpec => []CacheAsFreshAsNotifications
<1>1. StartupInit => InformerInv /\ OrderInv(r)
  BY InformerStart, OrderStart
<1>2. InformerInv /\ OrderInv(r) /\ [StartupNext]_startupVars => InformerInv' /\ OrderInv(r)'
  BY InformerStep, OrderStep
<1>3. OrderInv(r) => CacheAsFreshAsNotifications
  BY DEF OrderInv, NotesInv, Noted, CacheAsFreshAsNotifications
<1> QED BY <1>1, <1>2, <1>3, PTL DEF StartupSpec

(* CacheNeverGoesBack, under the same conditions: neither a relist nor a   *)
(* resync nor what was queued before them (delta_fifo.go:469) puts an      *)
(* older version of an object over a newer one.                            *)
THEOREM CacheGoesForward ==
  ASSUME Lag = 0, NEW r, Runs = {r}
  PROVE  StartupSpec => CacheNeverGoesBack
<1>1. StartupInit => InformerInv /\ OrderInv(r)
  BY InformerStart, OrderStart
<1>2. InformerInv /\ OrderInv(r) /\ [StartupNext]_startupVars => InformerInv' /\ OrderInv(r)'
  BY InformerStep, OrderStep
<1>3. InformerInv /\ OrderInv(r) /\ [StartupNext]_startupVars
        => [\A k \in Keys : indexer'[k] >= indexer[k]]_startupVars
  <2> SUFFICES ASSUME InformerInv, OrderInv(r), [StartupNext]_startupVars, NEW k \in Keys
               PROVE  indexer'[k] >= indexer[k]
    OBVIOUS
  <2>1. indexer[k] \in Nat /\ indexer[k] <= indexer'[k]
    BY OrderStep DEF InformerInv, CacheInv
  <2>2. indexer'[k] \in Nat
    BY InformerStep DEF InformerInv, CacheInv
  <2> QED BY <2>1, <2>2
<1> QED BY <1>1, <1>2, <1>3, PTL DEF StartupSpec, CacheNeverGoesBack

(* AgreeInv is inductive with one Run and lists that are not late.         *)
LEMMA AgreeStep ==
  ASSUME Lag = 0, NEW r, Runs = {r}, InformerInv, AgreeInv(r), [StartupNext]_startupVars
  PROVE  AgreeInv(r)'
<1>1. CASE UNCHANGED <<serverVars, reflectorVars, indexer>>
  BY <1>1, AgreeStays DEF serverVars, reflectorVars
<1>2. CASE \E w \in Keys, there \in BOOLEAN : Write(w, there)
  BY <1>2, AgreeWriteStep
<1>3. CASE RunStarts(r) \/ ProcessorRuns(r)
  BY <1>1, <1>3 DEF RunStarts, ProcessorRuns
<1>4. CASE ListAndWatch(r) \/ WatchEvent(r) \/ WatchEnds(r) \/ ResyncTimer(r)
  BY <1>4, AgreeReflectorStep
<1>5. CASE HandleDelta(r)
  BY <1>5, AgreeHandleStep
<1>6. CASE \E l \in Listeners : Handle(l)
  BY <1>1, <1>6 DEF Handle
<1>7. CASE Main \/ Restart
  BY <1>1, <1>7, MainEffect DEF informerVars
<1>8. CASE UNCHANGED startupVars
  BY <1>1, <1>8 DEF startupVars, informerVars
<1> QED BY <1>2, <1>3, <1>4, <1>5, <1>6, <1>7, <1>8 DEF StartupNext, InformerNext

(* It holds at the start. *)
LEMMA AgreeStart ==
  ASSUME NEW r \in Runs, StartupInit
  PROVE  AgreeInv(r)
BY DEF StartupInit, InformerInit, AgreeInv, Undeleted, Has

(* QuietCacheIsCurrent, with one Run on the informer and lists that are    *)
(* not late: as long as no watch has ended, or nothing has been deleted,   *)
(* lists, watch events and resyncs in whatever order leave in the cache    *)
(* what the server holds, once the Run has seen and popped everything      *)
(* (reflector.go:243).  Without the condition it is false: a relist does   *)
(* not delete what only waits in the queue (delta_fifo.go:505).            *)
THEOREM QuietCacheAgrees ==
  ASSUME Lag = 0, NEW r, Runs = {r}
  PROVE  StartupSpec => [](breaks = 0 \/ NoneDeleted => QuietCacheIsCurrent)
<1>1. StartupInit => InformerInv /\ AgreeInv(r)
  BY InformerStart, AgreeStart
<1>2. InformerInv /\ AgreeInv(r) /\ [StartupNext]_startupVars => InformerInv' /\ AgreeInv(r)'
  BY InformerStep, AgreeStep
<1>3. InformerInv /\ AgreeInv(r) => (breaks = 0 \/ NoneDeleted => QuietCacheIsCurrent)
  <2> SUFFICES ASSUME InformerInv, AgreeInv(r), breaks = 0 \/ NoneDeleted, Quiet, NEW k \in Keys
               PROVE  Current(k)
    BY DEF QuietCacheIsCurrent
  <2>1. r \in watching /\ seen[r] = Len(log) /\ queue[r] = <<>>
    BY DEF Quiet
  <2>2. Knows(queue[r], seen[r]) /\ Known(queue[r], k, indexer[k])
    BY <2>1 DEF AgreeInv, Known, Queued
  <2> QED BY <2>1, <2>2 DEF Knows, Agrees, Current
<1> QED BY <1>1, <1>2, <1>3, PTL DEF StartupSpec
=============================================================================
