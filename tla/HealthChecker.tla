---------------------------- MODULE HealthChecker ----------------------------
(***************************************************************************)
(* The healthchecker: for every add and every new object of an update it   *)
(* asks the built cluster for its version and records the outcome in the   *)
(* Ready condition.  It works on the object of the cache itself.           *)
(***************************************************************************)
EXTENDS Handlers

HealthProcs == Procs \cap ({"healthchecker"} \X Threads)

SetReady(p, status) == WriteObject(task[p].obj, [Object(p) EXCEPT !.ready = status])

(* sync skips clusters that are not provisioned.                           *)
HealthSkipped(p, i) ==
  /\ Takes(p, i)
  /\ heap[inbox[p[1]][i].new].provisioned # "True"
  /\ UNCHANGED <<storeVars, task, kubeconfigs>>
  /\ OnlyPointersDropped

(* Condition Ready.Do begins: Unknown unless False.                        *)
HealthStarts(p, i) ==
  LET n == inbox[p[1]][i]
      o == heap[n.new]
  IN  /\ Takes(p, i)
      /\ o.provisioned = "True"
      /\ Starts(p, n, n.new)
      /\ UNCHANGED <<storeVars, queueVars, listed, syncing, pos, notified, pc, key, shared,
                     localVars, worldVars, kubeconfigs>>
      /\ WriteObject(n.new, [o EXCEPT !.ready = IF @ = "False" THEN "False" ELSE "Unknown"])

(* validateHealthcheck: without a Kubeconfig there is no error, and Do     *)
(* sets the condition to True.                                             *)
HealthNoKubeconfig(p) ==
  /\ At(p, "ask") /\ KubeconfigMissing(p)
  /\ Goes(p, "put")
  /\ RestUnchanged
  /\ SetReady(p, "True")

HealthGetFails(p) ==
  /\ At(p, "ask") /\ KubeconfigGetFails
  /\ Goes(p, "put")
  /\ RestUnchanged
  /\ SetReady(p, "False")

HealthDials(p) ==
  /\ At(p, "ask") /\ KubeconfigFound(p)
  /\ task' = [task EXCEPT ![p].pc = "contact", ![p].kubeconfig = kubeconfigs[task[p].key]]
  /\ RestUnchanged /\ UNCHANGED <<cache, cur, memoryVars>>

Healthy(p) ==
  /\ At(p, "contact")
  /\ \E v \in Contents \cup {NoConfig} : Answers(task[p].kubeconfig.path, v)
  /\ Goes(p, "put")
  /\ RestUnchanged
  /\ SetReady(p, "True")

Unhealthy(p) ==
  /\ At(p, "contact") /\ NoAnswer(task[p].kubeconfig.path)
  /\ Goes(p, "put")
  /\ RestUnchanged
  /\ SetReady(p, "False")

(* Mutant of HealthUpdate: the outcome stays in the cache. *)
HealthUpdateUnsaved(p) ==
  /\ At(p, "put")
  /\ Returns(p)
  /\ UNCHANGED <<storeVars, inbox, kubeconfigs>>
  /\ OnlyPointersDropped

(* The object is sent as it is at that moment, with whatever the others    *)
(* have written into it meanwhile.                                         *)
HealthUpdate(p) ==
  /\ At(p, "put")
  /\ PutSucceeds(p, Object(p)) \/ PutFails(p, Object(p))
  /\ UNCHANGED <<inbox, kubeconfigs>>
  /\ OnlyPointersDropped

HealthStep(p) ==
  \/ \E i \in DOMAIN inbox[p[1]] : HealthSkipped(p, i) \/ HealthStarts(p, i)
  \/ HealthNoKubeconfig(p) \/ HealthGetFails(p) \/ HealthDials(p)
  \/ Healthy(p) \/ Unhealthy(p)
  \/ HealthUpdate(p)
=============================================================================
