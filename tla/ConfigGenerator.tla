--------------------------- MODULE ConfigGenerator ---------------------------
(***************************************************************************)
(* The configgenerator: keeps, for every provisioned cluster, a Kubeconfig *)
(* object of the same name that says where rke put its kubeconfig file.    *)
(***************************************************************************)
EXTENDS Handlers

ConfigProcs == Procs \cap ({"configgenerator"} \X Threads)

Configurable(c) == ~c.deleting /\ c.provisioned = "True"

GenerateSkipped(p, i) ==
  /\ Takes(p, i)
  /\ ~Configurable(heap[OldObject(inbox[p[1]][i])])
  /\ UNCHANGED <<storeVars, task, kubeconfigs>>
  /\ OnlyPointersDropped

GenerateStarts(p, i) ==
  LET n == inbox[p[1]][i]
  IN  /\ Takes(p, i)
      /\ Configurable(heap[OldObject(n)])
      /\ Starts(p, n, OldObject(n))
      /\ UNCHANGED <<storeVars, kubeconfigs>>
      /\ OnlyPointersDropped

Wanted(p) == getKubeConfigPath(Object(p).path)

(* Mutant of GenerateNothing: a Kubeconfig that is there is left alone. *)
GenerateNothingOnceThere(p) ==
  /\ At(p, "ask")
  /\ KubeconfigGetFails \/ KubeconfigFound(p)
  /\ Returns(p)
  /\ UNCHANGED <<inbox, kubeconfigs>>
  /\ OnlyPointersDropped

(* An error of the Get, or a Kubeconfig that is right already.             *)
GenerateNothing(p) ==
  /\ At(p, "ask")
  /\ \/ KubeconfigGetFails
     \/ KubeconfigFound(p) /\ kubeconfigs[task[p].key].path = Wanted(p)
  /\ Returns(p)
  /\ UNCHANGED <<inbox, kubeconfigs>>
  /\ OnlyPointersDropped

(* createKubeconfig builds the object from the cluster it was given.       *)
GenerateCreates(p) ==
  /\ At(p, "ask") /\ KubeconfigMissing(p)
  /\ task' = [task EXCEPT ![p].pc = "create",
                          ![p].kubeconfig = [owner |-> Object(p).uid, rv |-> 0, path |-> Wanted(p)]]
  /\ RestUnchanged /\ UNCHANGED <<cache, cur, memoryVars>>

(* updateKubeconfig changes a copy of what the Get returned.               *)
GenerateUpdates(p) ==
  /\ At(p, "ask") /\ KubeconfigFound(p)
  /\ kubeconfigs[task[p].key].path # Wanted(p)
  /\ task' = [task EXCEPT ![p].pc = "update",
                          ![p].kubeconfig = [kubeconfigs[task[p].key] EXCEPT !.path = Wanted(p)]]
  /\ RestUnchanged /\ UNCHANGED <<cache, cur, memoryVars>>

(* The server's side of the two calls.  It refuses to create what is there  *)
(* and to update what has changed since it was read.                       *)
Stored(p) == kubeconfigs' =
  [kubeconfigs EXCEPT ![task[p].key] = [task[p].kubeconfig EXCEPT !.rv = @ + 1]]

KubeconfigCreate(p) ==
  IF kubeconfigs[task[p].key] = NoKubeconfig THEN Stored(p) ELSE UNCHANGED kubeconfigs

KubeconfigUpdate(p) ==
  IF kubeconfigs[task[p].key].rv = task[p].kubeconfig.rv THEN Stored(p)
  ELSE UNCHANGED kubeconfigs

(* One call, whose outcome is only logged.  A fault loses it or its answer.*)
GenerateWrites(p) ==
  /\ \/ At(p, "create") /\ KubeconfigCreate(p) /\ UNCHANGED storeVars
     \/ At(p, "update") /\ KubeconfigUpdate(p) /\ UNCHANGED storeVars
     \/ task[p].pc \in {"create", "update"} /\ Fault /\ UNCHANGED <<store, events, kubeconfigs>>
  /\ Returns(p)
  /\ UNCHANGED inbox
  /\ OnlyPointersDropped

ConfigStep(p) ==
  \/ \E i \in DOMAIN inbox[p[1]] : GenerateSkipped(p, i) \/ GenerateStarts(p, i)
  \/ GenerateNothing(p) \/ GenerateCreates(p) \/ GenerateUpdates(p)
  \/ GenerateWrites(p)
=============================================================================
