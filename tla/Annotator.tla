------------------------------ MODULE Annotator ------------------------------
(***************************************************************************)
(* The annotator: records the version of a provisioned and ready cluster   *)
(* as an annotation.  It copies the object before it changes it.           *)
(***************************************************************************)
EXTENDS Handlers

AnnotatorProcs == Procs \cap ({"annotator"} \X Threads)

(* sync skips clusters that are being deleted, not provisioned or not      *)
(* ready.                                                                  *)
Annotatable(c) == ~c.deleting /\ c.provisioned = "True" /\ c.ready = "True"

AnnotateSkipped(p, i) ==
  /\ Takes(p, i)
  /\ ~Annotatable(heap[OldObject(inbox[p[1]][i])])
  /\ UNCHANGED <<storeVars, task, kubeconfigs>>
  /\ OnlyPointersDropped

AnnotateStarts(p, i) ==
  LET n == inbox[p[1]][i]
  IN  /\ Takes(p, i)
      /\ Annotatable(heap[OldObject(n)])
      /\ Starts(p, n, OldObject(n))
      /\ UNCHANGED <<storeVars, kubeconfigs>>
      /\ OnlyPointersDropped

VersionDials(p) ==
  /\ At(p, "ask") /\ KubeconfigFound(p)
  /\ task' = [task EXCEPT ![p].pc = "contact", ![p].kubeconfig = kubeconfigs[task[p].key]]
  /\ RestUnchanged /\ UNCHANGED <<cache, cur, memoryVars>>

(* getVersion returns v: the empty string if there is no Kubeconfig, and   *)
(* on every error.                                                         *)
GotVersion(p, v) ==
  \/ At(p, "ask") /\ v = NoConfig /\ (KubeconfigMissing(p) \/ KubeconfigGetFails)
  \/ At(p, "contact") /\ v = NoConfig /\ NoAnswer(task[p].kubeconfig.path)
  \/ At(p, "contact") /\ Answers(task[p].kubeconfig.path, v)

VersionUnchanged(p, v) ==
  /\ GotVersion(p, v)
  /\ v = Object(p).version
  /\ Returns(p)
  /\ UNCHANGED <<inbox, kubeconfigs>>
  /\ OnlyPointersDropped

(* Mutant of VersionChanged: the copy is shallow and shares its map of      *)
(* annotations with the cached object.                                     *)
VersionChangedShallow(p, v) ==
  /\ GotVersion(p, v)
  /\ v # Object(p).version
  /\ task' = [task EXCEPT ![p].pc = "put", ![p].copy = [Object(p) EXCEPT !.version = v]]
  /\ RestUnchanged
  /\ WriteObject(task[p].obj, [Object(p) EXCEPT !.version = v])

(* The annotation is set on a deep copy.                                   *)
VersionChanged(p, v) ==
  /\ GotVersion(p, v)
  /\ v # Object(p).version
  /\ task' = [task EXCEPT ![p].pc = "put", ![p].copy = [Object(p) EXCEPT !.version = v]]
  /\ RestUnchanged /\ UNCHANGED <<cache, cur, memoryVars>>

(* Mutant of AnnotateUpdate: the copy is changed but never sent. *)
AnnotateUpdateUnsaved(p) ==
  /\ At(p, "put")
  /\ Returns(p)
  /\ UNCHANGED <<storeVars, inbox, kubeconfigs>>
  /\ OnlyPointersDropped

(* The same loop of three PUTs, of the copy. *)
AnnotateUpdate(p) ==
  /\ At(p, "put")
  /\ PutSucceeds(p, task[p].copy) \/ PutFails(p, task[p].copy)
  /\ UNCHANGED <<inbox, kubeconfigs>>
  /\ OnlyPointersDropped

AnnotatorStep(p) ==
  \/ \E i \in DOMAIN inbox[p[1]] : AnnotateSkipped(p, i) \/ AnnotateStarts(p, i)
  \/ VersionDials(p)
  \/ \E v \in Contents \cup {NoConfig} : VersionUnchanged(p, v) \/ VersionChanged(p, v)
  \/ AnnotateUpdate(p)
=============================================================================
