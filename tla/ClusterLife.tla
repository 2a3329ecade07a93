------------------------------ MODULE ClusterLife ------------------------------
(***************************************************************************)
(* What the controllers promise of a cluster, without queue, cache, copies *)
(* or retries: the stages a stored cluster goes through, what rke has      *)
(* built, and the removal the worker has carried out but not yet answered  *)
(* for.  The provisioner's finalizer comes before the deletion mark or not *)
(* at all; a cluster that has it leaves only after its removal, and        *)
(* nothing is removed but for a cluster that is leaving.                   *)
(***************************************************************************)
CONSTANTS
  Names,                 \* cluster names
  Paths                  \* values of spec.configPath

VARIABLES
  life,                  \* name -> stage
  built,                 \* paths where an rke has left something
  removed                \* the removal in the worker's hands, as a set

lifeVars == <<life, built, removed>>

(* Live without and with the provisioner's finalizer; being deleted with   *)
(* and without it.                                                         *)
Stages == {"absent", "free", "guarded", "leaving", "released"}

LifeInit ==
  /\ life = [k \in Names |-> "absent"]
  /\ built = {}
  /\ removed = {}

Becomes(k, stages) == \E s \in stages : life' = [life EXCEPT ![k] = s]

Create(k) ==
  /\ life[k] = "absent"
  /\ Becomes(k, {"free"})
  /\ UNCHANGED <<built, removed>>

(* initialize: the finalizer is stored, with whatever write carries it. *)
Guard(k) ==
  /\ life[k] = "free"
  /\ Becomes(k, {"guarded"})
  /\ UNCHANGED <<built, removed>>

(* A user's delete marks an object that has a finalizer. *)
Delete(k) ==
  /\ \/ life[k] = "free" /\ Becomes(k, {"absent", "released"})
     \/ life[k] = "guarded" /\ Becomes(k, {"leaving"})
  /\ UNCHANGED <<built, removed>>

(* The last foreign finalizer comes off. *)
Vanish(k) ==
  /\ life[k] = "released"
  /\ Becomes(k, {"absent"})
  /\ UNCHANGED <<built, removed>>

(* An rke starts, ends or is cut short, and leaves something at its path.  *)
Build(p) ==
  /\ removed = {}
  /\ built' = built \cup {p}
  /\ UNCHANGED <<life, removed>>

(* rke remove has finished; a crash may lose the news of it. *)
Remove(k, p) ==
  /\ removed = {}
  /\ life[k] = "leaving"
  /\ built' = built \ {p}
  /\ removed' \in {{}, {[key |-> k, path |-> p]}}
  /\ UNCHANGED life

(* finalize: the finalizer comes off.  The worker may not learn of it.     *)
Release(k) ==
  /\ life[k] = "leaving"
  /\ \E p \in Paths \ built : removed = {[key |-> k, path |-> p]}
  /\ Becomes(k, {"absent", "released"})
  /\ removed' \in {{}, removed}
  /\ UNCHANGED built

(* The worker gives up, or dies. *)
Forget ==
  /\ removed' = {}
  /\ UNCHANGED <<life, built>>

LifeNext ==
  \/ \E k \in Names : Create(k) \/ Guard(k) \/ Delete(k) \/ Vanish(k) \/ Release(k)
  \/ \E p \in Paths : Build(p)
  \/ \E k \in Names, p \in Paths : Remove(k, p)
  \/ Forget

LifeSpec == LifeInit /\ [][LifeNext]_lifeVars
=============================================================================
