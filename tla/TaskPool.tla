------------------------------- MODULE TaskPool -------------------------------
(***************************************************************************)
(* What a task queue promises its clients, without queue, order or locks:  *)
(* a set of keys that still have to be synced and the set of keys being    *)
(* synced.  A submitted key is synced after its submission, never by two   *)
(* workers at once, and a submission is refused only after shutdown.  That  *)
(* every key gets its turn is stated where the worker is (TaskQueue).      *)
(***************************************************************************)
CONSTANT Keys

VARIABLES
  pending,               \* submitted and not yet picked up
  running,               \* being synced
  closed                 \* no new submission is accepted

poolVars == <<pending, running, closed>>

Init == pending = {} /\ running = {} /\ closed = FALSE

Submit(k) ==
  /\ ~closed
  /\ pending' = pending \cup {k}
  /\ UNCHANGED <<running, closed>>

Start(k) ==
  /\ k \in pending \ running
  /\ pending' = pending \ {k}
  /\ running' = running \cup {k}
  /\ UNCHANGED closed

Finish(k) ==
  /\ k \in running
  /\ running' = running \ {k}
  /\ UNCHANGED <<pending, closed>>

Close ==
  /\ closed' = TRUE
  /\ UNCHANGED <<pending, running>>

Next == Close \/ \E k \in Keys : Submit(k) \/ Start(k) \/ Finish(k)

Spec == Init /\ [][Next]_poolVars
=============================================================================
