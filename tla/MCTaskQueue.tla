---------------------------- MODULE MCTaskQueue ----------------------------
(* TaskQueue on a few keys.  The queue cannot grow beyond one entry per    *)
(* key, so the instance is finite without a bound.                         *)
EXTENDS TaskQueue
CONSTANTS k1, k2, k3
ThreeKeys == {k1, k2, k3}
=============================================================================
