------------------------------ MODULE MCDeepCopy ------------------------------
(* DeepCopy on a small instance: the bounds are its constants.             *)
EXTENDS DeepCopy
=============================================================================
