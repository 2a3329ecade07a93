---------------------------- MODULE MCProvisioner ----------------------------
(* Provisioner on a small instance: the bounds are its constants.          *)
EXTENDS Provisioner, TLC

(* Reflectors run the same code on the same stream, names are only names.  *)
Symmetry == Permutations(Reflectors) \cup Permutations(Names)
=============================================================================
