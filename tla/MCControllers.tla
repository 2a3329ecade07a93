---------------------------- MODULE MCControllers ----------------------------
(* Controllers on a small instance: the bounds are its constants.          *)
EXTENDS Controllers
=============================================================================
