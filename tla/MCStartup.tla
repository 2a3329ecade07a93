------------------------------ MODULE MCStartup ------------------------------
(* Startup on a small instance: the bounds are its constants.              *)
EXTENDS Startup
=============================================================================
