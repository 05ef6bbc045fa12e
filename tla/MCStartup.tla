----------------------------- MODULE MCStartup ------------------------------
(***************************************************************************)
(* Startup on small instances.                                             *)
(***************************************************************************)
EXTENDS Startup, TLC
=============================================================================
