-------------------------------- MODULE MCStartup --------------------------------
(***************************************************************************)
(* Small instances of Startup.                                             *)
(***************************************************************************)
EXTENDS Startup
=============================================================================
