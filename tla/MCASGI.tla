-------------------------------- MODULE MCASGI --------------------------------
(***************************************************************************)
(* ASGI on small instances.                                                *)
(***************************************************************************)
EXTENDS ASGI
=============================================================================
