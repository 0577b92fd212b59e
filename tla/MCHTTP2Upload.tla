---------------------------- MODULE MCHTTP2Upload ----------------------------
(***************************************************************************)
(* HTTP2Upload on a small instance: two bodies of different lengths.       *)
(***************************************************************************)
EXTENDS HTTP2Upload, TLC

CONSTANTS u1, u2

Sizes == u1 :> 2 @@ u2 :> 1
=============================================================================
