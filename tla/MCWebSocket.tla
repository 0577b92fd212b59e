----------------------------- MODULE MCWebSocket -----------------------------
(***************************************************************************)
(* WebSocket on a small instance.                                          *)
(***************************************************************************)
EXTENDS WebSocket
=============================================================================
