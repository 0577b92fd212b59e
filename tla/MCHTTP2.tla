------------------------------- MODULE MCHTTP2 -------------------------------
(***************************************************************************)
(* HTTP2 on small instances, and what comments and docstrings say of it    *)
(* that the code does not keep.                                            *)
(***************************************************************************)
EXTENDS HTTP2

\* "already closed from the HTTPResponseStream end" (_http2.py:191): closing a
\* response before its end is expected and does not fail the manager, whose
\* failure would cancel the whole client.
EarlyCloseTolerated == ~failed

\* "Send an HTTP request and return the response." (_connection.py:49): a
\* response that has begun can be read to its end, also when its body is larger
\* than the receive window.
BodyDelivered == \A r \in Requests : phase[r] = "head" ~> phase[r] = "closed"
=============================================================================
