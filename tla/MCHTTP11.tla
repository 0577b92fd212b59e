------------------------------- MODULE MCHTTP11 ------------------------------
(***************************************************************************)
(* HTTP11 on small instances, and what a message in it says of it that the *)
(* code does not keep.                                                     *)
(***************************************************************************)
EXTENDS HTTP11

\* "server closed connection prematurely" (_http11.py:301): a body that stops
\* before its end is reported as broken, so the body of a response that was
\* read to EndOfStream is the whole body.
CompleteBody ==
    \A r \in Requests :
        result[r] \in {"end", "eos"} => r \in ended /\ rcvd[r] = sent[r]
=============================================================================
