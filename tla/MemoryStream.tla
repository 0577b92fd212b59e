---------------------------- MODULE MemoryStream ----------------------------
(***************************************************************************)
(* anyio's memory object stream as PyVelo uses it: one sender, one         *)
(* receiver, a buffer of one item (_http2.py:280-282, _asgi.py).  External *)
(* code, modelled by its effect on the two ends.  A channel is a record:   *)
(*   buf    items accepted; while rx = "woken" its head is the item handed *)
(*          directly to the receiver, which has not run yet                *)
(*   snd    the item of a sender that is blocked in send(), if any         *)
(*   rx     what the receiver does: "idle", "wait" (blocked in receive())  *)
(*          or "woken" (its wait is over, it has not run yet)              *)
(*   sopen, ropen   whether each end is still open                         *)
(***************************************************************************)
EXTENDS Naturals, Sequences

Fresh == [buf |-> <<>>, snd |-> <<>>, rx |-> "idle",
          sopen |-> TRUE, ropen |-> TRUE]

Channels(Item) ==
    [buf : Seq(Item), snd : Seq(Item), rx : {"idle", "wait", "woken"},
     sopen : BOOLEAN, ropen : BOOLEAN]

\* send_nowait() succeeds: a waiting receiver, or room in the buffer.
HasRoom(c) == Len(c.buf) < IF c.rx = "woken" THEN 2 ELSE 1

Put(c, e) == [c EXCEPT !.buf = Append(@, e),
                       !.rx  = IF @ = "wait" THEN "woken" ELSE @]

\* send() finds no room and waits; Unblock drops the item of a sender that was
\* cancelled, or whose receiver has gone.
Block(c, e) == [c EXCEPT !.snd = <<e>>]
Unblock(c)  == [c EXCEPT !.snd = <<>>]

\* receive() by a receiver that did not have to wait, and by one that did.
Pending(c) == c.buf \o c.snd
Take(c)    == [c EXCEPT !.buf = Tail(Pending(c)), !.snd = <<>>]
Await(c)   == [c EXCEPT !.rx = "wait"]
Wake(c)    == [c EXCEPT !.buf = IF @ = <<>> THEN @ ELSE Tail(@), !.rx = "idle"]

\* Closing the sending end wakes the receiver; what is buffered stays readable.
CloseSend(c) == [c EXCEPT !.sopen = FALSE,
                          !.rx    = IF @ = "wait" THEN "woken" ELSE @]

CloseRecv(c) == [c EXCEPT !.ropen = FALSE, !.buf = <<>>, !.rx = "idle"]
=============================================================================
