---------------------------- MODULE ResponseBody ----------------------------
(***************************************************************************)
(* What HTTPConnection.request promises (_connection.py:41-58): a stream   *)
(* that hands out the body in order and raises EndOfStream when, and only  *)
(* when, the server has finished it and all of it was read; if anything    *)
(* goes wrong the reader gets another exception instead.  Each connection  *)
(* class is shown to implement this.                                       *)
(***************************************************************************)
EXTENDS Naturals

CONSTANT Requests

VARIABLES produced,   \* parts of the body the server has sent
          finished,   \* the requests whose body the server has finished
          consumed,   \* parts the reader has got
          told        \* what the reader was told last: "none", "end", "failed"

vars == <<produced, finished, consumed, told>>

Init ==
    /\ produced = [r \in Requests |-> 0]
    /\ consumed = [r \in Requests |-> 0]
    /\ told = [r \in Requests |-> "none"]
    /\ finished = {}

Produce(r) ==
    /\ r \notin finished
    /\ produced' = [produced EXCEPT ![r] = @ + 1]
    /\ UNCHANGED <<finished, consumed, told>>

Finish(r) ==
    /\ finished' = finished \cup {r}
    /\ UNCHANGED <<produced, consumed, told>>

Consume(r) ==
    /\ told[r] = "none" /\ consumed[r] < produced[r]
    /\ consumed' = [consumed EXCEPT ![r] = @ + 1]
    /\ UNCHANGED <<produced, finished, told>>

TellEnd(r) ==
    /\ told[r] = "none" /\ r \in finished /\ consumed[r] = produced[r]
    /\ told' = [told EXCEPT ![r] = "end"]
    /\ UNCHANGED <<produced, finished, consumed>>

TellFailure(r) ==
    /\ told[r] = "none"
    /\ told' = [told EXCEPT ![r] = "failed"]
    /\ UNCHANGED <<produced, finished, consumed>>

Next == \E r \in Requests :
            Produce(r) \/ Finish(r) \/ Consume(r) \/ TellEnd(r) \/ TellFailure(r)

Spec == Init /\ [][Next]_vars
=============================================================================
