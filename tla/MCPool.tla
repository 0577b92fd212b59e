------------------------------- MODULE MCPool --------------------------------
(* Pool on a small instance, with numbers for the requests. *)
EXTENDS Pool

\* Idle requests are alike: it is enough that they are prepared in order.  Every
\* behaviour of Pool is one of these up to the names of the requests.
InOrder == \A q, r \in Requests : q < r /\ phase[q] = "idle" => phase'[r] = "idle"

OrderedSpec == Init /\ [][Next /\ InOrder]_vars /\ Fairness
=============================================================================
