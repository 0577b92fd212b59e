------------------------------ MODULE MCClient -------------------------------
(* Client on a small instance. *)
EXTENDS Client, TLC

\* The cookie's path is that of one site, and a proper prefix of another's; the
\* site in the clear is outside of it.
CookieJar == "plain"  :> [path |-> <<"/", "a">>, domain |-> None, secure |-> FALSE] @@
             "secure" :> [path |-> None, domain |-> "b.example", secure |-> TRUE]
Sites == {[scheme |-> "https", host |-> "a.example", path |-> <<"/", "a">>],
          [scheme |-> "https", host |-> "a.example", path |-> <<"/", "a", "bc">>],
          [scheme |-> "http", host |-> "b.example", path |-> <<"/">>]}
Own == {{}, {"content-type"}}

Symmetry == Permutations(Requests)
=============================================================================
