----------------------------- MODULE HTTP11Proofs ----------------------------
(***************************************************************************)
(* Proofs about HTTP11, for any number of requests of each sort: a         *)
(* connection is lent to one request at a time, and one that is lent again *)
(* has nothing left over from the request before.                          *)
(***************************************************************************)
EXTENDS HTTP11, QueueProofs

H11 == [us : {"IDLE", "SEND_BODY", "DONE", "MUST_CLOSE", "CLOSED", "MIGHT_SWITCH",
              "SWITCHED", "ERROR"},
        them : {"IDLE", "SEND_RESPONSE", "SEND_BODY", "DONE", "MUST_CLOSE", "SWITCHED"},
        keep : BOOLEAN, switch : BOOLEAN]
Results == {"none", "end", "eos", "closed", "cancelled", "rejected", "error"}
Servings == {"none", "open", "informed", "body", "eof_body", "done"}

-----------------------------------------------------------------------------
(* h11 *)

\* The transitions that follow an event neither make a client IDLE nor a server DONE.
LEMMA SettleEffects ==
    ASSUME NEW h \in H11
    PROVE  /\ Settle(h) \in H11
           /\ Settle(h).us = "IDLE" => h.us = "IDLE"
           /\ Settle(h).them = "DONE" => h.them = "DONE"
<1> DEFINE us1 == CASE h.switch /\ h.us = "DONE" -> "MIGHT_SWITCH"
                    [] ~h.switch /\ h.us = "MIGHT_SWITCH" -> "DONE"
                    [] OTHER -> h.us
           us2 == CASE ~h.keep /\ us1 = "DONE" -> "MUST_CLOSE"
                    [] us1 = "MIGHT_SWITCH" /\ h.them = "SWITCHED" -> "SWITCHED"
                    [] OTHER -> us1
           t == IF \/ h.them = "DONE" /\ (~h.keep \/ us2 \in {"CLOSED", "ERROR"})
                   \/ h.them = "IDLE" /\ us2 = "CLOSED"
                THEN "MUST_CLOSE" ELSE h.them
<1>1. us1 \in {h.us, "MIGHT_SWITCH", "DONE"}  OBVIOUS
<1>2. us2 \in {us1, "MUST_CLOSE", "SWITCHED"}
  <2> HIDE DEF us1
  <2> QED  OBVIOUS
<1>3. t \in {h.them, "MUST_CLOSE"}
  <2> HIDE DEF us2
  <2> QED  OBVIOUS
<1>4. Settle(h) = [h EXCEPT !.us = us2, !.them = t]  BY DEF Settle
<1> HIDE DEF us1, us2, t
<1> QED  BY <1>1, <1>2, <1>3, <1>4 DEF H11

LEMMA ParsedEffects ==
    ASSUME NEW h \in H11, NEW e \in Item
    PROVE  /\ Parsed(h, e) \in H11
           /\ Parsed(h, e).us = "IDLE" => h.us = "IDLE"
           /\ Parsed(h, e).them = "DONE" => e.kind = "end" \/ h.them = "DONE"
<1> DEFINE g == CASE e.kind \in Responses ->
                       [h EXCEPT !.them = "SEND_BODY", !.switch = FALSE,
                                 !.keep = @ /\ e.kind = "response"]
                  [] e.kind = "switch" -> [h EXCEPT !.them = "SWITCHED"]
                  [] e.kind = "end"    -> [h EXCEPT !.them = "DONE"]
                  [] OTHER             -> h
<1>1. /\ g \in H11 /\ g.us = h.us
      /\ g.them = "DONE" => e.kind = "end" \/ h.them = "DONE"
  <2>1. CASE e.kind \in Responses
    <3>1. g = [h EXCEPT !.them = "SEND_BODY", !.switch = FALSE,
                        !.keep = @ /\ e.kind = "response"]
      BY <2>1 DEF Responses
    <3>2. (h.keep /\ e.kind = "response") \in BOOLEAN  OBVIOUS
    <3> QED  BY <3>1, <3>2 DEF H11
  <2>2. CASE e.kind = "switch"  BY <2>2 DEF H11, Responses
  <2>3. CASE e.kind = "end"  BY <2>3 DEF H11, Responses
  <2>4. CASE e.kind \notin Responses \cup {"switch", "end"}  BY <2>4 DEF H11
  <2> QED  BY <2>1, <2>2, <2>3, <2>4
<1>2. Parsed(h, e) = Settle(g)  BY DEF Parsed
<1> HIDE DEF g
<1> QED  BY <1>1, <1>2, SettleEffects

LEMMA SendClosedEffects ==
    ASSUME NEW h \in H11
    PROVE  /\ SendClosed(h) \in H11 /\ SendClosed(h).us # "IDLE"
           /\ SendClosed(h).them = "DONE" => h.them = "DONE"
<1> DEFINE g == [h EXCEPT !.us = IF Closable(h) THEN "CLOSED" ELSE "ERROR"]
<1>1. g \in H11 /\ g.us # "IDLE" /\ g.them = h.them  BY DEF H11
<1>2. SendClosed(h) = Settle(g)  BY DEF SendClosed
<1> HIDE DEF g
<1> QED  BY <1>1, <1>2, SettleEffects

\* What the operators that raise or close do to h11, the transport and the task.
LEMMA AcloseEffects ==
    ASSUME NEW h \in H11, transport \in {"up", "closed"}, AcloseFrom(h)
    PROVE  /\ h11' \in H11 /\ transport' \in {"up", "closed"}
           /\ h11'.us = "IDLE" => h.us = "IDLE"
           /\ h11'.them = "DONE" => h.them = "DONE"
<1>1. CASE h.us = "SWITCHED"  BY <1>1 DEF AcloseFrom
<1>2. CASE h.us # "SWITCHED"  BY <1>2, SendClosedEffects DEF AcloseFrom
<1> QED  BY <1>1, <1>2

LEMMA RaisesEffects ==
    ASSUME NEW h \in H11, transport \in {"up", "closed"}, NEW r, NEW res, Raises(r, res, h)
    PROVE  /\ h11' \in H11 /\ transport' \in {"up", "closed"}
           /\ h11'.us = "IDLE" => h.us = "IDLE"
           /\ h11'.them = "DONE" => h.them = "DONE"
           /\ Outcome(r, "failed", res)
<1>1. CASE AcloseFrom(h)  BY <1>1, AcloseEffects DEF Raises
<1>2. CASE h11' = h /\ UNCHANGED transport  BY <1>2 DEF Raises
<1> QED  BY <1>1, <1>2 DEF Raises

-----------------------------------------------------------------------------
(* Type correctness *)

\* Every action has one of the two shapes below for the variables it changes.
TaskType == /\ phase' \in [Requests -> Phases]
            /\ result' \in [Requests -> Results]
            /\ rcvd' \in [Requests -> Nat]
            /\ h11' \in H11 /\ transport' \in {"up", "closed"}

LEMMA TypeParts ==
    TypeOK <=> /\ h11 \in H11 /\ transport \in {"up", "closed"}
               /\ phase \in [Requests -> Phases] /\ result \in [Requests -> Results]
               /\ rcvd \in [Requests -> Nat] /\ exit \in {"no", "done", "raised"}
               /\ wire \in Seq(Item) /\ srv \in [Requests -> Servings]
               /\ sent \in [Requests -> Nat] /\ ended \subseteq Requests
               /\ srvUp \in {"up", "eof"} /\ budget \in Nat
BY DEF TypeOK, H11, Results, Servings

LEMMA OutcomeType ==
    ASSUME TypeOK, NEW r \in Requests, NEW p \in Phases, NEW res \in Results,
           Outcome(r, p, res)
    PROVE  phase' \in [Requests -> Phases] /\ result' \in [Requests -> Results]
BY TypeParts DEF Outcome

LEMMA BudgetType == ASSUME TypeOK, NEW k, Environment(k) PROVE budget' \in Nat
BY DEF TypeOK, Environment

LEMMA InitType == Init => TypeOK
BY HTTP11Assumption DEF Init, TypeOK, Phases, HTTP11Assumption

\* Parsing an item of the wire.
LEMMA ParsesType ==
    ASSUME TypeOK, NEW r \in Requests, Parses(r)
    PROVE  /\ Head(wire) \in Item /\ wire' \in Seq(Item)
           /\ Parsed(h11, Head(wire)) \in H11
<1>1. wire \in Seq(Item) /\ wire # <<>> /\ h11 \in H11  BY TypeParts DEF Parses
<1>2. Head(wire) \in Item /\ Tail(wire) \in Seq(Item)  BY <1>1
<1> QED  BY <1>1, <1>2, ParsedEffects DEF Parses

LEMMA TaskKeepsType ==
    ASSUME TypeOK, NEW r \in Requests, Task(r) \/ Start(r) \/ Cancel(r) \/ Close(r)
    PROVE  TypeOK'
<1>0. /\ h11 \in H11 /\ transport \in {"up", "closed"}
      /\ phase \in [Requests -> Phases] /\ result \in [Requests -> Results]
      /\ rcvd \in [Requests -> Nat] /\ result[r] \in Results
      /\ {"sending", "head", "rejected", "open", "over", "raised", "tunnel", "closed",
          "failed"} \subseteq Phases
      /\ {"end", "eos", "closed", "cancelled", "rejected", "error"} \subseteq Results
      /\ wire \in Seq(Item) /\ srv \in [Requests -> Servings] /\ budget \in Nat
  BY TypeParts DEF Phases, Results
<1>1. CASE Start(r)
  <2>1. h11' \in H11
    <3>1. CASE r \in WebSockets \cup Connects
      <4>1. (r \in WebSockets \cup Connects) = TRUE  BY <3>1
      <4>2. h11' = [h11 EXCEPT !.us = "SEND_BODY", !.them = "SEND_RESPONSE", !.switch = TRUE]
        BY <1>1, <4>1, Zenon DEF Start
      <4> QED  BY <1>0, <4>2 DEF H11
    <3>2. CASE r \notin WebSockets \cup Connects
      <4>1. (r \in WebSockets \cup Connects) = FALSE  BY <3>2
      <4>2. h11' = [h11 EXCEPT !.us = "SEND_BODY", !.them = "SEND_RESPONSE", !.switch = FALSE]
        BY <1>1, <4>1, Zenon DEF Start
      <4> QED  BY <1>0, <4>2 DEF H11
    <3> QED  BY <3>1, <3>2
  <2>2. phase' \in [Requests -> Phases]  BY <1>0, <1>1 DEF Start
  <2> QED  BY <1>1, <2>1, <2>2, TypeParts DEF Start, server, TypeOK, H11
<1>2. CASE FinishSend(r)
  <2>1. TaskType
    <3>1. CASE h11' = Settle([h11 EXCEPT !.us = "DONE"])
               /\ phase' = [phase EXCEPT ![r] = "head"] /\ UNCHANGED <<result, transport>>
      <4>1. [h11 EXCEPT !.us = "DONE"] \in H11  BY <1>0 DEF H11
      <4>2. h11' \in H11  BY <3>1, <4>1, SettleEffects
      <4> QED  BY <1>0, <1>2, <3>1, <4>2 DEF TaskType, FinishSend
    <3>2. CASE Raises(r, "error", h11)
      <4>1. /\ h11' \in H11 /\ transport' \in {"up", "closed"}
            /\ Outcome(r, "failed", "error")
        BY <1>0, <3>2, RaisesEffects
      <4> QED  BY <1>0, <1>2, <4>1, OutcomeType DEF TaskType, FinishSend
    <3> QED  BY <1>2, <3>1, <3>2 DEF FinishSend
  <2>2. srv' \in [Requests -> Servings]
    <3>1. (IF srvUp = "up" THEN "open" ELSE srv[r]) \in Servings  BY <1>0 DEF Servings
    <3> QED  BY <1>0, <1>2, <3>1 DEF FinishSend
  <2> QED  BY <1>2, <2>1, <2>2, TypeParts DEF FinishSend, TaskType, TypeOK, H11, Results, Servings
<1>3. CASE ReceiveHead(r)
  <2>1. wire' \in Seq(Item) /\ h11' \in H11  BY <1>3, ParsesType DEF ReceiveHead
  <2>2. phase' \in [Requests -> Phases]  BY <1>0, <1>3 DEF ReceiveHead
  <2> QED  BY <1>3, <2>1, <2>2, TypeParts DEF ReceiveHead, TypeOK, H11, Results, Servings
<1>4. CASE ReceiveRejection(r)
  <2> DEFINE h == Parsed(h11, Head(wire))
  <2>1. wire' \in Seq(Item) /\ h \in H11  BY <1>4, ParsesType DEF ReceiveRejection
  <2>2. TaskType
    <3>1. CASE rcvd' = [rcvd EXCEPT ![r] = @ + 1] /\ h11' = h /\ UNCHANGED <<phase, result, transport>>
      BY <1>0, <2>1, <3>1 DEF TaskType
    <3>2. CASE h11' = h /\ Outcome(r, "failed", "rejected") /\ UNCHANGED <<rcvd, transport>>
      BY <1>0, <2>1, <3>2, OutcomeType DEF TaskType
    <3>3. CASE Raises(r, "error", h) /\ UNCHANGED rcvd
      <4>1. /\ h11' \in H11 /\ transport' \in {"up", "closed"}
            /\ Outcome(r, "failed", "error")
        BY <1>0, <2>1, <3>3, RaisesEffects
      <4> QED  BY <1>0, <3>3, <4>1, OutcomeType DEF TaskType
    <3> QED  BY <1>4, <3>1, <3>2, <3>3 DEF ReceiveRejection
  <2> QED  BY <1>4, <2>1, <2>2, TypeParts DEF ReceiveRejection, TaskType, TypeOK, H11, Results, Servings
<1>5. CASE ReceiveEof(r)
  <2>1. TaskType
    <3>1. CASE Raises(r, "error", h11)
      <4>1. /\ h11' \in H11 /\ transport' \in {"up", "closed"}
            /\ Outcome(r, "failed", "error")
        BY <1>0, <3>1, RaisesEffects
      <4> QED  BY <1>0, <1>5, <4>1, OutcomeType DEF TaskType, ReceiveEof
    <3>2. CASE Outcome(r, "failed", "rejected") /\ UNCHANGED <<h11, transport>>
      BY <1>0, <1>5, <3>2, OutcomeType DEF TaskType, ReceiveEof
    <3>3. CASE (Outcome(r, "over", "eos") \/ Outcome(r, "raised", "error"))
               /\ UNCHANGED <<h11, transport>>
      BY <1>0, <1>5, <3>3, OutcomeType DEF TaskType, ReceiveEof
    <3> QED  BY <1>5, <3>1, <3>2, <3>3 DEF ReceiveEof
  <2> QED  BY <1>5, <2>1, TypeParts DEF ReceiveEof, TaskType, server, TypeOK, H11, Results, Servings
<1>6. CASE ReceiveBody(r)
  <2>1. wire' \in Seq(Item) /\ h11' \in H11  BY <1>6, ParsesType DEF ReceiveBody
  <2>2. TaskType
    <3>1. CASE rcvd' = [rcvd EXCEPT ![r] = @ + 1] /\ UNCHANGED <<phase, result>>
      BY <1>0, <1>6, <2>1, <3>1 DEF TaskType, ReceiveBody
    <3>2. CASE (Outcome(r, "over", "end") \/ Outcome(r, "raised", "error")) /\ UNCHANGED rcvd
      BY <1>0, <1>6, <2>1, <3>2, OutcomeType DEF TaskType, ReceiveBody
    <3> QED  BY <1>6, <3>1, <3>2 DEF ReceiveBody
  <2> QED  BY <1>6, <2>1, <2>2, TypeParts DEF ReceiveBody, TaskType, TypeOK, H11, Results, Servings
<1>7. CASE Cancel(r)
  <2>1. budget' \in Nat  BY <1>7, BudgetType DEF Cancel
  <2>2. TaskType
    <3>1. CASE Raises(r, "cancelled", h11)
      <4>1. /\ h11' \in H11 /\ transport' \in {"up", "closed"}
            /\ Outcome(r, "failed", "cancelled")
        BY <1>0, <3>1, RaisesEffects
      <4> QED  BY <1>0, <1>7, <4>1, OutcomeType DEF TaskType, Cancel
    <3>2. CASE Outcome(r, "raised", "cancelled") /\ UNCHANGED <<h11, transport>>
      BY <1>0, <1>7, <3>2, OutcomeType DEF TaskType, Cancel
    <3> QED  BY <1>7, <3>1, <3>2 DEF Cancel
  <2> QED  BY <1>7, <2>1, <2>2, TypeParts DEF Cancel, TaskType, server, TypeOK, H11, Results, Servings
<1>8. CASE Close(r)
  <2>1. budget' \in Nat  BY <1>0, <1>8, BudgetType DEF Close
  <2>2. phase' \in [Requests -> Phases] /\ result' \in [Requests -> Results]
    <3>1. (IF result[r] = "none" THEN "closed" ELSE result[r]) \in Results  BY <1>0
    <3> QED  BY <1>0, <1>8, <3>1, OutcomeType DEF Close
  <2>3. h11' \in H11 /\ transport' \in {"up", "closed"}
    <3>1. [h11 EXCEPT !.us = "IDLE", !.them = "IDLE"] \in H11  BY <1>0 DEF H11
    <3> QED  BY <1>0, <1>8, <3>1, SendClosedEffects DEF Close
  <2> QED  BY <1>8, <2>1, <2>2, <2>3, TypeParts DEF Close, server, TypeOK, H11, Results, Servings
<1> QED  BY <1>1, <1>2, <1>3, <1>4, <1>5, <1>6, <1>7, <1>8 DEF Task

LEMMA OthersKeepType ==
    ASSUME TypeOK,
           \/ Exit \/ ServerClose
           \/ \E r \in Requests : \/ CloseTunnel(r) \/ Early(r)
                                   \/ Inform(r) \/ Answer(r) \/ SendData(r)
    PROVE  TypeOK'
<1>0. /\ h11 \in H11 /\ transport \in {"up", "closed"} /\ wire \in Seq(Item)
      /\ phase \in [Requests -> Phases] /\ srv \in [Requests -> Servings]
      /\ sent \in [Requests -> Nat] /\ ended \subseteq Requests
      /\ srvUp \in {"up", "eof"} /\ budget \in Nat /\ exit \in {"no", "done", "raised"}
      /\ "closed" \in Phases /\ {"informed", "body", "eof_body", "done"} \subseteq Servings
      /\ "open" \in Servings
  BY TypeParts DEF Phases, Servings
<1>1. CASE Exit
  <2>1. budget' \in Nat  BY <1>1, BudgetType DEF Exit
  <2>2. h11' \in H11 /\ transport' \in {"up", "closed"}  BY <1>0, <1>1, AcloseEffects DEF Exit
  <2> QED  BY <1>1, <2>1, <2>2, TypeParts DEF Exit, consumer, server, TypeOK, H11, Results, Servings
<1>2. CASE ServerClose
  <2>1. budget' \in Nat  BY <1>2, BudgetType DEF ServerClose
  <2> QED  BY <1>2, <2>1 DEF ServerClose, ClientWaits, consumer, TypeOK
<1>3. CASE \E r \in Requests : CloseTunnel(r)
  BY <1>0, <1>3 DEF CloseTunnel, server, TypeOK
<1>4. ASSUME NEW r \in Requests, Inform(r) \/ Answer(r) \/ SendData(r)  PROVE TypeOK'
  <2>1. /\ UNCHANGED <<h11, transport, phase, result, rcvd, exit>>
    BY <1>4 DEF Inform, Answer, Switch, Respond, EndBody, SendData, ClientWaits, consumer
  <2>2. \A k \in Responses \cup {"info", "switch", "data", "end"}, n \in Nat :
          Append(wire, [kind |-> k, s |-> r, n |-> n]) \in Seq(Item)
    BY <1>0 DEF Item
  <2>3. wire' \in Seq(Item)
    <3>1. sent[r] \in Nat /\ sent[r] + 1 \in Nat  BY <1>0
    <3>2. CASE Inform(r) \/ Switch(r)  BY <2>2, <3>2 DEF Inform, Switch, Transmit
    <3>3. CASE Respond(r)  BY <2>2, <3>3 DEF Respond, Transmit
    <3>4. CASE EndBody(r)  BY <1>0, <2>2, <3>1, <3>4 DEF EndBody, Transmit
    <3>5. CASE SendData(r)  BY <2>2, <3>1, <3>5 DEF SendData, Transmit
    <3> QED  BY <1>4, <3>2, <3>3, <3>4, <3>5 DEF Answer
  <2>4. srv' \in [Requests -> Servings]
    <3>1. CASE Respond(r)
      <4>1. PICK kind \in Responses :
              srv' = [srv EXCEPT ![r] = IF kind = "until_close" THEN "eof_body" ELSE "body"]
        BY <3>1 DEF Respond
      <4>2. (IF kind = "until_close" THEN "eof_body" ELSE "body") \in Servings  BY <1>0
      <4> QED  BY <1>0, <4>1, <4>2
    <3>2. CASE Inform(r) \/ Switch(r) \/ EndBody(r) \/ SendData(r)
      BY <1>0, <3>2 DEF Inform, Switch, EndBody, SendData
    <3> QED  BY <1>4, <3>1, <3>2 DEF Answer
  <2>5. sent' \in [Requests -> Nat]
    <3>1. sent[r] + 1 \in Nat  BY <1>0
    <3> QED  BY <1>0, <1>4, <3>1 DEF Inform, Answer, Switch, Respond, EndBody, SendData
  <2>7. ended' \subseteq Requests
    BY <1>0, <1>4 DEF Inform, Answer, Switch, Respond, EndBody, SendData
  <2>8. srvUp' \in {"up", "eof"}
    BY <1>0, <1>4 DEF Inform, Answer, Switch, Respond, EndBody, SendData
  <2>6. budget' \in Nat
    BY <1>0, <1>4, BudgetType DEF Inform, Answer, Switch, Respond, EndBody, SendData
  <2> QED  BY <2>1, <2>3, <2>4, <2>5, <2>6, <2>7, <2>8, TypeParts DEF TypeOK, H11, Results, Servings
<1>5. ASSUME NEW r \in Requests, Early(r)  PROVE TypeOK'
  <2>1. budget' \in Nat  BY <1>5, BudgetType DEF Early
  <2>2. srv' \in [Requests -> Servings]  BY <1>0, <1>5 DEF Early
  <2> QED  BY <1>5, <2>1, <2>2, TypeParts
           DEF Early, ClientWaits, consumer, TypeOK, H11, Results, Servings
<1> QED  BY <1>1, <1>2, <1>3, <1>4, <1>5

LEMMA NextType == TypeOK /\ [Next]_vars => TypeOK'
<1> SUFFICES ASSUME TypeOK, [Next]_vars PROVE TypeOK'  OBVIOUS
<1>1. CASE UNCHANGED vars  BY <1>1 DEF vars, consumer, server, TypeOK
<1>2. CASE Next  BY <1>2, TaskKeepsType, OthersKeepType DEF Next
<1> QED  BY <1>1, <1>2

\* Whatever the tasks, the server and the transport do, every variable of the
\* model keeps its type.
THEOREM TypeCorrect == Spec => []TypeOK
<1> QED  BY InitType, NextType, PTL DEF Spec

-----------------------------------------------------------------------------
(* One holder, and nothing left over *)

Serving(r) == srv[r] \notin {"none", "done"}
Free == wire = <<>> /\ \A q \in Requests : ~Serving(q)

\* While r holds the connection, the server is busy with r alone; the end of r's
\* response is the last thing on the wire, and h11 has seen it only if the wire
\* is empty.
Owner(r) ==
    /\ \A q \in Requests \ {r} : ~Serving(q)
    /\ \A i \in DOMAIN wire : wire[i].s = r
    /\ \A i \in DOMAIN wire : wire[i].kind = "end" => i = Len(wire) /\ ~Serving(r)
    /\ h11.them = "DONE" => Free
    /\ phase[r] = "sending" => h11.them # "DONE" /\ (srv[r] = "none" => Free)

Exclusive ==
    /\ OneHolder
    /\ \A r \in Requests : Holds(r) => h11.us # "IDLE" /\ Owner(r)
    /\ h11.us = "IDLE" => Free

ExclusiveInv == TypeOK /\ Exclusive

LEMMA InitExclusive == Init => Exclusive
BY DEF Init, Exclusive, OneHolder, Holds, Free, Serving

\* A step of a task that takes nothing from the server's side, or parses what is
\* first on the wire.
LEMMA TaskExclusive ==
    ASSUME ExclusiveInv, UNCHANGED srv,
           \A r \in Requests : Holds(r)' => Holds(r),
           \A r \in Requests : phase'[r] = "sending" => phase[r] = "sending",
           h11'.us = "IDLE" => h11.us = "IDLE",
           \/ /\ wire' = wire
              /\ h11'.them = "DONE" => h11.them = "DONE"
           \/ /\ wire # <<>> /\ wire' = Tail(wire) /\ h11.us # "IDLE"
              /\ h11'.them = "DONE" => Head(wire).kind = "end" \/ h11.them = "DONE"
              /\ \A r \in Requests : phase'[r] # "sending"
    PROVE  Exclusive'
<1>1. OneHolder'  BY DEF ExclusiveInv, Exclusive, OneHolder
<1>2. wire \in Seq(Item)  BY DEF ExclusiveInv, TypeOK
<1>3. ASSUME NEW r \in Requests, Holds(r)'  PROVE h11'.us # "IDLE" /\ Owner(r)'
  <2>1. Holds(r) /\ h11.us # "IDLE" /\ Owner(r)  BY <1>3 DEF ExclusiveInv, Exclusive
  <2>2. CASE wire' = wire /\ (h11'.them = "DONE" => h11.them = "DONE")
    BY <2>1, <2>2 DEF Owner, Free, Serving
  <2>3. CASE /\ wire # <<>> /\ wire' = Tail(wire)
             /\ h11'.them = "DONE" => Head(wire).kind = "end" \/ h11.them = "DONE"
             /\ phase'[r] # "sending"
    <3>1. /\ DOMAIN Tail(wire) = 1..(Len(wire) - 1) /\ Len(Tail(wire)) = Len(wire) - 1
          /\ Len(wire) \in Nat /\ Len(wire) >= 1 /\ DOMAIN wire = 1..Len(wire)
          /\ Head(wire) = wire[1]
          /\ \A i \in 1..(Len(wire) - 1) : Tail(wire)[i] = wire[i + 1]
      BY <1>2, <2>3
    <3>2. h11.them # "DONE"  BY <2>1, <2>3 DEF Owner, Free
    <3>3. h11'.them = "DONE" => Free'
      <4> SUFFICES ASSUME h11'.them = "DONE" PROVE Free'  OBVIOUS
      <4>1. wire[1].kind = "end"  BY <2>3, <3>1, <3>2
      <4>2. Len(wire) = 1 /\ ~Serving(r)  BY <2>1, <3>1, <4>1 DEF Owner
      <4>3. Tail(wire) = <<>>  BY <1>2, <3>1, <4>2
      <4> QED  BY <2>1, <2>3, <4>2, <4>3 DEF Owner, Free, Serving
    <3>4. ASSUME NEW i \in DOMAIN wire'
          PROVE  wire'[i].s = r /\ (wire'[i].kind = "end" => i = Len(wire') /\ ~Serving(r))
      <4>1. wire' = Tail(wire)  BY <2>3
      <4>2. DOMAIN wire' = 1..(Len(wire) - 1)  BY <3>1, <4>1, Zenon
      <4>3. Len(wire') = Len(wire) - 1  BY <3>1, <4>1, Zenon
      <4>4. i \in 1..(Len(wire) - 1)  BY <4>2, Zenon
      <4>5. Tail(wire)[i] = wire[i + 1]  BY <3>1, <4>4, Zenon
      <4>6. wire'[i] = wire[i + 1]  BY <4>1, <4>5, Zenon
      <4>7. i + 1 \in 1..Len(wire)  BY <3>1, <4>4
      <4>8. i + 1 \in DOMAIN wire  BY <3>1, <4>7, Zenon
      <4>9. wire[i + 1].s = r /\ (wire[i + 1].kind = "end" => i + 1 = Len(wire) /\ ~Serving(r))
        BY <2>1, <4>8 DEF Owner
      <4> QED  BY <3>1, <4>3, <4>4, <4>6, <4>9
    <3> QED  BY <2>1, <2>3, <3>3, <3>4 DEF Owner, Serving
  <2> QED  BY <2>1, <2>2, <2>3, <1>3 DEF Holds
<1>4. h11'.us = "IDLE" => Free'  BY DEF ExclusiveInv, Exclusive, Free, Serving
<1> QED  BY <1>1, <1>3, <1>4 DEF Exclusive

\* A step of the server, which is busy with r.
LEMMA ServerExclusive ==
    ASSUME ExclusiveInv, NEW r \in Requests, Serving(r), UNCHANGED <<h11, phase>>,
           \A q \in Requests \ {r} : srv'[q] = srv[q], srv'[r] # "none",
           \/ wire' = wire
           \/ \E k, n : /\ wire' = Append(wire, [kind |-> k, s |-> r, n |-> n])
                        /\ k = "end" => ~Serving(r)'
    PROVE  Exclusive'
<1>1. OneHolder'  BY DEF ExclusiveInv, Exclusive, OneHolder, Holds
<1>2. h11'.us # "IDLE"  BY DEF ExclusiveInv, Exclusive, Free
<1>3. ASSUME NEW q \in Requests, Holds(q)'  PROVE Owner(q)'
  <2>1. Holds(q) /\ Owner(q)  BY <1>3 DEF ExclusiveInv, Exclusive, Holds
  <2>2. q = r  BY <2>1 DEF Owner
  <2>3. h11.them # "DONE" /\ \A i \in DOMAIN wire : wire[i].kind # "end"
    BY <2>1, <2>2 DEF Owner, Free
  <2>4. wire \in Seq(Item)  BY DEF ExclusiveInv, TypeOK
  <2>5. CASE wire' = wire  BY <2>1, <2>2, <2>3, <2>5 DEF Owner, Serving
  <2>6. ASSUME NEW k, NEW n, wire' = Append(wire, [kind |-> k, s |-> r, n |-> n]),
               k = "end" => ~Serving(r)'
        PROVE  Owner(q)'
    <3> DEFINE e == [kind |-> k, s |-> r, n |-> n]
    <3>1. e.s = r /\ e.kind = k  OBVIOUS
    <3> HIDE DEF e
    <3>2. /\ wire' = Append(wire, e) /\ Len(wire') = Len(wire) + 1 /\ Len(wire) \in Nat
          /\ DOMAIN wire' = 1..(Len(wire) + 1) /\ DOMAIN wire = 1..Len(wire)
          /\ wire'[Len(wire) + 1] = e /\ \A i \in 1..Len(wire) : wire'[i] = wire[i]
      BY <2>4, <2>6 DEF e
    <3>3. ASSUME NEW i \in DOMAIN wire'
          PROVE  wire'[i].s = r /\ (wire'[i].kind = "end" => i = Len(wire') /\ ~Serving(r)')
      <4>1. CASE i = Len(wire) + 1
        <5>1. wire'[i] = e  BY <3>2, <4>1
        <5> QED  BY <2>6, <3>1, <3>2, <4>1, <5>1
      <4>2. CASE i # Len(wire) + 1
        <5>0. i \in 1..(Len(wire) + 1)  BY <3>2, Zenon
        <5>1. i \in 1..Len(wire)  
          <6>1. Len(wire) \in Nat  BY <2>4
          <6> QED  BY <4>2, <5>0, <6>1
        <5>2. wire'[i] = wire[i]  BY <3>2, <5>1, Zenon
        <5>3. i \in DOMAIN wire  BY <3>2, <5>1, Zenon
        <5> QED  BY <2>1, <2>2, <2>3, <5>2, <5>3 DEF Owner
      <4> QED  BY <4>1, <4>2
    <3> QED  BY <2>1, <2>2, <2>3, <3>3 DEF Owner, Serving
  <2> QED  BY <2>5, <2>6
<1> QED  BY <1>1, <1>2, <1>3 DEF Exclusive

LEMMA NextExclusive == ExclusiveInv /\ [Next]_vars => Exclusive'
<1> SUFFICES ASSUME ExclusiveInv, [Next]_vars PROVE Exclusive'  OBVIOUS
<1>0. /\ TypeOK /\ h11 \in H11 /\ transport \in {"up", "closed"} /\ phase \in [Requests -> Phases]
      /\ wire \in Seq(Item)
  BY TypeParts DEF ExclusiveInv
<1>1. ASSUME NEW r \in Requests, Start(r)  PROVE Exclusive'
  <2>1. /\ h11.us = "IDLE" /\ Free /\ \A q \in Requests : ~Holds(q)
    BY <1>1 DEF Start, available_slots, ExclusiveInv, Exclusive
  <2>2. h11'.us = "SEND_BODY" /\ h11'.them = "SEND_RESPONSE"  BY <1>0, <1>1 DEF Start, H11
  <2>3. Free'  BY <1>1, <2>1 DEF Start, server, Free, Serving
  <2>4. \A q \in Requests : Holds(q)' => q = r  BY <1>0, <1>1, <2>1 DEF Start, Holds
  <2> QED  BY <2>2, <2>3, <2>4 DEF Exclusive, OneHolder, Owner, Free
<1>2. ASSUME NEW r \in Requests, FinishSend(r)  PROVE Exclusive'
  <2>1. CASE Raises(r, "error", h11) /\ UNCHANGED srv
    <3>1. /\ h11'.us = "IDLE" => h11.us = "IDLE"
          /\ h11'.them = "DONE" => h11.them = "DONE" /\ Outcome(r, "failed", "error")
      BY <1>0, <2>1, RaisesEffects
    <3>2. Outcome(r, "failed", "error")  BY <2>1 DEF Raises
    <3>3. \A q \in Requests : Holds(q)' => Holds(q)  BY <1>0, <3>2 DEF Outcome, Holds
    <3>4. \A q \in Requests : phase'[q] = "sending" => phase[q] = "sending"
      BY <1>0, <3>2 DEF Outcome
    <3> QED  BY <1>2, <2>1, <3>1, <3>3, <3>4, TaskExclusive DEF FinishSend
  <2>2. CASE /\ h11.us = "SEND_BODY" /\ h11' = Settle([h11 EXCEPT !.us = "DONE"])
             /\ phase' = [phase EXCEPT ![r] = "head"]
             /\ srv' = [srv EXCEPT ![r] =
                          IF @ = "none" /\ srvUp = "up" THEN "open" ELSE @]
    <3>1. [h11 EXCEPT !.us = "DONE"] \in H11 /\ [h11 EXCEPT !.us = "DONE"].us = "DONE"
          /\ [h11 EXCEPT !.us = "DONE"].them = h11.them
      BY <1>0 DEF H11
    <3>2. h11'.us # "IDLE" /\ (h11'.them = "DONE" => h11.them = "DONE")
      BY <2>2, <3>1, SettleEffects
    <3>3. Holds(r) /\ Owner(r) /\ h11.them # "DONE" /\ (srv[r] = "none" => Free)
      BY <1>2 DEF FinishSend, Holds, ExclusiveInv, Exclusive, Owner
    <3>4. /\ wire' = wire /\ \A q \in Requests \ {r} : ~Serving(q)'
          /\ wire = <<>> \/ srv'[r] = srv[r]
      <4>1. srv \in [Requests -> Servings]  BY <1>0, TypeParts
      <4> QED  BY <1>2, <2>2, <3>3, <4>1 DEF FinishSend, Owner, Free, Serving
    <3>5. \A q \in Requests : Holds(q)' => q = r
      BY <1>0, <2>2, <3>3 DEF Holds, ExclusiveInv, Exclusive, OneHolder
    <3>6. phase'[r] = "head"  BY <1>0, <2>2
    <3>7. Owner(r)'
      BY <3>2, <3>3, <3>4, <3>6 DEF Owner, Serving
    <3> QED  BY <3>2, <3>5, <3>7 DEF Exclusive, OneHolder
  <2> QED  BY <1>2, <2>1, <2>2 DEF FinishSend
<1>3. ASSUME NEW r \in Requests, ReceiveHead(r) \/ ReceiveRejection(r) \/ ReceiveBody(r)
      PROVE  Exclusive'
  <2> DEFINE h == Parsed(h11, Head(wire))
  <2>1. /\ Parses(r) /\ phase[r] \in {"head", "rejected", "open"} /\ UNCHANGED srv
    BY <1>3 DEF ReceiveHead, ReceiveRejection, ReceiveBody
  <2>2. /\ h \in H11 /\ (h.us = "IDLE" => h11.us = "IDLE")
        /\ h.them = "DONE" => Head(wire).kind = "end" \/ h11.them = "DONE"
    <3>1. Head(wire) \in Item  BY <1>0, <2>1 DEF Parses
    <3> QED  BY <1>0, <3>1, ParsedEffects
  <2>3. /\ h11'.us = "IDLE" => h11.us = "IDLE"
        /\ h11'.them = "DONE" => Head(wire).kind = "end" \/ h11.them = "DONE"
    <3>1. CASE h11' = h  BY <2>2, <3>1
    <3>2. CASE Raises(r, "error", h)  BY <1>0, <2>2, <3>2, RaisesEffects
    <3> QED  BY <1>3, <3>1, <3>2 DEF ReceiveHead, ReceiveRejection, ReceiveBody
  <2>4. phase'[r] # "sending" /\ \A q \in Requests \ {r} : phase'[q] = phase[q]
    BY <1>0, <1>3, <2>1 DEF ReceiveHead, ReceiveRejection, ReceiveBody, Raises, Outcome
  <2>5. Holds(r) /\ h11.us # "IDLE" /\ \A q \in Requests \ {r} : ~Holds(q)
    BY <2>1 DEF Holds, ExclusiveInv, Exclusive, OneHolder
  <2>6. \A q \in Requests : (Holds(q)' => Holds(q)) /\ phase'[q] # "sending"
    BY <2>4, <2>5 DEF Holds
  <2> QED  BY <2>1, <2>3, <2>5, <2>6, TaskExclusive DEF Parses
<1>4. ASSUME NEW r \in Requests, ReceiveEof(r) \/ Cancel(r)  PROVE Exclusive'
  <2>1. CASE \E res : Raises(r, res, h11)
    <3>1. /\ h11'.us = "IDLE" => h11.us = "IDLE"
          /\ h11'.them = "DONE" => h11.them = "DONE"
      BY <1>0, <2>1, RaisesEffects
    <3>2. \E res : Outcome(r, "failed", res)  BY <2>1 DEF Raises
    <3>3. \A q \in Requests : Holds(q)' => Holds(q)  BY <1>0, <3>2 DEF Outcome, Holds
    <3>4. \A q \in Requests : phase'[q] = "sending" => phase[q] = "sending"
      BY <1>0, <3>2 DEF Outcome
    <3> QED  BY <1>4, <3>1, <3>3, <3>4, TaskExclusive DEF ReceiveEof, Cancel, server
  <2>2. CASE /\ phase[r] \in {"rejected", "open"} /\ UNCHANGED h11
             /\ \E p \in {"failed", "over", "raised"} : \E res : Outcome(r, p, res)
    <3>1. \A q \in Requests : Holds(q)' => Holds(q)  BY <1>0, <2>2 DEF Outcome, Holds
    <3>2. \A q \in Requests : phase'[q] = "sending" => phase[q] = "sending"
      BY <1>0, <2>2 DEF Outcome
    <3> QED  BY <1>4, <2>2, <3>1, <3>2, TaskExclusive DEF ReceiveEof, Cancel, server
  <2> QED  BY <1>4, <2>1, <2>2 DEF ReceiveEof, Cancel
<1>5. ASSUME NEW r \in Requests, Close(r)  PROVE Exclusive'
  <2>1. Holds(r) /\ phase'[r] = "closed" /\ \A q \in Requests \ {r} : phase'[q] = phase[q]
    BY <1>0, <1>5 DEF Close, Outcome, Holds
  <2>2. \A q \in Requests : ~Holds(q)'
    BY <2>1 DEF Holds, ExclusiveInv, Exclusive, OneHolder
  <2>3. CASE h11.them = "DONE" /\ h11.us = "DONE"
    <3>1. Free'
      BY <1>5, <2>1, <2>3 DEF Close, server, ExclusiveInv, Exclusive, Owner, Free, Serving
    <3> QED  BY <2>2, <3>1 DEF Exclusive, OneHolder
  <2>4. CASE UNCHANGED h11 \/ h11' = SendClosed(h11)
    <3>1. h11'.us # "IDLE"
      BY <1>0, <2>1, <2>4, SendClosedEffects DEF ExclusiveInv, Exclusive
    <3> QED  BY <2>2, <3>1 DEF Exclusive, OneHolder
  <2>5. CASE h11.them = "DONE" /\ h11.us # "DONE"  BY <1>5, <2>4, <2>5 DEF Close
  <2>6. CASE h11.them # "DONE"  BY <1>5, <2>4, <2>6 DEF Close
  <2> QED  BY <2>3, <2>5, <2>6
<1>6. ASSUME NEW r \in Requests, CloseTunnel(r)  PROVE Exclusive'
  <2>1. /\ \A q \in Requests : Holds(q)' => Holds(q)
        /\ \A q \in Requests : phase'[q] = "sending" => phase[q] = "sending"
    BY <1>0, <1>6 DEF CloseTunnel, Holds
  <2> QED  BY <1>6, <2>1, TaskExclusive DEF CloseTunnel, server
<1>7. CASE Exit
  <2>1. /\ h11'.us = "IDLE" => h11.us = "IDLE"
        /\ h11'.them = "DONE" => h11.them = "DONE"
    BY <1>0, <1>7, AcloseEffects DEF Exit
  <2>2. UNCHANGED <<phase, srv, wire>>  BY <1>7 DEF Exit, consumer, server
  <2> QED  BY <2>1, <2>2, TaskExclusive DEF Holds
<1>8. CASE ServerClose \/ UNCHANGED vars
  <2>1. UNCHANGED <<h11, phase, srv, wire>>
    BY <1>8 DEF ServerClose, ClientWaits, consumer, server, vars
  <2> QED  BY <2>1, TaskExclusive DEF Holds
<1>9. ASSUME NEW r \in Requests, Inform(r) \/ Answer(r) \/ SendData(r)  PROVE Exclusive'
  <2>1. /\ Serving(r) /\ UNCHANGED <<h11, phase>>
        /\ \A q \in Requests \ {r} : srv'[q] = srv[q]
        /\ srv'[r] # "none"
    <3>1. Serving(r)
      BY <1>9 DEF Inform, Answer, Switch, Respond, EndBody, SendData, Awaiting, Serving
    <3>2. UNCHANGED <<h11, phase>>
      BY <1>9 DEF Inform, Answer, Switch, Respond, EndBody, SendData, ClientWaits, consumer
    <3>3. \A q \in Requests \ {r} : srv'[q] = srv[q]
      <4>1. srv \in [Requests -> Servings]  BY <1>0, TypeParts
      <4>2. CASE Respond(r)
        <5>1. PICK v : srv' = [srv EXCEPT ![r] = v]  BY <4>2 DEF Respond
        <5> QED  BY <4>1, <5>1
      <4>3. CASE Inform(r) \/ Switch(r) \/ EndBody(r) \/ SendData(r)
        BY <4>1, <4>3 DEF Inform, Switch, EndBody, SendData
      <4> QED  BY <1>9, <4>2, <4>3 DEF Answer
    <3>4. srv'[r] # "none"
      <4>1. srv \in [Requests -> Servings]  BY <1>0, TypeParts
      <4>2. CASE Respond(r)
        <5>1. PICK v \in {"body", "eof_body"} : srv' = [srv EXCEPT ![r] = v]
          BY <4>2 DEF Respond
        <5> QED  BY <4>1, <5>1
      <4>3. CASE Inform(r) \/ Switch(r) \/ EndBody(r) \/ SendData(r)
        BY <3>1, <4>1, <4>3 DEF Inform, Switch, EndBody, SendData, Serving
      <4> QED  BY <1>9, <4>2, <4>3 DEF Answer
    <3> QED  BY <3>1, <3>2, <3>3, <3>4
  <2>2. srv \in [Requests -> Servings]  BY <1>0, TypeParts
  <2>3. \/ wire' = wire
        \/ \E k, n : /\ wire' = Append(wire, [kind |-> k, s |-> r, n |-> n])
                     /\ k = "end" => ~Serving(r)'
    <3> DEFINE Sends(k, n) == wire' = Append(wire, [kind |-> k, s |-> r, n |-> n])
    <3>1. CASE Inform(r) \/ Switch(r)
      <4>1. Sends("info", 0) \/ Sends("switch", 0)  BY <3>1 DEF Inform, Switch, Transmit
      <4>2. "info" # "end" /\ "switch" # "end"  OBVIOUS
      <4> QED  BY <4>1, <4>2, Zenon
    <3>2. CASE Respond(r)
      <4>1. PICK k \in Responses : wire' = Append(wire, [kind |-> k, s |-> r, n |-> 0])
        BY <3>2 DEF Respond, Transmit
      <4>2. k # "end"  BY DEF Responses
      <4> QED  BY <4>1, <4>2
    <3>3. CASE EndBody(r)  BY <2>2, <3>3 DEF EndBody, Transmit, Serving
    <3>4. CASE SendData(r)
      <4>1. Sends("data", sent[r] + 1)  BY <3>4 DEF SendData, Transmit
      <4>2. "data" # "end"  OBVIOUS
      <4> QED  BY <4>1, <4>2, Zenon
    <3> QED  BY <1>9, <3>1, <3>2, <3>3, <3>4 DEF Answer
  <2> QED  BY <2>1, <2>3, ServerExclusive
<1>10. ASSUME NEW r \in Requests, Early(r)  PROVE Exclusive'
  <2>1. Holds(r) /\ UNCHANGED <<h11, phase, wire>> /\ phase[r] = "sending"
        /\ srv[r] = "none"
    BY <1>10 DEF Early, ClientWaits, consumer, Holds
  <2>2. /\ \A q \in Requests \ {r} : srv'[q] = srv[q]
        /\ srv'[r] = "open"
    <3>1. srv \in [Requests -> Servings]  BY <1>0, TypeParts
    <3> QED  BY <1>10, <3>1 DEF Early
  <2>3. Owner(r) /\ h11.us # "IDLE" /\ \A q \in Requests \ {r} : ~Holds(q)
    BY <2>1 DEF Holds, ExclusiveInv, Exclusive, OneHolder
  <2>4. wire = <<>> /\ h11.them # "DONE"  BY <2>1, <2>3 DEF Owner, Free
  <2>5. Owner(r)'  BY <2>1, <2>2, <2>3, <2>4 DEF Owner, Serving
  <2> QED  BY <2>1, <2>3, <2>5 DEF Exclusive, OneHolder, Holds
<1> QED
  BY <1>1, <1>2, <1>3, <1>4, <1>5, <1>6, <1>7, <1>8, <1>9, <1>10 DEF Next, Task

LEMMA ExclusiveCorrect == Spec => []ExclusiveInv
<1>1. Init => ExclusiveInv  BY InitType, InitExclusive DEF ExclusiveInv
<1>2. ExclusiveInv /\ [Next]_vars => ExclusiveInv'  BY NextType, NextExclusive DEF ExclusiveInv
<1> QED  BY <1>1, <1>2, PTL DEF Spec

\* For any number of tasks that share it, the connection carries one exchange at
\* a time (_client.py:104-106, _http11.py:64-66).
THEOREM OneExchangeAtATime == Spec => []OneHolder
<1>1. ExclusiveInv => OneHolder  BY DEF ExclusiveInv, Exclusive
<1> QED  BY <1>1, ExclusiveCorrect, PTL

\* And a connection that is lent again has nothing left over from the request
\* before, however that one ended, so responses never get mixed up
\* (_http11.py:319-333).
THEOREM ResponsesNeverMixUp == Spec => []NoMixUp
<1>1. ExclusiveInv => NoMixUp
  BY DEF ExclusiveInv, Exclusive, NoMixUp, available_slots, Free, Owner
<1> QED  BY <1>1, ExclusiveCorrect, PTL

-----------------------------------------------------------------------------
(* More about h11: a switch of protocols, and a keep-alive cycle *)

\* Once the server has switched, the client is not left in a state from which it
\* would only switch at some later event.
Tidy(h) == h.them = "SWITCHED" => /\ h.us \notin {"SEND_BODY", "IDLE", "MIGHT_SWITCH"}
                                  /\ h.us = "DONE" => ~h.switch

LEMMA SettleCycle ==
    ASSUME NEW h \in H11
    PROVE  /\ Settle(h).keep = h.keep /\ Settle(h).switch = h.switch
           /\ Settle(h).us = "SEND_BODY" => h.us = "SEND_BODY"
           /\ Settle(h).us = "SWITCHED" => h.us = "SWITCHED" \/ h.them = "SWITCHED"
           /\ h.us \in {"SWITCHED", "CLOSED", "ERROR"} => Settle(h).us = h.us
           /\ h.them \in {"SEND_RESPONSE", "SWITCHED"} => Settle(h).them = h.them
           /\ Settle(h).them = "SWITCHED" => h.them = "SWITCHED"
           /\ Tidy(h) => (Settle(h).us = "SWITCHED" => h.us = "SWITCHED")
           /\ (h.them = "SWITCHED" => h.us \notin {"SEND_BODY", "IDLE"}) => Tidy(Settle(h))
           /\ h.us = "DONE" /\ ~h.switch /\ h.keep =>
                Settle(h).us = "DONE" /\ (h.them = "DONE" => Settle(h).them = "DONE")
<1> DEFINE us1 == CASE h.switch /\ h.us = "DONE" -> "MIGHT_SWITCH"
                    [] ~h.switch /\ h.us = "MIGHT_SWITCH" -> "DONE"
                    [] OTHER -> h.us
           us2 == CASE ~h.keep /\ us1 = "DONE" -> "MUST_CLOSE"
                    [] us1 = "MIGHT_SWITCH" /\ h.them = "SWITCHED" -> "SWITCHED"
                    [] OTHER -> us1
           t == IF \/ h.them = "DONE" /\ (~h.keep \/ us2 \in {"CLOSED", "ERROR"})
                   \/ h.them = "IDLE" /\ us2 = "CLOSED"
                THEN "MUST_CLOSE" ELSE h.them
<1>1. /\ h.switch /\ h.us = "DONE" => us1 = "MIGHT_SWITCH"
      /\ ~h.switch /\ h.us = "MIGHT_SWITCH" => us1 = "DONE"
      /\ ~(h.switch /\ h.us = "DONE") /\ ~(~h.switch /\ h.us = "MIGHT_SWITCH") => us1 = h.us
  <2>1. "DONE" # "MIGHT_SWITCH"  OBVIOUS
  <2> QED  BY <2>1, Zenon
<1>2. /\ ~h.keep /\ us1 = "DONE" => us2 = "MUST_CLOSE"
      /\ us1 = "MIGHT_SWITCH" /\ h.them = "SWITCHED" => us2 = "SWITCHED"
      /\ ~(~h.keep /\ us1 = "DONE") /\ ~(us1 = "MIGHT_SWITCH" /\ h.them = "SWITCHED")
           => us2 = us1
  <2> HIDE DEF us1
  <2>1. "DONE" # "MIGHT_SWITCH"  OBVIOUS
  <2> QED  BY <2>1, Zenon
<1>3. /\ t \in {h.them, "MUST_CLOSE"}
      /\ h.them \in {"SEND_RESPONSE", "SWITCHED"} => t = h.them
      /\ h.them = "DONE" /\ h.keep /\ us2 = "DONE" => t = "DONE"
  <2> HIDE DEF us2
  <2> QED  OBVIOUS
<1>4. Settle(h) = [h EXCEPT !.us = us2, !.them = t]  BY DEF Settle
<1> HIDE DEF us1, us2, t
<1>5. /\ Settle(h).us = us2 /\ Settle(h).them = t
      /\ Settle(h).keep = h.keep /\ Settle(h).switch = h.switch
  BY <1>4 DEF H11
<1>6. CASE h.switch
  <2>1. CASE h.us = "DONE"  BY <1>1, <1>2, <1>3, <1>5, <1>6, <2>1 DEF Tidy
  <2>2. CASE h.us # "DONE"  BY <1>1, <1>2, <1>3, <1>5, <1>6, <2>2 DEF Tidy
  <2> QED  BY <2>1, <2>2
<1>7. CASE ~h.switch
  <2>1. CASE h.us = "MIGHT_SWITCH"  BY <1>1, <1>2, <1>3, <1>5, <1>7, <2>1 DEF Tidy
  <2>2. CASE h.us # "MIGHT_SWITCH"  BY <1>1, <1>2, <1>3, <1>5, <1>7, <2>2 DEF Tidy
  <2> QED  BY <2>1, <2>2
<1> QED  BY <1>6, <1>7

LEMMA ParsedCycle ==
    ASSUME NEW h \in H11, NEW e \in Item, Tidy(h), h.us \notin {"SEND_BODY", "IDLE"}
    PROVE  /\ Parsed(h, e).keep => h.keep
           /\ Parsed(h, e).us # "SEND_BODY" /\ Tidy(Parsed(h, e))
           /\ Parsed(h, e).us = "SWITCHED" => h.us = "SWITCHED" \/ e.kind = "switch"
           /\ h.us = "SWITCHED" => Parsed(h, e).us = "SWITCHED"
           /\ h.us = "DONE" /\ ~h.switch /\ Parsed(h, e).keep =>
                /\ Parsed(h, e).us = "DONE" /\ ~Parsed(h, e).switch
                /\ e.kind = "end" => Parsed(h, e).them = "DONE"
<1> DEFINE g == CASE e.kind \in Responses ->
                       [h EXCEPT !.them = "SEND_BODY", !.switch = FALSE,
                                 !.keep = @ /\ e.kind = "response"]
                  [] e.kind = "switch" -> [h EXCEPT !.them = "SWITCHED"]
                  [] e.kind = "end"    -> [h EXCEPT !.them = "DONE"]
                  [] OTHER             -> h
<1>1. /\ g \in H11 /\ g.us = h.us /\ (g.keep => h.keep) /\ (g.switch => h.switch)
      /\ e.kind # "switch" => Tidy(g)
      /\ e.kind = "end" => g.them = "DONE"
  <2>1. CASE e.kind \in Responses
    <3>1. g = [h EXCEPT !.them = "SEND_BODY", !.switch = FALSE,
                        !.keep = @ /\ e.kind = "response"]
      BY <2>1 DEF Responses
    <3>2. (h.keep /\ e.kind = "response") \in BOOLEAN /\ e.kind # "end"  BY <2>1 DEF Responses
    <3> DEFINE k == h.keep /\ e.kind = "response"
    <3>0. k \in BOOLEAN  BY <3>2
    <3> HIDE DEF g, k
    <3>3. /\ g \in H11 /\ g.us = h.us /\ g.them = "SEND_BODY" /\ g.switch = FALSE
          /\ g.keep = (h.keep /\ e.kind = "response")
      <4>1. g = [h EXCEPT !.them = "SEND_BODY", !.switch = FALSE, !.keep = k]
        BY <3>1 DEF k
      <4>2. /\ g \in H11 /\ g.us = h.us /\ g.them = "SEND_BODY" /\ g.switch = FALSE
            /\ g.keep = k
        BY <3>0, <4>1 DEF H11
      <4> QED  BY <4>2 DEF k
    <3> QED  BY <3>2, <3>3 DEF Tidy
  <2>2. CASE e.kind = "switch"  BY <2>2 DEF H11, Responses
  <2>3. CASE e.kind = "end"  BY <2>3 DEF H11, Responses, Tidy
  <2>4. CASE e.kind \notin Responses \cup {"switch", "end"}  BY <2>4 DEF H11
  <2> QED  BY <2>1, <2>2, <2>3, <2>4
<1>2. Parsed(h, e) = Settle(g)  BY DEF Parsed
<1> HIDE DEF g
<1>3. g.keep \in BOOLEAN /\ g.switch \in BOOLEAN /\ h.switch \in BOOLEAN  BY <1>1 DEF H11
<1> QED  BY <1>1, <1>2, <1>3, SettleCycle

LEMMA SendClosedCycle ==
    ASSUME NEW h \in H11
    PROVE  /\ SendClosed(h).us \in {"CLOSED", "ERROR"} /\ Tidy(SendClosed(h))
           /\ SendClosed(h).keep = h.keep
<1> DEFINE g == [h EXCEPT !.us = IF Closable(h) THEN "CLOSED" ELSE "ERROR"]
<1>1. g \in H11 /\ g.us \in {"CLOSED", "ERROR"} /\ g.keep = h.keep  BY DEF H11
<1>2. SendClosed(h) = Settle(g)  BY DEF SendClosed
<1> HIDE DEF g
<1>3. Settle(g).us = g.us /\ Settle(g).keep = g.keep /\ Tidy(Settle(g))  BY <1>1, SettleCycle
<1> QED  BY <1>1, <1>2, <1>3

\* Closing leaves a switched connection as it is, and no other becomes one.
LEMMA RaisesCycle ==
    ASSUME NEW h \in H11, Tidy(h), NEW r, NEW res, AcloseFrom(h) \/ Raises(r, res, h)
    PROVE  /\ Tidy(h11') /\ (h11'.us = "SEND_BODY" => h.us = "SEND_BODY")
           /\ h11'.us = "SWITCHED" <=> h.us = "SWITCHED"
           /\ h11'.keep = h.keep
           /\ transport = "closed" => transport' = "closed"
           /\ AcloseFrom(h) => h.us = "SWITCHED" \/ ~Closable(h) \/ transport' = "closed"
<1>1. CASE AcloseFrom(h)
  <2>1. CASE h.us = "SWITCHED"  BY <1>1, <2>1 DEF AcloseFrom
  <2>2. CASE h.us # "SWITCHED"
    <3>1. h11' = SendClosed(h) /\ transport' = IF Closable(h) THEN "closed" ELSE transport
      BY <1>1, <2>2 DEF AcloseFrom
    <3> QED  BY <2>2, <3>1, SendClosedCycle
  <2> QED  BY <2>1, <2>2
<1>2. CASE ~AcloseFrom(h)
  <2>1. h11' = h /\ transport' = transport  BY <1>2 DEF Raises
  <2> QED  BY <1>2, <2>1
<1> QED  BY <1>1, <1>2

-----------------------------------------------------------------------------
(* No connection leaks silently *)

Plain(r) == r \notin WebSockets \cup Connects

\* What is known of a task from where it is.
Fits(r) ==
    /\ phase[r] \in {"open", "over", "raised"} => Plain(r)
    /\ phase[r] = "rejected" => r \in WebSockets
    /\ phase[r] = "tunnel" => ~Plain(r)
    /\ phase[r] \in {"idle", "sending", "head", "rejected", "open", "tunnel"}
         => result[r] = "none"
    /\ phase[r] = "sending" => h11.them = "SEND_RESPONSE" /\ (h11.switch => ~Plain(r))
    /\ Holds(r) /\ phase[r] # "sending" => h11.us # "SEND_BODY"

\* The server switches protocols for the requests that ask for it.
Handshakes == \A i \in DOMAIN wire : wire[i].kind = "switch" => ~Plain(wire[i].s)

\* A switched connection belongs to a tunnel until the tunnel closes it, unless
\* connect_ws() failed on the switch itself.
Kept == \/ transport = "closed"
        \/ \E r \in Requests : phase[r] = "tunnel"
        \/ \E r \in WebSockets : result[r] = "error"
Switched ==
    h11.us = "SWITCHED" => /\ \A r \in Requests : Holds(r) => phase[r] = "tunnel"
                           /\ Kept
Left == exit = "done" => transport = "closed" \/ h11.us = "SWITCHED"

LeakInv ==
    /\ ExclusiveInv /\ Tidy(h11) /\ Handshakes /\ Switched /\ Left
    /\ \A r \in Requests : Fits(r)

LEMMA InitLeak == Init => LeakInv
<1> SUFFICES ASSUME Init PROVE LeakInv  OBVIOUS
<1>1. ExclusiveInv  BY InitType, InitExclusive DEF ExclusiveInv
<1>2. /\ h11.us = "IDLE" /\ h11.them = "IDLE" /\ exit = "no" /\ DOMAIN wire = {}
      /\ \A r \in Requests : phase[r] = "idle" /\ result[r] = "none"
  BY DEF Init
<1> QED  BY <1>1, <1>2 DEF LeakInv, Tidy, Handshakes, Switched, Left, Fits, Holds

\* The wire loses its first item, or the server appends one that fits.
LEMMA NextHandshakes == TypeOK /\ Handshakes /\ [Next]_vars => Handshakes'
<1> SUFFICES ASSUME TypeOK, Handshakes, [Next]_vars PROVE Handshakes'  OBVIOUS
<1>1. wire \in Seq(Item)  BY DEF TypeOK
<1>2. CASE wire' = wire  BY <1>2 DEF Handshakes
<1>3. CASE wire # <<>> /\ wire' = Tail(wire)
  <2>1. \A i \in DOMAIN wire' : i + 1 \in DOMAIN wire /\ wire'[i] = wire[i + 1]
    BY <1>1, <1>3
  <2> QED  BY <2>1 DEF Handshakes
<1>4. ASSUME NEW r \in Requests, NEW k, NEW n, k = "switch" => ~Plain(r), Transmit(k, r, n)
      PROVE  Handshakes'
  <2> DEFINE e == [kind |-> k, s |-> r, n |-> n]
  <2>1. e.kind = k /\ e.s = r  OBVIOUS
  <2>2. wire' = Append(wire, e)  BY <1>4 DEF Transmit
  <2> HIDE DEF e
  <2>3. \A i \in DOMAIN wire' : wire'[i] = e \/ (i \in DOMAIN wire /\ wire'[i] = wire[i])
    BY <1>1, <2>2
  <2> QED  BY <1>4, <2>1, <2>3 DEF Handshakes
<1>5. ASSUME NEW r \in Requests, Inform(r) \/ Switch(r) \/ SendData(r) \/ Respond(r)
      PROVE  Handshakes'
  <2>1. CASE Inform(r)  BY <1>4, <2>1 DEF Inform
  <2>2. CASE Switch(r)  BY <1>4, <2>2 DEF Switch, Plain
  <2>3. CASE SendData(r)  BY <1>4, <2>3 DEF SendData
  <2>4. CASE Respond(r)
    <3>1. PICK k \in Responses : Transmit(k, r, 0)  BY <2>4 DEF Respond
    <3>2. k # "switch"  BY DEF Responses
    <3> QED  BY <1>4, <3>1, <3>2
  <2> QED  BY <1>5, <2>1, <2>2, <2>3, <2>4
<1>6. ASSUME NEW r \in Requests, EndBody(r)  PROVE Handshakes'
  BY <1>2, <1>4, <1>6 DEF EndBody
<1>7. ASSUME NEW r \in Requests, ReceiveHead(r) \/ ReceiveRejection(r) \/ ReceiveBody(r)
      PROVE  Handshakes'
  BY <1>3, <1>7 DEF ReceiveHead, ReceiveRejection, ReceiveBody, Parses
<1>8. ASSUME NEW r \in Requests,
             \/ Start(r) \/ FinishSend(r) \/ ReceiveEof(r) \/ Cancel(r) \/ Close(r)
             \/ CloseTunnel(r) \/ Early(r)
      PROVE  wire' = wire
  BY <1>8 DEF Start, FinishSend, ReceiveEof, Cancel, Close, CloseTunnel, Early, server
<1>9. CASE Exit \/ ServerClose \/ UNCHANGED vars
  BY <1>2, <1>9 DEF Exit, ServerClose, vars, server
<1> QED  BY <1>2, <1>5, <1>6, <1>7, <1>8, <1>9 DEF Next, Task, Answer

\* A step of the holder's task: what it leaves at h11, the transport and itself
\* is enough, for no other task holds the connection.
LEMMA TaskLeak ==
    ASSUME LeakInv, NEW r \in Requests, Holds(r), ExclusiveInv', Handshakes',
           \A q \in Requests \ {r} : phase'[q] = phase[q] /\ result'[q] = result[q],
           exit' = exit, transport = "closed" => transport' = "closed",
           h11.us = "SWITCHED" => h11'.us = "SWITCHED",
           Tidy(h11'), Fits(r)',
           h11'.us = "SWITCHED" =>
              \/ phase'[r] = "tunnel"
              \/ ~Holds(r)' /\ (transport' = "closed" \/ (r \in WebSockets /\ result'[r] = "error"))
    PROVE  LeakInv'
<1>1. \A q \in Requests \ {r} : ~Holds(q) /\ ~Holds(q)'
  BY DEF LeakInv, ExclusiveInv, Exclusive, OneHolder, Holds
<1>2. \A q \in Requests : Fits(q)'
  <2>1. ASSUME NEW q \in Requests \ {r}  PROVE Fits(q)'
    BY <1>1, <2>1 DEF LeakInv, Fits, Holds
  <2> QED  BY <2>1
<1>3. Switched'
  BY <1>1, HTTP11Assumption DEF Switched, Kept, HTTP11Assumption, Holds
<1>4. Left'  BY DEF LeakInv, Left
<1> QED  BY <1>2, <1>3, <1>4 DEF LeakInv

\* A step that leaves the tasks and h11 as they are.
LEMMA QuietLeak ==
    ASSUME LeakInv, ExclusiveInv', Handshakes', UNCHANGED <<h11, transport, consumer, exit>>
    PROVE  LeakInv'
<1>1. Tidy(h11') /\ Switched' /\ Left' /\ \A r \in Requests : Fits(r)'
  BY DEF LeakInv, consumer, Tidy, Switched, Kept, Left, Fits, Holds
<1> QED  BY <1>1 DEF LeakInv

LEMMA NextLeak == LeakInv /\ [Next]_vars => LeakInv'
<1> SUFFICES ASSUME LeakInv, [Next]_vars PROVE LeakInv'  OBVIOUS
<1>0. /\ ExclusiveInv' /\ Handshakes'
      /\ h11 \in H11 /\ transport \in {"up", "closed"} /\ wire \in Seq(Item)
      /\ phase \in [Requests -> Phases] /\ result \in [Requests -> Results]
      /\ Tidy(h11) /\ \A q \in Requests : Fits(q)
      /\ \A q \in Requests : Holds(q) => h11.us # "IDLE"
  BY NextType, NextExclusive, NextHandshakes, TypeParts DEF LeakInv, ExclusiveInv, Exclusive
<1>1. ASSUME NEW r \in Requests, Start(r)  PROVE LeakInv'
  <2>1. /\ h11.us = "IDLE" /\ \A q \in Requests : ~Holds(q)
    BY <1>1 DEF Start, available_slots, LeakInv, ExclusiveInv, Exclusive
  <2>2. /\ h11'.us = "SEND_BODY" /\ h11'.them = "SEND_RESPONSE"
        /\ h11'.switch = (~Plain(r))
    BY <1>0, <1>1 DEF Start, H11, Plain
  <2>3. phase'[r] = "sending" /\ \A q \in Requests \ {r} : phase'[q] = phase[q]
    BY <1>0, <1>1 DEF Start
  <2>4. result' = result /\ transport' = transport /\ exit' = exit  BY <1>1 DEF Start
  <2>5. ASSUME NEW q \in Requests  PROVE Fits(q)'
    <3>1. CASE q = r
      <4>1. phase[r] = "idle"  BY <1>1 DEF Start
      <4>2. result'[r] = "none"  BY <1>0, <2>4, <4>1 DEF Fits
      <4> QED  BY <2>2, <2>3, <3>1, <4>2 DEF Fits, Plain, Holds
    <3>2. CASE q # r  BY <1>0, <2>1, <2>3, <2>4, <3>2 DEF Fits, Holds
    <3> QED  BY <3>1, <3>2
  <2>6. Tidy(h11') /\ Switched' /\ Left'
    BY <2>1, <2>2, <2>4 DEF Tidy, Switched, LeakInv, Left
  <2> QED  BY <1>0, <2>5, <2>6 DEF LeakInv
<1>2. ASSUME NEW r \in Requests, NEW res, res # "none", Raises(r, res, h11),
             phase[r] \in {"sending", "head", "rejected"}, exit' = exit
      PROVE  LeakInv'
  <2>1. Holds(r) /\ h11.us # "SWITCHED"  BY <1>2 DEF Holds, LeakInv, Switched
  <2>2. phase'[r] = "failed" /\ \A q \in Requests \ {r} : phase'[q] = phase[q] /\ result'[q] = result[q]
    BY <1>0, <1>2 DEF Raises, Outcome
  <2>3. Fits(r)' /\ ~Holds(r)'  BY <2>2 DEF Fits, Holds
  <2>4. /\ Tidy(h11') /\ h11'.us # "SWITCHED" /\ (transport = "closed" => transport' = "closed")
    BY <1>0, <1>2, <2>1, RaisesCycle
  <2> QED  BY <1>0, <1>2, <2>1, <2>2, <2>3, <2>4, TaskLeak
<1>3. ASSUME NEW r \in Requests, NEW p \in {"failed", "over", "raised"}, NEW res,
             Outcome(r, p, res), UNCHANGED <<h11, transport, exit>>,
             phase[r] \in {"rejected", "open"}, phase[r] = "rejected" => p = "failed"
      PROVE  LeakInv'
  <2>1. Holds(r) /\ h11.us # "SWITCHED" /\ h11.us # "SEND_BODY"
    BY <1>0, <1>3 DEF Holds, LeakInv, Switched, Fits
  <2>2. phase'[r] = p /\ \A q \in Requests \ {r} : phase'[q] = phase[q] /\ result'[q] = result[q]
    BY <1>0, <1>3 DEF Outcome
  <2>3. Fits(r)'  BY <1>0, <1>3, <2>1, <2>2 DEF Fits, Plain, Holds
  <2> QED  BY <1>0, <1>3, <2>1, <2>2, <2>3, TaskLeak
<1>4. ASSUME NEW r \in Requests, FinishSend(r)  PROVE LeakInv'
  <2>1. CASE Raises(r, "error", h11)  BY <1>2, <1>4, <2>1 DEF FinishSend
  <2>2. CASE /\ h11' = Settle([h11 EXCEPT !.us = "DONE"])
             /\ phase' = [phase EXCEPT ![r] = "head"] /\ UNCHANGED <<result, transport>>
    <3> DEFINE g == [h11 EXCEPT !.us = "DONE"]
    <3>1. phase[r] = "sending" /\ h11.them = "SEND_RESPONSE" /\ Holds(r) /\ exit' = exit
      BY <1>0, <1>4 DEF FinishSend, Fits, Holds
    <3>2. g \in H11 /\ g.us = "DONE" /\ g.them = "SEND_RESPONSE"  BY <1>0, <3>1 DEF H11
    <3>3. h11' = Settle(g)  BY <2>2
    <3> HIDE DEF g
    <3>4. Tidy(h11') /\ h11'.us # "SEND_BODY" /\ h11'.us # "SWITCHED"
      BY <3>2, <3>3, SettleCycle
    <3>5. h11.us # "SWITCHED"  BY <1>4, <2>2, <3>1 DEF LeakInv, Switched
    <3>6. phase'[r] = "head" /\ result'[r] = "none"
          /\ \A q \in Requests \ {r} : phase'[q] = phase[q] /\ result'[q] = result[q]
      BY <1>0, <2>2, <3>1 DEF Fits
    <3>7. Fits(r)'  BY <3>4, <3>6 DEF Fits
    <3> QED  BY <1>0, <2>2, <3>1, <3>4, <3>5, <3>6, <3>7, TaskLeak
  <2> QED  BY <1>4, <2>1, <2>2 DEF FinishSend
<1>5. ASSUME NEW r \in Requests, ReceiveHead(r) \/ ReceiveRejection(r) \/ ReceiveBody(r)
      PROVE  LeakInv'
  <2> DEFINE e == Head(wire)  h == Parsed(h11, e)
  <2>1. /\ Holds(r) /\ phase[r] \in {"head", "rejected", "open"} /\ exit' = exit
        /\ wire # <<>>
    BY <1>5 DEF ReceiveHead, ReceiveRejection, ReceiveBody, Holds, Parses
  <2>2. /\ e \in Item /\ e = wire[1] /\ 1 \in DOMAIN wire
    BY <1>0, <2>1
  <2>3. h11.us \notin {"SEND_BODY", "IDLE", "SWITCHED"}
    BY <1>0, <2>1 DEF Fits, LeakInv, Switched
  <2>4. e.kind = "switch" => ~Plain(r)
    <3>1. e.s = r  BY <2>1, <2>2 DEF LeakInv, ExclusiveInv, Exclusive, Owner
    <3> QED  BY <2>2, <3>1 DEF LeakInv, Handshakes
  <2>5. /\ h \in H11 /\ h.us # "SEND_BODY" /\ Tidy(h)
        /\ h.us = "SWITCHED" => e.kind = "switch"
    BY <1>0, <2>2, <2>3, ParsedCycle, ParsedEffects
  <2> HIDE DEF e, h
  <2>6. \A q \in Requests \ {r} : phase'[q] = phase[q] /\ result'[q] = result[q]
    BY <1>0, <1>5 DEF ReceiveHead, ReceiveRejection, ReceiveBody, Raises, Outcome
  <2>7. transport = "closed" => transport' = "closed"
    <3>1. CASE Raises(r, "error", h)  BY <2>5, <3>1, RaisesCycle
    <3>2. CASE transport' = transport  BY <3>2
    <3> QED  BY <1>5, <3>1, <3>2 DEF ReceiveHead, ReceiveRejection, ReceiveBody, h, e
  <2>8. CASE ReceiveHead(r)
    <3>1. /\ h11' = h /\ result' = result /\ phase[r] = "head"
          /\ phase'[r] = CASE r \in Connects \/ e.kind = "switch" -> "tunnel"
                          [] r \in WebSockets /\ e.kind # "switch" -> "rejected"
                          [] OTHER -> "open"
      BY <1>0, <2>8 DEF ReceiveHead, h, e
    <3>2. result'[r] = "none"  BY <1>0, <3>1 DEF Fits
    <3>3. CASE r \in Connects \/ e.kind = "switch"
      <4>0. ~(r \in WebSockets /\ e.kind # "switch")
        BY <3>3, HTTP11Assumption DEF HTTP11Assumption
      <4>1. phase'[r] = "tunnel"  BY <3>1, <3>3, <4>0, Zenon
      <4>2. ~Plain(r)  BY <2>4, <3>3 DEF Plain
      <4>3. Fits(r)'  BY <2>5, <3>1, <3>2, <4>1, <4>2 DEF Fits, Plain
      <4> QED  BY <1>0, <2>1, <2>3, <2>5, <2>6, <2>7, <3>1, <4>1, <4>3, TaskLeak
    <3>4. CASE e.kind # "switch" /\ r \in WebSockets /\ r \notin Connects
      <4>1. phase'[r] = "rejected"  BY <3>1, <3>4, Zenon
      <4>2. Fits(r)'  BY <2>5, <3>1, <3>2, <3>4, <4>1 DEF Fits
      <4> QED  BY <1>0, <2>1, <2>3, <2>5, <2>6, <2>7, <3>1, <3>4, <4>2, TaskLeak
    <3>5. CASE e.kind # "switch" /\ r \notin WebSockets /\ r \notin Connects
      <4>1. phase'[r] = "open"  BY <3>1, <3>5, Zenon
      <4>2. Fits(r)'  BY <2>5, <3>1, <3>2, <3>5, <4>1 DEF Fits, Plain
      <4> QED  BY <1>0, <2>1, <2>3, <2>5, <2>6, <2>7, <3>1, <3>5, <4>2, TaskLeak
    <3> QED  BY <3>3, <3>4, <3>5
  <2>9. CASE ReceiveBody(r)
    <3>1. h11' = h /\ phase[r] = "open" /\ Plain(r) /\ result[r] = "none"
      BY <1>0, <2>9 DEF ReceiveBody, Fits, h, e
    <3>2. h.us # "SWITCHED"  BY <2>4, <2>5, <3>1
    <3>3. \/ phase'[r] = "open" /\ result'[r] = "none"
          \/ phase'[r] \in {"over", "raised"}
      BY <1>0, <2>9, <3>1 DEF ReceiveBody, Outcome
    <3>4. Fits(r)'  BY <2>5, <3>1, <3>3 DEF Fits, Plain
    <3> QED  BY <1>0, <2>1, <2>3, <2>5, <2>6, <2>7, <3>1, <3>2, <3>4, TaskLeak
  <2>10. CASE ReceiveRejection(r)
    <3>0. phase[r] = "rejected" /\ r \in WebSockets /\ result[r] = "none"
      BY <1>0, <2>10 DEF ReceiveRejection, Fits
    <3>1. CASE h11' = h /\ e.kind \in {"data", "end"}
      <4>1. h.us # "SWITCHED"  BY <2>5, <3>1
      <4>2. \/ phase'[r] = "rejected" /\ result'[r] = "none"
            \/ phase'[r] = "failed"
        BY <1>0, <2>10, <3>0, <3>1 DEF ReceiveRejection, Outcome, h, e
      <4>3. Fits(r)'  BY <2>5, <3>0, <3>1, <4>2 DEF Fits
      <4> QED  BY <1>0, <2>1, <2>3, <2>5, <2>6, <2>7, <3>1, <4>1, <4>3, TaskLeak
    <3>2. CASE Raises(r, "error", h)
      <4>1. phase'[r] = "failed" /\ result'[r] = "error"
        BY <1>0, <3>2 DEF Raises, Outcome
      <4>2. Tidy(h11') /\ ~Holds(r)' /\ Fits(r)'
        BY <2>5, <3>2, <4>1, RaisesCycle DEF Holds, Fits
      <4> QED  BY <1>0, <2>1, <2>3, <2>6, <2>7, <3>0, <4>1, <4>2, TaskLeak
    <3> QED  BY <2>10, <3>1, <3>2 DEF ReceiveRejection, h, e
  <2> QED  BY <1>5, <2>8, <2>9, <2>10
<1>6. ASSUME NEW r \in Requests, ReceiveEof(r) \/ Cancel(r)  PROVE LeakInv'
  <2>1. exit' = exit  BY <1>6 DEF ReceiveEof, Cancel
  <2>2. CASE \E res : res # "none" /\ Raises(r, res, h11) /\ phase[r] \in {"sending", "head", "rejected"}
    BY <1>2, <2>1, <2>2
  <2>3. CASE \E p \in {"failed", "over", "raised"} : \E res :
               /\ Outcome(r, p, res) /\ UNCHANGED <<h11, transport>>
               /\ phase[r] = "rejected" => p = "failed"
               /\ phase[r] \in {"rejected", "open"}
    BY <1>3, <2>1, <2>3
  <2>4. CASE ReceiveEof(r)
    <3>1. CASE phase[r] \in {"head", "rejected"} /\ Raises(r, "error", h11)
      <4>1. "error" # "none"  OBVIOUS
      <4> QED  BY <2>2, <3>1, <4>1
    <3>2. CASE /\ phase[r] = "rejected"
               /\ Outcome(r, "failed", "rejected") /\ UNCHANGED <<h11, transport>>
      BY <2>3, <3>2
    <3>3. CASE /\ phase[r] = "open" /\ UNCHANGED <<h11, transport>>
               /\ (Outcome(r, "over", "eos") \/ Outcome(r, "raised", "error"))
      <4>1. CASE Outcome(r, "over", "eos")  BY <2>3, <3>3, <4>1
      <4>2. CASE Outcome(r, "raised", "error")  BY <2>3, <3>3, <4>2
      <4> QED  BY <3>3, <4>1, <4>2
    <3> QED  BY <2>4, <3>1, <3>2, <3>3 DEF ReceiveEof
  <2>5. CASE Cancel(r)
    <3>1. CASE phase[r] \in {"sending", "head", "rejected"} /\ Raises(r, "cancelled", h11)
      <4>1. "cancelled" # "none"  OBVIOUS
      <4> QED  BY <2>2, <3>1, <4>1
    <3>2. CASE /\ phase[r] = "open" /\ UNCHANGED <<h11, transport>>
               /\ Outcome(r, "raised", "cancelled")
      BY <2>3, <3>2
    <3> QED  BY <2>5, <3>1, <3>2 DEF Cancel
  <2> QED  BY <1>6, <2>4, <2>5
<1>7. ASSUME NEW r \in Requests, Close(r)  PROVE LeakInv'
  <2>1. /\ Holds(r) /\ phase[r] # "tunnel" /\ exit' = exit
        /\ phase'[r] = "closed"
        /\ \A q \in Requests \ {r} : phase'[q] = phase[q] /\ result'[q] = result[q]
    BY <1>0, <1>7 DEF Close, Outcome, Holds
  <2>2. h11.us # "SWITCHED"  BY <2>1 DEF LeakInv, Switched
  <2>3. Fits(r)'  BY <2>1 DEF Fits, Holds
  <2>4. Tidy(h11') /\ h11'.us # "SWITCHED" /\ (transport = "closed" => transport' = "closed")
    <3>1. CASE h11.them = "DONE" /\ h11.us = "DONE"
      <4>1. h11' = [h11 EXCEPT !.us = "IDLE", !.them = "IDLE"] /\ transport' = transport
        BY <1>7, <3>1 DEF Close
      <4> QED  BY <1>0, <4>1 DEF H11, Tidy
    <3>2. CASE h11.them = "DONE" /\ h11.us # "DONE"
      <4>1. h11' = h11 /\ transport' = transport  BY <1>7, <3>2 DEF Close
      <4> QED  BY <1>0, <2>2, <4>1
    <3>3. CASE h11.them # "DONE"
      <4>1. h11' = SendClosed(h11) /\ transport' \in {"closed", transport}
        BY <1>7, <3>3 DEF Close
      <4> QED  BY <1>0, <4>1, SendClosedCycle
    <3> QED  BY <3>1, <3>2, <3>3
  <2> QED  BY <1>0, <2>1, <2>2, <2>3, <2>4, TaskLeak
<1>8. ASSUME NEW r \in Requests, CloseTunnel(r)  PROVE LeakInv'
  <2>1. /\ Holds(r) /\ exit' = exit /\ h11' = h11 /\ transport' = "closed"
        /\ phase'[r] = "closed"
        /\ \A q \in Requests \ {r} : phase'[q] = phase[q] /\ result'[q] = result[q]
    BY <1>0, <1>8 DEF CloseTunnel, Holds
  <2>2. Tidy(h11') /\ ~Holds(r)' /\ Fits(r)'  BY <1>0, <2>1 DEF Fits, Holds, Tidy
  <2> QED  BY <1>0, <2>1, <2>2, TaskLeak
<1>9. CASE Exit
  <2>1. AcloseFrom(h11) /\ UNCHANGED consumer  BY <1>9 DEF Exit
  <2>2. /\ Tidy(h11') /\ (h11'.us = "SEND_BODY" => h11.us = "SEND_BODY")
        /\ h11'.us = "SWITCHED" <=> h11.us = "SWITCHED"
        /\ transport = "closed" => transport' = "closed"
        /\ h11.us = "SWITCHED" \/ ~Closable(h11) \/ transport' = "closed"
    BY <1>0, <2>1, RaisesCycle
  <2>3. Left'
    BY <1>9, <2>2 DEF Exit, Left, LeakInv
  <2>4. Switched'
    BY <2>1, <2>2 DEF Switched, Kept, LeakInv, consumer, Holds
  <2>5. ASSUME NEW q \in Requests  PROVE Fits(q)'
    <3>1. phase'[q] = phase[q] /\ result'[q] = result[q] /\ Fits(q)  BY <1>0, <2>1 DEF consumer
    <3>2. phase[q] = "sending" => h11'.them = "SEND_RESPONSE" /\ (h11'.switch => ~Plain(q))
      <4> SUFFICES ASSUME phase[q] = "sending"
                   PROVE  h11'.them = "SEND_RESPONSE" /\ (h11'.switch => ~Plain(q))
        OBVIOUS
      <4>1. h11.them = "SEND_RESPONSE" /\ (h11.switch => ~Plain(q))  BY <3>1 DEF Fits
      <4>2. CASE h11' = h11  BY <4>1, <4>2
      <4>3. CASE h11' = SendClosed(h11)
        <5> DEFINE g == [h11 EXCEPT !.us = IF Closable(h11) THEN "CLOSED" ELSE "ERROR"]
        <5>1. g \in H11 /\ g.them = "SEND_RESPONSE" /\ g.switch = h11.switch
          BY <1>0, <4>1 DEF H11
        <5>2. h11' = Settle(g)  BY <4>3 DEF SendClosed
        <5> HIDE DEF g
        <5> QED  BY <4>1, <5>1, <5>2, SettleCycle
      <4> QED  BY <2>1, <4>2, <4>3 DEF AcloseFrom
    <3> QED  BY <2>2, <3>1, <3>2 DEF Fits, Holds, Plain
  <2> QED  BY <1>0, <2>2, <2>3, <2>4, <2>5 DEF LeakInv
<1>10. ASSUME \/ ServerClose \/ UNCHANGED vars
              \/ \E r \in Requests : Early(r) \/ Inform(r) \/ Answer(r) \/ SendData(r)
       PROVE  LeakInv'
  <2>1. UNCHANGED <<h11, transport, consumer, exit>>
    BY <1>10 DEF ServerClose, Early, Inform, Answer, Switch, Respond, EndBody, SendData,
                 ClientWaits, vars
  <2> QED  BY <1>0, <2>1, QuietLeak
<1> QED
  BY <1>1, <1>4, <1>5, <1>6, <1>7, <1>8, <1>9, <1>10 DEF Next, Task

LEMMA LeakCorrect == Spec => []LeakInv
<1> QED  BY InitLeak, NextLeak, PTL DEF Spec

\* However requests and tunnels end and whenever the client exits: a connection
\* that aclose() has closed without an exception, and that nobody holds any more,
\* has its transport closed, or connect_ws() failed on the 101 itself
\* (_http11.py:49-51).
THEOREM NoLeakAtExit == Spec => []NoSilentLeak
<1>1. LeakInv => NoSilentLeak
  BY DEF LeakInv, Left, Switched, Kept, NoSilentLeak, Holds
<1> QED  BY <1>1, LeakCorrect, PTL

-----------------------------------------------------------------------------
(* Requests made one after the other use the same connection *)

\* Nothing has disturbed the connection so far.
Calm ==
    /\ budget = MaxEnv /\ h11.keep
    /\ \A r \in Requests : result[r] \in {"none", "end"} /\ phase[r] # "tunnel"
    /\ \A r \in WebSockets \cup Connects : phase[r] = "idle"

\* Then h11 keeps to its cycle.
Lent == h11.us = "IDLE" \/ \E r \in Requests : Holds(r)
Cycle(r) ==
    /\ phase[r] \in {"head", "open", "over", "raised"} => h11.us = "DONE" /\ ~h11.switch
    /\ phase[r] \in {"over", "raised"} => h11.them = "DONE"

ReuseInv ==
    /\ LeakInv /\ budget <= MaxEnv
    /\ Calm => Lent /\ \A r \in Requests : Cycle(r)

LEMMA InitReuse == Init => ReuseInv
<1> SUFFICES ASSUME Init PROVE ReuseInv  OBVIOUS
<1>1. budget <= MaxEnv  BY HTTP11Assumption DEF Init, HTTP11Assumption
<1>2. h11.us = "IDLE" /\ \A r \in Requests : phase[r] = "idle"  BY DEF Init
<1> QED  BY <1>1, <1>2, InitLeak DEF ReuseInv, Lent, Cycle

\* A connection that is undisturbed after a step of r was undisturbed before it.
LEMMA CalmBefore ==
    ASSUME ReuseInv, Calm', NEW r \in Requests, budget' \in Nat, budget' <= budget,
           \A q \in Requests \ {r} : phase'[q] = phase[q] /\ result'[q] = result[q],
           phase'[r] # "idle", result[r] = "none" \/ result'[r] = result[r],
           h11'.keep => h11.keep
    PROVE  Calm /\ Plain(r) /\ budget' = budget
<1>1. Plain(r)  BY DEF Calm, Plain
<1>2. budget = MaxEnv /\ budget' = budget
  BY HTTP11Assumption DEF ReuseInv, LeakInv, ExclusiveInv, TypeOK, Calm, HTTP11Assumption
<1>3. \A q \in Requests : result[q] \in {"none", "end"} /\ phase[q] # "tunnel"
  BY <1>1 DEF Calm, ReuseInv, LeakInv, Fits
<1>4. \A q \in WebSockets \cup Connects : phase[q] = "idle"
  BY <1>1, HTTP11Assumption DEF Calm, Plain, HTTP11Assumption
<1> QED  BY <1>1, <1>2, <1>3, <1>4 DEF Calm

\* What the holder leaves is enough, for no other task holds the connection.
LEMMA TaskReuse ==
    ASSUME ReuseInv, NEW r \in Requests, \A q \in Requests \ {r} : ~Holds(q),
           \A q \in Requests \ {r} : phase'[q] = phase[q],
           Holds(r)' \/ h11'.us = "IDLE", Cycle(r)'
    PROVE  Lent' /\ \A q \in Requests : Cycle(q)'
<1>1. ASSUME NEW q \in Requests \ {r}  PROVE Cycle(q)'  BY <1>1 DEF Cycle, Holds
<1> QED  BY <1>1 DEF Lent

LEMMA NextReuse == ReuseInv /\ [Next]_vars => ReuseInv'
<1> SUFFICES ASSUME ReuseInv, [Next]_vars PROVE ReuseInv'  OBVIOUS
<1>0. /\ LeakInv' /\ LeakInv /\ ExclusiveInv /\ budget \in Nat /\ budget' \in Nat /\ MaxEnv \in Nat
      /\ h11 \in H11 /\ phase \in [Requests -> Phases] /\ result \in [Requests -> Results]
      /\ wire \in Seq(Item) /\ Tidy(h11) /\ \A q \in Requests : Fits(q)
  BY NextLeak, NextType, TypeParts, HTTP11Assumption
  DEF ReuseInv, LeakInv, ExclusiveInv, HTTP11Assumption, TypeOK
<1>1. budget' <= budget /\ budget' <= MaxEnv
  <2>1. CASE UNCHANGED budget  BY <1>0, <2>1 DEF ReuseInv
  <2>2. CASE \E k : Environment(k)  BY <1>0, <2>2 DEF ReuseInv, Environment
  <2>3. ASSUME NEW r \in Requests, Start(r) \/ Task(r) \/ CloseTunnel(r) \/ Answer(r) \/ SendData(r)
        PROVE  UNCHANGED budget
    BY <2>3 DEF Start, Task, FinishSend, ReceiveHead, ReceiveRejection, ReceiveEof,
                ReceiveBody, CloseTunnel, Answer, Switch, Respond, EndBody, SendData
  <2>4. ASSUME NEW r \in Requests, Cancel(r) \/ Close(r) \/ Early(r) \/ Inform(r)
        PROVE  UNCHANGED budget \/ \E k : Environment(k)
    BY <2>4 DEF Cancel, Close, Early, Inform
  <2>5. Exit \/ ServerClose => \E k : Environment(k)  BY DEF Exit, ServerClose
  <2>6. UNCHANGED vars => UNCHANGED budget  BY DEF vars
  <2> QED  BY <2>1, <2>2, <2>3, <2>4, <2>5, <2>6 DEF Next
<1> SUFFICES ASSUME Calm' PROVE Lent' /\ \A r \in Requests : Cycle(r)'
  BY <1>0, <1>1 DEF ReuseInv
<1>2. budget' = budget /\ \A k : ~Environment(k)
  <2>1. budget' = MaxEnv  BY DEF Calm
  <2> QED  BY <1>0, <1>1, <2>1 DEF ReuseInv, Environment
<1>3. ASSUME NEW r \in Requests, Holds(r)  PROVE \A q \in Requests \ {r} : ~Holds(q)
  BY <1>0, <1>3 DEF ExclusiveInv, Exclusive, OneHolder
<1>4. ASSUME NEW r \in Requests, Start(r)  PROVE Lent' /\ \A q \in Requests : Cycle(q)'
  <2>1. \A q \in Requests : ~Holds(q)
    BY <1>0, <1>4 DEF Start, available_slots, ExclusiveInv, Exclusive
  <2>2. phase'[r] = "sending" /\ \A q \in Requests \ {r} : phase'[q] = phase[q]
    BY <1>0, <1>4 DEF Start
  <2> QED  BY <2>1, <2>2, TaskReuse DEF Cycle, Holds
<1>5. ASSUME NEW r \in Requests, FinishSend(r)  PROVE Lent' /\ \A q \in Requests : Cycle(q)'
  <2>1. Holds(r) /\ phase[r] = "sending"  BY <1>5 DEF FinishSend, Holds
  <2>2. CASE Raises(r, "error", h11)
    <3>1. result'[r] = "error"  BY <1>0, <2>2 DEF Raises, Outcome
    <3> QED  BY <3>1 DEF Calm
  <2>3. CASE /\ h11' = Settle([h11 EXCEPT !.us = "DONE"])
             /\ phase' = [phase EXCEPT ![r] = "head"] /\ UNCHANGED <<result, transport>>
    <3> DEFINE g == [h11 EXCEPT !.us = "DONE"]
    <3>1. g \in H11 /\ g.us = "DONE" /\ g.switch = h11.switch /\ g.keep = h11.keep
      BY <1>0 DEF H11
    <3>2. h11' = Settle(g)  BY <2>3
    <3> HIDE DEF g
    <3>3. h11'.keep = h11.keep /\ h11'.switch = h11.switch  BY <3>1, <3>2, SettleCycle
    <3>4. phase'[r] = "head" /\ result' = result /\ \A q \in Requests \ {r} : phase'[q] = phase[q]
      BY <1>0, <2>3
    <3>5. Plain(r)  BY <1>0, <1>1, <3>3, <3>4, CalmBefore
    <3>6. ~h11.switch /\ h11.keep
      BY <1>0, <2>1, <3>3, <3>5 DEF Fits, Calm
    <3>7. h11'.us = "DONE"  BY <3>1, <3>2, <3>6, SettleCycle
    <3> QED  BY <1>3, <2>1, <3>3, <3>4, <3>6, <3>7, TaskReuse DEF Cycle, Holds
  <2> QED  BY <1>5, <2>2, <2>3 DEF FinishSend
<1>6. ASSUME NEW r \in Requests, ReceiveHead(r) \/ ReceiveRejection(r) \/ ReceiveBody(r)
      PROVE  Lent' /\ \A q \in Requests : Cycle(q)'
  <2> DEFINE e == Head(wire)  h == Parsed(h11, e)
  <2>1. /\ Holds(r) /\ phase[r] \in {"head", "rejected", "open"} /\ wire # <<>>
        /\ result[r] = "none"
    BY <1>0, <1>6 DEF ReceiveHead, ReceiveRejection, ReceiveBody, Holds, Parses, Fits
  <2>2. e \in Item  BY <1>0, <2>1
  <2>3. h11.us \notin {"SEND_BODY", "IDLE"}
    BY <1>0, <2>1 DEF Fits, ExclusiveInv, Exclusive
  <2>4. /\ h \in H11 /\ Tidy(h) /\ (h.keep => h11.keep)
        /\ h11.us = "DONE" /\ ~h11.switch /\ h.keep =>
             h.us = "DONE" /\ ~h.switch /\ (e.kind = "end" => h.them = "DONE")
    BY <1>0, <2>2, <2>3, ParsedCycle, ParsedEffects
  <2> HIDE DEF e, h
  <2>5. h11'.keep => h11.keep
    <3>1. CASE Raises(r, "error", h)  BY <2>4, <3>1, RaisesCycle
    <3>2. CASE h11' = h  BY <2>4, <3>2
    <3> QED  BY <1>6, <3>1, <3>2 DEF ReceiveHead, ReceiveRejection, ReceiveBody, h, e
  <2>6. \A q \in Requests \ {r} : phase'[q] = phase[q] /\ result'[q] = result[q]
    BY <1>0, <1>6 DEF ReceiveHead, ReceiveRejection, ReceiveBody, Raises, Outcome
  <2>7. phase'[r] # "idle"
    <3>1. CASE ReceiveHead(r)
      <4>1. phase'[r] = CASE r \in Connects \/ e.kind = "switch" -> "tunnel"
                          [] r \in WebSockets /\ e.kind # "switch" -> "rejected"
                          [] OTHER -> "open"
        BY <1>0, <3>1 DEF ReceiveHead, e
      <4>2. phase'[r] \in {"tunnel", "rejected", "open"}  BY <4>1, Zenon
      <4> QED  BY <4>2
    <3>2. CASE ReceiveRejection(r) \/ ReceiveBody(r)
      BY <1>0, <3>2 DEF ReceiveRejection, ReceiveBody, Raises, Outcome
    <3> QED  BY <1>6, <3>1, <3>2
  <2>8. Calm /\ Plain(r)  BY <1>0, <1>1, <2>1, <2>5, <2>6, <2>7, CalmBefore
  <2>9. phase[r] \in {"head", "open"} /\ h11.us = "DONE" /\ ~h11.switch
    BY <1>0, <2>1, <2>8 DEF Fits, Plain, ReuseInv, Cycle
  <2>10. h11' = h
    BY <1>6, <2>9 DEF ReceiveHead, ReceiveRejection, ReceiveBody, h, e
  <2>11. h11'.us = "DONE" /\ ~h11'.switch /\ (e.kind = "end" => h11'.them = "DONE")
    BY <2>4, <2>9, <2>10 DEF Calm
  <2>12. CASE ReceiveHead(r)
    <3>1. phase'[r] = CASE r \in Connects \/ e.kind = "switch" -> "tunnel"
                        [] r \in WebSockets /\ e.kind # "switch" -> "rejected"
                        [] OTHER -> "open"
      BY <1>0, <2>12 DEF ReceiveHead, e
    <3>2. phase'[r] \in {"tunnel", "rejected", "open"}  BY <3>1, Zenon
    <3> QED  BY <1>3, <2>1, <2>6, <2>11, <3>2, TaskReuse DEF Cycle, Holds
  <2>13. CASE ReceiveBody(r)
    <3>1. \/ phase'[r] = "open"
          \/ phase'[r] = "over" /\ e.kind = "end"
          \/ phase'[r] = "raised" /\ result'[r] = "error"
      BY <1>0, <2>1, <2>13 DEF ReceiveBody, Outcome, e
    <3>2. result'[r] # "error"  BY DEF Calm
    <3> QED  BY <1>3, <2>1, <2>6, <2>11, <3>1, <3>2, TaskReuse DEF Cycle, Holds
  <2>14. ~ReceiveRejection(r)  BY <2>9 DEF ReceiveRejection
  <2> QED  BY <1>6, <2>12, <2>13, <2>14
<1>7. ASSUME NEW r \in Requests, ReceiveEof(r)  PROVE FALSE
  <2>1. result'[r] \in {"error", "rejected", "eos"}
    BY <1>0, <1>7 DEF ReceiveEof, Raises, Outcome
  <2> QED  BY <2>1 DEF Calm
<1>8. ASSUME NEW r \in Requests, Close(r)  PROVE Lent' /\ \A q \in Requests : Cycle(q)'
  <2>1. phase[r] \in {"over", "raised"}  BY <1>2, <1>8 DEF Close
  <2>2. /\ Holds(r) /\ phase'[r] = "closed"
        /\ \A q \in Requests \ {r} : phase'[q] = phase[q] /\ result'[q] = result[q]
        /\ result[r] = "none" \/ result'[r] = result[r]
    BY <1>0, <1>8, <2>1 DEF Close, Outcome, Holds
  <2>3. h11'.keep => h11.keep
    <3>1. CASE h11.them # "DONE"
      <4>1. h11' = SendClosed(h11)  BY <1>8, <3>1 DEF Close
      <4> QED  BY <1>0, <4>1, SendClosedCycle
    <3>2. CASE h11.them = "DONE"
      <4>1. h11' \in {h11, [h11 EXCEPT !.us = "IDLE", !.them = "IDLE"]}
        BY <1>8, <3>2 DEF Close
      <4> QED  BY <1>0, <4>1 DEF H11
    <3> QED  BY <3>1, <3>2
  <2>4. Calm  BY <1>0, <1>1, <2>2, <2>3, CalmBefore
  <2>5. h11.us = "DONE" /\ h11.them = "DONE"  BY <2>1, <2>4 DEF ReuseInv, Cycle
  <2>6. h11'.us = "IDLE"
    <3>1. h11' = [h11 EXCEPT !.us = "IDLE", !.them = "IDLE"]  BY <1>8, <2>5 DEF Close
    <3> QED  BY <1>0, <3>1 DEF H11
  <2> QED  BY <1>3, <2>2, <2>6, TaskReuse DEF Cycle
<1>9. ASSUME NEW r \in Requests, CloseTunnel(r)  PROVE FALSE
  <2>1. ~Plain(r) /\ phase'[r] = "closed"  BY <1>0, <1>9 DEF CloseTunnel, Fits
  <2> QED  BY <2>1 DEF Calm, Plain
<1>10. ASSUME \/ UNCHANGED vars
              \/ \E r \in Requests : Answer(r) \/ SendData(r)
       PROVE  Lent' /\ \A q \in Requests : Cycle(q)'
  <2>1. UNCHANGED <<h11, consumer, budget>>
    BY <1>10 DEF Answer, Switch, Respond, EndBody, SendData, ClientWaits, vars
  <2>2. Calm  BY <2>1 DEF Calm, consumer
  <2> QED  BY <2>1, <2>2 DEF ReuseInv, Lent, Cycle, Holds, consumer
<1>11. ASSUME NEW r \in Requests, Cancel(r) \/ Early(r) \/ Inform(r)  PROVE FALSE
  BY <1>2, <1>11 DEF Cancel, Early, Inform
<1>12. ~Exit /\ ~ServerClose  BY <1>2 DEF Exit, ServerClose
<1> QED
  BY <1>4, <1>5, <1>6, <1>7, <1>8, <1>9, <1>10, <1>11, <1>12 DEF Next, Task

\* As long as nothing disturbs it and the server does not ask for it to be
\* closed, the connection is lent or ready to be lent: any number of requests,
\* each read to its end, use it (tests/test_client.py:275).
THEOREM ConnectionIsReused == Spec => []Reusable
<1>1. ReuseInv => Reusable
  <2>1. available_slots # 0 <=> h11.us = "IDLE"  BY DEF available_slots
  <2> QED  BY <2>1 DEF ReuseInv, Calm, Lent, Reusable
<1> QED  BY <1>1, InitReuse, NextReuse, PTL DEF Spec

-----------------------------------------------------------------------------
(* Every response is a body: the refinement of ResponseBody *)

Parts  == [kind : {"data"}, s : Requests, n : Nat]
Unread == Count(wire, Parts)

\* What is on the wire comes from a server that has begun to answer.
Signed == \A i \in DOMAIN wire : /\ srv[wire[i].s] \notin {"none", "open"}
                                 /\ wire[i].kind = "end" => wire[i].s \in ended
OneServed == \A q, r \in Requests : Serving(q) /\ Serving(r) => q = r

\* While r's body can still be read, every part the server has sent was received
\* or is on the wire; before its head was read, something else comes first.
Fed(r) ==
    /\ r \in ended => srv[r] = "done"
    /\ srv[r] = "done" /\ Plain(r) => r \in ended
    /\ srv[r] = "none" => sent[r] = 0
    /\ phase[r] = "idle" => srv[r] = "none" /\ rcvd[r] = 0
    /\ phase[r] = "open" => Answering(r) \/ r \in ended
    /\ phase[r] \in {"sending", "head", "rejected", "open"} => rcvd[r] + Unread = sent[r]
    /\ phase[r] \in {"sending", "head"} /\ srv[r] \notin {"none", "open"}
         => wire # <<>> /\ wire[1].kind \notin {"data", "end"}

Feed == OneServed /\ Signed /\ \A r \in Requests : Fed(r)
FeedInv == LeakInv /\ Feed

Finished == ended \cup CutOff
BodyStep == [Body!Next]_(Body!vars)

\* The steps of a body, in terms of the connection's variables.
LEMMA BodyFinishes ==
    ASSUME NEW r \in Requests, UNCHANGED <<sent, rcvd, result>>,
           Finished' \in {Finished, Finished \cup {r}}
    PROVE  BodyStep
<1>1. CASE Finished' = Finished  BY <1>1 DEF BodyStep, Body!vars, Finished
<1>2. CASE Finished' = Finished \cup {r}
  <2>1. Body!Finish(r)  BY <1>2 DEF Body!Finish, Finished
  <2> QED  BY <2>1 DEF BodyStep, Body!Next
<1> QED  BY <1>1, <1>2

LEMMA BodyStutters ==
    ASSUME UNCHANGED <<sent, rcvd, result>>, Finished' = Finished
    PROVE  BodyStep
BY DEF BodyStep, Body!vars, Finished

LEMMA BodyProduces ==
    ASSUME NEW r \in Requests, r \notin Finished, sent' = [sent EXCEPT ![r] = @ + 1],
           UNCHANGED <<rcvd, result>>, Finished' = Finished
    PROVE  BodyStep
<1>1. Body!Produce(r)  BY DEF Body!Produce, Finished
<1> QED  BY <1>1 DEF BodyStep, Body!Next

LEMMA BodyConsumed ==
    ASSUME NEW r \in Requests, result[r] = "none", rcvd[r] < sent[r],
           rcvd' = [rcvd EXCEPT ![r] = @ + 1], UNCHANGED <<sent, result>>, Finished' = Finished
    PROVE  BodyStep
<1>1. Body!Consume(r)  BY DEF Body!Consume, Finished
<1> QED  BY <1>1 DEF BodyStep, Body!Next

LEMMA BodyTells ==
    ASSUME TypeOK, NEW r \in Requests, result[r] = "none", NEW v \in Results \ {"none"},
           result' = [result EXCEPT ![r] = v],
           v \in {"end", "eos"} => r \in Finished /\ rcvd[r] = sent[r],
           UNCHANGED <<sent, rcvd>>, Finished' = Finished
    PROVE  BodyStep
<1> DEFINE told == [q \in Requests |-> IF result[q] = "none" THEN "none"
                                       ELSE IF result[q] \in {"end", "eos"} THEN "end" ELSE "failed"]
<1>0. result \in [Requests -> Results] /\ told[r] = "none"  BY TypeParts
<1>1. CASE v \in {"end", "eos"}
  <2>1. told' = [told EXCEPT ![r] = "end"]  BY <1>0, <1>1
  <2>2. Body!TellEnd(r)  BY <1>0, <1>1, <2>1 DEF Body!TellEnd, Finished
  <2> QED  BY <2>2 DEF BodyStep, Body!Next
<1>2. CASE v \notin {"end", "eos"}
  <2>1. told' = [told EXCEPT ![r] = "failed"]  BY <1>0, <1>2
  <2>2. Body!TellFailure(r)  BY <1>0, <1>2, <2>1 DEF Body!TellFailure, Finished
  <2> QED  BY <2>2 DEF BodyStep, Body!Next
<1> QED  BY <1>1, <1>2

\* Whose answer an item is.
LEMMA WireItems ==
    ASSUME TypeOK
    PROVE  /\ wire \in Seq(Item)
           /\ \A i \in DOMAIN wire : wire[i] \in Item /\ wire[i].s \in Requests
<1>1. wire \in Seq(Item)  BY DEF TypeOK
<1>2. \A i \in DOMAIN wire : wire[i] \in Item  BY <1>1
<1>3. \A e \in Item : e.s \in Requests  BY DEF Item
<1> QED  BY <1>1, <1>2, <1>3

LEMMA InitFeed == Init => Feed /\ Body!Init
<1> SUFFICES ASSUME Init PROVE Feed /\ Body!Init  OBVIOUS
<1>1. /\ wire = <<>> /\ DOMAIN wire = {} /\ srvUp = "up" /\ ended = {}
      /\ result = [r \in Requests |-> "none"]
      /\ \A r \in Requests : /\ phase[r] = "idle" /\ rcvd[r] = 0
                             /\ srv[r] = "none" /\ sent[r] = 0
  BY DEF Init
<1>2. Feed  BY <1>1 DEF Feed, OneServed, Signed, Fed, Serving
<1>3. Body!Init  BY <1>1 DEF Init, Body!Init, CutOff
<1> QED  BY <1>2, <1>3

\* A step of a task that takes nothing from the wire.
LEMMA QuietFeed ==
    ASSUME Feed, UNCHANGED <<wire, srv, sent, ended, rcvd>>,
           \A q \in Requests : phase'[q] \in {"idle", "sending", "head", "rejected", "open"}
                                 => phase'[q] = phase[q]
    PROVE  Feed'
<1>1. OneServed' /\ Signed'  BY DEF Feed, OneServed, Signed, Serving
<1>2. Unread' = Unread  BY DEF Unread, Count, Sort
<1>3. ASSUME NEW q \in Requests  PROVE Fed(q)'
  BY <1>2 DEF Feed, Fed, Answering
<1> QED  BY <1>1, <1>3 DEF Feed

\* The server gets r, whose task is sending it or has sent it.
LEMMA OpenFeed ==
    ASSUME FeedInv, NEW r \in Requests, phase[r] = "sending", phase'[r] \in {"sending", "head"},
           \A q \in Requests \ {r} : phase'[q] = phase[q] /\ srv'[q] = srv[q],
           srv'[r] = srv[r] \/ (srv[r] = "none" /\ srv'[r] = "open"),
           UNCHANGED <<wire, sent, ended, rcvd>>
    PROVE  Feed'
<1>1. \A q \in Requests \ {r} : ~Serving(q)
  <2>1. Owner(r)  BY DEF FeedInv, LeakInv, ExclusiveInv, Exclusive, Holds
  <2> QED  BY <2>1 DEF Owner
<1>2. OneServed'  BY <1>1 DEF OneServed, Serving
<1>3. Signed'
  <2>2. \A i \in DOMAIN wire : wire[i].s \in Requests
    BY WireItems DEF FeedInv, LeakInv, ExclusiveInv
  <2> QED  BY <2>2 DEF FeedInv, Feed, Signed
<1>4. Unread' = Unread  BY DEF Unread, Count, Sort
<1>5. ASSUME NEW q \in Requests  PROVE Fed(q)'
  <2>0. Fed(q)  BY DEF FeedInv, Feed
  <2>1. CASE q = r  BY <1>4, <2>0, <2>1 DEF Fed
  <2>2. CASE q # r  BY <1>4, <2>0, <2>2 DEF Fed, Answering
  <2> QED  BY <2>1, <2>2
<1> QED  BY <1>2, <1>3, <1>5 DEF Feed

\* A task parses the first item: one part less on the wire, if it is one.
LEMMA ParseFeed ==
    ASSUME FeedInv, NEW r \in Requests, Holds(r), Parses(r), UNCHANGED <<srv, sent, ended>>,
           \A q \in Requests \ {r} : phase'[q] = phase[q] /\ rcvd'[q] = rcvd[q],
           phase'[r] \notin {"idle", "sending", "head"},
           phase'[r] = "open" => phase[r] = "open" \/ Plain(r),
           phase'[r] \in {"rejected", "open"} =>
              /\ phase[r] \in {"head", "rejected", "open"}
              /\ rcvd'[r] = rcvd[r] + (IF Head(wire) \in Parts THEN 1 ELSE 0)
    PROVE  Feed'
<1>1. /\ wire \in Seq(Item) /\ wire # <<>> /\ wire' = Tail(wire) /\ Owner(r)
      /\ \A q \in Requests \ {r} : ~Holds(q)
      /\ rcvd \in [Requests -> Nat] /\ sent \in [Requests -> Nat]
      /\ srv \in [Requests -> Servings]
  BY TypeParts DEF FeedInv, LeakInv, ExclusiveInv, Exclusive, OneHolder, Parses
<1>2. \A i \in DOMAIN wire' : i + 1 \in DOMAIN wire /\ wire'[i] = wire[i + 1]
  BY <1>1
<1>3. OneServed' /\ Signed'
  BY <1>2 DEF FeedInv, Feed, OneServed, Serving, Signed
<1>4. Unread' = Unread - (IF Head(wire) \in Parts THEN 1 ELSE 0) /\ Unread \in Nat
  BY <1>1, CountTail, CountType DEF Unread
<1>5. Fed(r)'
  <2>0. Fed(r)  BY DEF FeedInv, Feed
  <2>1. phase'[r] \in {"rejected", "open"} => rcvd'[r] + Unread' = sent'[r]
    <3> SUFFICES ASSUME phase'[r] \in {"rejected", "open"}
                 PROVE  rcvd'[r] + Unread' = sent'[r]
      OBVIOUS
    <3>1. rcvd[r] + Unread = sent[r] /\ sent'[r] = sent[r] /\ rcvd[r] \in Nat
      BY <1>1, <2>0 DEF Fed
    <3>2. rcvd'[r] = rcvd[r] + (IF Head(wire) \in Parts THEN 1 ELSE 0)  OBVIOUS
    <3> QED  BY <1>4, <3>1, <3>2
  <2>2. phase'[r] = "open" => Answering(r)' \/ r \in ended'
    <3> SUFFICES ASSUME phase'[r] = "open" PROVE Answering(r) \/ r \in ended
      BY DEF Answering
    <3>1. CASE phase[r] = "open"  BY <2>0, <3>1 DEF Fed
    <3>2. CASE Plain(r)
      <4>1. 1 \in DOMAIN wire  BY <1>1
      <4>2. srv[r] \notin {"none", "open"}  
        BY <1>1, <4>1 DEF Owner, FeedInv, Feed, Signed
      <4> QED  BY <1>1, <2>0, <3>2, <4>2 DEF Fed, Answering, Servings
    <3> QED  BY <3>1, <3>2
  <2> QED  BY <2>0, <2>1, <2>2 DEF Fed
<1>6. ASSUME NEW q \in Requests \ {r}  PROVE Fed(q)'
  <2>1. Fed(q) /\ phase'[q] = phase[q] /\ rcvd'[q] = rcvd[q] /\ ~Holds(q)
    BY <1>1 DEF FeedInv, Feed
  <2> QED  BY <2>1 DEF Fed, Holds
<1> QED  BY <1>3, <1>5, <1>6 DEF Feed

\* The server, which is busy with r, sends something more, or ends its turn.
LEMMA ServerFeed ==
    ASSUME FeedInv, NEW r \in Requests, Serving(r), UNCHANGED <<phase, rcvd>>,
           \A q \in Requests \ {r} : srv'[q] = srv[q] /\ sent'[q] = sent[q],
           srv'[r] \in {"informed", "body", "eof_body", "done"},
           ended' \in {ended, ended \cup {r}}, r \in ended' => srv'[r] = "done",
           srv'[r] = "done" /\ Plain(r) => r \in ended',
           \/ wire' = wire /\ sent' = sent /\ srv[r] \notin {"none", "open"}
           \/ \E e \in Item : /\ wire' = Append(wire, e) /\ e.s = r
                              /\ sent'[r] = sent[r] + (IF e \in Parts THEN 1 ELSE 0)
                              /\ e.kind = "end" => r \in ended'
                              /\ e.kind \in {"data", "end"} => srv[r] \notin {"none", "open"}
    PROVE  Feed'
<1>1. /\ wire \in Seq(Item) /\ Unread \in Nat
      /\ rcvd \in [Requests -> Nat] /\ sent \in [Requests -> Nat]
      /\ \A q \in Requests : Holds(q) => Owner(q)
      /\ \A q \in Requests : Fits(q) /\ Fed(q)
  BY TypeParts, CountType DEF FeedInv, Feed, LeakInv, ExclusiveInv, Exclusive, Unread
<1>2. /\ \A q \in Requests \ {r} : ~Holds(q)
      /\ \A q \in Requests \ {r} : ~Serving(q)
  BY <1>1 DEF Owner, FeedInv, Feed, OneServed
<1>3. OneServed'  BY <1>2 DEF OneServed, Serving
<1>4. ASSUME NEW q \in Requests \ {r}  PROVE Fed(q)'
  <2>1. Fed(q) /\ ~Holds(q) /\ phase'[q] = phase[q] /\ rcvd'[q] = rcvd[q]
        /\ (q \in ended' <=> q \in ended)
    BY <1>1, <1>2
  <2> QED  BY <2>1 DEF Fed, Holds
<1>5. ASSUME rcvd[r] + Unread = sent[r] => rcvd[r] + Unread' = sent'[r],
             phase[r] \in {"sending", "head"} => wire' # <<>> /\ wire'[1].kind \notin {"data", "end"}
      PROVE  Fed(r)'
  <2>1. phase'[r] = phase[r] /\ rcvd'[r] = rcvd[r] /\ phase[r] # "idle"
    BY <1>1 DEF Fed, Serving
  <2>2. phase[r] = "open" => Answering(r)' \/ r \in ended'
    BY <1>1 DEF Fits, Answering
  <2> QED  BY <1>1, <1>5, <2>1, <2>2 DEF Fed
<1>6. \A q \in Requests : srv[q] \notin {"none", "open"} => srv'[q] \notin {"none", "open"}
  OBVIOUS
<1>7. CASE wire' = wire /\ sent' = sent /\ srv[r] \notin {"none", "open"}
  <2>1. Unread' = Unread  BY <1>7 DEF Unread, Count, Sort
  <2>2. Fed(r)'  BY <1>1, <1>5, <1>7, <2>1 DEF Fed
  <2>3. Signed'
    <3>1. \A i \in DOMAIN wire : wire[i].s \in Requests
      BY WireItems DEF FeedInv, LeakInv, ExclusiveInv
    <3> QED  BY <1>6, <1>7, <3>1 DEF FeedInv, Feed, Signed
  <2> QED  BY <1>3, <1>4, <2>2, <2>3 DEF Feed
<1>8. ASSUME NEW e \in Item, wire' = Append(wire, e), e.s = r,
             sent'[r] = sent[r] + (IF e \in Parts THEN 1 ELSE 0),
             e.kind = "end" => r \in ended',
             e.kind \in {"data", "end"} => srv[r] \notin {"none", "open"}
      PROVE  Feed'
  <2>1. Unread' = Unread + (IF e \in Parts THEN 1 ELSE 0)
    BY <1>1, <1>8, CountAppend DEF Unread
  <2>2. rcvd[r] + Unread = sent[r] => rcvd[r] + Unread' = sent'[r]
    <3>1. rcvd[r] \in Nat /\ sent[r] \in Nat  BY <1>1
    <3> QED  BY <1>1, <1>8, <2>1, <3>1
  <2>3. phase[r] \in {"sending", "head"} => wire' # <<>> /\ wire'[1].kind \notin {"data", "end"}
    <3> SUFFICES ASSUME phase[r] \in {"sending", "head"}
                 PROVE  wire' # <<>> /\ wire'[1].kind \notin {"data", "end"}
      OBVIOUS
    <3>1. CASE srv[r] \notin {"none", "open"}
      <4>1. wire # <<>> /\ wire[1].kind \notin {"data", "end"}  BY <1>1, <3>1 DEF Fed
      <4>2. wire' # <<>> /\ wire'[1] = wire[1]  BY <1>1, <1>8, <4>1
      <4> QED  BY <4>1, <4>2
    <3>2. CASE srv[r] \in {"none", "open"}
      <4>1. Owner(r)  BY <1>1 DEF Holds
      <4>2. DOMAIN wire = {}
        <5> SUFFICES ASSUME NEW i \in DOMAIN wire PROVE FALSE  OBVIOUS
        <5> QED  BY <3>2, <4>1 DEF Owner, FeedInv, Feed, Signed
      <4>3. wire = <<>>  BY <1>1, <4>2
      <4>4. wire' # <<>> /\ wire'[1] = e  BY <1>8, <4>3
      <4> QED  BY <1>8, <3>2, <4>4
    <3> QED  BY <3>1, <3>2
  <2>4. Fed(r)'  BY <1>5, <2>2, <2>3
  <2>5. Signed'
    <3>1. \A i \in DOMAIN wire' : (i \in DOMAIN wire /\ wire'[i] = wire[i]) \/ wire'[i] = e
      BY <1>1, <1>8
    <3>2. \A i \in DOMAIN wire : wire[i].s \in Requests
      BY WireItems DEF FeedInv, LeakInv, ExclusiveInv
    <3> QED  BY <1>6, <1>8, <3>1, <3>2 DEF FeedInv, Feed, Signed
  <2> QED  BY <1>3, <1>4, <2>4, <2>5 DEF Feed
<1> QED  BY <1>7, <1>8

\* What is finished changes only with the server.
LEMMA SameFinished ==
    ASSUME UNCHANGED <<ended, srvUp>>, srvUp = "up" \/ UNCHANGED srv
    PROVE  Finished' = Finished
BY DEF Finished, CutOff, Answering

\* Data, and what is on the wire when a task parses it.
LEMMA PartsAreData == ASSUME NEW e \in Item PROVE e \in Parts <=> e.kind = "data"
BY DEF Item, Parts

LEMMA FirstItem ==
    ASSUME FeedInv, NEW r \in Requests, Holds(r), wire # <<>>
    PROVE  LET e == Head(wire) IN
           /\ e \in Item /\ srv[r] \notin {"none", "open"} /\ e = wire[1]
           /\ e.kind = "data" /\ phase[r] \in {"rejected", "open"} => rcvd[r] < sent[r]
           /\ e.kind = "end" /\ phase[r] \in {"rejected", "open"} =>
                r \in ended /\ rcvd[r] = sent[r]
           /\ phase[r] = "head" => e.kind \notin {"data", "end"}
<1> DEFINE e == Head(wire)
<1>1. /\ wire \in Seq(Item) /\ e \in Item /\ e = wire[1] /\ 1 \in DOMAIN wire
      /\ Tail(wire) \in Seq(Item)
      /\ Owner(r) /\ rcvd[r] \in Nat /\ sent[r] \in Nat /\ Fed(r)
  BY TypeParts, WireItems DEF FeedInv, Feed, LeakInv, ExclusiveInv, Exclusive
<1>2. e.s = r /\ srv[r] \notin {"none", "open"}
  BY <1>1 DEF Owner, FeedInv, Feed, Signed
<1>3. /\ Count(Tail(wire), Parts) = Unread - (IF e \in Parts THEN 1 ELSE 0)
      /\ Count(Tail(wire), Parts) \in Nat /\ Unread \in Nat
  BY <1>1, CountTail, CountType DEF Unread
<1>4. phase[r] = "head" => e.kind \notin {"data", "end"}  BY <1>1, <1>2 DEF Fed
<1>5. e \in Parts <=> e.kind = "data"  BY <1>1, PartsAreData
<1> HIDE DEF e
<1>6. e.kind = "data" /\ phase[r] \in {"rejected", "open"} => rcvd[r] < sent[r]
  <2> SUFFICES ASSUME e.kind = "data", phase[r] \in {"rejected", "open"}
               PROVE  rcvd[r] < sent[r]
    OBVIOUS
  <2>1. rcvd[r] + Unread = sent[r]  BY <1>1 DEF Fed
  <2>2. Unread >= 1  BY <1>3, <1>5
  <2> QED  BY <1>1, <1>3, <2>1, <2>2
<1>7. e.kind = "end" /\ phase[r] \in {"rejected", "open"} => r \in ended /\ rcvd[r] = sent[r]
  <2> SUFFICES ASSUME e.kind = "end", phase[r] \in {"rejected", "open"}
               PROVE  r \in ended /\ rcvd[r] = sent[r]
    OBVIOUS
  <2>1. rcvd[r] + Unread = sent[r]  BY <1>1 DEF Fed
  <2>2. Len(wire) = 1  BY <1>1 DEF Owner
  <2>3. DOMAIN Tail(wire) = {}
    <3>1. wire \in Seq(Item) /\ wire # <<>>  BY <1>1
    <3>2. Len(Tail(wire)) = Len(wire) - 1 /\ DOMAIN Tail(wire) = 1 .. Len(Tail(wire))
      BY <3>1
    <3>3. Len(Tail(wire)) = 0  BY <2>2, <3>2
    <3>4. DOMAIN Tail(wire) = 1 .. 0  BY <3>2, <3>3, Zenon
    <3> QED  BY <3>4
  <2>4. Count(Tail(wire), Parts) = 0  BY <2>3, CountNone
  <2>5. Unread = 0  BY <1>3, <1>5, <2>4
  <2>6. r \in ended  BY <1>1, <1>2 DEF FeedInv, Feed, Signed
  <2> QED  BY <1>1, <2>1, <2>5, <2>6
<1> QED  BY <1>1, <1>2, <1>4, <1>6, <1>7 DEF e

\* The tasks and the streams.
LEMMA TaskFeed ==
    ASSUME FeedInv, NEW r \in Requests,
           Task(r) \/ Start(r) \/ Cancel(r) \/ Close(r) \/ CloseTunnel(r)
    PROVE  Feed' /\ BodyStep
<1>0. /\ TypeOK /\ ExclusiveInv /\ Feed /\ Fed(r) /\ Fits(r) /\ wire \in Seq(Item)
      /\ phase \in [Requests -> Phases] /\ result \in [Requests -> Results]
      /\ rcvd \in [Requests -> Nat] /\ sent \in [Requests -> Nat]
      /\ srv \in [Requests -> Servings]
  BY TypeParts DEF FeedInv, Feed, LeakInv, ExclusiveInv
<1>1. CASE Start(r)
  <2>1. /\ phase[r] = "idle" /\ phase'[r] = "sending" /\ UNCHANGED <<result, rcvd, server>>
        /\ \A q \in Requests \ {r} : phase'[q] = phase[q]
    BY <1>0, <1>1 DEF Start
  <2>2. wire = <<>> /\ \A q \in Requests : ~Holds(q)
    BY <1>0, <1>1 DEF Start, available_slots, ExclusiveInv, Exclusive, Free
  <2>3. Unread' = Unread /\ Unread = 0
    <3>1. DOMAIN wire = {}  BY <2>2
    <3> QED  BY <2>1, <3>1, CountNone DEF Unread, Count, Sort, server
  <2>4. OneServed' /\ Signed'  BY <1>0, <2>1 DEF Feed, OneServed, Signed, Serving, server
  <2>5. ASSUME NEW q \in Requests  PROVE Fed(q)'
    <3>1. Fed(q) /\ UNCHANGED <<wire, srv, sent, ended, rcvd>>  BY <1>0, <2>1 DEF Feed, server
    <3>2. CASE q = r  BY <2>1, <2>3, <3>1, <3>2 DEF Fed
    <3>3. CASE q # r  BY <2>1, <2>2, <3>1, <3>3 DEF Fed, Holds, Answering
    <3> QED  BY <3>2, <3>3
  <2>6. BodyStep  BY <2>1, SameFinished, BodyStutters DEF server
  <2> QED  BY <2>4, <2>5, <2>6 DEF Feed
<1>2. ASSUME NEW p \in {"failed", "over", "raised", "closed"}, NEW res \in Results \ {"none"},
             Outcome(r, p, res), result[r] = "none", UNCHANGED <<rcvd, server>>,
             res \in {"end", "eos"} => r \in Finished /\ rcvd[r] = sent[r]
      PROVE  Feed' /\ BodyStep
  <2>1. UNCHANGED <<wire, srv, sent, ended, rcvd, srvUp>>  BY <1>2 DEF server
  <2>2. \A q \in Requests : phase'[q] \in {"idle", "sending", "head", "rejected", "open"}
                              => phase'[q] = phase[q]
    BY <1>0, <1>2 DEF Outcome
  <2>3. Feed'  BY <1>0, <2>1, <2>2, QuietFeed
  <2>4. Finished' = Finished  BY <2>1, SameFinished
  <2>5. result' = [result EXCEPT ![r] = res]  BY <1>2 DEF Outcome
  <2>6. BodyStep  BY <1>0, <1>2, <2>1, <2>4, <2>5, BodyTells
  <2> QED  BY <2>3, <2>6
<1>3. {"error", "cancelled", "rejected", "eos", "closed", "end"} \subseteq Results \ {"none"}
  BY DEF Results
<1>4. CASE FinishSend(r)
  <2>1. phase[r] = "sending" /\ result[r] = "none"  BY <1>0, <1>4 DEF FinishSend, Fits
  <2>2. CASE Raises(r, "error", h11) /\ UNCHANGED srv
    <3>1. UNCHANGED <<rcvd, server>>  BY <1>4, <2>2 DEF FinishSend, server
    <3>2. Outcome(r, "failed", "error")  BY <2>2 DEF Raises
    <3> QED  BY <1>2, <1>3, <2>1, <3>1, <3>2
  <2>3. CASE /\ phase' = [phase EXCEPT ![r] = "head"] /\ UNCHANGED result
             /\ srv' = [srv EXCEPT ![r] =
                          IF @ = "none" /\ srvUp = "up" THEN "open" ELSE @]
    <3>1. /\ UNCHANGED <<wire, sent, ended, rcvd, srvUp>> /\ phase'[r] = "head"
          /\ \A q \in Requests \ {r} : phase'[q] = phase[q] /\ srv'[q] = srv[q]
      BY <1>0, <1>4, <2>3 DEF FinishSend
    <3>2. CASE srv[r] = "none" /\ srvUp = "up"
      <4>1. srv'[r] = "open"  BY <1>0, <2>3, <3>2
      <4>2. Feed'  BY <2>1, <3>1, <3>2, <4>1, OpenFeed
      <4>3. BodyStep  BY <2>3, <3>1, <3>2, SameFinished, BodyStutters
      <4> QED  BY <4>2, <4>3
    <3>3. CASE ~(srv[r] = "none" /\ srvUp = "up")
      <4>1. srv' = srv  BY <1>0, <2>3, <3>3
      <4>2. Feed'  BY <2>1, <3>1, <4>1, OpenFeed
      <4>3. BodyStep  BY <2>3, <3>1, <4>1, SameFinished, BodyStutters
      <4> QED  BY <4>2, <4>3
    <3> QED  BY <3>2, <3>3
  <2> QED  BY <1>4, <2>2, <2>3 DEF FinishSend
<1>5. ASSUME NEW e \in Item, e = Head(wire), Parses(r), Holds(r), UNCHANGED <<srv, sent, ended, srvUp>>,
             e.kind = "data", phase[r] \in {"rejected", "open"},
             rcvd' = [rcvd EXCEPT ![r] = @ + 1], UNCHANGED <<phase, result>>
      PROVE  Feed' /\ BodyStep
  <2>1. result[r] = "none"  BY <1>0, <1>5 DEF Fits
  <2>2. rcvd[r] < sent[r]  BY <1>5, FirstItem DEF Parses
  <2>3. BodyStep  BY <1>5, <2>1, <2>2, SameFinished, BodyConsumed
  <2>4. Head(wire) \in Parts  BY <1>5, PartsAreData
  <2>5. /\ \A q \in Requests \ {r} : phase'[q] = phase[q] /\ rcvd'[q] = rcvd[q]
        /\ phase'[r] = phase[r] /\ rcvd'[r] = rcvd[r] + 1
    BY <1>0, <1>5
  <2>6. Feed'  BY <1>5, <2>4, <2>5, ParseFeed
  <2> QED  BY <2>3, <2>6
<1>6. ASSUME NEW p \in {"failed", "over", "raised"}, NEW res \in Results \ {"none"},
             Outcome(r, p, res), Parses(r), phase[r] \in {"rejected", "open"},
             UNCHANGED <<srv, sent, ended, srvUp, rcvd>>,
             res \in {"end", "eos"} => Head(wire).kind = "end"
      PROVE  Feed' /\ BodyStep
  <2>1. result[r] = "none" /\ Holds(r)  BY <1>0, <1>6 DEF Fits, Holds
  <2>2. res \in {"end", "eos"} => r \in Finished /\ rcvd[r] = sent[r]
    BY <1>6, <2>1, FirstItem DEF Parses, Finished
  <2>3. BodyStep  BY <1>0, <1>6, <2>1, <2>2, SameFinished, BodyTells DEF Outcome
  <2>4. phase'[r] = p /\ \A q \in Requests \ {r} : phase'[q] = phase[q] /\ rcvd'[q] = rcvd[q]
    BY <1>0, <1>6 DEF Outcome
  <2>5. Feed'  BY <1>6, <2>1, <2>4, ParseFeed
  <2> QED  BY <2>3, <2>5
<1>7. CASE ReceiveHead(r)
  <2> DEFINE e == Head(wire)
  <2>1. /\ phase[r] = "head" /\ Holds(r) /\ Parses(r) /\ wire # <<>>
        /\ UNCHANGED <<result, rcvd, srv, sent, ended, srvUp>>
        /\ phase' = [phase EXCEPT ![r] =
                       CASE r \in Connects \/ e.kind = "switch" -> "tunnel"
                         [] r \in WebSockets /\ e.kind # "switch" -> "rejected"
                         [] OTHER -> "open"]
    BY <1>7 DEF ReceiveHead, Holds, Parses
  <2>2. e \in Item /\ e.kind \notin {"data", "end"} /\ e \notin Parts
    BY <2>1, FirstItem, PartsAreData
  <2> HIDE DEF e
  <2>3. phase'[r] \in {"tunnel", "rejected", "open"} /\ (phase'[r] = "open" => Plain(r))
    <3>1. phase'[r] = CASE r \in Connects \/ e.kind = "switch" -> "tunnel"
                        [] r \in WebSockets /\ e.kind # "switch" -> "rejected"
                        [] OTHER -> "open"
      BY <1>0, <2>1
    <3>2. phase'[r] \in {"tunnel", "rejected"} \/ (phase'[r] = "open" /\ Plain(r))
      <4>1. CASE r \in Connects \/ e.kind = "switch"
        <5>1. phase'[r] \in {"tunnel", "rejected"}  BY <3>1, <4>1, Zenon
        <5> QED  BY <5>1
      <4>2. CASE ~(r \in Connects \/ e.kind = "switch") /\ r \in WebSockets
        <5>1. phase'[r] = "rejected"  BY <3>1, <4>2, Zenon
        <5> QED  BY <5>1
      <4>3. CASE ~(r \in Connects \/ e.kind = "switch") /\ r \notin WebSockets
        <5>1. phase'[r] = "open"  BY <3>1, <4>3, Zenon
        <5> QED  BY <4>3, <5>1 DEF Plain
      <4> QED  BY <4>1, <4>2, <4>3
    <3> QED  BY <3>2
  <2>4. \A q \in Requests \ {r} : phase'[q] = phase[q] /\ rcvd'[q] = rcvd[q]
    BY <1>0, <2>1
  <2>5. rcvd'[r] = rcvd[r] + (IF Head(wire) \in Parts THEN 1 ELSE 0)
    BY <1>0, <2>1, <2>2 DEF e
  <2>6. Feed'  BY <2>1, <2>3, <2>4, <2>5, ParseFeed
  <2>7. BodyStep  BY <2>1, SameFinished, BodyStutters
  <2> QED  BY <2>6, <2>7
<1>8. CASE ReceiveRejection(r)
  <2>1. phase[r] = "rejected" /\ Holds(r) /\ Parses(r) /\ UNCHANGED <<srv, sent, ended, srvUp>>
        /\ Head(wire) \in Item
    BY <1>0, <1>8 DEF ReceiveRejection, Holds, Parses
  <2>2. CASE Head(wire).kind = "data" /\ rcvd' = [rcvd EXCEPT ![r] = @ + 1] /\ UNCHANGED <<phase, result>>
    BY <1>5, <2>1, <2>2
  <2>3. CASE Outcome(r, "failed", "rejected") /\ UNCHANGED rcvd
    BY <1>3, <1>6, <2>1, <2>3
  <2>4. CASE Raises(r, "error", Parsed(h11, Head(wire))) /\ UNCHANGED rcvd
    BY <1>3, <1>6, <2>1, <2>4 DEF Raises
  <2> QED  BY <1>8, <2>2, <2>3, <2>4 DEF ReceiveRejection
<1>9. CASE ReceiveBody(r)
  <2>1. phase[r] = "open" /\ Holds(r) /\ Parses(r) /\ UNCHANGED <<srv, sent, ended, srvUp>>
        /\ Head(wire) \in Item
    BY <1>0, <1>9 DEF ReceiveBody, Holds, Parses
  <2>2. CASE Head(wire).kind = "data" /\ rcvd' = [rcvd EXCEPT ![r] = @ + 1] /\ UNCHANGED <<phase, result>>
    BY <1>5, <2>1, <2>2
  <2>3. CASE Head(wire).kind = "end" /\ Outcome(r, "over", "end") /\ UNCHANGED rcvd
    BY <1>3, <1>6, <2>1, <2>3
  <2>4. CASE Outcome(r, "raised", "error") /\ UNCHANGED rcvd
    BY <1>3, <1>6, <2>1, <2>4
  <2> QED  BY <1>9, <2>2, <2>3, <2>4 DEF ReceiveBody
<1>10. CASE ReceiveEof(r)
  <2>1. UNCHANGED <<rcvd, server>> /\ phase[r] \in {"head", "rejected", "open"} /\ result[r] = "none"
    BY <1>0, <1>10 DEF ReceiveEof, Fits
  <2>2. CASE Raises(r, "error", h11)  BY <1>2, <1>3, <2>1, <2>2 DEF Raises
  <2>3. CASE Outcome(r, "failed", "rejected")  BY <1>2, <1>3, <2>1, <2>3
  <2>4. CASE Outcome(r, "raised", "error")  BY <1>2, <1>3, <2>1, <2>4
  <2>5. CASE phase[r] = "open" /\ transport = "up" /\ Outcome(r, "over", "eos")
    <3>1. srvUp = "eof" /\ wire = <<>>  BY <1>10, <2>5 DEF ReceiveEof
    <3>2. Unread = 0
      <4>1. DOMAIN wire = {}  BY <3>1
      <4> QED  BY <4>1, CountNone DEF Unread
    <3>3. rcvd[r] = sent[r]  BY <1>0, <2>5, <3>2 DEF Fed
    <3>4. r \in Finished  BY <1>0, <2>5, <3>1 DEF Fed, Finished, CutOff
    <3> QED  BY <1>2, <1>3, <2>1, <2>5, <3>3, <3>4
  <2> QED  BY <1>10, <2>2, <2>3, <2>4, <2>5 DEF ReceiveEof
<1>11. CASE Cancel(r)
  <2>1. UNCHANGED <<rcvd, server>> /\ result[r] = "none"  BY <1>0, <1>11 DEF Cancel, Fits
  <2>2. CASE Raises(r, "cancelled", h11)  BY <1>2, <1>3, <2>1, <2>2 DEF Raises
  <2>3. CASE Outcome(r, "raised", "cancelled")  BY <1>2, <1>3, <2>1, <2>3
  <2> QED  BY <1>11, <2>2, <2>3 DEF Cancel
<1>12. CASE Close(r)
  <2>1. /\ UNCHANGED <<rcvd, server>>
        /\ Outcome(r, "closed", IF result[r] = "none" THEN "closed" ELSE result[r])
    BY <1>12 DEF Close
  <2>2. CASE result[r] = "none"  BY <1>2, <1>3, <2>1, <2>2
  <2>3. CASE result[r] # "none"
    <3>1. result' = result /\ phase' = [phase EXCEPT ![r] = "closed"]
      BY <1>0, <2>1, <2>3 DEF Outcome
    <3>2. \A q \in Requests : phase'[q] \in {"idle", "sending", "head", "rejected", "open"}
                                => phase'[q] = phase[q]
      BY <1>0, <3>1
    <3>3. Feed'  BY <1>0, <2>1, <3>2, QuietFeed DEF server
    <3>4. BodyStep  BY <2>1, <3>1, SameFinished, BodyStutters DEF server
    <3> QED  BY <3>3, <3>4
  <2> QED  BY <2>2, <2>3
<1>13. CASE CloseTunnel(r)
  <2>1. UNCHANGED <<rcvd, result, server>> /\ phase' = [phase EXCEPT ![r] = "closed"]
    BY <1>13 DEF CloseTunnel
  <2>2. \A q \in Requests : phase'[q] \in {"idle", "sending", "head", "rejected", "open"}
                              => phase'[q] = phase[q]
    BY <1>0, <2>1
  <2>3. Feed'  BY <1>0, <2>1, <2>2, QuietFeed DEF server
  <2>4. BodyStep  BY <2>1, SameFinished, BodyStutters DEF server
  <2> QED  BY <2>3, <2>4
<1> QED
  BY <1>1, <1>4, <1>7, <1>8, <1>9, <1>10, <1>11, <1>12, <1>13 DEF Task

\* The server, which is up and serves one request at a time.
LEMMA AnswerFeed ==
    ASSUME FeedInv, NEW r \in Requests, Inform(r) \/ Answer(r) \/ SendData(r)
    PROVE  Feed' /\ BodyStep
<1>0. /\ TypeOK /\ Feed /\ Fed(r) /\ Fits(r)
      /\ sent \in [Requests -> Nat] /\ srv \in [Requests -> Servings]
  BY TypeParts DEF FeedInv, Feed, LeakInv, ExclusiveInv
<1>1. srvUp = "up" /\ UNCHANGED <<phase, rcvd, result>> /\ Finished = ended
  <2>1. srvUp = "up" /\ UNCHANGED <<phase, rcvd, result>>
    BY DEF Inform, Answer, Switch, Respond, EndBody, SendData, ClientWaits, consumer, ServerTurn
  <2> QED  BY <2>1 DEF Finished, CutOff
<1>2. \A k \in Responses \cup {"info", "switch", "data", "end"}, n \in Nat :
        LET e == [kind |-> k, s |-> r, n |-> n] IN
        /\ e \in Item /\ e.s = r /\ e.kind = k
        /\ e \in Parts <=> k = "data"
  BY DEF Item, Parts
<1>3. ASSUME NEW k \in Responses \cup {"info", "switch"}, Transmit(k, r, 0), Awaiting(r),
             NEW v \in {"informed", "body", "eof_body", "done"}, srv' = [srv EXCEPT ![r] = v],
             UNCHANGED <<sent, ended, srvUp>>, v = "done" => ~Plain(r)
      PROVE  Feed' /\ BodyStep
  <2> DEFINE e == [kind |-> k, s |-> r, n |-> 0]
  <2>1. k \in Responses \cup {"info", "switch", "data", "end"} /\ k \notin {"data", "end"} /\ 0 \in Nat
    BY DEF Responses
  <2>2. e \in Item /\ e.s = r /\ e.kind \notin {"data", "end"} /\ e \notin Parts
    BY <1>2, <2>1
  <2>3. wire' = Append(wire, e)  BY <1>3 DEF Transmit
  <2> HIDE DEF e
  <2>4. sent'[r] = sent[r] + (IF e \in Parts THEN 1 ELSE 0)  BY <1>0, <1>3, <2>2
  <2>5. Serving(r) /\ r \notin ended  BY <1>0, <1>3 DEF Awaiting, Serving, Fed
  <2>6. srv'[r] = v /\ \A q \in Requests \ {r} : srv'[q] = srv[q] /\ sent'[q] = sent[q]
    BY <1>0, <1>3
  <2>7. Feed'
    BY <1>1, <1>3, <2>2, <2>3, <2>4, <2>5, <2>6, ServerFeed
  <2>8. BodyStep  BY <1>1, <1>3, SameFinished, BodyStutters
  <2> QED  BY <2>7, <2>8
<1>4. CASE Inform(r)  BY <1>3, <1>4 DEF Inform
<1>5. CASE Switch(r)  BY <1>3, <1>5 DEF Switch, Plain
<1>6. CASE Respond(r)
  <2>1. PICK k \in Responses :
          /\ Transmit(k, r, 0)
          /\ srv' = [srv EXCEPT ![r] = IF k = "until_close" THEN "eof_body" ELSE "body"]
    BY <1>6 DEF Respond
  <2>2. PICK v \in {"eof_body", "body"} : srv' = [srv EXCEPT ![r] = v]  BY <2>1
  <2>3. Awaiting(r) /\ UNCHANGED <<sent, ended, srvUp>>  BY <1>6 DEF Respond
  <2> QED  BY <1>3, <2>1, <2>2, <2>3
<1>7. CASE SendData(r)
  <2> DEFINE e == [kind |-> "data", s |-> r, n |-> sent[r] + 1]
  <2>1. /\ srv[r] \in {"body", "eof_body"} /\ sent' = [sent EXCEPT ![r] = @ + 1]
        /\ wire' = Append(wire, e) /\ UNCHANGED <<srv, ended, srvUp>>
    BY <1>7 DEF SendData, Transmit
  <2>2. e \in Item /\ e.s = r /\ e.kind = "data" /\ e \in Parts
    <3>1. sent[r] + 1 \in Nat  BY <1>0
    <3> QED  BY <1>2, <3>1
  <2> HIDE DEF e
  <2>3. sent'[r] = sent[r] + (IF e \in Parts THEN 1 ELSE 0)  BY <1>0, <2>1, <2>2
  <2>4. Serving(r) /\ r \notin ended  BY <1>0, <2>1 DEF Serving, Fed
  <2>5. /\ \A q \in Requests \ {r} : srv'[q] = srv[q] /\ sent'[q] = sent[q]
        /\ srv'[r] \in {"body", "eof_body"}
    BY <1>0, <2>1
  <2>6. Feed'
    BY <1>1, <2>1, <2>2, <2>3, <2>4, <2>5, ServerFeed
  <2>7. BodyStep
    BY <1>1, <2>1, <2>4, SameFinished, BodyProduces
  <2> QED  BY <2>6, <2>7
<1>8. CASE EndBody(r)
  <2>1. /\ srv[r] \in {"body", "eof_body"} /\ srv' = [srv EXCEPT ![r] = "done"]
        /\ ended' = ended \cup {r} /\ UNCHANGED sent
    BY <1>8 DEF EndBody
  <2>2. Serving(r)  BY <2>1 DEF Serving
  <2>3. /\ \A q \in Requests \ {r} : srv'[q] = srv[q] /\ sent'[q] = sent[q]
        /\ srv'[r] = "done" /\ sent'[r] = sent[r]
    BY <1>0, <2>1
  <2>8. /\ ended' \in {ended, ended \cup {r}} /\ r \in ended'
        /\ srv[r] \notin {"none", "open"} /\ srv'[r] \in {"informed", "body", "eof_body", "done"}
    BY <2>1, <2>3
  <2>4. ASSUME Transmit("end", r, sent[r])  PROVE Feed'
    <3> DEFINE e == [kind |-> "end", s |-> r, n |-> sent[r]]
    <3>1. e \in Item /\ e.s = r /\ e.kind = "end" /\ e \notin Parts
      <4>1. sent[r] \in Nat  BY <1>0
      <4> QED  BY <1>2, <4>1
    <3>2. wire' = Append(wire, e)  BY <2>4 DEF Transmit
    <3> HIDE DEF e
    <3>3. sent'[r] = sent[r] + (IF e \in Parts THEN 1 ELSE 0)  BY <1>0, <2>3, <3>1
    <3> QED  BY <1>1, <2>2, <2>3, <2>8, <3>1, <3>2, <3>3, ServerFeed
  <2>5. ASSUME wire' = wire  PROVE Feed'
    BY <1>1, <2>1, <2>2, <2>3, <2>5, <2>8, ServerFeed
  <2>6. Feed'  BY <1>8, <2>4, <2>5 DEF EndBody
  <2>7. Finished' = Finished \cup {r}
    <3>1. \A q \in Requests : ~Answering(q)'
      BY <1>0, <2>2, <2>3 DEF Feed, OneServed, Answering, Serving
    <3> QED  BY <1>1, <2>1, <3>1 DEF Finished, CutOff
  <2> QED  BY <1>1, <2>1, <2>6, <2>7, BodyFinishes
<1> QED  BY <1>4, <1>5, <1>6, <1>7, <1>8 DEF Answer

LEMMA NextFeed == FeedInv /\ [Next]_vars => Feed' /\ BodyStep
<1> SUFFICES ASSUME FeedInv, [Next]_vars PROVE Feed' /\ BodyStep  OBVIOUS
<1>0. TypeOK /\ Feed /\ srv \in [Requests -> Servings]
  BY TypeParts DEF FeedInv, LeakInv, ExclusiveInv
<1>1. ASSUME UNCHANGED <<consumer, wire, srv, sent, ended>>
      PROVE  Feed'
  BY <1>0, <1>1, QuietFeed DEF consumer
<1>2. CASE Exit \/ UNCHANGED vars
  <2>1. UNCHANGED <<consumer, server>>  BY <1>2 DEF Exit, vars
  <2> QED  BY <1>1, <2>1, SameFinished, BodyStutters DEF server, consumer
<1>3. CASE ServerClose
  <2>1. /\ UNCHANGED <<consumer, wire, srv, sent, ended>>
        /\ srvUp = "up" /\ srvUp' = "eof"
    BY <1>3 DEF ServerClose, ClientWaits, ServerTurn
  <2>2. Finished = ended /\ Finished' = ended \cup {q \in Requests : Answering(q)}
    BY <2>1 DEF Finished, CutOff, Answering
  <2>3. CASE \A q \in Requests : ~Answering(q)
    <3>1. Finished' = Finished  BY <2>2, <2>3
    <3> QED  BY <1>1, <2>1, <3>1, BodyStutters DEF consumer
  <2>4. ASSUME NEW r \in Requests, Answering(r)  PROVE Feed' /\ BodyStep
    <3>1. \A q \in Requests : Answering(q) => q = r
      BY <1>0, <2>4 DEF Feed, OneServed, Answering, Serving
    <3>2. Finished' = Finished \cup {r}  BY <2>2, <2>4, <3>1
    <3> QED  BY <1>1, <2>1, <3>2, BodyFinishes DEF consumer
  <2> QED  BY <2>3, <2>4
<1>4. ASSUME NEW r \in Requests, Early(r)  PROVE Feed' /\ BodyStep
  <2>1. /\ phase[r] = "sending" /\ srv[r] = "none" /\ srvUp = "up"
        /\ srv' = [srv EXCEPT ![r] = "open"]
        /\ UNCHANGED <<phase, result, rcvd, wire, sent, ended, srvUp>>
    BY <1>4 DEF Early, ClientWaits, consumer, ServerTurn
  <2>2. srv'[r] = "open" /\ \A q \in Requests \ {r} : srv'[q] = srv[q]  BY <1>0, <2>1
  <2>3. Feed'  BY <2>1, <2>2, OpenFeed
  <2>4. BodyStep  BY <2>1, SameFinished, BodyStutters
  <2> QED  BY <2>3, <2>4
<1> QED
  BY <1>2, <1>3, <1>4, TaskFeed, AnswerFeed DEF Next

\* For any requests, tunnels, closings, cancellations and transports that end:
\* what each task sees of its response is a body that comes in order, and whose
\* end it is told only once it has all that the server sent (_http11.py:288-317,
\* _connection.py:41-58).
THEOREM ResponsesAreBodies == Spec => ImplementsResponseBody
<1>1. Init => FeedInv /\ Body!Init  BY InitLeak, InitFeed DEF FeedInv
<1>2. FeedInv /\ [Next]_vars => FeedInv' /\ [Body!Next]_(Body!vars)
  BY NextLeak, NextFeed DEF FeedInv, BodyStep
<1> QED  BY <1>1, <1>2, PTL DEF Spec, ImplementsResponseBody, Body!Spec
=============================================================================
