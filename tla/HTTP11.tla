-------------------------------- MODULE HTTP11 -------------------------------
(***************************************************************************)
(* HTTP11Connection, HTTP11TunnelStream and HTTP11ResponseStream           *)
(* (_http11.py): one connection that the pool lends to one request after   *)
(* another, while h11 says that it is IDLE.  Each request is a task.  h11  *)
(* (the record h11), the transport and the server are external and appear  *)
(* as _http11.py uses them.  Requests are plain ones, WebSocket handshakes *)
(* (connect_ws) or CONNECTs (connect).                                     *)
(***************************************************************************)
EXTENDS Naturals, Sequences

CONSTANTS Requests,
          WebSockets,   \* those made with connect_ws()
          Connects,     \* those made with connect()
          MaxData,      \* bound: parts of one response body
          Env,          \* which of EnvKinds may happen
          MaxEnv        \* bound: how many of them, in one behaviour

EnvKinds == {"close",     \* the consumer closes a response before its end
             "cancel",    \* a task is cancelled, or its request body raises
             "exit",      \* the client closes the connection
             "eof",       \* the server closes the transport between responses
             "truncate",  \* or in the middle of one
             "early",     \* the server answers before it has the whole body
             "info",      \* the server sends a 1xx response first
             "ws_info"}   \* the same, before the 101 of a WebSocket

ASSUME HTTP11Assumption ==
    /\ WebSockets \subseteq Requests /\ Connects \subseteq Requests
    /\ WebSockets \cap Connects = {}
    /\ MaxData \in Nat /\ MaxEnv \in Nat
    /\ Env \subseteq EnvKinds

\* "response": more requests may follow it; "last": Connection: close, framed;
\* "until_close": its body ends where the transport does.
Responses == {"response", "last", "until_close"}
Item == [kind : Responses \cup {"info", "switch", "data", "end"},
         s : Requests, n : Nat]

VARIABLES
    h11,        \* h11's two states, keep_alive, and the pending switch proposal
    transport,  \* this end: "up" or "closed"
    phase,      \* where each request's task is
    result,     \* how its response ended, as the task saw it
    rcvd,       \* parts of the body it has received
    exit,       \* aclose() at the client's exit: "no", "done" or "raised"
    wire,       \* what the server has sent and h11 has not parsed
    srv,        \* the server's view of each request
    sent,       \* parts of the body it has sent
    ended,      \* the requests whose response it has finished
    srvUp,      \* the server's end: "up" or "eof"
    budget      \* environment events that may still happen

consumer == <<phase, result, rcvd>>
server   == <<wire, srv, sent, ended, srvUp>>
vars     == <<h11, transport, consumer, exit, server, budget>>

Phases == {"idle", "sending", "head", "rejected", "open", "over", "raised",
           "tunnel", "closed", "failed"}

TypeOK ==
    /\ h11 \in [us : {"IDLE", "SEND_BODY", "DONE", "MUST_CLOSE", "CLOSED",
                      "MIGHT_SWITCH", "SWITCHED", "ERROR"},
                them : {"IDLE", "SEND_RESPONSE", "SEND_BODY", "DONE",
                        "MUST_CLOSE", "SWITCHED"},
                keep : BOOLEAN, switch : BOOLEAN]
    /\ transport \in {"up", "closed"}
    /\ phase \in [Requests -> Phases]
    /\ result \in [Requests -> {"none", "end", "eos", "closed", "cancelled",
                                "rejected", "error"}]
    /\ rcvd \in [Requests -> Nat]
    /\ exit \in {"no", "done", "raised"}
    /\ wire \in Seq(Item)
    /\ srv \in [Requests -> {"none", "open", "informed", "body", "eof_body", "done"}]
    /\ sent \in [Requests -> Nat]
    /\ ended \subseteq Requests
    /\ srvUp \in {"up", "eof"}
    /\ budget \in Nat

Init ==
    /\ h11 = [us |-> "IDLE", them |-> "IDLE", keep |-> TRUE, switch |-> FALSE]
    /\ transport = "up" /\ exit = "no"
    /\ phase = [r \in Requests |-> "idle"]
    /\ result = [r \in Requests |-> "none"]
    /\ rcvd = [r \in Requests |-> 0]
    /\ wire = <<>> /\ srvUp = "up"
    /\ srv = [r \in Requests |-> "none"] /\ sent = [r \in Requests |-> 0]
    /\ ended = {} /\ budget = MaxEnv

Environment(kind) == kind \in Env /\ budget > 0 /\ budget' = budget - 1

-----------------------------------------------------------------------------
(* h11 *)

SettleClosed(h) ==                                                  \* mutant
    [h EXCEPT !.us = IF h.switch /\ @ = "DONE" THEN "MIGHT_SWITCH" ELSE @,
              !.them = IF h.us = "CLOSED" THEN "CLOSED" ELSE @]

\* The transitions that follow every event: a pending switch proposal holds the
\* client in MIGHT_SWITCH, no keep_alive turns DONE into MUST_CLOSE, and a
\* client that is CLOSED or in ERROR has its server close as well.
Settle(h) ==
    LET us1  == CASE h.switch /\ h.us = "DONE" -> "MIGHT_SWITCH"
                  [] ~h.switch /\ h.us = "MIGHT_SWITCH" -> "DONE"
                  [] OTHER -> h.us
        us2  == CASE ~h.keep /\ us1 = "DONE" -> "MUST_CLOSE"
                  [] us1 = "MIGHT_SWITCH" /\ h.them = "SWITCHED" -> "SWITCHED"
                  [] OTHER -> us1
        them == IF \/ h.them = "DONE" /\ (~h.keep \/ us2 \in {"CLOSED", "ERROR"})
                   \/ h.them = "IDLE" /\ us2 = "CLOSED"
                THEN "MUST_CLOSE" ELSE h.them
    IN  [h EXCEPT !.us = us2, !.them = them]

\* ConnectionClosed is not an event of every state; where it is not, h11 raises
\* LocalProtocolError and stays in ERROR.
Closable(h) == h.us \in {"IDLE", "DONE", "MUST_CLOSE", "CLOSED"}
SendClosed(h) == Settle([h EXCEPT !.us = IF Closable(h) THEN "CLOSED" ELSE "ERROR"])

\* next_event(), for an item of the wire.
Parsed(h, e) ==
    Settle(CASE e.kind \in Responses ->
                  [h EXCEPT !.them = "SEND_BODY", !.switch = FALSE,
                            !.keep = @ /\ e.kind = "response"]
             [] e.kind = "switch" -> [h EXCEPT !.them = "SWITCHED"]
             [] e.kind = "end"    -> [h EXCEPT !.them = "DONE"]
             [] OTHER             -> h)

SlotWhenSent == IF h11.us \in {"IDLE", "DONE"} THEN 1 ELSE 0        \* mutant
available_slots == IF h11.us = "IDLE" THEN 1 ELSE 0

-----------------------------------------------------------------------------
(* HTTP11Connection *)

Outcome(r, p, res) ==
    /\ phase'  = [phase EXCEPT ![r] = p]
    /\ result' = [result EXCEPT ![r] = res]

AcloseUnlessBusy(h) ==                                              \* mutant
    IF h.us \in {"SWITCHED", "DONE", "MUST_CLOSE"} THEN h11' = h /\ UNCHANGED transport
    ELSE /\ h11' = SendClosed(h)
         /\ transport' = IF Closable(h) THEN "closed" ELSE transport

\* HTTP11Connection.aclose, from h on; a switched connection is left alone.
AcloseFrom(h) ==
    IF h.us = "SWITCHED" THEN h11' = h /\ UNCHANGED transport
    ELSE /\ h11' = SendClosed(h)
         /\ transport' = IF Closable(h) THEN "closed" ELSE transport

\* _request() or the rest of connect_ws() raises: connect_ws() closes the
\* connection first, the others leave it as it is.
Raises(r, res, h) ==
    /\ Outcome(r, "failed", res)
    /\ IF r \in WebSockets THEN AcloseFrom(h)
                           ELSE h11' = h /\ UNCHANGED transport

\* acquire() found the connection; _request() sends the request line.
Start(r) ==
    /\ phase[r] = "idle" /\ available_slots # 0 /\ exit = "no"
    /\ h11' = [h11 EXCEPT !.us = "SEND_BODY", !.them = "SEND_RESPONSE",
                          !.switch = r \in WebSockets \cup Connects]
    /\ phase' = [phase EXCEPT ![r] = "sending"]
    /\ UNCHANGED <<transport, result, rcvd, exit, server, budget>>

\* The request body and EndOfMessage: transport.send() may raise once the
\* server has gone, and h11 raises after an illegal ConnectionClosed.
FinishSend(r) ==
    /\ phase[r] = "sending"
    /\ \/ /\ h11.us = "SEND_BODY" /\ transport = "up"
          /\ h11' = Settle([h11 EXCEPT !.us = "DONE"])
          /\ phase' = [phase EXCEPT ![r] = "head"]
          /\ srv' = [srv EXCEPT ![r] =
                                   IF @ = "none" /\ srvUp = "up" THEN "open" ELSE @]
          /\ UNCHANGED <<result, transport>>
       \/ /\ srvUp = "eof" \/ transport = "closed" \/ h11.us # "SEND_BODY"
          /\ Raises(r, "error", h11)
          /\ UNCHANGED srv
    /\ UNCHANGED <<rcvd, exit, wire, sent, ended, srvUp, budget>>

Parses(r) == wire # <<>> /\ wire' = Tail(wire)

\* The first event after the request is taken for the response, a 1xx too.
ReceiveHead(r) ==
    LET e == Head(wire)  h == Parsed(h11, e)
    IN  /\ phase[r] = "head" /\ Parses(r)
        /\ phase' = [phase EXCEPT ![r] =
                       CASE r \in Connects \/ e.kind = "switch" -> "tunnel"
                         [] r \in WebSockets /\ e.kind # "switch" -> "rejected"
                         [] OTHER -> "open"]
        /\ h11' = h
        /\ UNCHANGED <<result, rcvd, transport, exit, srv, sent, ended, srvUp, budget>>

\* connect_ws() reads the body of a response that is not the 101.
ReceiveRejection(r) ==
    LET e == Head(wire)  h == Parsed(h11, e)
    IN  /\ phase[r] = "rejected" /\ Parses(r)
        /\ \/ /\ e.kind = "data" /\ rcvd' = [rcvd EXCEPT ![r] = @ + 1]
              /\ h11' = h /\ UNCHANGED <<phase, result, transport>>
           \/ /\ e.kind = "end" /\ h11' = h
              /\ Outcome(r, "failed", "rejected")      \* HTTPStatusError
              /\ UNCHANGED <<rcvd, transport>>
           \/ /\ e.kind \notin {"data", "end"}
              /\ Raises(r, "error", h)                 \* AssertionError
              /\ UNCHANGED rcvd
        /\ UNCHANGED <<exit, srv, sent, ended, srvUp, budget>>

EofInBody(r) ==                                                     \* mutant
    /\ srvUp = "eof" /\ wire = <<>> /\ phase[r] = "open"
    /\ Outcome(r, "over", "eos")
    /\ UNCHANGED <<h11, transport, rcvd, exit, server, budget>>

\* transport.receive() raises, with nothing left to parse: EndOfStream, or
\* ClosedResourceError when aclose() has closed this end.
ReceiveEof(r) ==
    /\ (srvUp = "eof" /\ wire = <<>>) \/ transport = "closed"
    /\ \/ phase[r] = "head" /\ Raises(r, "error", h11)
       \/ /\ phase[r] = "rejected" /\ transport = "up"
          /\ Outcome(r, "failed", "rejected")
          /\ UNCHANGED <<h11, transport>>
       \/ phase[r] = "rejected" /\ transport = "closed" /\ Raises(r, "error", h11)
       \/ /\ phase[r] = "open"
          /\ IF transport = "up" THEN Outcome(r, "over", "eos")
                                 ELSE Outcome(r, "raised", "error")
          /\ UNCHANGED <<h11, transport>>
    /\ UNCHANGED <<rcvd, exit, server, budget>>

\* The task is cancelled where it waits.
Cancel(r) ==
    /\ Environment("cancel")
    /\ \/ phase[r] \in {"sending", "head", "rejected"} /\ Raises(r, "cancelled", h11)
       \/ /\ phase[r] = "open"
          /\ Outcome(r, "raised", "cancelled")
          /\ UNCHANGED <<h11, transport>>
    /\ UNCHANGED <<rcvd, exit, server>>

-----------------------------------------------------------------------------
(* HTTP11ResponseStream and HTTP11TunnelStream *)

ReceiveBody(r) ==
    LET e == Head(wire)
    IN  /\ phase[r] = "open" /\ Parses(r)
        /\ h11' = Parsed(h11, e)
        /\ \/ /\ e.kind = "data" /\ rcvd' = [rcvd EXCEPT ![r] = @ + 1]
              /\ UNCHANGED <<phase, result>>
           \/ e.kind = "end" /\ Outcome(r, "over", "end") /\ UNCHANGED rcvd
           \/ /\ e.kind \notin {"data", "end"}        \* RuntimeError
              /\ Outcome(r, "raised", "error") /\ UNCHANGED rcvd
        /\ UNCHANGED <<transport, exit, srv, sent, ended, srvUp, budget>>

ReusesAlways(r) ==                                                  \* mutant
    /\ \/ phase[r] = "open" /\ Environment("close")
       \/ phase[r] \in {"over", "raised"} /\ UNCHANGED budget
    /\ phase' = [phase EXCEPT ![r] = "closed"]
    /\ h11' = [h11 EXCEPT !.us = "IDLE", !.them = "IDLE"]
    /\ UNCHANGED <<transport, result, rcvd, exit, server>>

ReusesNever(r) ==                                                   \* mutant
    /\ phase[r] \in {"over", "raised"}
    /\ phase' = [phase EXCEPT ![r] = "closed"]
    /\ UNCHANGED <<h11, transport, result, rcvd, exit, server, budget>>

\* aclose(): the connection is ready for the next request if the response is
\* complete, and is closed if not.
Close(r) ==
    /\ \/ phase[r] = "open" /\ Environment("close")
       \/ phase[r] \in {"over", "raised"} /\ UNCHANGED budget
    /\ Outcome(r, "closed", IF result[r] = "none" THEN "closed" ELSE result[r])
    /\ \/ /\ h11.them = "DONE"      \* start_next_cycle(), or LocalProtocolError
          /\ h11' = IF h11.us = "DONE" THEN [h11 EXCEPT !.us = "IDLE", !.them = "IDLE"]
                                      ELSE h11
          /\ UNCHANGED transport
       \/ /\ h11.them # "DONE"
          /\ h11' = SendClosed(h11)
          /\ transport' = IF Closable(h11) THEN "closed" ELSE transport
    /\ UNCHANGED <<rcvd, exit, server>>

CloseTunnel(r) ==
    /\ phase[r] = "tunnel"
    /\ phase' = [phase EXCEPT ![r] = "closed"]
    /\ transport' = "closed"
    /\ UNCHANGED <<h11, result, rcvd, exit, server, budget>>

\* ConnectionPool.aclose, at the client's exit.
Exit ==
    /\ Environment("exit") /\ exit = "no"
    /\ AcloseFrom(h11)
    /\ exit' = IF Closable(h11) \/ h11.us = "SWITCHED" THEN "done" ELSE "raised"
    /\ UNCHANGED <<consumer, server>>

-----------------------------------------------------------------------------
(* The server (external).  It answers a request when it has all of it, or early. *)

Transmit(kind, r, n) == wire' = Append(wire, [kind |-> kind, s |-> r, n |-> n])
ServerTurn == srvUp = "up" /\ transport = "up"
ClientWaits == UNCHANGED <<h11, transport, consumer, exit>>
Awaiting(r) == srv[r] \in {"open", "informed"}
Answering(r) == srv[r] \in {"informed", "body", "eof_body"}

Early(r) ==
    /\ ServerTurn /\ Environment("early")
    /\ phase[r] = "sending" /\ srv[r] = "none" /\ r \notin WebSockets \cup Connects
    /\ srv' = [srv EXCEPT ![r] = "open"]
    /\ ClientWaits /\ UNCHANGED <<wire, sent, ended, srvUp>>

Inform(r) ==
    /\ ServerTurn /\ Awaiting(r)
    /\ Environment(IF r \in WebSockets THEN "ws_info" ELSE "info")
    /\ Transmit("info", r, 0)
    /\ srv' = [srv EXCEPT ![r] = "informed"]
    /\ ClientWaits /\ UNCHANGED <<sent, ended, srvUp>>

\* 101 to a handshake, 2xx to a CONNECT.
Switch(r) ==
    /\ ServerTurn /\ Awaiting(r) /\ r \in WebSockets \cup Connects
    /\ Transmit("switch", r, 0)
    /\ srv' = [srv EXCEPT ![r] = "done"]
    /\ ClientWaits /\ UNCHANGED <<sent, ended, srvUp, budget>>

Respond(r) ==
    /\ ServerTurn /\ Awaiting(r)
    /\ \E kind \in Responses :
         /\ Transmit(kind, r, 0)
         /\ srv' = [srv EXCEPT ![r] = IF kind = "until_close" THEN "eof_body" ELSE "body"]
    /\ ClientWaits /\ UNCHANGED <<sent, ended, srvUp, budget>>

SendData(r) ==
    /\ ServerTurn /\ srv[r] \in {"body", "eof_body"} /\ sent[r] < MaxData
    /\ sent' = [sent EXCEPT ![r] = @ + 1]
    /\ Transmit("data", r, sent[r] + 1)
    /\ ClientWaits /\ UNCHANGED <<srv, ended, srvUp, budget>>

EndBody(r) ==
    /\ ServerTurn /\ srv[r] \in {"body", "eof_body"}
    /\ srv' = [srv EXCEPT ![r] = "done"] /\ ended' = ended \cup {r}
    /\ IF srv[r] = "body" THEN Transmit("end", r, sent[r]) /\ UNCHANGED srvUp
                          ELSE srvUp' = "eof" /\ UNCHANGED wire
    /\ ClientWaits /\ UNCHANGED <<sent, budget>>

ServerClose ==
    /\ ServerTurn
    /\ Environment(IF \E r \in Requests : Answering(r)
                   THEN "truncate" ELSE "eof")
    /\ srvUp' = "eof"
    /\ ClientWaits /\ UNCHANGED <<wire, srv, sent, ended>>
-----------------------------------------------------------------------------
Task(r) == \/ FinishSend(r) \/ ReceiveHead(r) \/ ReceiveRejection(r)
           \/ ReceiveEof(r) \/ ReceiveBody(r)
Answer(r) == Switch(r) \/ Respond(r) \/ EndBody(r)

Next ==
    \/ \E r \in Requests : \/ Start(r) \/ Task(r) \/ Cancel(r) \/ Close(r)
                           \/ CloseTunnel(r)
                           \/ Early(r) \/ Inform(r) \/ Answer(r) \/ SendData(r)
    \/ Exit \/ ServerClose

Spec == Init /\ [][Next]_vars

Fairness == \A r \in Requests :
    /\ WF_vars(Task(r)) /\ WF_vars(Answer(r))
    /\ WF_vars(phase[r] \in {"over", "raised"} /\ Close(r))

FairSpec == Spec /\ Fairness
-----------------------------------------------------------------------------
(* Properties *)

\* The connection is r's: from acquire() to the end of its response stream.
Holds(r) == phase[r] \notin {"idle", "closed", "failed"}

\* The pool lends the connection to one request at a time, though nothing but
\* h11's state says that it is lent (_client.py:104-106, _http11.py:64-66).
OneHolder == \A r, q \in Requests : Holds(r) /\ Holds(q) => r = q

\* Responses are never mixed up: what h11 has not parsed yet belongs to the
\* request that holds the connection, and a connection that is offered to the
\* next request has nothing left over from the one before, however that one
\* ended: read to its end, closed early, cancelled, or failed
\* (_http11.py:319-333).
NoMixUp ==
    /\ available_slots # 0 => wire = <<>>
    /\ \A r \in Requests : Holds(r) => \A i \in DOMAIN wire : wire[i].s = r

\* What the client sees of a response body (_connection.py:41-58), if the end of
\* the transport inside a body counts as the end of that body: receive() does
\* not tell the two apart (_http11.py:294).
CutOff == IF srvUp = "eof" THEN {r \in Requests : Answering(r)} ELSE {}
Body == INSTANCE ResponseBody WITH
            produced <- sent, finished <- ended \cup CutOff, consumed <- rcvd,
            told <- [r \in Requests |->
                       IF result[r] = "none" THEN "none"
                       ELSE IF result[r] \in {"end", "eos"} THEN "end" ELSE "failed"]
ImplementsResponseBody == Body!Spec

\* Requests made one after the other, each read to its end, use the same
\* connection (tests/test_client.py:275): unless the server asked for it to be
\* closed, it is lent, or ready to be lent.
Reusable ==
    (/\ budget = MaxEnv /\ h11.keep
     /\ \A r \in Requests : result[r] \in {"none", "end"} /\ phase[r] # "tunnel"
     /\ \A r \in WebSockets \cup Connects : phase[r] = "idle")
        => available_slots # 0 \/ \E r \in Requests : Holds(r)

\* Once the client has closed the connection without an exception and the
\* request that held it is done, the transport is closed: a connection that
\* aclose() leaves alone is closed by its tunnel (_http11.py:49-51).  The one
\* exception: connect_ws() fails on the 101 itself when a 1xx came before it.
NoSilentLeak ==
    exit = "done" /\ (\A r \in Requests : ~Holds(r)) =>
        \/ transport = "closed"
        \/ h11.us = "SWITCHED" /\ \E r \in WebSockets : result[r] = "error"

\* Every request that has been sent is answered or fails, and its response ends,
\* also when the server or the client closes the transport under it.
EveryExchangeEnds ==
    \A r \in Requests : phase[r] = "sending" ~> phase[r] \in {"tunnel", "closed", "failed"}
=============================================================================
