------------------------------ MODULE WebSocket ------------------------------
(***************************************************************************)
(* WebSocketConnection (_websocket.py) over the tunnel that connect_ws()   *)
(* has opened.  One task calls receive(), one send() and one aclose(); they *)
(* share wsproto's state machine, the close code and the tunnel, without a *)
(* lock.  wsproto, the tunnel and the server are external.  A "piece" is   *)
(* what one frame carries of a message: receive() returns each by itself.  *)
(***************************************************************************)
EXTENDS Naturals, Sequences

CONSTANTS MaxSent,     \* bound: pieces the server sends
          MaxCloses,   \* bound: calls of aclose()
          Env,         \* which of EnvKinds may happen
          MaxEnv       \* bound: how many of them, in one behaviour

EnvKinds == {"ping", "pong",   \* the server sends one
             "other",          \* it closes with a code that is not 1000
             "eof", "abort",   \* the transport ends, or breaks
             "cancel",         \* the receiving or the closing task is cancelled
             "send"}           \* send() is called

ASSUME WebSocketAssumption ==
    /\ {MaxSent, MaxCloses, MaxEnv} \subseteq Nat
    /\ Env \subseteq EnvKinds

Normal   == "normal"           \* CloseReason.NORMAL_CLOSURE, 1000
Abnormal == "abnormal"         \* CloseReason.ABNORMAL_CLOSURE, 1006
Frames   == {"piece", "ping", "pong", "close", "other"}
Control  == {"ping", "pong"}

VARIABLES
    ws,       \* wsproto's state: "open", "local" or "remote" (closing)
    events,   \* frames that wsproto has, and has not handed out
    code,     \* _close_code
    stream,   \* the tunnel: "open", or "closed" by this side
    rx,       \* receive(): "idle", "read" (awaits the tunnel) or "pong"
    last,     \* the last event it took
    result,   \* how it last returned
    got,      \* pieces it has returned
    sx,       \* send(): "idle" or "send"
    tx,       \* aclose(): "idle" or "send"
    closes,   \* calls of aclose()
    srv,      \* the server: "open", "close", "other" (Close sent), "eof" or
              \* "abort"
    sent,     \* pieces it has sent
    wire,     \* frames on their way to the client
    budget    \* environment events that may still happen

receiver == <<rx, last, result, got>>
shared   == <<ws, code, stream>>
others   == <<sx, tx, closes>>
server   == <<srv, sent, wire>>
vars     == <<shared, events, receiver, others, server, budget>>

TypeOK ==
    /\ ws \in {"open", "local", "remote"}
    /\ events \in Seq(Frames) /\ wire \in Seq(Frames)
    /\ code \in {"none", Normal, "other", Abnormal}
    /\ stream \in {"open", "closed"}
    /\ rx \in {"idle", "read", "pong"} /\ last \in Frames \cup {"none"}
    /\ result \in {"none", "piece", "ended", "broken", "busy", "error",
                   "cancelled"}
    /\ sx \in {"idle", "send"} /\ tx \in {"idle", "send"}
    /\ srv \in {"open", "close", "other", "eof", "abort"}
    /\ {got, closes, sent, budget} \subseteq Nat

Init ==
    /\ ws = "open" /\ events = <<>> /\ code = "none" /\ stream = "open"
    /\ rx = "idle" /\ last = "none" /\ result = "none" /\ got = 0
    /\ sx = "idle" /\ tx = "idle" /\ closes = 0
    /\ srv = "open" /\ sent = 0 /\ wire = <<>> /\ budget = MaxEnv

Environment(kind) == kind \in Env /\ budget > 0 /\ budget' = budget - 1

-----------------------------------------------------------------------------
(* receive() *)

Return(r)  == rx' = "idle" /\ result' = r
RaisedCode(c) == c                                                  \* mutant
Raised(c)  == IF c = Normal THEN "ended" ELSE "broken"

\* Two sends to the tunnel at a time: a socket raises BusyResourceError, an
\* HTTP/2 stream mixes their chunks.
Overlap(busy) == IF busy THEN BOOLEAN ELSE {TRUE}

\* event.response() is sent; wsproto and a closed tunnel refuse it.
AnswerPing ==
    /\ IF ws # "open" \/ stream = "closed" THEN Return("error")
       ELSE \E ok \in Overlap(sx = "send" \/ tx = "send") :
              IF ok THEN rx' = "pong" /\ UNCHANGED result ELSE Return("busy")
    /\ UNCHANGED <<shared, got>>

\* The server's Close is noted and the tunnel closed; Close is not answered.
TakeClose(c) ==
    /\ code' = c /\ stream' = "closed"
    /\ ws' = IF ws = "open" THEN "remote" ELSE ws
    /\ Return(Raised(c))
    /\ UNCHANGED got

\* The loop from its top, with ev in wsproto: after a control frame it goes on
\* to read the tunnel, whatever else wsproto has.
Loop(ev) ==
    IF ev = <<>>
    THEN rx' = "read" /\ events' = ev /\ UNCHANGED <<shared, last, result, got>>
    ELSE /\ events' = Tail(ev) /\ last' = Head(ev)
         /\ CASE Head(ev) = "piece" -> /\ got' = got + 1 /\ Return("piece")
                                       /\ UNCHANGED shared
              [] Head(ev) = "close" -> TakeClose(Normal)
              [] Head(ev) = "other" -> TakeClose("other")
              [] Head(ev) = "ping"  -> AnswerPing
              [] Head(ev) = "pong"  -> /\ rx' = "read"
                                       /\ UNCHANGED <<shared, result, got>>

CallReadsFirst ==                                                   \* mutant
    /\ rx = "idle" /\ code = "none" /\ rx' = "read"
    /\ UNCHANGED <<shared, events, last, result, got, others, server, budget>>

CallBlindly ==                                                      \* mutant
    /\ rx = "idle" /\ Loop(events)
    /\ UNCHANGED <<others, server, budget>>

Call ==
    /\ rx = "idle"
    /\ IF code # "none"
       THEN Return(Raised(code)) /\ UNCHANGED <<shared, events, last, got>>
       ELSE Loop(events)
    /\ UNCHANGED <<others, server, budget>>

PongSent ==
    /\ rx = "pong"
    /\ \/ rx' = "read" /\ UNCHANGED result
       \/ /\ stream = "closed" \/ srv = "abort"
          /\ Return("error")
    /\ UNCHANGED <<shared, events, last, got, others, server, budget>>

\* The tunnel returns some of what has arrived.
ReceivedNothing(n) == events                                        \* mutant
Received(n) == events \o SubSeq(wire, 1, n)
Read ==
    /\ rx = "read" /\ stream = "open"
    /\ \E n \in 1 .. Len(wire) :
         /\ wire' = SubSeq(wire, n + 1, Len(wire))
         /\ Loop(Received(n))
    /\ UNCHANGED <<others, srv, sent, budget>>

ReadEofAsClose ==                                                   \* mutant
    /\ rx = "read" /\ stream = "open" /\ srv = "eof" /\ wire = <<>>
    /\ code' = Normal /\ Return("ended")
    /\ UNCHANGED <<ws, stream, events, last, got, others, server, budget>>

ReadEof ==
    /\ rx = "read" /\ stream = "open" /\ srv = "eof" /\ wire = <<>>
    /\ code' = Abnormal /\ Return("broken")
    /\ UNCHANGED <<ws, stream, events, last, got, others, server, budget>>

\* aclose() has closed the tunnel underneath, or the transport is broken: the
\* tunnel's exception is passed on, and no close code is noted.
ReadFails ==
    /\ rx = "read"
    /\ stream = "closed" \/ srv = "abort"
    /\ Return("error")
    /\ UNCHANGED <<shared, events, last, got, others, server, budget>>

CancelReceive ==
    /\ rx # "idle" /\ Environment("cancel") /\ Return("cancelled")
    /\ UNCHANGED <<shared, events, last, got, others, server>>

-----------------------------------------------------------------------------
(* send() and aclose() *)

\* After a close code, or in a closing wsproto, send() raises at once.
Send ==
    /\ sx = "idle" /\ code = "none" /\ ws = "open" /\ stream = "open"
    /\ Environment("send")
    /\ \E ok \in Overlap(rx = "pong" \/ tx = "send") :
         sx' = IF ok THEN "send" ELSE "idle"
    /\ UNCHANGED <<shared, events, receiver, tx, closes, server>>

SendReturns ==
    /\ sx = "send" /\ sx' = "idle"
    /\ UNCHANGED <<shared, events, receiver, tx, closes, server, budget>>

CloseKeeps == UNCHANGED stream                                      \* mutant
CloseTunnel == stream' = "closed"

\* A second aclose() finds wsproto closing and raises; the finally clause closes
\* the tunnel whatever happens.  Once there is a close code nothing is done.
AClose ==
    /\ tx = "idle" /\ closes < MaxCloses
    /\ closes' = closes + 1
    /\ IF code # "none" THEN UNCHANGED <<tx, ws, stream, budget>>
       ELSE IF ws # "open" THEN CloseTunnel /\ UNCHANGED <<tx, ws, budget>>
       ELSE \/ /\ Environment("cancel") /\ CloseTunnel  \* before Close is made
               /\ UNCHANGED <<tx, ws>>
            \/ /\ ws' = "local" /\ UNCHANGED budget
               /\ \E ok \in Overlap(rx = "pong" \/ sx = "send") :
                    IF ok /\ stream = "open"
                    THEN tx' = "send" /\ UNCHANGED stream
                    ELSE CloseTunnel /\ UNCHANGED tx
    /\ UNCHANGED <<code, events, receiver, sx, server>>

\* Close is sent, or sending it fails or is cancelled.
CloseSent ==
    /\ tx = "send" /\ tx' = "idle"
    /\ CloseTunnel
    /\ UNCHANGED budget \/ Environment("cancel")
    /\ UNCHANGED <<ws, code, events, receiver, sx, closes, server>>

-----------------------------------------------------------------------------
(* The server *)

Says(f) == srv = "open" /\ wire' = Append(wire, f)

SendPiece == /\ sent < MaxSent /\ Says("piece") /\ sent' = sent + 1
             /\ UNCHANGED <<srv, budget>>
SendControl == /\ \E k \in Control : Says(k) /\ Environment(k)
               /\ UNCHANGED <<srv, sent>>
SendClose == /\ \/ Says("close") /\ srv' = "close" /\ UNCHANGED budget
                \/ Says("other") /\ srv' = "other" /\ Environment("other")
             /\ UNCHANGED sent
End == /\ srv = "open"
       /\ \E k \in {"eof", "abort"} : srv' = k /\ Environment(k)
       /\ UNCHANGED <<sent, wire>>

Server == /\ SendPiece \/ SendControl \/ SendClose \/ End
          /\ UNCHANGED <<shared, events, receiver, others>>

-----------------------------------------------------------------------------

Receiver == PongSent \/ Read \/ ReadEof \/ ReadFails

Next == Call \/ Receiver \/ CancelReceive \/ Send \/ SendReturns \/ AClose
        \/ CloseSent \/ Server

Spec == Init /\ [][Next]_vars

\* Tasks that are ready run, and the tunnel takes what is sent.  Nobody has to
\* call receive() or aclose(), and the server need not send.
Fairness == WF_vars(Receiver) /\ WF_vars(SendReturns) /\ WF_vars(CloseSent)
FairSpec == Spec /\ Fairness

-----------------------------------------------------------------------------
(* Properties *)

\* The messages are a body like any other: pieces in order, none skipped, and
\* WebSocketConnectionEnded only when the server has closed with 1000 and every
\* piece before that was returned (70-88), whatever is cancelled or closed.
Stream == {"ws"}
Messages == INSTANCE ResponseBody WITH
    Requests <- Stream,
    produced <- [w \in Stream |-> sent],
    finished <- IF srv = "close" THEN Stream ELSE {},
    consumed <- [w \in Stream |-> got],
    told     <- [w \in Stream |-> IF code = "none" THEN "none"
                                  ELSE IF code = Normal THEN "end" ELSE "failed"]
ImplementsResponseBody == Messages!Spec

\* receive() waits for the network while wsproto still has events only when a
\* ping or a pong came before them in the same batch (89-94 falls through).
StallsOnlyAfterControl ==
    rx = "read" /\ events # <<>> => last \in Control

\* Nothing that the server does makes receive() fail otherwise than with the
\* close code, unless the transport breaks: a protocol error or a closed stream
\* means that aclose() was called meanwhile.
OwnErrorsOnly == result = "error" => closes > 0 \/ srv = "abort"

\* A piece that is sent while receive() waits makes it return, unless the piece
\* stays behind a control frame for ever.
Stalled == rx = "read" /\ events # <<>>
Delivered == (rx # "idle" /\ got < sent) ~> (rx = "idle" \/ []Stalled)

\* The tunnel is released after aclose(), and after the server's Close, though
\* aclose() then returns early (126); not when the transport ended (1006).
Released ==
    (closes > 0 \/ code \in {Normal, "other"})
        ~> (stream = "closed" \/ code = Abnormal)
=============================================================================
