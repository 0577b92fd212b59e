-------------------------------- MODULE HTTP2 --------------------------------
(***************************************************************************)
(* HTTP2Connection and HTTP2ResponseStream (_http2.py).  One task, the     *)
(* manager, reads the transport and sends every stream's events into that  *)
(* stream's channel; each request is a task of its own that reads its      *)
(* channel.  Tasks are cooperative: while the manager dispatches a batch   *)
(* (mgr = "dispatch") nobody else runs.  The h2 library (conn, st, acks,   *)
(* rsts), the transport and the server are external and appear as          *)
(* _http2.py uses them.  A request here has no body (its HEADERS carry     *)
(* END_STREAM); a request in Tunnels is a CONNECT or a WebSocket, whose    *)
(* sending side stays open.                                                *)
(***************************************************************************)
EXTENDS Naturals, Sequences, FiniteSets, MemoryStream

CONSTANTS Requests,    \* the requests, each on its own HTTP/2 stream
          Tunnels,     \* those sent with end_stream=False
          Zero,        \* stream id 0, the connection itself
          MinData,     \* bounds: DATA frames the server sends on a stream
          MaxData,     \* that it ends with END_STREAM, at least and at most
          Window,      \* the connection's receive window, in DATA frames
          MaxStreams,  \* remote_settings.max_concurrent_streams
          Env,         \* which of EnvKinds may happen
          MaxEnv       \* bound: how many of them, in one behaviour

EnvKinds == {"close",     \* the consumer closes a response before its end
             "cancel",    \* the consumer's task is cancelled
             "reset",     \* the server resets a stream
             "window",    \* the server sends a stream-level WINDOW_UPDATE
             "ping", "goaway",
             "eof",       \* the server closes the transport
             "abort",     \* the transport breaks
             "exit",      \* the client closes the connection
             "expire"}    \* the 10 s limit of close_request_streams passes

ASSUME HTTP2Assumption ==
    /\ Tunnels \subseteq Requests
    /\ Zero \notin Requests
    /\ IsFiniteSet(Requests)
    /\ {MinData, MaxData, Window, MaxStreams, MaxEnv} \subseteq Nat
    /\ Env \subseteq EnvKinds

StreamKinds == {"response", "data", "end", "reset", "window"}
FinalHeaders == {"response", "end", "reset"}                        \* mutant
FinalWindow  == {"end", "reset", "window"}                          \* mutant
Final        == {"end", "reset"}
Event == [kind : StreamKinds \cup {"ping", "goaway", "ignored"},
          s : Requests \cup {Zero}, n : Nat]
Ev(kind, s, n) == [kind |-> kind, s |-> s, n |-> n]

VARIABLES
    conn,     \* h2's connection state: "open" or "closed"
    st,       \* h2's stream states; "gone": closed and evicted from h2.streams
    acks,     \* received DATA acknowledged in h2, its WINDOW_UPDATE unsent
    rsts,     \* RST_STREAM frames queued in h2, not flushed
    streams,  \* the keys of self._streams
    chan,     \* the channel behind each of them
    mgr,      \* where the manager task is
    evq,      \* the events of the batch being dispatched
    toReset,  \* close_request_stream children that have not started
    inReset,  \* those blocked in send()
    failed,   \* manage() ended, or is ending, with an exception
    exiting,  \* aclose() cancelled the manager's scope
    phase,    \* where each request's task is
    result,   \* how its response ended, as the task saw it
    rcvd,     \* DATA frames it has received
    srv,      \* the server's view of each stream
    sent,     \* DATA frames the server has sent on it
    ended,    \* streams the server has finished with END_STREAM
    srvWin,   \* what is left of the window at the server
    srvUp,    \* the transport: "up", "eof" or "aborted"
    wire,     \* frames on their way to the client
    budget    \* environment events that may still happen

h2       == <<conn, st, acks, rsts>>
manager  == <<mgr, evq, streams, toReset, inReset, failed, exiting>>
consumer == <<phase, result, rcvd>>
network  == <<srv, sent, ended, srvWin, srvUp, wire>>
server   == <<network, budget>>
vars     == <<h2, manager, chan, consumer, server>>

TypeOK ==
    /\ conn \in {"open", "closed"}
    /\ st \in [Requests -> {"idle", "open", "half_local", "half_remote",
                            "closed", "gone"}]
    /\ acks \in Nat /\ rsts \subseteq Requests
    /\ streams \subseteq Requests
    /\ chan \in [Requests -> Channels(Event)]
    /\ mgr \in {"read", "dispatch", "blocked", "resets", "stopped"}
    /\ evq \in Seq(Event)
    /\ toReset \subseteq Requests /\ inReset \subseteq Requests
    /\ failed \in BOOLEAN /\ exiting \in BOOLEAN
    /\ phase \in [Requests -> {"idle", "head", "open", "raised", "closed",
                               "failed"}]
    /\ result \in [Requests -> {"none", "end", "eos", "reset", "closed",
                                "cancelled", "error"}]
    /\ rcvd \in [Requests -> Nat]
    /\ srv \in [Requests -> {"none", "open", "body", "done"}]
    /\ sent \in [Requests -> Nat]
    /\ ended \subseteq Requests
    /\ srvWin \in Nat
    /\ srvUp \in {"up", "eof", "aborted"}
    /\ wire \in Seq(Event)
    /\ budget \in Nat

Init ==
    /\ conn = "open" /\ acks = 0 /\ rsts = {}
    /\ st = [r \in Requests |-> "idle"]
    /\ streams = {} /\ chan = [r \in Requests |-> Fresh]
    /\ mgr = "read" /\ evq = <<>> /\ toReset = {} /\ inReset = {}
    /\ failed = FALSE /\ exiting = FALSE
    /\ phase = [r \in Requests |-> "idle"]
    /\ result = [r \in Requests |-> "none"]
    /\ rcvd = [r \in Requests |-> 0]
    /\ srv = [r \in Requests |-> "none"] /\ sent = [r \in Requests |-> 0]
    /\ ended = {} /\ srvWin = Window /\ srvUp = "up" /\ wire = <<>>
    /\ budget = MaxEnv

\* One event of this kind happens.
Environment(kind) == kind \in Env /\ budget > 0 /\ budget' = budget - 1

Alive     == mgr \in {"read", "dispatch", "blocked"}
TaskTurn  == mgr # "dispatch"      \* a task other than the manager may run

-----------------------------------------------------------------------------
(* h2 *)

Outbound == {r \in Requests : st[r] \in {"open", "half_local", "half_remote"}}
available_slots == IF conn = "closed" THEN 0 ELSE MaxStreams - Cardinality(Outbound)

\* open_outbound_streams drops the closed streams from h2.streams.
Evicted == [r \in Requests |-> IF st[r] = "closed" THEN "gone" ELSE st[r]]

\* _flush_outgoing_data: what h2 has queued, HEADERS of hdrs and RST_STREAM of
\* resets with it, reaches the server.  send() may raise once the peer is gone.
Flush(hdrs, resets) ==
    /\ acks' = 0 /\ rsts' = {}
    /\ srvWin' = srvWin + acks
    /\ srv' = [r \in Requests |-> IF r \in rsts \cup resets THEN "done"
                                  ELSE IF r \in hdrs THEN "open" ELSE srv[r]]
    /\ UNCHANGED <<sent, ended, srvUp, wire>>

FlushSucceeds == IF srvUp = "up" THEN {TRUE} ELSE BOOLEAN

-----------------------------------------------------------------------------
(* The manager task *)

LeaveSilently(fail) ==                                              \* mutant
    /\ mgr' = "resets" /\ evq' = <<>>
    /\ toReset' = {} /\ inReset' = {} /\ streams' = {}
    /\ failed' = (failed \/ fail)
    /\ UNCHANGED exiting

\* The loop is left: by an exception (fail), by cancellation, or at its end.
\* The exit callbacks start: every open stream gets a task that resets it.
LeaveLoop(fail) ==
    /\ mgr' = "resets" /\ evq' = <<>>
    /\ toReset' = streams /\ inReset' = {} /\ streams' = {}
    /\ failed' = (failed \/ fail)
    /\ UNCHANGED exiting

Crash == LeaveLoop(TRUE)

\* h2 shows nothing of a frame on a stream this side has reset.
Visible(f) == f.s = Zero \/ st[f.s] \notin {"idle", "closed", "gone"}

\* receive() returns everything that has arrived; receive_data() updates h2 for
\* the whole batch before any of its events is dispatched.  GOAWAY closes the
\* connection in h2 and drops its output; a frame after it is a ProtocolError.
Receive ==
    LET Arrives(kind, r) == \E i \in DOMAIN wire :
                                wire[i].kind = kind /\ wire[i].s = r
        goaways == {i \in DOMAIN wire : wire[i].kind = "goaway"}
        unseen  == {i \in DOMAIN wire : wire[i].kind = "data" /\ ~Visible(wire[i])}
    IN  /\ mgr = "read" /\ wire # <<>>
        /\ wire' = <<>>
        /\ st' = [r \in Requests |->
                    IF st[r] \in {"idle", "closed", "gone"} THEN st[r]
                    ELSE IF \/ Arrives("reset", r)
                            \/ Arrives("end", r) /\ st[r] = "half_local" THEN "closed"
                    ELSE IF Arrives("end", r) /\ st[r] = "open" THEN "half_remote"
                    ELSE st[r]]
        /\ conn' = IF goaways = {} THEN conn ELSE "closed"
        /\ acks' = IF goaways = {} THEN acks + Cardinality(unseen) ELSE 0
        /\ rsts' = IF goaways = {} THEN rsts ELSE {}
        /\ IF \E i \in goaways : i < Len(wire)
           THEN Crash
           ELSE /\ mgr' = "dispatch"
                /\ evq' = [i \in DOMAIN wire |->
                             IF Visible(wire[i]) THEN wire[i]
                             ELSE [wire[i] EXCEPT !.kind = "ignored"]]
                /\ UNCHANGED <<streams, toReset, inReset, failed, exiting>>
        /\ UNCHANGED <<chan, consumer, srv, sent, ended, srvWin, srvUp, budget>>

\* EndOfStream from the transport closes the connection; any other error is
\* not caught.
ReceiveEof ==
    /\ mgr = "read" /\ wire = <<>> /\ srvUp = "eof"
    /\ conn' = "closed"
    /\ LeaveLoop(FALSE)
    /\ UNCHANGED <<st, acks, rsts, chan, consumer, server>>

ReceiveBroken ==
    /\ mgr = "read" /\ srvUp = "aborted"
    /\ Crash
    /\ UNCHANGED <<h2, chan, consumer, server>>

Current == Head(evq)

\* acknowledge_received_data, for DATA that was passed on.
AcknowledgeEveryEvent == acks + 1                                   \* mutant
Acknowledged == IF Current.kind = "data" THEN acks + 1 ELSE acks

\* The send to the stream's channel, c afterwards, has returned.
Sent(c) ==
    /\ evq # <<>>
    /\ acks' = Acknowledged
    /\ IF Current.kind \in Final
       THEN /\ chan' = [chan EXCEPT ![Current.s] = CloseSend(c)]
            /\ IF Current.s \in streams
               THEN /\ streams' = streams \ {Current.s}
                    /\ mgr' = "dispatch" /\ evq' = Tail(evq)
                    /\ UNCHANGED <<toReset, inReset, failed, exiting>>
               ELSE Crash                  \* del self._streams[...]: KeyError
       ELSE /\ chan' = [chan EXCEPT ![Current.s] = c]
            /\ mgr' = "dispatch" /\ evq' = Tail(evq)
            /\ UNCHANGED <<streams, toReset, inReset, failed, exiting>>
    /\ UNCHANGED <<conn, st, rsts, consumer, server>>

\* It raised BrokenResourceError: only StreamEnded and StreamReset expect that,
\* and go on to the next event with the entry still in self._streams.
SendBroken(c) ==
    /\ chan' = [chan EXCEPT ![Current.s] = c]
    /\ IF Current.kind \in Final
       THEN /\ mgr' = "dispatch" /\ evq' = Tail(evq)
            /\ UNCHANGED <<streams, toReset, inReset, failed, exiting>>
       ELSE Crash
    /\ UNCHANGED <<h2, consumer, server>>

DispatchStream ==
    /\ mgr = "dispatch" /\ evq # <<>> /\ Current.kind \in StreamKinds
    /\ LET c == chan[Current.s]
       IN  \/ /\ Current.s \notin streams              \* KeyError
              /\ Crash
              /\ UNCHANGED <<h2, chan, consumer, server>>
           \/ /\ Current.s \in streams /\ ~exiting /\ ~c.ropen
              /\ SendBroken(c)
           \/ /\ Current.s \in streams /\ ~exiting /\ c.ropen /\ HasRoom(c)
              /\ Sent(Put(c, Current))
           \/ /\ Current.s \in streams /\ ~exiting /\ c.ropen /\ ~HasRoom(c)
              /\ chan' = [chan EXCEPT ![Current.s] = Block(c, Current)]
              /\ mgr' = "blocked"
              /\ UNCHANGED <<h2, evq, streams, toReset, inReset, failed,
                             exiting, consumer, server>>

\* The blocked send() ends: the receiver took the item, or closed.
ResumeEarly == mgr = "blocked" /\ Sent(Unblock(chan[Current.s]))   \* mutant
Resume ==
    /\ mgr = "blocked"
    /\ LET c == chan[Current.s]
       IN  \/ c.snd = <<>> /\ Sent(c)
           \/ c.snd # <<>> /\ ~c.ropen /\ SendBroken(Unblock(c))

DispatchPing ==
    /\ mgr = "dispatch" /\ evq # <<>> /\ Current.kind = "ping" /\ ~exiting
    /\ Flush({}, {})
    /\ \E ok \in FlushSucceeds :
         IF ok THEN /\ evq' = Tail(evq)
                    /\ UNCHANGED <<mgr, streams, toReset, inReset, failed, exiting>>
               ELSE Crash
    /\ UNCHANGED <<conn, st, chan, consumer, budget>>

\* ConnectionTerminated leaves the for loop, and with it the while loop.
DispatchGoAway ==
    /\ mgr = "dispatch" /\ evq # <<>> /\ Current.kind = "goaway"
    /\ LeaveLoop(FALSE)
    /\ UNCHANGED <<h2, chan, consumer, server>>

DispatchIgnored ==
    /\ mgr = "dispatch" /\ evq # <<>> /\ Current.kind = "ignored"
    /\ evq' = Tail(evq)
    /\ UNCHANGED <<h2, mgr, streams, toReset, inReset, failed, exiting, chan,
                   consumer, server>>

BatchDone ==
    /\ mgr = "dispatch" /\ evq = <<>>
    /\ IF conn = "closed" THEN LeaveLoop(FALSE)
       ELSE mgr' = "read" /\ UNCHANGED <<evq, streams, toReset, inReset, failed, exiting>>
    /\ UNCHANGED <<h2, chan, consumer, server>>

CancelledInRead ==                                                  \* mutant
    /\ exiting /\ mgr = "read" /\ LeaveLoop(FALSE)
    /\ UNCHANGED <<h2, chan, consumer, server>>

\* The cancellation asked for by aclose() arrives at the manager's next await.
Cancelled ==
    /\ exiting
    /\ \/ mgr = "read" /\ UNCHANGED chan
       \/ /\ mgr = "blocked" /\ chan[Current.s].snd # <<>> /\ chan[Current.s].ropen
          /\ chan' = [chan EXCEPT ![Current.s] = Unblock(@)]
       \/ /\ mgr = "dispatch" /\ evq # <<>>
          /\ Current.kind = "ping" \/ Current.s \in streams
          /\ UNCHANGED chan
    /\ LeaveLoop(FALSE)
    /\ UNCHANGED <<h2, consumer, server>>

-----------------------------------------------------------------------------
(* The manager's exit callbacks: close_request_streams, close_transport_stream *)

\* Every child that has not finished is cancelled; its finally clause closes
\* the sending end.
DropResets ==
    /\ chan' = [r \in Requests |-> IF r \in toReset \cup inReset
                                   THEN CloseSend(Unblock(chan[r]))
                                   ELSE chan[r]]
    /\ toReset' = {} /\ inReset' = {}

ResetSilently(r) ==                                                 \* mutant
    /\ mgr = "resets" /\ r \in toReset
    /\ chan' = [chan EXCEPT ![r] = CloseSend(@)]
    /\ toReset' = toReset \ {r}
    /\ UNCHANGED <<h2, mgr, evq, streams, inReset, failed, exiting, consumer, server>>

ResetSend(r) ==
    /\ mgr = "resets" /\ r \in toReset
    /\ \/ /\ chan[r].ropen /\ HasRoom(chan[r])
          /\ chan' = [chan EXCEPT ![r] = CloseSend(Put(@, Ev("reset", r, 0)))]
          /\ toReset' = toReset \ {r}
          /\ UNCHANGED <<inReset, failed>>
       \/ /\ chan[r].ropen /\ ~HasRoom(chan[r])
          /\ chan' = [chan EXCEPT ![r] = Block(@, Ev("reset", r, 0))]
          /\ toReset' = toReset \ {r} /\ inReset' = inReset \cup {r}
          /\ UNCHANGED failed
       \/ /\ ~chan[r].ropen              \* BrokenResourceError ends the group
          /\ DropResets
          /\ failed' = TRUE
    /\ UNCHANGED <<h2, mgr, evq, streams, exiting, consumer, server>>

ResetResume(r) ==
    /\ mgr = "resets" /\ r \in inReset
    /\ \/ /\ chan[r].snd = <<>>
          /\ chan' = [chan EXCEPT ![r] = CloseSend(@)]
          /\ inReset' = inReset \ {r}
          /\ UNCHANGED <<toReset, failed>>
       \/ /\ chan[r].snd # <<>> /\ ~chan[r].ropen
          /\ DropResets
          /\ failed' = TRUE
    /\ UNCHANGED <<h2, mgr, evq, streams, exiting, consumer, server>>

Expire ==
    /\ mgr = "resets" /\ "expire" \in Env
    /\ toReset \cup inReset # {}
    /\ DropResets
    /\ UNCHANGED <<h2, mgr, evq, streams, failed, exiting, consumer, server>>

CloseTransport ==
    /\ mgr = "resets" /\ toReset = {} /\ inReset = {}
    /\ mgr' = "stopped" /\ conn' = "closed"
    /\ Flush({}, {})
    /\ \E ok \in FlushSucceeds : failed' = (failed \/ ~ok)
    /\ UNCHANGED <<st, evq, streams, toReset, inReset, exiting, chan, consumer,
                   budget>>

\* HTTP2Connection.aclose: cancel the manager (and wait for it to stop).
AClose ==
    /\ Environment("exit") /\ TaskTurn /\ mgr # "stopped" /\ ~exiting
    /\ exiting' = TRUE
    /\ UNCHANGED <<h2, mgr, evq, streams, toReset, inReset, failed, chan,
                   consumer, network>>
-----------------------------------------------------------------------------
(* Requests and response streams *)

\* request(), up to its wait for the response.  The pool calls it only on a
\* connection with available slots, and on none that it is closing.
SendRequest(r) ==
    /\ TaskTurn /\ phase[r] = "idle" /\ available_slots # 0 /\ ~exiting
    /\ streams' = streams \cup {r}
    /\ st' = [Evicted EXCEPT ![r] = IF r \in Tunnels THEN "open" ELSE "half_local"]
    /\ Flush({r}, {})
    /\ \E ok \in FlushSucceeds :
         /\ phase'  = [phase EXCEPT ![r] = IF ok THEN "head" ELSE "failed"]
         /\ result' = [result EXCEPT ![r] = IF ok THEN "none" ELSE "error"]
    /\ UNCHANGED <<conn, mgr, evq, toReset, inReset, failed, exiting, chan, rcvd,
                   budget>>

\* r's task is in, or about to call, receive() on its channel.
Reading(r) == phase[r] \in {"head", "open"}

Outcome(r, p, res) ==
    /\ phase'  = [phase EXCEPT ![r] = p]
    /\ result' = [result EXCEPT ![r] = res]

\* What the task does with an event, c being its channel after the receive():
\* request() accepts only the response; HTTP2ResponseStream.receive() hands out
\* data, and takes StreamReset and StreamEnded as the end.
Handle(r, e, c) ==
    \/ /\ phase[r] = "head"
       /\ chan' = [chan EXCEPT ![r] = c]
       /\ IF e.kind = "response" /\ st[r] # "gone"
          THEN Outcome(r, "open", "none")
          ELSE Outcome(r, "failed",            \* AssertionError, KeyError
                       IF e.kind = "reset" THEN "reset" ELSE "error")
       /\ UNCHANGED rcvd
    \/ /\ phase[r] = "open" /\ e.kind = "data"
       /\ chan' = [chan EXCEPT ![r] = c]
       /\ rcvd' = [rcvd EXCEPT ![r] = @ + 1]
       /\ UNCHANGED <<phase, result>>
    \/ /\ phase[r] = "open" /\ e.kind \in Final
       /\ chan' = [chan EXCEPT ![r] = CloseRecv(c)]
       /\ Outcome(r, "closed", e.kind)
       /\ UNCHANGED rcvd
    \/ /\ phase[r] = "open" /\ e.kind \notin {"data"} \cup Final
       /\ chan' = [chan EXCEPT ![r] = c]
       /\ Outcome(r, "raised", "error")        \* RuntimeError
       /\ UNCHANGED rcvd

\* receive() on a channel whose sender has closed without a last event.
EndOfChannel(r, c) ==
    /\ chan' = [chan EXCEPT ![r] = c]
    /\ Outcome(r, IF phase[r] = "head" THEN "failed" ELSE "raised", "eos")
    /\ UNCHANGED rcvd

Poll(r) ==
    /\ TaskTurn /\ Reading(r) /\ chan[r].rx = "idle"
    /\ LET c == chan[r]
       IN  \/ Pending(c) # <<>> /\ Handle(r, Head(Pending(c)), Take(c))
           \/ Pending(c) = <<>> /\ ~c.sopen /\ EndOfChannel(r, c)
           \/ /\ Pending(c) = <<>> /\ c.sopen
              /\ chan' = [chan EXCEPT ![r] = Await(c)]
              /\ UNCHANGED consumer
    /\ UNCHANGED <<h2, manager, server>>

WakeUp(r) ==
    /\ TaskTurn /\ Reading(r) /\ chan[r].rx = "woken"
    /\ LET c == chan[r]
       IN  \/ c.buf # <<>> /\ Handle(r, Head(c.buf), Wake(c))
           \/ c.buf = <<>> /\ EndOfChannel(r, Wake(c))
    /\ UNCHANGED <<h2, manager, server>>

\* The task is cancelled in receive(): by its own scope, or with the client's
\* task group after manage() has raised.  request() leaves everything behind;
\* a response stream is closed next, in the same cancelled scope.
Cancel(r) ==
    /\ TaskTurn /\ Reading(r) /\ chan[r].rx = "wait"
    /\ Environment("cancel") \/ (failed /\ mgr = "stopped" /\ UNCHANGED budget)
    /\ chan' = [chan EXCEPT ![r].rx = "idle"]
    /\ Outcome(r, IF phase[r] = "head" THEN "failed" ELSE "raised", "cancelled")
    /\ UNCHANGED <<h2, manager, rcvd, network>>

\* HTTP2ResponseStream.aclose and close_stream.
Close(r) ==
    LET c == CloseRecv(chan[r])
        Closes(res) == Outcome(r, "closed", IF result[r] = "none" THEN res ELSE result[r])
    IN
    /\ TaskTurn
    /\ \/ phase[r] = "open" /\ chan[r].rx = "idle" /\ Environment("close")
       \/ phase[r] = "raised" /\ UNCHANGED budget
    /\ \/ /\ st[r] \in {"half_local", "closed"}
          /\ Closes("closed")
          /\ chan' = [chan EXCEPT ![r] = c]
          /\ UNCHANGED <<st, acks, rsts, streams, network>>
       \/ /\ \/ st[r] = "gone"                         \* KeyError
             \/ st[r] \in {"open", "half_remote"} /\ r \notin streams
          /\ Outcome(r, "closed", "error")
          /\ chan' = [chan EXCEPT ![r] = c]
          /\ UNCHANGED <<st, acks, rsts, streams, network>>
       \/ /\ st[r] \in {"open", "half_remote"} /\ r \in streams
          /\ streams' = streams \ {r}
          /\ chan' = [chan EXCEPT ![r] = CloseSend(c)]
          /\ \/ /\ conn = "closed"                     \* ProtocolError
                /\ Outcome(r, "closed", "error")
                /\ UNCHANGED <<st, acks, rsts, network>>
             \/ /\ conn = "open" /\ result[r] = "cancelled"
                /\ st' = [st EXCEPT ![r] = "closed"]
                /\ rsts' = rsts \cup {r}               \* the flush is cancelled
                /\ Closes("closed")
                /\ UNCHANGED <<acks, network>>
             \/ /\ conn = "open" /\ result[r] # "cancelled"
                /\ st' = [st EXCEPT ![r] = "closed"]
                /\ Flush({}, {r})
                /\ \E ok \in FlushSucceeds : IF ok THEN Closes("closed")
                                             ELSE Outcome(r, "closed", "error")
    /\ UNCHANGED <<conn, mgr, evq, toReset, inReset, failed, exiting, rcvd>>

\* send_stream_eof, on a tunnel.
SendEof(r) ==
    /\ TaskTurn /\ phase[r] = "open" /\ chan[r].rx = "idle" /\ conn = "open"
    /\ st[r] \in {"open", "half_remote"}
    /\ st' = [st EXCEPT ![r] = IF @ = "open" THEN "half_local" ELSE "closed"]
    /\ Flush({}, {})
    /\ UNCHANGED <<conn, manager, chan, consumer, budget>>
-----------------------------------------------------------------------------
(* The server and the transport (external) *)

ServerTurn == srvUp = "up" /\ mgr \in {"read", "blocked"}
Transmit(e) == wire' = Append(wire, e)
OthersWait == UNCHANGED <<h2, manager, chan, consumer>>

Respond(r) ==
    /\ ServerTurn /\ srv[r] = "open"
    /\ srv' = [srv EXCEPT ![r] = "body"]
    /\ Transmit(Ev("response", r, 0))
    /\ OthersWait /\ UNCHANGED <<sent, ended, srvWin, srvUp, budget>>

SendData(r) ==
    /\ ServerTurn /\ srv[r] = "body" /\ sent[r] < MaxData /\ srvWin > 0
    /\ sent' = [sent EXCEPT ![r] = @ + 1]
    /\ srvWin' = srvWin - 1
    /\ Transmit(Ev("data", r, sent[r] + 1))
    /\ OthersWait /\ UNCHANGED <<srv, ended, srvUp, budget>>

EndStream(r) ==
    /\ ServerTurn /\ srv[r] = "body" /\ sent[r] >= MinData
    /\ srv' = [srv EXCEPT ![r] = "done"] /\ ended' = ended \cup {r}
    /\ Transmit(Ev("end", r, sent[r]))
    /\ OthersWait /\ UNCHANGED <<sent, srvWin, srvUp, budget>>

ServerReset(r) ==
    /\ ServerTurn /\ Environment("reset") /\ srv[r] \in {"open", "body"}
    /\ srv' = [srv EXCEPT ![r] = "done"]
    /\ Transmit(Ev("reset", r, 0))
    /\ OthersWait /\ UNCHANGED <<sent, ended, srvWin, srvUp>>

\* A credit for the tunnel's, or an early one for the request's, sending side.
ServerWindow(r) ==
    /\ ServerTurn /\ Environment("window") /\ srv[r] \in {"open", "body"}
    /\ Transmit(Ev("window", r, 0))
    /\ OthersWait /\ UNCHANGED <<srv, sent, ended, srvWin, srvUp>>

ServerPing ==
    /\ ServerTurn /\ Environment("ping")
    /\ Transmit(Ev("ping", Zero, 0))
    /\ OthersWait /\ UNCHANGED <<srv, sent, ended, srvWin, srvUp>>

GoAway ==
    /\ ServerTurn /\ Environment("goaway") /\ conn = "open"
    /\ \A i \in DOMAIN wire : wire[i].kind # "goaway"
    /\ Transmit(Ev("goaway", Zero, 0))
    /\ OthersWait /\ UNCHANGED <<srv, sent, ended, srvWin, srvUp>>

ServerClose ==
    /\ ServerTurn /\ Environment("eof")
    /\ srvUp' = "eof"
    /\ OthersWait /\ UNCHANGED <<srv, sent, ended, srvWin, wire>>

Abort ==
    /\ ServerTurn /\ Environment("abort")
    /\ srvUp' = "aborted" /\ wire' = <<>>
    /\ OthersWait /\ UNCHANGED <<srv, sent, ended, srvWin>>
-----------------------------------------------------------------------------
ManagerNext ==
    \/ Receive \/ ReceiveEof \/ ReceiveBroken
    \/ DispatchStream \/ Resume \/ DispatchPing \/ DispatchGoAway
    \/ DispatchIgnored \/ BatchDone \/ Cancelled
    \/ \E r \in Requests : ResetSend(r) \/ ResetResume(r)
    \/ Expire \/ CloseTransport

Reader(r) == Poll(r) \/ WakeUp(r)
Consumer(r) == SendRequest(r) \/ Reader(r) \/ Cancel(r) \/ Close(r) \/ SendEof(r)
Server(r) == Respond(r) \/ SendData(r) \/ EndStream(r) \/ ServerReset(r) \/ ServerWindow(r)

Next ==
    \/ ManagerNext
    \/ \E r \in Requests : Consumer(r) \/ Server(r)
    \/ AClose
    \/ ServerPing \/ GoAway \/ ServerClose \/ Abort

Spec == Init /\ [][Next]_vars

\* Every task that can run is run again, and the server answers what it gets.
Fairness ==
    /\ WF_vars(ManagerNext)
    /\ \A r \in Requests :
         /\ WF_vars(Reader(r))
         /\ WF_vars(phase[r] = "raised" /\ Close(r))
         /\ WF_vars(failed /\ mgr = "stopped" /\ Cancel(r))
         /\ WF_vars(Respond(r)) /\ WF_vars(SendData(r)) /\ WF_vars(EndStream(r))

FairSpec == Spec /\ Fairness
-----------------------------------------------------------------------------
(* Properties *)

\* What is still on its way to r's task: its channel, then the batch, the wire.
Batch == IF mgr = "blocked" THEN Tail(evq) ELSE evq
Due(r) == Pending(chan[r]) \o Batch \o wire
DataOf(r, q) == {i \in DOMAIN q : q[i].kind = "data" /\ q[i].s = r}

HasFinal(q) == \E i \in DOMAIN q : q[i].kind \in Final

\* While the manager runs, a response never just stops: a channel the manager
\* has closed on a reading task still holds the StreamEnded or StreamReset that
\* says why (_http2.py:180-195; without it receive() would raise EndOfStream,
\* and a cut-off body would look complete).
NoSilentEnd ==
    Alive => \A r \in Requests :
        Reading(r) /\ ~chan[r].sopen =>
            HasFinal(chan[r].buf)

\* DATA reaches each task in the order sent, without gap or repetition, across
\* the channel, a blocked send, the rest of the batch and the transport.
InOrder ==
    Alive => \A r \in Requests :
        LET due == DataOf(r, Due(r))
        IN  Reading(r) =>
              \A i \in due : Due(r)[i].n = rcvd[r] + Cardinality({j \in due : j <= i})

\* Flow control accounting: while the connection is up, each DATA frame of the
\* window is at the server, in flight, not yet dispatched, or acknowledged and
\* waiting for a flush; no frame, not even one for a reset stream, is lost.
InFlight(q) == Cardinality({i \in DOMAIN q : q[i].kind = "data"})
WindowCredit ==
    Alive /\ conn = "open" /\ srvUp # "aborted" =>
        srvWin + acks + InFlight(evq) + InFlight(wire) = Window

\* The connection implements ResponseBody.  The reader cannot tell EndOfStream
\* because of StreamEnded from EndOfStream because its channel was closed, so
\* neither does this: where no response is given up before its end and the 10 s
\* limit does not pass, a cut-off body is never taken for a complete one,
\* whatever the server, the transport and aclose() do (_http2.py:118-139,
\* 455-462).
Body == INSTANCE ResponseBody WITH
            produced <- sent, finished <- ended, consumed <- rcvd,
            told <- [r \in Requests |->
                        IF result[r] = "none" THEN "none"
                        ELSE IF \/ result[r] = "end"
                                \/ result[r] = "eos" /\ phase[r] # "failed" THEN "end"
                        ELSE "failed"]
ImplementsResponseBody == Body!Spec

\* Whatever else happens, as long as no task gives up its response (closes it
\* early, is cancelled, or fails on it), every request that was sent ends.  In
\* particular a slow reader only delays the others (_http2.py:174: the manager
\* waits for room in one channel at a time), and a reset, a GOAWAY or the end of
\* the transport leaves nobody waiting.
Answered ==
    [](\A r \in Requests : result[r] \notin {"closed", "cancelled", "error"}) =>
        \A r \in Requests : phase[r] = "head" ~> phase[r] \in {"closed", "failed"}

\* aclose() waits for _manage_stopped_event (_http2.py:83-85): it is set, even
\* when a response is abandoned with its channel full.
Shutdown == (exiting \/ failed) ~> mgr = "stopped"

\* When the manager is gone nobody keeps waiting for it.
NobodyLeftWaiting ==
    [](mgr = "stopped" => <>(\A r \in Requests : chan[r].rx # "wait"))
=============================================================================
