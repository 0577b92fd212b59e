----------------------------- MODULE HTTP2Upload -----------------------------
(***************************************************************************)
(* The sending half of HTTP2Connection (_http2.py): request() reads a body *)
(* and passes it to send_stream_data(), which respects the windows that    *)
(* the server grants.  All uploads share the connection's window and one   *)
(* event, _can_send_event; the manager that sets it also sends every       *)
(* stream's events into that stream's channel, which an upload reads only  *)
(* when its body is sent.  HTTP2 models the responses in detail; here a    *)
(* response that has begun is only drained, and the manager's exit is one  *)
(* step.  Amounts are in units; one WINDOW_UPDATE grants one unit.         *)
(***************************************************************************)
EXTENDS Integers, Sequences, FiniteSets, MemoryStream

CONSTANTS Uploads,       \* requests with a body, each on its own stream
          Zero,          \* stream id 0; also the event made in __init__
          Size,          \* the length of each body
          ReadMax,       \* what one receive() of the body returns at most
          FrameMax,      \* max_outbound_frame_size
          ConnWindow,    \* the initial window of the connection
          StreamWindow,  \* and of each stream
          MaxWire,       \* bound: frames on their way to the client
          Env,           \* which of EnvKinds may happen
          MaxEnv         \* bound: how many of them, in one behaviour

EnvKinds == {"cancel",   \* an upload's task is cancelled, or its body raises
             "early",    \* the server answers before it has the whole body
             "reset",    \* the server resets a stream
             "lower",    \* SETTINGS lower the streams' window by one
            "stop"}     \* the client, or the server, ends the connection

ASSUME HTTP2UploadAssumption ==
    /\ Zero \notin Uploads
    /\ IsFiniteSet(Uploads)
    /\ Size \in [Uploads -> Nat]
    /\ {ReadMax, FrameMax} \subseteq Nat \ {0}
    /\ {ConnWindow, StreamWindow, MaxWire, MaxEnv} \subseteq Nat
    /\ Env \subseteq EnvKinds

VARIABLES
    conn,     \* h2's outbound_flow_control_window
    win,      \* and its window of each stream
    gone,     \* streams that are closed in h2
    event,    \* the upload whose wait made _can_send_event
    mgr,      \* the manager: "read", "dispatch", "blocked" or "stopped"
    evq,      \* the events of the batch being dispatched
    chan,     \* the channel of each stream
    phase,    \* where each upload's task is
    unread,   \* what it has not read of its body
    chunk,    \* what it has read and not sent
    got,      \* what the server has of each body
    ended,    \* the streams on which it has seen END_STREAM
    owed,     \* what the server has consumed, and not granted again, on the
    sowed,    \* connection, and on each stream
    answer,   \* what it has sent of each response
    wire,     \* frames on their way to the client
    lowered,  \* the server has lowered the window of the streams
    budget    \* environment events that may still happen

h2      == <<conn, win, gone>>
body    == <<unread, chunk, got, ended>>
manager == <<mgr, evq>>
peer    == <<owed, sowed, answer, wire, lowered>>
vars    == <<h2, event, manager, chan, phase, body, peer, budget>>

Frame == [kind : {"credit", "head", "end", "reset", "settings"},
          s : Uploads \cup {Zero}]
F(kind, s) == [kind |-> kind, s |-> s]

Sending == {"read", "send", "wait"}
Over    == {"open", "failed", "refused"}

TypeOK ==
    /\ conn \in Nat /\ win \in [Uploads -> Int] /\ gone \subseteq Uploads
    /\ event \in Uploads \cup {Zero}
    /\ mgr \in {"read", "dispatch", "blocked", "stopped"}
    /\ evq \in Seq(Frame)
    /\ chan \in [Uploads -> Channels(Frame)]
    /\ phase \in [Uploads -> {"idle", "head"} \cup Sending \cup Over]
    /\ unread \in [Uploads -> Nat] /\ chunk \in [Uploads -> 0 .. ReadMax]
    /\ got \in [Uploads -> Nat] /\ ended \subseteq Uploads
    /\ owed \in Nat /\ sowed \in [Uploads -> Nat]
    /\ answer \in [Uploads -> {"none", "head", "end"}]
    /\ wire \in Seq(Frame) /\ lowered \in BOOLEAN /\ budget \in Nat

Init ==
    /\ conn = ConnWindow /\ win = [u \in Uploads |-> StreamWindow] /\ gone = {}
    /\ event = Zero /\ mgr = "read" /\ evq = <<>>
    /\ chan = [u \in Uploads |-> Fresh]
    /\ phase = [u \in Uploads |-> "idle"]
    /\ unread = Size /\ chunk = [u \in Uploads |-> 0]
    /\ got = [u \in Uploads |-> 0] /\ ended = {}
    /\ owed = 0 /\ sowed = [u \in Uploads |-> 0]
    /\ answer = [u \in Uploads |-> "none"] /\ wire = <<>> /\ lowered = FALSE
    /\ budget = MaxEnv

Environment(kind) == kind \in Env /\ budget > 0 /\ budget' = budget - 1

\* h2 takes no frame on this stream: send_headers(), send_data() and
\* end_stream() raise.
Closed(u) == mgr = "stopped" \/ u \in gone

-----------------------------------------------------------------------------
(* The upload's task: request().  InTurn: it runs when the manager is at an  *)
(* await.                                                                    *)

Goto(u, p) == phase' = [phase EXCEPT ![u] = p]

Start(u) ==
    /\ phase[u] = "idle" /\ Goto(u, IF Closed(u) THEN "failed" ELSE "read")
    /\ UNCHANGED <<conn, win, event, chan, body, owed, sowed, budget>>

AnyAmount(u) == 1 .. ReadMax                                        \* mutant
Available(u) == {n \in 1 .. ReadMax : n <= unread[u]}

\* body.receive() returns up to ReadMax.
Read(u) ==
    /\ phase[u] = "read" /\ Goto(u, "send")
    /\ \E n \in Available(u) : /\ unread' = [unread EXCEPT ![u] = @ - n]
                              /\ chunk'  = [chunk EXCEPT ![u] = n]
    /\ UNCHANGED <<conn, win, event, chan, got, ended, owed, sowed>>

\* The body has ended, or content-length bytes of it are sent.
EndBody(u) ==
    /\ phase[u] = "read" /\ unread[u] = 0
    /\ IF Closed(u) THEN Goto(u, "failed") /\ UNCHANGED ended
                    ELSE Goto(u, "head") /\ ended' = ended \cup {u}
    /\ UNCHANGED <<conn, win, event, chan, unread, chunk, got, owed, sowed>>

\* h2's local_flow_control_window(stream_id).
Local(u) == IF conn < win[u] THEN conn ELSE win[u]

Least(S) == CHOOSE n \in S : \A m \in S : n <= m
ChunkOfStream(u) == Least({win[u], FrameMax, chunk[u]})             \* mutant
ChunkSize(u)     == Least({Local(u), FrameMax, chunk[u]})

\* No window on the connection: wait for an event of this task's own, which
\* takes the place of the one that another task may be waiting for.
Wait(u) ==
    /\ phase[u] = "send" /\ conn = 0
    /\ event' = u /\ Goto(u, "wait")
    /\ UNCHANGED <<conn, win, chan, body, owed, sowed>>

\* After the whole chunk the next is read.
SendOnce(u, n) == Goto(u, "read") /\ chunk' = [chunk EXCEPT ![u] = 0]  \* mutant
Advance(u, n)  == /\ Goto(u, IF n = chunk[u] THEN "read" ELSE "send")
                  /\ chunk' = [chunk EXCEPT ![u] = @ - n]

\* A negative chunk_size slices the chunk from its end: whatever is left of it,
\* it is more than a negative window allows, and h2 raises FlowControlError.
\* With an empty stream window n is 0: an empty frame is sent, again and again.
Send(u) ==
    LET n == ChunkSize(u)
    IN  /\ phase[u] = "send" /\ conn > 0
        /\ IF Closed(u) \/ n < 0 \/ n > Local(u)
           THEN /\ Goto(u, IF Closed(u) THEN "failed" ELSE "refused")
                /\ UNCHANGED <<conn, win, chunk, got, owed, sowed>>
           ELSE /\ Advance(u, n)
                /\ conn'  = conn - n
                /\ win'   = [win EXCEPT ![u] = @ - n]
                /\ got'   = [got EXCEPT ![u] = @ + n]
                /\ owed'  = owed + n
                /\ sowed' = [sowed EXCEPT ![u] = @ + n]
        /\ UNCHANGED <<event, chan, unread, ended>>

\* The first event on the channel is taken for the response (assert, 320); a
\* channel that is closed and empty raises EndOfStream.
Begin(u, s, c) ==
    /\ Goto(u, IF s # <<>> /\ Head(s).kind = "head" THEN "open" ELSE "failed")
    /\ chan' = [chan EXCEPT ![u] = c]

Respond(u) ==
    LET c == chan[u]
    IN  /\ phase[u] = "head"
        /\ CASE c.rx = "woken" -> Begin(u, c.buf, Wake(c))
             [] c.rx = "idle" /\ Pending(c) # <<>> ->
                    Begin(u, Pending(c), Take(c))
             [] c.rx = "idle" /\ Pending(c) = <<>> /\ ~c.sopen ->
                    Begin(u, <<>>, c)
             [] OTHER -> /\ chan' = [chan EXCEPT ![u] = Await(c)]
                         /\ UNCHANGED phase
        /\ UNCHANGED <<conn, win, event, body, owed, sowed>>

\* The response is read.
Drain(u) ==
    /\ phase[u] = "open" /\ Pending(chan[u]) # <<>>
    /\ chan' = [chan EXCEPT ![u] = Take(@)]
    /\ UNCHANGED <<conn, win, event, phase, body, owed, sowed>>

Proceed(u) == /\ \/ Read(u) \/ EndBody(u) \/ Wait(u) \/ Send(u)
                 \/ Respond(u) \/ Drain(u)
              /\ UNCHANGED budget

\* The task is cancelled, or the body raises: the stream and its channel stay.
Cancel(u) ==
    /\ Environment("cancel")
    /\ phase[u] \in Sending \cup {"head"} /\ chan[u].rx # "woken"
    /\ Goto(u, "failed")
    /\ chan' = [chan EXCEPT ![u].rx = "idle"]
    /\ UNCHANGED <<conn, win, event, body, owed, sowed>>

InTurn(A) == /\ mgr # "dispatch" /\ A
             /\ UNCHANGED <<gone, manager, answer, wire, lowered>>

-----------------------------------------------------------------------------
(* The manager *)

Granted(s)  == Cardinality({i \in DOMAIN wire : wire[i] = F("credit", s)})
Lowerings   == Cardinality({i \in DOMAIN wire : wire[i].kind = "settings"})
Resets      == {u \in Uploads : \E i \in DOMAIN wire : wire[i] = F("reset", u)}

\* receive_data() updates the windows for the whole batch; then its events are
\* dispatched.
Receive ==
    /\ mgr = "read" /\ wire # <<>>
    /\ wire' = <<>> /\ evq' = wire /\ mgr' = "dispatch"
    /\ conn' = conn + Granted(Zero)
    /\ win'  = [u \in Uploads |-> win[u] + Granted(u) - Lowerings]
    /\ gone' = gone \cup Resets
    /\ UNCHANGED <<event, chan, phase, body, owed, sowed, answer, lowered,
                   budget>>

Current == Head(evq)
Next1   == evq' = Tail(evq) /\ mgr' = "dispatch"

WakesNobody == UNCHANGED phase                                      \* mutant
\* _can_send_event.set() wakes the upload that waits for the present event.
Wakes == phase' = [u \in Uploads |-> IF u = event /\ phase[u] = "wait"
                                     THEN "send" ELSE phase[u]]

DispatchConnection ==
    /\ mgr = "dispatch" /\ evq # <<>> /\ Current.s = Zero
    /\ Next1
    /\ IF Current.kind = "credit" /\ conn > 0 THEN Wakes ELSE UNCHANGED phase
    /\ UNCHANGED <<h2, event, chan, body, peer, budget>>

\* StreamEnded and StreamReset close the channel after the send.
Passed(c) == IF Current.kind \in {"end", "reset"} THEN CloseSend(c) ELSE c

DispatchStream ==
    /\ mgr = "dispatch" /\ evq # <<>> /\ Current.s \in Uploads
    /\ IF HasRoom(chan[Current.s])
       THEN /\ chan' = [chan EXCEPT ![Current.s] = Passed(Put(@, Current))]
            /\ Next1
       ELSE /\ chan' = [chan EXCEPT ![Current.s] = Block(@, Current)]
            /\ mgr' = "blocked" /\ UNCHANGED evq
    /\ UNCHANGED <<h2, event, phase, body, peer, budget>>

Resume ==
    /\ mgr = "blocked" /\ chan[Current.s].snd = <<>>
    /\ chan' = [chan EXCEPT ![Current.s] = Passed(@)]
    /\ Next1
    /\ UNCHANGED <<h2, event, phase, body, peer, budget>>

BatchDone ==
    /\ mgr = "dispatch" /\ evq = <<>>
    /\ mgr' = "read"
    /\ UNCHANGED <<h2, event, evq, chan, phase, body, peer, budget>>

Abandoned == chan                                                   \* mutant
Closing == [u \in Uploads |->
              LET c == Unblock(chan[u])
              IN  IF phase[u] = "idle" \/ ~c.sopen THEN c
                  ELSE IF HasRoom(c) THEN CloseSend(Put(c, F("reset", u)))
                  ELSE CloseSend(c)]

\* The manager ends, at one of its awaits: every channel that is open gets a
\* reset, if it takes one within the time limit, and is closed.  Nothing sets
\* _can_send_event.
Stop ==
    /\ mgr \in {"read", "blocked"} /\ Environment("stop")
    /\ mgr' = "stopped" /\ evq' = <<>>
    /\ chan' = Closing
    /\ UNCHANGED <<h2, event, phase, body, peer>>

-----------------------------------------------------------------------------
(* The server.  What arrives while the manager dispatches might as well      *)
(* arrive afterwards.                                                        *)

Says(kind, s) == Len(wire) < MaxWire /\ wire' = Append(wire, F(kind, s))

GrantConnection ==
    /\ owed > 0 /\ Says("credit", Zero)
    /\ owed' = owed - 1
    /\ UNCHANGED <<sowed, answer, lowered, budget>>

GrantStream(u) ==
    /\ sowed[u] > 0 /\ u \notin ended /\ answer[u] # "end" /\ Says("credit", u)
    /\ sowed' = [sowed EXCEPT ![u] = @ - 1]
    /\ UNCHANGED <<owed, answer, lowered, budget>>

\* HEADERS, at once or when the body is complete; then END_STREAM.
Answer(u) ==
    /\ phase[u] # "idle" /\ answer[u] = "none" /\ Says("head", u)
    /\ IF u \in ended THEN UNCHANGED budget ELSE Environment("early")
    /\ answer' = [answer EXCEPT ![u] = "head"]
    /\ UNCHANGED <<owed, sowed, lowered>>

Finish(u) ==
    /\ \/ answer[u] = "head" /\ Says("end", u) /\ UNCHANGED budget
       \/ /\ phase[u] # "idle" /\ answer[u] # "end"
          /\ Says("reset", u) /\ Environment("reset")
    /\ answer' = [answer EXCEPT ![u] = "end"]
    /\ UNCHANGED <<owed, sowed, lowered>>

Lower ==
    /\ Says("settings", Zero) /\ Environment("lower")
    /\ lowered' = TRUE
    /\ UNCHANGED <<owed, sowed, answer>>

Serves(A) == /\ mgr \in {"read", "blocked"} /\ A
             /\ UNCHANGED <<h2, event, manager, chan, phase, body>>

-----------------------------------------------------------------------------

Manager == \/ Receive \/ DispatchConnection \/ DispatchStream \/ Resume
           \/ BatchDone

Next == \/ Manager \/ Stop
        \/ Serves(GrantConnection \/ Lower)
        \/ \E u \in Uploads :
             \/ InTurn(Start(u) \/ Proceed(u) \/ Cancel(u))
             \/ Serves(GrantStream(u) \/ Answer(u) \/ Finish(u))

Spec == Init /\ [][Next]_vars

\* Every task that is ready runs; the server grants what it has consumed and
\* answers the requests it has in full.
Fairness ==
    /\ WF_vars(Manager) /\ WF_vars(Serves(GrantConnection))
    /\ \A u \in Uploads :
         /\ WF_vars(InTurn(Proceed(u)))
         /\ WF_vars(Serves(GrantStream(u)))
         /\ WF_vars(Serves(u \in ended /\ Answer(u)))
         /\ WF_vars(Serves(Finish(u) /\ UNCHANGED budget))

FairSpec == Spec /\ Fairness

-----------------------------------------------------------------------------
(* Properties *)

\* However tasks interleave on the windows they share, h2 never refuses a chunk
\* of send_stream_data() (224), unless the server lowered the streams' window
\* below what was in use, which leaves chunk_size negative.
OnlyLoweringRefuses == (\E u \in Uploads : phase[u] = "refused") => lowered

\* The server sees END_STREAM only after the whole body: waits, partial chunks
\* and wake-ups in between lose nothing of it (229-235, 295-306).
CompleteUpload == \A u \in ended : got[u] = Size[u]

CreditComing == \E i \in DOMAIN evq : evq[i] = F("credit", Zero)

\* An upload that waits for _can_send_event while the connection has a window
\* is about to be woken, or the event that it waits for is no longer the one
\* that the manager sets (220), or the manager has ended.
NoLostWakeup ==
    \A u \in Uploads :
        phase[u] = "wait" /\ conn > 0 =>
            CreditComing \/ event # u \/ mgr = "stopped"

\* What keeps an upload for ever: its event was replaced; the manager has ended
\* and sets no event; or the manager is blocked on a channel that no task reads,
\* that of an upload still being sent or of one that was given up.
Unread(u) == phase[u] \in Sending \cup {"failed", "refused"}
Stuck(u) ==
    \/ phase[u] = "wait" /\ (event # u \/ mgr = "stopped")
    \/ mgr = "blocked" /\ Unread(Current.s)

\* Every upload comes to its response or fails, for whatever other reason than
\* these three it might wait.
UploadEnds ==
    \A u \in Uploads : phase[u] = "read" ~> (phase[u] \in Over \/ []Stuck(u))
=============================================================================
