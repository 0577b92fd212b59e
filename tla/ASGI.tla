---------------------------------- MODULE ASGI ----------------------------------
(***************************************************************************)
(* ASGIConnection, ASGIRequest, ASGIResponseStream and ASGIWebSocketStream *)
(* (_asgi.py): each request runs the application in a task of the          *)
(* connection's group and talks to it through two memory streams.  The     *)
(* application is external: it reads the request or not, answers, and      *)
(* returns, raises, or is cancelled.                                       *)
(***************************************************************************)
EXTENDS Naturals, Sequences, FiniteSets, MemoryStream

CONSTANTS Requests,
          WebSockets,      \* those made with connect_ws()
          Uploads,         \* those with a body
          Readers,         \* those whose app reads the body before it answers
          MaxConnections,  \* ASGIConnection.max_connections
          MaxUp,           \* bound: body chunks, or WebSocket messages, sent
          MaxData,         \* bound: the same, from the application
          Env,             \* which of EnvKinds may happen
          MaxEnv           \* bound: how many of them, in one behaviour

EnvKinds == {"close",   \* the consumer closes a response before its end
             "cancel",  \* the consumer's task is cancelled
             "raise",   \* the application raises
             "odd",     \* it sends an event of an unexpected type
             "exit"}    \* the client closes the connection

ASSUME ASGIAssumption ==
    /\ WebSockets \subseteq Requests
    /\ Uploads \subseteq Requests \ WebSockets
    /\ Readers \subseteq Requests \ WebSockets
    /\ IsFiniteSet(Requests)
    /\ {MaxConnections, MaxUp, MaxData, MaxEnv} \subseteq Nat
    /\ Env \subseteq EnvKinds

VARIABLES
    active,    \* self._active_requests
    closed,    \* self._closed, and _stop_event with it
    raised,    \* an app raised: the connection's task group is cancelled
    mgr,       \* manage(): "up" or "stopped"
    toApp,     \* the channel of _client_send
    toClient,  \* the channel of _client_receive
    app,       \* what has become of each request's app task
    stage,     \* how far the app is with its answer
    sent,      \* body events, or messages, it has sent
    phase,     \* where each request's task is
    result,    \* how its response ended, as the task saw it
    rcvd,      \* body events, or messages, it has received
    up,        \* chunks, or messages, it has sent
    budget     \* environment events that may still happen

connection == <<active, closed, raised, mgr>>
apps       == <<app, stage, sent>>
consumer   == <<phase, result, rcvd, up>>
vars       == <<connection, toApp, toClient, apps, consumer, budget>>

UpKinds   == {"chunk", "end", "connect", "message", "disconnect"}
DownKinds == {"start", "body", "last", "accept", "reject", "message", "close", "odd"}

TypeOK ==
    /\ active \subseteq Requests
    /\ closed \in BOOLEAN /\ raised \in BOOLEAN
    /\ mgr \in {"up", "stopped"}
    /\ toApp \in [Requests -> Channels(UpKinds)]
    /\ toClient \in [Requests -> Channels(DownKinds)]
    /\ app \in [Requests -> {"none", "running", "returned", "raised", "cancelled"}]
    /\ stage \in [Requests -> {"request", "ready", "body", "rejecting", "done"}]
    /\ sent \in [Requests -> 0..(MaxData + 1)]
    /\ phase \in [Requests -> {"idle", "sending", "head", "rejected", "open",
                               "disconnecting", "closing", "closed", "failed"}]
    /\ result \in [Requests -> {"none", "end", "closed", "rejected", "cancelled", "error"}]
    /\ rcvd \in [Requests -> 0..(MaxData + 1)]
    /\ up \in [Requests -> 0..MaxUp]
    /\ budget \in 0..MaxEnv

Init ==
    /\ active = {} /\ closed = FALSE /\ raised = FALSE /\ mgr = "up"
    /\ toApp = [r \in Requests |-> Fresh] /\ toClient = [r \in Requests |-> Fresh]
    /\ app = [r \in Requests |-> "none"]
    /\ stage = [r \in Requests |-> IF r \in Readers THEN "request" ELSE "ready"]
    /\ sent = [r \in Requests |-> 0]
    /\ phase = [r \in Requests |-> "idle"]
    /\ result = [r \in Requests |-> "none"]
    /\ rcvd = [r \in Requests |-> 0] /\ up = [r \in Requests |-> 0]
    /\ budget = MaxEnv

Environment(kind) == kind \in Env /\ budget > 0 /\ budget' = budget - 1

available_slots == IF closed THEN 0 ELSE MaxConnections - Cardinality(active)

\* send(): the item is accepted, or the sender waits for room (snd); and
\* receive(): what there is for a receiver that is not waiting.
Send(c, e)  == IF HasRoom(c) THEN Put(c, e) ELSE Block(c, e)
Sending(c)  == c.snd # <<>>
Ready(c)    == IF c.rx = "woken" THEN c.buf ELSE Pending(c)
Received(c) == IF c.rx = "woken" THEN Wake(c) ELSE Take(c)
AtEnd(c)    == c.rx # "wait" /\ Ready(c) = <<>> /\ (c.rx = "woken" \/ ~c.sopen)
MustWait(c) == c.rx = "idle" /\ Ready(c) = <<>> /\ c.sopen

-----------------------------------------------------------------------------
(* ASGIRequest *)

\* The app's task ends, and closes its ends of the channels.
EndApp(r, how) ==
    /\ app' = [app EXCEPT ![r] = how]
    /\ toApp' = [toApp EXCEPT ![r] = CloseRecv(@)]
    /\ toClient' = [toClient EXCEPT ![r] = CloseSend(Unblock(@))]

ReleaseSwapped(r, res) ==                                           \* mutant
    /\ phase' = [phase EXCEPT ![r] = res]
    /\ result' = [result EXCEPT ![r] = "closing"]

\* ASGIRequest.aclose() begins: it cancels the app and, shielded, waits for it.
Release(r, res) ==
    /\ phase' = [phase EXCEPT ![r] = "closing"]
    /\ result' = [result EXCEPT ![r] = res]

CloseAtOnce(r) ==                                                   \* mutant
    /\ phase[r] = "closing"
    /\ phase' = [phase EXCEPT ![r] = "closed"]
    /\ toApp' = [toApp EXCEPT ![r] = CloseSend(@)]
    /\ toClient' = [toClient EXCEPT ![r] = CloseRecv(@)]
    /\ UNCHANGED <<connection, apps, result, rcvd, up, budget>>

CloseRequest(r) ==
    /\ phase[r] = "closing" /\ app[r] # "running"
    /\ phase' = [phase EXCEPT ![r] = "closed"]
    /\ toApp' = [toApp EXCEPT ![r] = CloseSend(@)]
    /\ toClient' = [toClient EXCEPT ![r] = CloseRecv(@)]
    /\ UNCHANGED <<connection, apps, result, rcvd, up, budget>>

-----------------------------------------------------------------------------
(* ASGIConnection *)

\* request() and connect_ws() start the app.  Nothing ever takes a request out
\* of _active_requests: release_request() is not called.
Start(r) ==
    /\ phase[r] = "idle" /\ available_slots # 0
    /\ active' = active \cup {r}
    /\ IF raised
       THEN /\ phase' = [phase EXCEPT ![r] = "failed"]
            /\ result' = [result EXCEPT ![r] = "error"]
            /\ UNCHANGED app
       ELSE /\ app' = [app EXCEPT ![r] = "running"]
            /\ phase' = [phase EXCEPT ![r] = IF r \in Uploads \cup WebSockets
                                             THEN "sending" ELSE "head"]
            /\ UNCHANGED result
    /\ UNCHANGED <<closed, raised, mgr, toApp, toClient, stage, sent, rcvd, up, budget>>

SendNothing(r) ==                                                   \* mutant
    /\ phase[r] = "sending" /\ r \in Uploads
    /\ phase' = [phase EXCEPT ![r] = "head"]
    /\ UNCHANGED <<connection, toApp, toClient, apps, result, rcvd, up, budget>>

\* The request body: its chunks, and the event that ends it.
SendBody(r) ==
    LET c == toApp[r]
    IN  /\ phase[r] = "sending" /\ r \in Uploads /\ ~Sending(c) /\ c.ropen
        /\ \/ /\ up[r] < MaxUp
              /\ up' = [up EXCEPT ![r] = @ + 1]
              /\ toApp' = [toApp EXCEPT ![r] = Send(c, "chunk")]
              /\ UNCHANGED phase
           \/ /\ toApp' = [toApp EXCEPT ![r] = Send(c, "end")]
              /\ phase' = [phase EXCEPT ![r] = "head"]
              /\ UNCHANGED up
        /\ UNCHANGED <<connection, toClient, apps, result, rcvd, budget>>

\* The app has gone: BrokenResourceError, from send() or from its wait.
SendBroken(r) ==
    /\ ~toApp[r].ropen
    /\ \/ phase[r] = "sending" /\ r \in Uploads
       \/ phase[r] \in {"head", "open", "disconnecting"} /\ Sending(toApp[r])
    /\ toApp' = [toApp EXCEPT ![r] = Unblock(@)]
    /\ Release(r, "error")
    /\ UNCHANGED <<connection, toClient, apps, rcvd, up, budget>>

\* connect_ws() does not mind that.
SendConnect(r) ==
    /\ phase[r] = "sending" /\ r \in WebSockets
    /\ toApp' = [toApp EXCEPT ![r] = IF @.ropen THEN Send(@, "connect") ELSE @]
    /\ phase' = [phase EXCEPT ![r] = "head"]
    /\ UNCHANGED <<connection, toClient, apps, result, rcvd, up, budget>>

\* The task is in receive(), or about to call it.
Receiving(r) == phase[r] \in {"head", "rejected", "open"} /\ ~Sending(toApp[r])

AwaitEvent(r) ==
    /\ Receiving(r) /\ MustWait(toClient[r])
    /\ toClient' = [toClient EXCEPT ![r] = Await(@)]
    /\ UNCHANGED <<connection, toApp, apps, consumer, budget>>

\* receive() returns e to a task in phase p.
Takes(r, p, e) ==
    LET c == toClient[r]
    IN  /\ phase[r] = p /\ Receiving(r) /\ c.rx # "wait" /\ Ready(c) # <<>>
        /\ e = Head(Ready(c))
        /\ toClient' = [toClient EXCEPT ![r] = Received(c)]
        /\ UNCHANGED <<connection, apps, up, budget>>

Opens(r)     == phase' = [phase EXCEPT ![r] = "open"] /\ UNCHANGED <<result, rcvd, toApp>>
Ends(r, res) == Release(r, res) /\ UNCHANGED <<rcvd, toApp>>
Gets(r)      == rcvd' = [rcvd EXCEPT ![r] = @ + 1] /\ UNCHANGED <<phase, result, toApp>>

ReceiveResponse(r) ==
    \/ Takes(r, "head", "start") /\ Opens(r)
    \/ r \notin WebSockets /\ Takes(r, "head", "odd") /\ Ends(r, "error")  \* HTTPError

\* connect_ws(): the app accepts, closes, or rejects with a response.
ReceiveHandshake(r) ==
    \/ Takes(r, "head", "accept") /\ Opens(r)
    \/ Takes(r, "head", "close") /\ Ends(r, "rejected")
    \/ r \in WebSockets /\ Takes(r, "head", "odd") /\ Ends(r, "error")
    \/ /\ Takes(r, "head", "reject")
       /\ phase' = [phase EXCEPT ![r] = "rejected"]
       /\ UNCHANGED <<result, rcvd, toApp>>
    \/ Takes(r, "rejected", "body") /\ UNCHANGED <<phase, result, rcvd, toApp>>
    \/ Takes(r, "rejected", "last") /\ Ends(r, "rejected")     \* HTTPStatusError
    \/ Takes(r, "rejected", "odd") /\ Ends(r, "error")         \* KeyError

\* ASGIResponseStream.receive: "body" and "last" differ in more_body only.
ReceiveBody(r) ==
    /\ r \notin WebSockets
    /\ \/ \E e \in {"body", "last"} : Takes(r, "open", e) /\ Gets(r)
       \/ Takes(r, "open", "odd") /\ Ends(r, "error")

\* ASGIWebSocketStream.receive, and the aclose() that follows when it raises:
\* after the app's close it sends nothing more.
ReceiveMessage(r) ==
    /\ r \in WebSockets
    /\ \/ Takes(r, "open", "message") /\ Gets(r)
       \/ Takes(r, "open", "close") /\ Ends(r, "end")
       \/ /\ Takes(r, "open", "odd")
          /\ phase' = [phase EXCEPT ![r] = "disconnecting"]
          /\ toApp' = [toApp EXCEPT ![r] = IF @.ropen THEN Send(@, "disconnect") ELSE @]
          /\ UNCHANGED <<result, rcvd>>

\* EndOfStream, because the app's task has ended: for a response stream that is
\* the end of the body.
ReceiveEnd(r) ==
    /\ Receiving(r) /\ AtEnd(toClient[r])
    /\ toClient' = [toClient EXCEPT ![r].rx = "idle"]
    /\ Release(r, CASE phase[r] = "head"     -> "error"
                    [] phase[r] = "rejected" -> "rejected"
                    [] OTHER                 -> "end")
    /\ UNCHANGED <<connection, toApp, apps, rcvd, up, budget>>

CloseEarly(r) ==
    /\ phase[r] = "open" /\ r \notin WebSockets /\ toClient[r].rx = "idle"
    /\ Environment("close")
    /\ Release(r, "closed")
    /\ UNCHANGED <<connection, toApp, toClient, apps, rcvd, up>>

\* The task is cancelled where it waits: by its own scope, or with the client's
\* task group after manage() has raised.
Cancel(r) ==
    /\ \/ phase[r] \in {"sending", "head", "open", "disconnecting"} /\ Sending(toApp[r])
       \/ Receiving(r) /\ toClient[r].rx = "wait"
    /\ Environment("cancel") \/ (raised /\ mgr = "stopped" /\ UNCHANGED budget)
    /\ toApp' = [toApp EXCEPT ![r] = Unblock(@)]
    /\ toClient' = [toClient EXCEPT ![r].rx = "idle"]
    /\ Release(r, "cancelled")
    /\ UNCHANGED <<connection, apps, rcvd, up>>

\* ASGIWebSocketStream.send and aclose.
SendMessage(r) ==
    /\ phase[r] = "open" /\ r \in WebSockets /\ up[r] < MaxUp
    /\ toClient[r].rx = "idle" /\ ~Sending(toApp[r]) /\ toApp[r].ropen
    /\ toApp' = [toApp EXCEPT ![r] = Send(@, "message")]
    /\ up' = [up EXCEPT ![r] = @ + 1]
    /\ UNCHANGED <<connection, toClient, apps, phase, result, rcvd, budget>>

Disconnect(r) ==
    /\ phase[r] = "open" /\ r \in WebSockets
    /\ toClient[r].rx = "idle" /\ ~Sending(toApp[r])
    /\ \/ /\ toApp[r].ropen
          /\ toApp' = [toApp EXCEPT ![r] = Send(@, "disconnect")]
          /\ phase' = [phase EXCEPT ![r] = "disconnecting"]
          /\ UNCHANGED result
       \/ ~toApp[r].ropen /\ Release(r, "error") /\ UNCHANGED toApp
    /\ UNCHANGED <<connection, toClient, apps, rcvd, up, budget>>

Disconnected(r) ==
    /\ phase[r] = "disconnecting" /\ ~Sending(toApp[r])
    /\ Release(r, "closed")
    /\ UNCHANGED <<connection, toApp, toClient, apps, rcvd, up, budget>>

AcloseCancelsApps ==                                                \* mutant
    /\ Environment("exit") /\ ~closed
    /\ closed' = TRUE
    /\ app' = [r \in Requests |-> IF app[r] = "running" THEN "cancelled" ELSE app[r]]
    /\ toApp' = [r \in Requests |-> CloseRecv(toApp[r])]
    /\ toClient' = [r \in Requests |-> CloseSend(Unblock(toClient[r]))]
    /\ UNCHANGED <<active, raised, mgr, stage, sent, consumer>>

\* ASGIConnection.aclose, and the end of manage(): the group waits for the apps.
AClose ==
    /\ Environment("exit") /\ ~closed
    /\ closed' = TRUE
    /\ UNCHANGED <<active, raised, mgr, toApp, toClient, apps, consumer>>

StopWhenClosed ==                                                   \* mutant
    /\ mgr = "up" /\ closed
    /\ \A r \in Requests : app[r] # "running"
    /\ mgr' = "stopped"
    /\ UNCHANGED <<active, closed, raised, toApp, toClient, apps, consumer, budget>>

Stop ==
    /\ mgr = "up"
    /\ closed \/ raised
    /\ \A r \in Requests : app[r] # "running"
    /\ mgr' = "stopped"
    /\ UNCHANGED <<active, closed, raised, toApp, toClient, apps, consumer, budget>>
-----------------------------------------------------------------------------
(* The application (external) *)

\* Its scope was cancelled by aclose(), or the group's because another raised:
\* it can await nothing more.
Cancelled(r) == raised \/ phase[r] = "closing"
AppTurn(r) == app[r] = "running" /\ toApp[r].rx # "wait" /\ ~Sending(toClient[r])
AppAwaits(r) == AppTurn(r) /\ ~Cancelled(r)

AppSend(r, e, next) ==
    /\ AppAwaits(r)
    /\ toClient' = [toClient EXCEPT ![r] = Send(@, e)]
    /\ stage' = [stage EXCEPT ![r] = next]
    /\ UNCHANGED <<connection, toApp, app, consumer>>

Counted(r) == sent' = [sent EXCEPT ![r] = @ + 1]

\* A response, or the answer to a WebSocket handshake; then its body.
AppAnswer(r) ==
    /\ stage[r] = "ready"
    /\ IF r \in WebSockets
       THEN \/ AppSend(r, "accept", "body")
            \/ AppSend(r, "reject", "rejecting")
            \/ AppSend(r, "close", "done")
       ELSE AppSend(r, "start", "body")
    /\ UNCHANGED <<sent, budget>>

AppBody(r) ==
    /\ stage[r] = (IF r \in WebSockets THEN "rejecting" ELSE "body")
    /\ \/ sent[r] < MaxData /\ AppSend(r, "body", stage[r])
       \/ AppSend(r, "last", "done")
    /\ Counted(r) /\ UNCHANGED budget

AppMessage(r) ==
    /\ stage[r] = "body" /\ r \in WebSockets
    /\ \/ sent[r] < MaxData /\ AppSend(r, "message", "body") /\ Counted(r)
       \/ AppSend(r, "close", "done") /\ UNCHANGED sent
    /\ UNCHANGED budget

AppOdd(r) ==
    /\ Environment("odd") /\ stage[r] \in {"ready", "body", "rejecting"}
    /\ AppSend(r, "odd", stage[r])
    /\ UNCHANGED sent

\* A reader receives the body to its end; any app may receive later on.
AppReceive(r) ==
    LET c == toApp[r]
    IN  /\ app[r] = "running"
        /\ \/ /\ AppTurn(r) /\ Ready(c) # <<>> /\ (c.rx = "woken" \/ ~Cancelled(r))
              /\ toApp' = [toApp EXCEPT ![r] = Received(c)]
              /\ stage' = [stage EXCEPT ![r] = CASE Head(Ready(c)) = "end" /\ @ = "request" -> "ready"
                                                 [] Head(Ready(c)) = "disconnect" -> "done"
                                                 [] OTHER -> @]
           \/ /\ AppAwaits(r) /\ MustWait(c) /\ stage[r] = "request"
              /\ toApp' = [toApp EXCEPT ![r] = Await(c)]
              /\ UNCHANGED stage
        /\ r \in Readers \cup WebSockets
        /\ UNCHANGED <<connection, toClient, app, sent, consumer, budget>>

AppReturns(r) ==
    /\ AppTurn(r) /\ stage[r] = "done"
    /\ EndApp(r, "returned")
    /\ UNCHANGED <<connection, stage, sent, consumer, budget>>

\* The exception ends the connection's task group, and with it the client's.
AppRaises(r) ==
    /\ AppTurn(r) /\ Environment("raise")
    /\ EndApp(r, "raised")
    /\ raised' = TRUE
    /\ UNCHANGED <<active, closed, mgr, stage, sent, consumer>>

AppCancelled(r) ==
    /\ app[r] = "running" /\ Cancelled(r)
    /\ EndApp(r, "cancelled")
    /\ UNCHANGED <<connection, stage, sent, consumer, budget>>
-----------------------------------------------------------------------------
App(r) == AppAnswer(r) \/ AppBody(r) \/ AppReceive(r) \/ AppReturns(r) \/ AppCancelled(r)
Task(r) == \/ SendBody(r) \/ SendBroken(r) \/ SendConnect(r)
           \/ AwaitEvent(r) \/ ReceiveResponse(r) \/ ReceiveHandshake(r)
           \/ ReceiveBody(r) \/ ReceiveMessage(r) \/ ReceiveEnd(r)
           \/ Disconnected(r) \/ CloseRequest(r)

Next ==
    \/ \E r \in Requests : \/ Start(r) \/ Task(r) \/ CloseEarly(r) \/ Cancel(r)
                           \/ SendMessage(r) \/ Disconnect(r)
                           \/ App(r) \/ AppMessage(r) \/ AppOdd(r) \/ AppRaises(r)
    \/ AClose \/ Stop

Spec == Init /\ [][Next]_vars

\* Tasks that can run do; an app answers, but need not end a WebSocket.
Fairness ==
    /\ WF_vars(Stop)
    /\ \A r \in Requests :
         /\ WF_vars(App(r)) /\ WF_vars(Task(r))
         /\ WF_vars(raised /\ mgr = "stopped" /\ Cancel(r))

FairSpec == Spec /\ Fairness
-----------------------------------------------------------------------------
(* Properties *)

\* A response stream takes the end of the app's task for the end of the body
\* (_asgi.py:315-320, more_body is not looked at).  The body it has seen is the
\* whole of it, unless an app raised, which also ends manage() and the client:
\* nothing else, not the client's exit and not another request's end, cuts a
\* response off and lets it look complete.
CompleteBody ==
    \A r \in Requests \ WebSockets :
        result[r] = "end" => raised \/ (stage[r] = "done" /\ rcvd[r] = sent[r])

\* No app outlives its request: once the request has been closed, however it
\* ended and also when its task was cancelled, the app's task has ended
\* (_asgi.py:270-277); and manage() has not returned before (_asgi.py:99-103).
AppEndsWithRequest ==
    \A r \in Requests : app[r] = "running" => phase[r] # "closed" /\ mgr = "up"

\* A request whose app reads the body it is sent, or answers at once a request
\* without one, is answered; a WebSocket handshake too (_asgi.py:135-234).  (An
\* app that answers first, when the body has several chunks, or that waits for a
\* body when there is none, can wait for ever: nobody sends it one.)
Answered ==
    \A r \in Requests :
        r \in WebSockets \/ (r \in Readers <=> r \in Uploads) =>
            (phase[r] \in {"sending", "head"} ~>
                phase[r] = "closed" \/ (r \in WebSockets /\ phase[r] = "open"))

\* The client's exit ends once its requests have, and an app that raises ends
\* the connection at once, other requests' apps and waiting tasks included.
Shutdown ==
    raised \/ (closed /\ \A r \in Requests : phase[r] \in {"idle", "closed", "failed"})
        ~> mgr = "stopped"
=============================================================================
