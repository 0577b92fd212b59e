--------------------------- MODULE WebSocketProofs ---------------------------
(***************************************************************************)
(* Proofs about WebSocket, for any number of pieces, calls of aclose() and *)
(* environment events.  The last theorem is that every step is a step of   *)
(* ResponseBody, or changes nothing that it speaks of.                     *)
(***************************************************************************)
EXTENDS WebSocket, QueueProofs

-----------------------------------------------------------------------------
(* The loop of receive(), from its top: what it may do with the next event.  *)

WaitsForMore(ev) ==
    /\ ev = <<>> /\ rx' = "read" /\ events' = <<>>
    /\ UNCHANGED <<ws, code, stream, last, result, got>>

TakesPiece(ev) ==
    /\ Head(ev) = "piece" /\ got' = got + 1 /\ rx' = "idle" /\ result' = "piece"
    /\ UNCHANGED <<ws, code, stream>>

TakesClose(ev) ==
    /\ \/ Head(ev) = "close" /\ code' = Normal
       \/ Head(ev) = "other" /\ code' = "other"
    /\ ws' \in {ws, "remote"} /\ stream' = "closed" /\ got' = got
    /\ rx' = "idle" /\ result' \in {"ended", "broken"}

TakesControl(ev) ==
    /\ \/ Head(ev) = "pong" /\ rx' = "read" /\ result' = result
       \/ Head(ev) = "ping" /\ rx' = "pong" /\ result' = result
       \/ Head(ev) = "ping" /\ rx' = "idle" /\ result' = "busy"
       \/ /\ Head(ev) = "ping" /\ rx' = "idle" /\ result' = "error"
          /\ ws # "open" \/ stream = "closed"
    /\ UNCHANGED <<ws, code, stream, got>>

Takes(ev) ==
    /\ ev # <<>> /\ events' = Tail(ev) /\ last' = Head(ev)
    /\ TakesPiece(ev) \/ TakesClose(ev) \/ TakesControl(ev)

LEMMA LoopEffects ==
    ASSUME NEW ev \in Seq(Frames), Loop(ev)
    PROVE  WaitsForMore(ev) \/ Takes(ev)
<1>1. CASE ev = <<>>
  BY <1>1 DEF Loop, shared, WaitsForMore
<1>2. CASE ev # <<>>
  <2>1. Head(ev) \in Frames  BY <1>2
  <2>2. events' = Tail(ev) /\ last' = Head(ev)  BY <1>2 DEF Loop
  <2>3. CASE Head(ev) = "piece"
    <3>1. got' = got + 1 /\ Return("piece") /\ UNCHANGED shared
      BY <1>2, <2>3 DEF Loop
    <3> QED  BY <1>2, <2>2, <2>3, <3>1 DEF Return, shared, Takes, TakesPiece
  <2>4. CASE Head(ev) = "close"
    <3>1. TakeClose(Normal)  BY <1>2, <2>4 DEF Loop
    <3> QED  BY <1>2, <2>2, <2>4, <3>1 DEF TakeClose, Return, Raised, Takes, TakesClose
  <2>5. CASE Head(ev) = "other"
    <3>1. TakeClose("other")  BY <1>2, <2>5 DEF Loop
    <3> QED  BY <1>2, <2>2, <2>5, <3>1 DEF TakeClose, Return, Raised, Takes, TakesClose
  <2>6. CASE Head(ev) = "ping"
    <3>1. AnswerPing  BY <1>2, <2>6 DEF Loop
    <3>2. UNCHANGED <<ws, code, stream, got>>  BY <3>1 DEF AnswerPing, shared
    <3>3. \/ rx' = "pong" /\ result' = result
          \/ rx' = "idle" /\ result' = "busy"
          \/ rx' = "idle" /\ result' = "error" /\ (ws # "open" \/ stream = "closed")
      BY <3>1 DEF AnswerPing, Return
    <3> QED  BY <1>2, <2>2, <2>6, <3>2, <3>3 DEF Takes, TakesControl
  <2>7. CASE Head(ev) = "pong"
    <3>1. rx' = "read" /\ UNCHANGED <<shared, result, got>>
      BY <1>2, <2>7 DEF Loop
    <3> QED  BY <1>2, <2>2, <2>7, <3>1 DEF shared, Takes, TakesControl
  <2> QED  BY <2>1, <2>3, <2>4, <2>5, <2>6, <2>7 DEF Frames
<1> QED  BY <1>1, <1>2

-----------------------------------------------------------------------------
(* Type correctness *)

Results == {"none", "piece", "ended", "broken", "busy", "error", "cancelled"}

LEMMA LoopType ==
    ASSUME TypeOK, NEW ev \in Seq(Frames), Loop(ev)
    PROVE  /\ events' \in Seq(Frames) /\ ws' \in {"open", "local", "remote"}
           /\ code' \in {"none", Normal, "other", Abnormal}
           /\ stream' \in {"open", "closed"}
           /\ rx' \in {"idle", "read", "pong"} /\ last' \in Frames \cup {"none"}
           /\ result' \in Results /\ got' \in Nat
<1>1. CASE WaitsForMore(ev)  BY <1>1 DEF WaitsForMore, TypeOK, Results
<1>2. CASE Takes(ev)
  <2>1. Head(ev) \in Frames /\ Tail(ev) \in Seq(Frames)  BY <1>2 DEF Takes
  <2>2. events' \in Seq(Frames) /\ last' \in Frames  BY <1>2, <2>1 DEF Takes
  <2>3. TakesPiece(ev) \/ TakesClose(ev) \/ TakesControl(ev)  BY <1>2 DEF Takes
  <2> QED  BY <2>2, <2>3 DEF TakesPiece, TakesClose, TakesControl, TypeOK, Results
<1> QED  BY <1>1, <1>2, LoopEffects

LEMMA ReceivedType ==
    ASSUME TypeOK, NEW n \in 1 .. Len(wire)
    PROVE  /\ Received(n) \in Seq(Frames)
           /\ SubSeq(wire, n + 1, Len(wire)) \in Seq(Frames)
<1>1. wire \in Seq(Frames) /\ events \in Seq(Frames) /\ n \in 0 .. Len(wire)
  BY DEF TypeOK
<1>2. SubSeq(wire, 1, n) \in Seq(Frames) /\ SubSeq(wire, n + 1, Len(wire)) \in Seq(Frames)
  BY <1>1, CountSplit
<1> QED  BY <1>1, <1>2 DEF Received

LEMMA NextType == TypeOK /\ [Next]_vars => TypeOK'
<1> SUFFICES ASSUME TypeOK, [Next]_vars PROVE TypeOK'  OBVIOUS
<1>1. CASE Call
  <2>1. UNCHANGED <<others, server, budget>>  BY <1>1 DEF Call
  <2>2. CASE Loop(events)
    BY <2>1, <2>2, LoopType DEF TypeOK, others, server, Results
  <2>3. CASE Return(Raised(code)) /\ UNCHANGED <<shared, events, last, got>>
    BY <2>1, <2>3 DEF Return, Raised, TypeOK, shared, others, server
  <2> QED  BY <1>1, <2>2, <2>3 DEF Call
<1>2. CASE Read
  <2>1. PICK n \in 1 .. Len(wire) : /\ wire' = SubSeq(wire, n + 1, Len(wire))
                                    /\ Loop(Received(n))
    BY <1>2 DEF Read
  <2>2. wire' \in Seq(Frames)  BY <2>1, ReceivedType
  <2>3. /\ events' \in Seq(Frames) /\ ws' \in {"open", "local", "remote"}
        /\ code' \in {"none", Normal, "other", Abnormal}
        /\ stream' \in {"open", "closed"}
        /\ rx' \in {"idle", "read", "pong"} /\ last' \in Frames \cup {"none"}
        /\ result' \in Results /\ got' \in Nat
    BY <2>1, ReceivedType, LoopType
  <2> QED  BY <1>2, <2>2, <2>3 DEF Read, TypeOK, others, Results
<1>3. CASE PongSent \/ ReadEof \/ ReadFails \/ CancelReceive
  BY <1>3 DEF PongSent, ReadEof, ReadFails, CancelReceive, Environment, Return,
              TypeOK, shared, others, server
<1>4. CASE Send \/ SendReturns
  BY <1>4 DEF Send, SendReturns, Environment, TypeOK, shared, receiver, server
<1>5. CASE AClose \/ CloseSent
  BY <1>5 DEF AClose, CloseSent, CloseTunnel, Environment, TypeOK, receiver, server
<1>6. CASE Server
  <2>1. ASSUME NEW f \in Frames, Says(f) PROVE wire' \in Seq(Frames)
    BY <2>1 DEF Says, TypeOK
  <2>2. wire' \in Seq(Frames)
    BY <1>6, <2>1 DEF Server, SendPiece, SendControl, SendClose, End, Control, Frames, TypeOK
  <2>3. /\ srv' \in {"open", "close", "other", "eof", "abort"}
        /\ sent' \in Nat /\ budget' \in Nat
    BY <1>6 DEF Server, SendPiece, SendControl, SendClose, End, Environment, TypeOK
  <2> QED  BY <1>6, <2>2, <2>3 DEF Server, TypeOK, shared, receiver, others
<1>7. CASE UNCHANGED vars
  BY <1>7 DEF vars, TypeOK, shared, receiver, others, server
<1> QED  BY <1>1, <1>2, <1>3, <1>4, <1>5, <1>6, <1>7 DEF Next, Receiver

LEMMA InitType == Init => TypeOK
BY WebSocketAssumption DEF Init, TypeOK, WebSocketAssumption, Frames

\* wsproto's and the tunnel's states, the tasks and what is on its way keep their
\* types.
THEOREM TypeCorrect == Spec => []TypeOK
<1>1. Init => TypeOK  BY InitType
<1>2. TypeOK /\ [Next]_vars => TypeOK'  BY NextType
<1> QED  BY <1>1, <1>2, PTL DEF Spec

-----------------------------------------------------------------------------
(* Events that are left behind, and errors of the client's own making.       *)

\* A ping was taken before its pong is sent.
Answering ==
    /\ rx = "pong" => last \in Control
    /\ StallsOnlyAfterControl

\* wsproto and the tunnel are closed only by aclose(), or with a close code.
Closings ==
    /\ code = "none" /\ closes = 0 => ws = "open" /\ stream = "open"
    /\ rx # "idle" => code = "none"
    /\ tx = "send" => closes > 0
    /\ OwnErrorsOnly

LEMMA LoopKeeps ==
    ASSUME TypeOK, Closings, code = "none", NEW ev \in Seq(Frames), Loop(ev),
           UNCHANGED <<tx, closes, srv>>
    PROVE  Answering' /\ Closings'
<1>1. CASE WaitsForMore(ev)
  BY <1>1 DEF WaitsForMore, Answering, StallsOnlyAfterControl, Closings, OwnErrorsOnly
<1>2. CASE Takes(ev)
  <2>1. last' = Head(ev) /\ (TakesPiece(ev) \/ TakesClose(ev) \/ TakesControl(ev))
    BY <1>2 DEF Takes
  <2>2. Answering'
    BY <2>1 DEF TakesPiece, TakesClose, TakesControl, Answering, StallsOnlyAfterControl, Control
  <2>3. Closings'
    BY <2>1 DEF TakesPiece, TakesClose, TakesControl, Closings, OwnErrorsOnly, Normal, TypeOK
  <2> QED  BY <2>2, <2>3
<1> QED  BY <1>1, <1>2, LoopEffects

LEMMA NextKeeps ==
    TypeOK /\ Answering /\ Closings /\ [Next]_vars => Answering' /\ Closings'
<1> SUFFICES ASSUME TypeOK, Answering, Closings, [Next]_vars
             PROVE  Answering' /\ Closings'
  OBVIOUS
<1> USE DEF Answering, StallsOnlyAfterControl, Closings, OwnErrorsOnly
<1>1. CASE Call
  <2>1. UNCHANGED <<tx, closes, srv>> /\ rx = "idle"  BY <1>1 DEF Call, others, server
  <2>2. CASE code = "none"
    <3>1. Loop(events) /\ events \in Seq(Frames)  BY <1>1, <2>2 DEF Call, TypeOK
    <3> QED  BY <2>1, <2>2, <3>1, LoopKeeps
  <2>3. CASE code # "none"
    <3>1. Return(Raised(code)) /\ UNCHANGED <<shared, events, last>>
      BY <1>1, <2>3 DEF Call
    <3> QED  BY <2>1, <2>3, <3>1 DEF Return, Raised, shared
  <2> QED  BY <2>2, <2>3
<1>2. CASE Read
  <2>1. UNCHANGED <<tx, closes, srv>> /\ code = "none"  BY <1>2 DEF Read, others
  <2>2. PICK n \in 1 .. Len(wire) : Loop(Received(n))  BY <1>2 DEF Read
  <2> QED  BY <2>1, <2>2, ReceivedType, LoopKeeps
<1>3. CASE PongSent
  <2>1. UNCHANGED <<ws, code, stream, events, last, tx, closes, srv>> /\ rx = "pong"
    BY <1>3 DEF PongSent, shared, others, server
  <2>2. \/ rx' = "read" /\ result' = result
        \/ rx' = "idle" /\ result' = "error" /\ (stream = "closed" \/ srv = "abort")
    BY <1>3 DEF PongSent, Return
  <2> QED  BY <2>1, <2>2 DEF TypeOK
<1>4. CASE ReadEof \/ ReadFails \/ CancelReceive
  BY <1>4 DEF ReadEof, ReadFails, CancelReceive, Return, shared, others, server,
              Abnormal, TypeOK
<1>5. CASE Send \/ SendReturns
  BY <1>5 DEF Send, SendReturns, shared, receiver, server
<1>6. CASE AClose
  <2>1. /\ UNCHANGED <<code, events, rx, last, result, srv>>
        /\ closes' = closes + 1 /\ closes \in Nat
    BY <1>6 DEF AClose, receiver, server, TypeOK
  <2> QED  BY <2>1
<1>9. CASE CloseSent
  <2>1. /\ UNCHANGED <<code, events, rx, last, result, closes, ws, srv>>
        /\ tx = "send" /\ closes > 0 /\ closes \in Nat
    BY <1>9 DEF CloseSent, receiver, server, TypeOK
  <2> QED  BY <1>9, <2>1 DEF CloseSent
<1>7. CASE Server
  BY <1>7 DEF Server, SendPiece, SendControl, SendClose, End, Says, shared, receiver, others
<1>8. CASE UNCHANGED vars
  BY <1>8 DEF vars, shared, receiver, others, server
<1> QED  BY <1>1, <1>2, <1>3, <1>4, <1>5, <1>6, <1>7, <1>8, <1>9 DEF Next, Receiver

LEMMA InitKeeps == Init => Answering /\ Closings
BY DEF Init, Answering, StallsOnlyAfterControl, Closings, OwnErrorsOnly

LEMMA KeepsInductive ==
    (TypeOK /\ Answering /\ Closings) /\ [Next]_vars => (TypeOK /\ Answering /\ Closings)'
BY NextType, NextKeeps

\* For any traffic and calls: receive() reads the tunnel although wsproto still has
\* events only after a ping or a pong (_websocket.py:70-94).
THEOREM StallsExplained == Spec => []StallsOnlyAfterControl
<1>1. Init => TypeOK /\ Answering /\ Closings  BY InitType, InitKeeps
<1>2. Answering => StallsOnlyAfterControl  BY DEF Answering
<1> QED  BY <1>1, <1>2, KeepsInductive, PTL DEF Spec

\* For any traffic and calls: an error of receive() that is no close code comes
\* from aclose() or from a broken transport.
THEOREM ErrorsExplained == Spec => []OwnErrorsOnly
<1>1. Init => TypeOK /\ Answering /\ Closings  BY InitType, InitKeeps
<1>2. Closings => OwnErrorsOnly  BY DEF Closings
<1> QED  BY <1>1, <1>2, KeepsInductive, PTL DEF Spec

-----------------------------------------------------------------------------
(* The refinement.  What was sent is returned, kept by wsproto or on its way; *)
(* a Close is the last frame of all, and its sender is closed.               *)

CloseFrames == {"close", "other"}
Pieces(s)   == Count(s, {"piece"})

\* The last of a queue may be the server's Close; nothing follows it.
Closed(s, closing) ==
    \A i \in DOMAIN s : s[i] \in CloseFrames => i = Len(s) /\ closing = s[i]

Feed ==
    /\ got + Pieces(events) + Pieces(wire) = sent
    /\ rx # "idle" => code = "none"
    /\ Closed(events, srv) /\ Closed(wire, srv)
    /\ \A i \in DOMAIN events : events[i] \in CloseFrames => wire = <<>>

\* wsproto has the frames ev, and w are still on their way.
FeedOf(ev, w) ==
    /\ got + Pieces(ev) + Pieces(w) = sent
    /\ Closed(ev, srv) /\ Closed(w, srv)
    /\ \A i \in DOMAIN ev : ev[i] \in CloseFrames => w = <<>>

LEMMA ReadFeed ==
    ASSUME TypeOK, Feed, NEW n \in 1 .. Len(wire)
    PROVE  FeedOf(Received(n), SubSeq(wire, n + 1, Len(wire)))
<1> DEFINE a == SubSeq(wire, 1, n)
           w == SubSeq(wire, n + 1, Len(wire))
<1>1. wire \in Seq(Frames) /\ events \in Seq(Frames) /\ n \in 0 .. Len(wire) /\ Len(wire) \in Nat
  BY DEF TypeOK
<1>2. a \in Seq(Frames) /\ w \in Seq(Frames) /\ wire = a \o w
      /\ Pieces(wire) = Pieces(a) + Pieces(w)
  <2>1. wire \in Seq(Frames) /\ n \in 0 .. Len(wire)  BY <1>1
  <2>2. a \in Seq(Frames) /\ w \in Seq(Frames) /\ wire = a \o w
    <3>1. a \in Seq(Frames)  BY <2>1, CountSplit, Zenon
    <3>2. w \in Seq(Frames)  BY <2>1, CountSplit, Zenon
    <3>3. wire = a \o w  BY <2>1, CountSplit, Zenon
    <3> QED  BY <3>1, <3>2, <3>3
  <2> HIDE DEF a, w
  <2>3. Pieces(a \o w) = Pieces(a) + Pieces(w)  BY <2>2, CountConcat DEF Pieces
  <2> QED  BY <2>2, <2>3
<1>3. Pieces(events \o a) = Pieces(events) + Pieces(a)
  <2> HIDE DEF a
  <2>1. Count(events \o a, {"piece"}) = Count(events, {"piece"}) + Count(a, {"piece"})
    BY <1>1, <1>2, CountConcat
  <2> QED  BY <2>1 DEF Pieces
<1>4. /\ Pieces(events) \in Nat /\ Pieces(a) \in Nat /\ Pieces(w) \in Nat /\ got \in Nat
  BY <1>1, <1>2, CountType DEF Pieces, TypeOK
<1>5. got + Pieces(events \o a) + Pieces(w) = sent
  BY <1>2, <1>3, <1>4 DEF Feed
<1>6. Len(a) = n /\ Len(w) = Len(wire) - n
      /\ (\A i \in 1 .. n : a[i] = wire[i])
      /\ (\A i \in 1 .. Len(wire) - n : w[i] = wire[n + i])
  BY <1>1
<1>7. ASSUME NEW i \in DOMAIN w, w[i] \in CloseFrames
      PROVE  i = Len(w) /\ srv = w[i]
  <2>1. i \in 1 .. Len(wire) - n /\ n + i \in DOMAIN wire /\ w[i] = wire[n + i]
    BY <1>1, <1>2, <1>6, <1>7
  <2> QED  BY <1>1, <1>6, <1>7, <2>1 DEF Feed, Closed
<1>8. ASSUME NEW i \in DOMAIN (events \o a), (events \o a)[i] \in CloseFrames
      PROVE  i = Len(events \o a) /\ srv = (events \o a)[i] /\ w = <<>>
  <2>1. CASE i \in DOMAIN events
    <3>1. (events \o a)[i] = events[i]  BY <1>1, <1>2, <2>1
    <3>2. wire = <<>>  BY <1>8, <2>1, <3>1 DEF Feed
    <3> QED  BY <1>1, <3>2
  <2>2. CASE i \notin DOMAIN events
    <3>1. /\ i - Len(events) \in 1 .. n
          /\ (events \o a)[i] = wire[i - Len(events)]
      <4> HIDE DEF a, w
      <4>1. /\ Len(events) \in Nat /\ DOMAIN events = 1 .. Len(events)
            /\ DOMAIN (events \o a) = 1 .. Len(events) + Len(a)
        BY <1>1, <1>2
      <4>2. i - Len(events) \in 1 .. n  BY <1>1, <1>6, <1>8, <2>2, <4>1
      <4>3. (events \o a)[i] = a[i - Len(events)]  BY <1>1, <1>2, <1>8, <2>2, <4>1
      <4> QED  BY <1>6, <4>2, <4>3
    <3>2. i - Len(events) = Len(wire) /\ srv = (events \o a)[i]
      BY <1>1, <1>8, <3>1 DEF Feed, Closed
    <3>3. n = Len(wire)  BY <1>1, <3>1, <3>2
    <3>4. w = <<>> /\ i = Len(events \o a)  BY <1>1, <1>2, <1>6, <3>2, <3>3
    <3> QED  BY <3>2, <3>4
  <2> QED  BY <2>1, <2>2
<1> QED  BY <1>5, <1>7, <1>8 DEF FeedOf, Closed, Received

\* Steps of ResponseBody, in terms of what the mapping is made of.
MessageStep == [Messages!Next]_(Messages!vars)

LEMMA MessageSteps ==
    /\ UNCHANGED <<sent, got, code>> /\ (srv' = "close" <=> srv = "close") => MessageStep
    /\ srv # "close" /\ sent' = sent + 1 /\ UNCHANGED <<got, code, srv>> => MessageStep
    /\ srv' = "close" /\ UNCHANGED <<sent, got, code>> => MessageStep
    /\ code = "none" /\ got < sent /\ got' = got + 1 /\ UNCHANGED <<sent, code, srv>>
         => MessageStep
    /\ code = "none" /\ got = sent /\ srv = "close" /\ code' = Normal
         /\ UNCHANGED <<sent, got, srv>> => MessageStep
    /\ code = "none" /\ code' \in {"other", Abnormal} /\ UNCHANGED <<sent, got, srv>>
         => MessageStep
<1> USE DEF MessageStep, Messages!Next, Messages!vars, Stream
<1>1. UNCHANGED <<sent, got, code>> /\ (srv' = "close" <=> srv = "close") => MessageStep
  OBVIOUS
<1>2. ASSUME srv # "close", sent' = sent + 1, UNCHANGED <<got, code, srv>>
      PROVE  Messages!Produce("ws")
  BY <1>2 DEF Messages!Produce
<1>3. ASSUME srv' = "close", UNCHANGED <<sent, got, code>>
      PROVE  Messages!Finish("ws")
  BY <1>3 DEF Messages!Finish
<1>4. ASSUME code = "none", got < sent, got' = got + 1, UNCHANGED <<sent, code, srv>>
      PROVE  Messages!Consume("ws")
  BY <1>4 DEF Messages!Consume
<1>5. ASSUME code = "none", got = sent, srv = "close", code' = Normal,
             UNCHANGED <<sent, got, srv>>
      PROVE  Messages!TellEnd("ws")
  BY <1>5 DEF Messages!TellEnd, Normal
<1>6. ASSUME code = "none", code' \in {"other", Abnormal}, UNCHANGED <<sent, got, srv>>
      PROVE  Messages!TellFailure("ws")
  BY <1>6 DEF Messages!TellFailure, Normal, Abnormal
<1> QED  BY <1>1, <1>2, <1>3, <1>4, <1>5, <1>6

\* What the loop does with what wsproto has is such a step, and keeps the feed.
LEMMA LoopFeed ==
    ASSUME TypeOK, code = "none", NEW ev \in Seq(Frames), wire' \in Seq(Frames),
           FeedOf(ev, wire'), Loop(ev), UNCHANGED <<srv, sent>>
    PROVE  Feed' /\ MessageStep
<1>1. /\ got + Pieces(ev) + Pieces(wire') = sent
      /\ Closed(ev, srv) /\ Closed(wire', srv)
      /\ \A i \in DOMAIN ev : ev[i] \in CloseFrames => wire' = <<>>
      /\ got \in Nat /\ sent \in Nat /\ Pieces(ev) \in Nat /\ Pieces(wire') \in Nat
  BY CountType DEF FeedOf, TypeOK, Pieces
<1>2. CASE WaitsForMore(ev)
  <2>1. events' = ev /\ UNCHANGED <<code, got>>  BY <1>2 DEF WaitsForMore
  <2>2. Feed'  BY <1>1, <2>1 DEF Feed, Closed, Pieces, Count, Sort, CloseFrames
  <2> QED  BY <2>1, <2>2, MessageSteps
<1>3. CASE Takes(ev)
  <2>1. ev # <<>> /\ events' = Tail(ev) /\ Head(ev) = ev[1] /\ 1 \in DOMAIN ev
        /\ Len(ev) \in Nat /\ Len(Tail(ev)) = Len(ev) - 1
        /\ \A i \in DOMAIN Tail(ev) : i \in Nat /\ i + 1 \in DOMAIN ev /\ Tail(ev)[i] = ev[i + 1]
    BY <1>3 DEF Takes
  <2>2. Pieces(Tail(ev)) = Pieces(ev) - IF Head(ev) \in {"piece"} THEN 1 ELSE 0
    BY <2>1, CountTail DEF Pieces
  <2>3. Pieces(Tail(ev)) \in Nat
    <3>1. Tail(ev) \in Seq(Frames)  BY <2>1
    <3> QED  BY <3>1, CountType DEF Pieces
  <2>4. /\ Closed(events', srv') /\ Closed(wire', srv')
        /\ \A i \in DOMAIN events' : events'[i] \in CloseFrames => wire' = <<>>
    <3>1. ASSUME NEW i \in DOMAIN events', events'[i] \in CloseFrames
          PROVE  i = Len(events') /\ srv' = events'[i] /\ wire' = <<>>
      <4>1. i + 1 \in DOMAIN ev /\ ev[i + 1] = events'[i] /\ i \in Nat
        BY <2>1, <3>1
      <4> QED  BY <1>1, <2>1, <3>1, <4>1 DEF Closed
    <3> QED  BY <1>1, <3>1 DEF Closed
  <2>5. CASE TakesPiece(ev)
    <3>1. Head(ev) = "piece" /\ got' = got + 1 /\ rx' = "idle" /\ code' = code
      BY <2>5 DEF TakesPiece
    <3>2. got' + Pieces(events') + Pieces(wire') = sent'
      BY <1>1, <2>1, <2>2, <2>3, <3>1
    <3>3. got < sent  BY <1>1, <2>2, <2>3, <3>1
    <3>4. Feed'  BY <2>4, <3>1, <3>2 DEF Feed, Closed, Pieces, Count, Sort, CloseFrames
    <3> QED  BY <3>1, <3>3, <3>4, MessageSteps
  <2>6. CASE TakesClose(ev)
    <3>1. Head(ev) \in CloseFrames /\ got' = got /\ rx' = "idle"
      BY <2>6 DEF TakesClose, CloseFrames
    <3>2. Len(ev) = 1 /\ srv = Head(ev) /\ wire' = <<>>
      BY <1>1, <2>1, <3>1 DEF Closed
    <3>3. Pieces(Tail(ev)) = 0 /\ Pieces(wire') = 0
      <4>1. DOMAIN Tail(ev) = {} /\ DOMAIN wire' = {}  BY <2>1, <3>2
      <4> QED  BY <4>1, CountNone DEF Pieces
    <3>4. Pieces(ev) = 0
      <4>1. Head(ev) \notin {"piece"}  BY <3>1 DEF CloseFrames
      <4> QED  BY <1>1, <2>2, <3>3, <4>1
    <3>5. got = sent  BY <1>1, <3>3, <3>4
    <3>6. got' + Pieces(events') + Pieces(wire') = sent'
      BY <1>1, <2>1, <3>1, <3>3, <3>5
    <3>7. Feed'  BY <2>4, <3>1, <3>6 DEF Feed, Closed, Pieces, Count, Sort, CloseFrames
    <3>8. MessageStep
      <4>1. CASE Head(ev) = "close" /\ code' = Normal
        BY <3>1, <3>2, <3>5, <4>1, MessageSteps
      <4>2. CASE Head(ev) = "other" /\ code' = "other"
        BY <3>1, <4>2, MessageSteps
      <4> QED  BY <2>6, <4>1, <4>2 DEF TakesClose
    <3> QED  BY <3>7, <3>8
  <2>7. CASE TakesControl(ev)
    <3>1. Head(ev) # "piece" /\ UNCHANGED <<code, got>>  BY <2>7 DEF TakesControl
    <3>2. got' + Pieces(events') + Pieces(wire') = sent'
      BY <1>1, <2>1, <2>2, <2>3, <3>1
    <3>3. Feed'  BY <2>4, <3>1, <3>2 DEF Feed, Closed, Pieces, Count, Sort, CloseFrames
    <3> QED  BY <3>1, <3>3, MessageSteps
  <2> QED  BY <1>3, <2>5, <2>6, <2>7 DEF Takes
<1> QED  BY <1>2, <1>3, LoopEffects

LEMMA FeedElsewhere ==
    ASSUME Feed, UNCHANGED <<events, wire, got, sent, srv>>, rx' = "idle" \/ code' = "none"
    PROVE  Feed'
BY DEF Feed, Closed, Pieces, Count, Sort, CloseFrames

\* The server says one more thing, while it has not closed.
LEMMA ServerFeed == TypeOK /\ Feed /\ Server => Feed' /\ MessageStep
<1> SUFFICES ASSUME TypeOK, Feed, Server PROVE Feed' /\ MessageStep  OBVIOUS
<1>1. /\ srv = "open" /\ UNCHANGED <<events, got, rx, code>>
      /\ wire \in Seq(Frames) /\ events \in Seq(Frames)
      /\ got \in Nat /\ sent \in Nat /\ Pieces(events) \in Nat /\ Pieces(wire) \in Nat
      /\ got + Pieces(events) + Pieces(wire) = sent
      /\ rx # "idle" => code = "none"
  <2>1. srv = "open"
    BY DEF Server, SendPiece, SendControl, SendClose, End, Says
  <2>2. UNCHANGED <<events, got, rx, code>>
    BY DEF Server, shared, receiver
  <2> QED  BY <2>1, <2>2, CountType DEF TypeOK, Feed, Pieces
<1>2. /\ \A i \in DOMAIN events : events[i] \notin CloseFrames
      /\ \A i \in DOMAIN wire : wire[i] \notin CloseFrames
  BY <1>1 DEF Feed, Closed, CloseFrames
<1>3. ASSUME NEW f \in Frames, wire' = Append(wire, f),
             sent' = sent + (IF f \in {"piece"} THEN 1 ELSE 0),
             f \in CloseFrames => srv' = f
      PROVE  Feed'
  <2>1. Pieces(wire') = Pieces(wire) + IF f \in {"piece"} THEN 1 ELSE 0
    BY <1>1, <1>3, CountAppend DEF Pieces
  <2>2. got' + Pieces(events') + Pieces(wire') = sent'
    <3>1. Pieces(events') = Pieces(events) /\ got' = got  BY <1>1
    <3> QED  BY <1>1, <1>3, <2>1, <3>1
  <2>3. Closed(wire', srv')
    <3>1. ASSUME NEW i \in DOMAIN wire', wire'[i] \in CloseFrames
          PROVE  i = Len(wire') /\ srv' = wire'[i]
      <4>1. Len(wire') = Len(wire) + 1 /\ wire'[Len(wire')] = f /\ Len(wire) \in Nat
            /\ DOMAIN wire' = 1 .. Len(wire')
        BY <1>1, <1>3
      <4>2. CASE i = Len(wire')  BY <1>3, <3>1, <4>1, <4>2
      <4>3. CASE i # Len(wire')
        <5>1. i \in DOMAIN wire /\ wire'[i] = wire[i]  BY <1>1, <1>3, <4>1, <4>3
        <5> QED  BY <1>2, <3>1, <5>1
      <4> QED  BY <4>2, <4>3
    <3> QED  BY <3>1 DEF Closed
  <2>4. /\ Closed(events', srv')
        /\ \A i \in DOMAIN events' : events'[i] \in CloseFrames => wire' = <<>>
    BY <1>1, <1>2 DEF Closed
  <2> QED  BY <1>1, <2>2, <2>3, <2>4 DEF Feed, Closed, CloseFrames
<1>4. CASE SendPiece
  <2>1. wire' = Append(wire, "piece") /\ sent' = sent + 1 /\ srv' = srv
    BY <1>4 DEF SendPiece, Says
  <2>2. Feed'  BY <1>3, <2>1 DEF Frames, CloseFrames
  <2> QED  BY <1>1, <2>1, <2>2, MessageSteps
<1>5. CASE SendControl
  <2>1. PICK k \in Control : Says(k)  BY <1>5 DEF SendControl
  <2>2. wire' = Append(wire, k) /\ UNCHANGED <<sent, srv>>
    BY <1>5, <2>1 DEF SendControl, Says
  <2>3. k \in Frames /\ k \notin {"piece"} /\ k \notin CloseFrames
    BY DEF Control, Frames, CloseFrames
  <2>4. sent' = sent + (IF k \in {"piece"} THEN 1 ELSE 0)  BY <1>1, <2>2, <2>3
  <2>5. Feed'  BY <1>3, <2>2, <2>3, <2>4
  <2> QED  BY <1>1, <2>2, <2>5, MessageSteps
<1>6. CASE SendClose
  <2>1. PICK k \in CloseFrames : wire' = Append(wire, k) /\ srv' = k /\ sent' = sent
    BY <1>6 DEF SendClose, Says, CloseFrames
  <2>2. k \in Frames /\ k \notin {"piece"}
    BY DEF Frames, CloseFrames
  <2>3. sent' = sent + (IF k \in {"piece"} THEN 1 ELSE 0)  BY <1>1, <2>1, <2>2
  <2>4. Feed'  BY <1>3, <2>1, <2>2, <2>3
  <2>5. MessageStep
    <3>1. CASE k = "close"  BY <1>1, <2>1, <3>1, MessageSteps
    <3>2. CASE k # "close"  BY <1>1, <2>1, <3>2, MessageSteps
    <3> QED  BY <3>1, <3>2
  <2> QED  BY <2>4, <2>5
<1>7. CASE End
  <2>1. UNCHANGED <<sent, wire>> /\ srv' # "close"  BY <1>7 DEF End
  <2>2. Feed'
    BY <1>1, <1>2, <2>1 DEF Feed, Closed, Pieces, Count, Sort, CloseFrames
  <2> QED  BY <1>1, <2>1, <2>2, MessageSteps
<1> QED  BY <1>4, <1>5, <1>6, <1>7 DEF Server

LEMMA NextFeed == TypeOK /\ Feed /\ [Next]_vars => Feed' /\ MessageStep
<1> SUFFICES ASSUME TypeOK, Feed, [Next]_vars PROVE Feed' /\ MessageStep  OBVIOUS
<1>1. CASE Call /\ code = "none"
  <2>1. Loop(events) /\ UNCHANGED <<wire, srv, sent>>  BY <1>1 DEF Call, server
  <2>2. events \in Seq(Frames) /\ wire' \in Seq(Frames)  BY <2>1 DEF TypeOK
  <2>3. FeedOf(events, wire')  BY <2>1 DEF Feed, FeedOf, Closed, Pieces
  <2> QED  BY <1>1, <2>1, <2>2, <2>3, LoopFeed
<1>2. CASE Read
  <2>1. PICK n \in 1 .. Len(wire) : /\ wire' = SubSeq(wire, n + 1, Len(wire))
                                    /\ Loop(Received(n))
    BY <1>2 DEF Read
  <2>2. UNCHANGED <<srv, sent>> /\ code = "none"  BY <1>2 DEF Read, Feed
  <2>3. Received(n) \in Seq(Frames) /\ wire' \in Seq(Frames) /\ FeedOf(Received(n), wire')
    BY <2>1, ReceivedType, ReadFeed
  <2> QED  BY <2>1, <2>2, <2>3, LoopFeed
<1>3. ASSUME UNCHANGED <<events, wire, got, sent, srv, code>>, rx' = "idle" \/ rx # "idle"
      PROVE  Feed' /\ MessageStep
  <2>1. Feed'  BY <1>3, FeedElsewhere DEF Feed
  <2> QED  BY <1>3, <2>1, MessageSteps
<1>4. CASE Call /\ code # "none"
  BY <1>3, <1>4 DEF Call, Return, shared, server
<1>5. CASE ReadEof
  <2>1. /\ UNCHANGED <<events, wire, got, sent, srv>> /\ rx' = "idle"
        /\ code = "none" /\ code' = Abnormal
    BY <1>5 DEF ReadEof, Return, server, Feed
  <2> QED  BY <2>1, FeedElsewhere, MessageSteps
<1>6. CASE PongSent \/ ReadFails \/ CancelReceive
  BY <1>3, <1>6 DEF PongSent, ReadFails, CancelReceive, Return, shared, server
<1>7. CASE Send \/ SendReturns \/ AClose \/ CloseSent
  <2>1. UNCHANGED <<events, wire, got, sent, srv, code, rx>>
    BY <1>7 DEF Send, SendReturns, AClose, CloseSent, shared, receiver, server
  <2> QED  BY <1>3, <2>1
<1>8. CASE Server  BY <1>8, ServerFeed
<1>9. CASE UNCHANGED vars
  BY <1>3, <1>9 DEF vars, shared, receiver, server
<1> QED  BY <1>1, <1>2, <1>4, <1>5, <1>6, <1>7, <1>8, <1>9 DEF Next, Receiver

LEMMA InitFeed == Init => Feed /\ Messages!Init
<1> SUFFICES ASSUME Init PROVE Feed /\ Messages!Init  OBVIOUS
<1>1. Pieces(<<>>) = 0  BY CountNone DEF Pieces
<1> QED  BY <1>1 DEF Init, Feed, Closed, Messages!Init, Stream

\* For any traffic, cancellation and closing: the messages are a body like any
\* other, in order and whole, with an end that is told only when the server has
\* closed with 1000 and every piece before it was returned.
THEOREM MessagesAreABody == Spec => ImplementsResponseBody
<1>1. Init => TypeOK /\ Feed /\ Messages!Init  BY InitType, InitFeed
<1>2. (TypeOK /\ Feed) /\ [Next]_vars => (TypeOK /\ Feed)' /\ [Messages!Next]_(Messages!vars)
  BY NextType, NextFeed DEF MessageStep
<1> QED  BY <1>1, <1>2, PTL DEF Spec, ImplementsResponseBody, Messages!Spec
=============================================================================
