------------------------------ MODULE ASGIProofs ------------------------------
(***************************************************************************)
(* Proofs about ASGI, for any number of requests, chunks, messages and     *)
(* body events, and any behaviour of the applications.                     *)
(***************************************************************************)
EXTENDS ASGI, QueueProofs

\* What counts in an answer: pieces of a body, and messages.
Data == {"body", "last", "message"}
Due(r) == Count(Pending(toClient[r]), Data)

Over(r) == phase[r] \in {"closing", "closed"}

\* A receiver that waits has nothing to receive; one that was woken has an item,
\* or the sending end was closed, and then nothing is left to be sent.
Linked(c) ==
    /\ c.rx = "wait" => c.buf = <<>> /\ c.snd = <<>>
    /\ c.rx = "woken" /\ c.buf = <<>> => ~c.sopen
    /\ ~c.sopen => c.snd = <<>>

\* The app's end of the channel is open until its task has ended, for a reason.
Hosted(r) ==
    /\ toClient[r].sopen <=> app[r] \in {"none", "running"}
    /\ app[r] = "returned" => stage[r] = "done"
    /\ app[r] = "raised" => raised
    /\ app[r] = "cancelled" => raised \/ Over(r)
    /\ phase[r] = "idle" => app[r] = "none"

\* No piece is received that was not sent; none of a response is lost on the way,
\* until the request is given up.
Tally(r) ==
    /\ sent[r] <= MaxData \/ stage[r] = "done"
    /\ rcvd[r] + Due(r) <= sent[r]
    /\ r \notin WebSockets /\ ~raised /\ ~Over(r) /\ phase[r] # "rejected" =>
          rcvd[r] + Due(r) = sent[r]
    /\ result[r] = "end" => Over(r)
    /\ r \notin WebSockets /\ result[r] = "end" =>
          raised \/ (stage[r] = "done" /\ rcvd[r] = sent[r])

Sound(r) == Linked(toClient[r]) /\ Hosted(r) /\ Tally(r)

\* The types, without the bounds of the two counters.
Shape ==
    /\ active \subseteq Requests
    /\ closed \in BOOLEAN /\ raised \in BOOLEAN
    /\ mgr \in {"up", "stopped"}
    /\ toApp \in [Requests -> Channels(UpKinds)]
    /\ toClient \in [Requests -> Channels(DownKinds)]
    /\ app \in [Requests -> {"none", "running", "returned", "raised", "cancelled"}]
    /\ stage \in [Requests -> {"request", "ready", "body", "rejecting", "done"}]
    /\ sent \in [Requests -> 0 .. (MaxData + 1)]
    /\ phase \in [Requests -> {"idle", "sending", "head", "rejected", "open",
                               "disconnecting", "closing", "closed", "failed"}]
    /\ result \in [Requests -> {"none", "end", "closed", "rejected", "cancelled", "error"}]
    /\ rcvd \in [Requests -> Nat]
    /\ up \in [Requests -> 0 .. MaxUp]
    /\ budget \in 0 .. MaxEnv

Served == /\ mgr = "stopped" => closed \/ raised
          /\ AppEndsWithRequest

IInv == Shape /\ Served /\ \A r \in Requests : Sound(r)

-----------------------------------------------------------------------------
(* The channels *)

LEMMA PendingFacts ==
    ASSUME NEW Item, NEW c \in Channels(Item)
    PROVE  /\ Pending(c) \in Seq(Item) /\ Count(Pending(c), Data) \in Nat
           /\ c.snd = <<>> => Pending(c) = c.buf
           /\ Pending(c) = <<>> => c.buf = <<>> /\ c.snd = <<>>
           /\ Count(<<>>, Data) = 0
<1>1. c.buf \in Seq(Item) /\ c.snd \in Seq(Item)  BY ChannelFields
<1>2. Pending(c) \in Seq(Item)  BY <1>1 DEF Pending
<1>3. Pending(c) = <<>> => c.buf = <<>> /\ c.snd = <<>>  BY <1>1 DEF Pending
<1>4. c.snd = <<>> => Pending(c) = c.buf  BY <1>1 DEF Pending
<1>5. Count(<<>>, Data) = 0  BY CountNone
<1> QED  BY <1>2, <1>3, <1>4, <1>5, CountType

\* An item that is sent comes after those that are pending.
LEMMA SendEffects ==
    ASSUME NEW Item, NEW c \in Channels(Item), NEW e \in Item
    PROVE  /\ Send(c, e) \in Channels(Item)
           /\ c.snd = <<>> /\ c.sopen /\ Linked(c) =>
                /\ Pending(Send(c, e)) = Append(Pending(c), e)
                /\ Send(c, e).sopen /\ Linked(Send(c, e))
                /\ Count(Pending(Send(c, e)), Data)
                     = Count(Pending(c), Data) + IF e \in Data THEN 1 ELSE 0
<1>1. Send(c, e) \in Channels(Item)  BY PutType DEF Send
<1>2. /\ c.buf \in Seq(Item) /\ c.snd \in Seq(Item) /\ c.rx \in {"idle", "wait", "woken"}
      /\ Pending(c) \in Seq(Item)
  BY ChannelFields, PendingFacts
<1>3. ASSUME c.snd = <<>>, c.sopen, Linked(c)
      PROVE  /\ Pending(Send(c, e)) = Append(Pending(c), e)
             /\ Send(c, e).sopen /\ Linked(Send(c, e))
  <2>1. CASE HasRoom(c)
    <3>1. Send(c, e) = Put(c, e)  BY <2>1 DEF Send
    <3>2. /\ Put(c, e).buf = Append(c.buf, e) /\ Put(c, e).snd = <<>>
          /\ Put(c, e).sopen
      BY <1>3, SenderEffects
    <3>3. Put(c, e).rx # "wait"  BY DEF Put, Channels
    <3>4. Pending(Put(c, e)) = Append(Pending(c), e)
      BY <1>2, <1>3, <3>2 DEF Pending
    <3>5. Linked(Put(c, e))
      <4>1. Append(c.buf, e) # <<>>  BY <1>2
      <4>2. Put(c, e).buf # <<>>  BY <3>2, <4>1
      <4> QED  BY <3>2, <3>3, <4>2 DEF Linked
    <3> QED  BY <3>1, <3>2, <3>4, <3>5
  <2>2. CASE ~HasRoom(c)
    <3>1. Send(c, e) = Block(c, e)  BY <2>2 DEF Send
    <3>2. /\ Block(c, e).buf = c.buf /\ Block(c, e).snd = <<e>>
          /\ Block(c, e).sopen /\ Block(c, e).rx = c.rx
      BY <1>3, SenderEffects DEF Block, Channels
    <3>3. c.buf # <<>>
      <4>1. Len(<<>>) = 0  OBVIOUS
      <4> QED  BY <2>2, <4>1 DEF HasRoom
    <3>4. Pending(Block(c, e)) = Append(Pending(c), e)
      BY <1>2, <1>3, <3>2 DEF Pending
    <3>5. Linked(Block(c, e))  BY <1>3, <3>2, <3>3 DEF Linked
    <3> QED  BY <3>1, <3>2, <3>4, <3>5
  <2> QED  BY <2>1, <2>2
<1>4. Count(Append(Pending(c), e), Data)
        = Count(Pending(c), Data) + IF e \in Data THEN 1 ELSE 0
  BY <1>2, CountAppend
<1> QED  BY <1>1, <1>3, <1>4

\* What is received is the first of those that are pending.
LEMMA ReceivedEffects ==
    ASSUME NEW Item, NEW c \in Channels(Item), c.rx # "wait", Ready(c) # <<>>
    PROVE  /\ Received(c) \in Channels(Item)
           /\ Head(Ready(c)) \in Item
           /\ Received(c).sopen = c.sopen
           /\ Linked(c) => Linked(Received(c))
           /\ Count(Pending(Received(c)), Data)
                = Count(Pending(c), Data) - IF Head(Ready(c)) \in Data THEN 1 ELSE 0
<1>1. /\ c.buf \in Seq(Item) /\ c.snd \in Seq(Item) /\ c.rx \in {"idle", "woken"}
      /\ Pending(c) \in Seq(Item)
  BY ChannelFields, PendingFacts
<1>2. CASE c.rx = "woken"
  <2>1. Ready(c) = c.buf /\ Received(c) = Wake(c) /\ c.buf # <<>>
    BY <1>2 DEF Ready, Received
  <2>2. /\ Wake(c).buf = Tail(c.buf) /\ Wake(c).snd = c.snd /\ Wake(c).sopen = c.sopen
        /\ Wake(c).rx = "idle" /\ Wake(c) \in Channels(Item)
    BY <2>1, ReceiverEffects, WakeType DEF Wake, Channels
  <2>3. Tail(c.buf) \in Seq(Item) /\ Head(c.buf) \in Item  BY <1>1, <2>1
  <2>4. Count(Pending(Wake(c)), Data) = Count(Tail(c.buf), Data) + Count(c.snd, Data)
    <3> DEFINE t == Tail(c.buf)
    <3>1. Pending(Wake(c)) = t \o c.snd  BY <2>1, <2>2 DEF Pending
    <3>2. t \in Seq(Item)  BY <2>3
    <3> HIDE DEF t
    <3>3. Count(t \o c.snd, Data) = Count(t, Data) + Count(c.snd, Data)
      BY <1>1, <3>2, CountConcat
    <3>4. Count(Pending(Wake(c)), Data) = Count(t, Data) + Count(c.snd, Data)
      BY <3>1, <3>3
    <3> QED  BY <3>4 DEF t
  <2>5. /\ Count(Tail(c.buf), Data)
             = Count(c.buf, Data) - IF Head(c.buf) \in Data THEN 1 ELSE 0
        /\ Count(Pending(c), Data) = Count(c.buf, Data) + Count(c.snd, Data)
        /\ Count(c.buf, Data) \in Nat /\ Count(c.snd, Data) \in Nat
    BY <1>1, <2>1, CountTail, CountConcat, CountType DEF Pending
  <2>6. Linked(c) => Linked(Wake(c))  BY <2>2 DEF Linked
  <2> QED  BY <2>1, <2>2, <2>3, <2>4, <2>5, <2>6
<1>3. CASE c.rx = "idle"
  <2>1. Ready(c) = Pending(c) /\ Received(c) = Take(c) /\ Pending(c) # <<>>
    BY <1>3 DEF Ready, Received
  <2>2. /\ Take(c).buf = Tail(Pending(c)) /\ Take(c).snd = <<>> /\ Take(c).sopen = c.sopen
        /\ Take(c).rx = "idle" /\ Take(c) \in Channels(Item) /\ Head(Pending(c)) \in Item
    <3>1. Take(c).rx = "idle"  BY <1>3 DEF Take, Channels
    <3> QED  BY <2>1, <3>1, ReceiverEffects, TakeType
  <2>3. Pending(Take(c)) = Tail(Pending(c))  BY <2>2, PendingFacts
  <2>4. Count(Tail(Pending(c)), Data)
          = Count(Pending(c), Data) - IF Head(Pending(c)) \in Data THEN 1 ELSE 0
    BY <1>1, <2>1, CountTail
  <2>5. Linked(Take(c))  BY <2>2 DEF Linked
  <2> QED  BY <2>1, <2>2, <2>3, <2>4, <2>5
<1> QED  BY <1>1, <1>2, <1>3

\* The ends are closed: at most the item of a blocked sender is dropped by one,
\* and what is buffered by the other.
LEMMA ClosingEffects ==
    ASSUME NEW Item, NEW c \in Channels(Item), Linked(c)
    PROVE  /\ CloseSend(Unblock(c)) \in Channels(Item) /\ CloseRecv(c) \in Channels(Item)
           /\ Linked(CloseSend(Unblock(c))) /\ ~CloseSend(Unblock(c)).sopen
           /\ Linked(CloseRecv(c)) /\ CloseRecv(c).sopen = c.sopen
           /\ Count(Pending(CloseSend(Unblock(c))), Data) <= Count(Pending(c), Data)
           /\ c.snd = <<>> =>
                Count(Pending(CloseSend(Unblock(c))), Data) = Count(Pending(c), Data)
           /\ Count(Pending(CloseRecv(c)), Data) <= Count(Pending(c), Data)
<1> DEFINE u == Unblock(c)
           s == CloseSend(u)
           v == CloseRecv(c)
<1>1. /\ c.buf \in Seq(Item) /\ c.snd \in Seq(Item) /\ c.rx \in {"idle", "wait", "woken"}
  BY ChannelFields
<1>2. /\ u \in Channels(Item) /\ u.buf = c.buf /\ u.snd = <<>> /\ u.rx = c.rx
  BY CloseType, EndEffects DEF Unblock, Channels
<1> HIDE DEF u
<1>3. /\ s \in Channels(Item) /\ s.buf = c.buf /\ s.snd = <<>> /\ ~s.sopen /\ s.rx # "wait"
  <2>1. s \in Channels(Item)  BY <1>2, CloseType
  <2>2. s.buf = c.buf /\ s.snd = <<>> /\ ~s.sopen  BY <1>2, EndEffects
  <2>3. s.rx = IF u.rx = "wait" THEN "woken" ELSE u.rx  BY <1>2 DEF CloseSend, Channels
  <2> HIDE DEF s
  <2> QED  BY <2>1, <2>2, <2>3
<1>4. /\ v \in Channels(Item) /\ v.buf = <<>> /\ v.snd = c.snd /\ v.sopen = c.sopen
      /\ v.rx = "idle"
  BY CloseType, EndEffects DEF CloseRecv, Channels
<1> HIDE DEF s, v
<1>5. Count(Pending(c), Data) = Count(c.buf, Data) + Count(c.snd, Data)
      /\ Count(c.buf, Data) \in Nat /\ Count(c.snd, Data) \in Nat
  BY <1>1, CountConcat, CountType DEF Pending
<1>6. Pending(s) = c.buf /\ Pending(v) = c.snd
  <2>1. Pending(s) = c.buf  BY <1>3, PendingFacts
  <2>2. <<>> \o c.snd = c.snd  BY <1>1
  <2> QED  BY <1>4, <2>1, <2>2 DEF Pending
<1>7. c.snd = <<>> => Count(c.snd, Data) = 0  BY PendingFacts
<1>8. Linked(s) /\ Linked(v)  BY <1>3, <1>4 DEF Linked
<1> QED  BY <1>3, <1>4, <1>5, <1>6, <1>7, <1>8 DEF u, s, v

LEMMA WaitingEffects ==
    ASSUME NEW Item, NEW c \in Channels(Item), Linked(c)
    PROVE  /\ MustWait(c) => Await(c) \in Channels(Item) /\ Linked(Await(c))
                             /\ Pending(Await(c)) = Pending(c) /\ Await(c).sopen = c.sopen
           /\ [c EXCEPT !.rx = "idle"] \in Channels(Item) /\ Linked([c EXCEPT !.rx = "idle"])
           /\ Pending([c EXCEPT !.rx = "idle"]) = Pending(c)
           /\ [c EXCEPT !.rx = "idle"].sopen = c.sopen
<1>1. ASSUME MustWait(c)
      PROVE  Await(c) \in Channels(Item) /\ Linked(Await(c))
             /\ Pending(Await(c)) = Pending(c) /\ Await(c).sopen = c.sopen
  <2>1. Pending(c) = <<>>  BY <1>1 DEF MustWait, Ready
  <2>2. c.buf = <<>> /\ c.snd = <<>>  BY <2>1, PendingFacts
  <2>3. /\ Await(c).buf = c.buf /\ Await(c).snd = c.snd /\ Await(c).sopen = c.sopen
        /\ Await(c).rx = "wait"
    BY ReceiverEffects DEF Await, Channels
  <2> QED  BY <1>1, <2>2, <2>3, CloseType DEF Linked, Pending, MustWait
<1>2. /\ [c EXCEPT !.rx = "idle"] \in Channels(Item)
      /\ [c EXCEPT !.rx = "idle"].buf = c.buf /\ [c EXCEPT !.rx = "idle"].snd = c.snd
      /\ [c EXCEPT !.rx = "idle"].sopen = c.sopen /\ [c EXCEPT !.rx = "idle"].rx = "idle"
  BY CloseType DEF Channels
<1> HIDE DEF Await
<1>3. Linked([c EXCEPT !.rx = "idle"]) /\ Pending([c EXCEPT !.rx = "idle"]) = Pending(c)
  BY <1>2 DEF Linked, Pending
<1> QED  BY <1>1, <1>2, <1>3

\* A receiver that gets EndOfStream has received everything, from an app that is
\* not running any more.
LEMMA AtEndMeansAll ==
    ASSUME NEW Item, NEW c \in Channels(Item), Linked(c), AtEnd(c)
    PROVE  ~c.sopen /\ Pending(c) = <<>> /\ Count(Pending(c), Data) = 0
<1>1. /\ c.buf \in Seq(Item) /\ c.rx \in {"idle", "woken"}
      /\ Ready(c) = <<>> /\ (c.rx = "woken" \/ ~c.sopen)
  BY ChannelFields DEF AtEnd
<1>2. c.rx = "woken" => c.buf = <<>>  BY <1>1 DEF Ready
<1>3. ~c.sopen  BY <1>1, <1>2 DEF Linked
<1>4. c.snd = <<>>  BY <1>3 DEF Linked
<1>5. Pending(c) = c.buf  BY <1>4, PendingFacts
<1>6. Pending(c) = <<>>  BY <1>1, <1>2, <1>5 DEF Ready
<1> QED  BY <1>3, <1>6, PendingFacts

-----------------------------------------------------------------------------
(* Steps.  A step of one request leaves what is said of the others alone.    *)

Phases  == {"idle", "sending", "head", "rejected", "open", "disconnecting", "closing",
            "closed", "failed"}
Results == {"none", "end", "closed", "rejected", "cancelled", "error"}

Elsewhere(r) ==
    /\ \A q \in Requests \ {r} :
         /\ toClient'[q] = toClient[q] /\ app'[q] = app[q] /\ stage'[q] = stage[q]
         /\ sent'[q] = sent[q] /\ phase'[q] = phase[q] /\ result'[q] = result[q]
         /\ rcvd'[q] = rcvd[q]
    /\ raised => raised'

LEMMA ShapeFacts ==
    ASSUME Shape
    PROVE  /\ toApp \in [Requests -> Channels(UpKinds)]
           /\ toClient \in [Requests -> Channels(DownKinds)]
           /\ app \in [Requests -> {"none", "running", "returned", "raised", "cancelled"}]
           /\ stage \in [Requests -> {"request", "ready", "body", "rejecting", "done"}]
           /\ sent \in [Requests -> Nat] /\ rcvd \in [Requests -> Nat]
           /\ phase \in [Requests -> Phases] /\ result \in [Requests -> Results]
           /\ MaxData \in Nat /\ MaxUp \in Nat /\ MaxEnv \in Nat
<1>1. MaxData \in Nat /\ MaxUp \in Nat /\ MaxEnv \in Nat
  BY ASGIAssumption DEF ASGIAssumption
<1>2. \A r \in Requests : sent[r] \in Nat  BY <1>1 DEF Shape
<1> QED  BY <1>1, <1>2 DEF Shape, Phases, Results

LEMMA DueType ==
    ASSUME Shape, NEW r \in Requests
    PROVE  Due(r) \in Nat
BY ShapeFacts, PendingFacts DEF Due

LEMMA DueTypeAfter ==
    ASSUME Shape', NEW r \in Requests
    PROVE  Due(r)' \in Nat
<1>1. toClient'[r] \in Channels(DownKinds)  BY DEF Shape
<1>2. Count(Pending(toClient'[r]), Data) \in Nat  BY <1>1, PendingFacts
<1> QED  BY <1>2 DEF Due

LEMMA OthersSound ==
    ASSUME IInv, NEW r \in Requests, Elsewhere(r), NEW q \in Requests \ {r}
    PROVE  Sound(q)'
<1>1. /\ toClient'[q] = toClient[q] /\ app'[q] = app[q] /\ stage'[q] = stage[q]
      /\ sent'[q] = sent[q] /\ phase'[q] = phase[q] /\ result'[q] = result[q]
      /\ rcvd'[q] = rcvd[q] /\ (raised => raised')
  BY DEF Elsewhere
<1>2. Sound(q)  BY DEF IInv
<1>3. Due(q)' = Due(q) /\ (Over(q)' <=> Over(q))  BY <1>1 DEF Due, Over
<1>4. Linked(toClient[q])'  BY <1>1, <1>2 DEF Sound, Linked
<1>5. Hosted(q)'  BY <1>1, <1>2, <1>3 DEF Sound, Hosted
<1>6. Tally(q)'  BY <1>1, <1>2, <1>3 DEF Sound, Tally
<1> QED  BY <1>4, <1>5, <1>6 DEF Sound

LEMMA RequestStep ==
    ASSUME IInv, NEW r \in Requests, Elsewhere(r), Shape', Sound(r)',
           UNCHANGED mgr, closed => closed',
           app'[r] = "running" => phase'[r] # "closed" /\ mgr = "up"
    PROVE  IInv'
<1>1. \A q \in Requests : Sound(q)'  BY OthersSound
<1>2. Served'
  <2>1. mgr' = "stopped" => closed' \/ raised'  BY DEF IInv, Served, Elsewhere
  <2>2. AppEndsWithRequest'
    <3> SUFFICES ASSUME NEW q \in Requests, app'[q] = "running"
                 PROVE  phase'[q] # "closed" /\ mgr' = "up"
      BY DEF AppEndsWithRequest
    <3>1. CASE q = r  BY <3>1
    <3>2. CASE q # r  BY <3>2 DEF Elsewhere, IInv, Served, AppEndsWithRequest
    <3> QED  BY <3>1, <3>2
  <2> QED  BY <2>1, <2>2 DEF Served
<1> QED  BY <1>1, <1>2 DEF IInv

\* A step that counts nothing: what is due stays due, unless the answer is given
\* up, or is a rejection, of which nobody takes account.
LEMMA QuietSound ==
    ASSUME IInv, Shape', NEW r \in Requests, Linked(toClient[r])',
           toClient'[r].sopen = toClient[r].sopen,
           \/ Due(r)' = Due(r)
           \/ Due(r)' <= Due(r) /\ (Over(r)' \/ phase'[r] = "rejected"),
           sent'[r] = sent[r], rcvd'[r] = rcvd[r],
           app'[r] = app[r] \/ (app[r] = "none" /\ app'[r] = "running"),
           phase'[r] = "idle" => phase[r] = "idle" /\ app'[r] = "none",
           stage[r] = "done" => stage'[r] = "done", raised => raised',
           Over(r) => Over(r)',
           ~Over(r)' /\ phase'[r] # "rejected" => ~Over(r) /\ phase[r] # "rejected",
           result'[r] = "end" => result[r] = "end"
    PROVE  Sound(r)'
<1>1. Sound(r) /\ Shape  BY DEF IInv
<1>2. Hosted(r)'  BY <1>1 DEF Sound, Hosted
<1>3. /\ Due(r) \in Nat /\ Due(r)' \in Nat /\ sent[r] \in Nat /\ rcvd[r] \in Nat
  BY <1>1, DueType, DueTypeAfter, ShapeFacts
<1>4. Tally(r)'
  <2>1. sent'[r] <= MaxData \/ stage'[r] = "done"  BY <1>1 DEF Sound, Tally
  <2>2. rcvd'[r] + Due(r)' <= sent'[r]  BY <1>1, <1>3 DEF Sound, Tally
  <2>3. r \notin WebSockets /\ ~raised' /\ ~Over(r)' /\ phase'[r] # "rejected" =>
          rcvd'[r] + Due(r)' = sent'[r]
    BY <1>1 DEF Sound, Tally
  <2>4. /\ result'[r] = "end" => Over(r)'
        /\ r \notin WebSockets /\ result'[r] = "end" =>
             raised' \/ (stage'[r] = "done" /\ rcvd'[r] = sent'[r])
    BY <1>1 DEF Sound, Tally
  <2> QED  BY <2>1, <2>2, <2>3, <2>4 DEF Tally
<1> QED  BY <1>2, <1>4 DEF Sound

\* A step that does not touch the channel from the app.
LEMMA BesideStep ==
    ASSUME IInv, NEW r \in Requests,
           UNCHANGED <<toClient, sent, rcvd, closed, raised, mgr>>,
           toApp' \in [Requests -> Channels(UpKinds)],
           phase' \in [Requests -> Phases], result' \in [Requests -> Results],
           app' \in [Requests -> {"none", "running", "returned", "raised", "cancelled"}],
           stage' \in [Requests -> {"request", "ready", "body", "rejecting", "done"}],
           up' \in [Requests -> 0 .. MaxUp], active' \subseteq Requests,
           budget' \in 0 .. MaxEnv,
           \A q \in Requests \ {r} : /\ phase'[q] = phase[q] /\ result'[q] = result[q]
                                     /\ app'[q] = app[q] /\ stage'[q] = stage[q],
           app'[r] = app[r] \/ (app[r] = "none" /\ app'[r] = "running" /\ mgr = "up"),
           app'[r] = "running" => phase'[r] # "closed",
           phase'[r] = "idle" => phase[r] = "idle" /\ app'[r] = "none",
           stage[r] = "done" => stage'[r] = "done", Over(r) => Over(r)',
           ~Over(r)' /\ phase'[r] # "rejected" => ~Over(r) /\ phase[r] # "rejected",
           result'[r] = "end" => result[r] = "end"
    PROVE  IInv'
<1>1. Elsewhere(r)  BY DEF Elsewhere
<1>2. Shape'  BY DEF IInv, Shape, Phases, Results
<1>3. Sound(r)'
  <2>1. Linked(toClient[r])'  BY DEF IInv, Sound, Linked
  <2>2. Due(r)' = Due(r)  BY DEF Due
  <2> QED  BY <1>2, <2>1, <2>2, QuietSound
<1>4. app'[r] = "running" => mgr = "up"
  BY DEF IInv, Served, AppEndsWithRequest
<1> QED  BY <1>1, <1>2, <1>3, <1>4, RequestStep

\* What the tasks send to the app.
LEMMA ToAppType ==
    ASSUME Shape, NEW r \in Requests, NEW e \in UpKinds
    PROVE  /\ [toApp EXCEPT ![r] = Send(@, e)] \in [Requests -> Channels(UpKinds)]
           /\ [toApp EXCEPT ![r] = IF @.ropen THEN Send(@, e) ELSE @]
                \in [Requests -> Channels(UpKinds)]
           /\ [toApp EXCEPT ![r] = Unblock(@)] \in [Requests -> Channels(UpKinds)]
           /\ [toApp EXCEPT ![r] = CloseSend(@)] \in [Requests -> Channels(UpKinds)]
           /\ [toApp EXCEPT ![r] = CloseRecv(@)] \in [Requests -> Channels(UpKinds)]
<1>1. toApp[r] \in Channels(UpKinds)  BY ShapeFacts
<1>2. Send(toApp[r], e) \in Channels(UpKinds)  BY <1>1, PutType DEF Send
<1>3. /\ Unblock(toApp[r]) \in Channels(UpKinds) /\ CloseSend(toApp[r]) \in Channels(UpKinds)
      /\ CloseRecv(toApp[r]) \in Channels(UpKinds)
  BY <1>1, CloseType
<1> QED  BY <1>1, <1>2, <1>3, ShapeFacts

LEMMA StartStep == ASSUME IInv, NEW r \in Requests, Start(r) PROVE IInv'
<1>1. /\ phase[r] = "idle" /\ active' = active \cup {r} /\ ~closed
      /\ UNCHANGED <<closed, raised, mgr, toApp, toClient, stage, sent, rcvd, up, budget>>
  BY DEF Start, available_slots
<1>2. Shape  BY DEF IInv
<1>3. active' \subseteq Requests /\ up' \in [Requests -> 0 .. MaxUp] /\ budget' \in 0 .. MaxEnv
  BY <1>1, <1>2 DEF Shape
<1>4. CASE raised
  <2>1. /\ phase' = [phase EXCEPT ![r] = "failed"] /\ result' = [result EXCEPT ![r] = "error"]
        /\ UNCHANGED app
    BY <1>4 DEF Start
  <2>2. app[r] # "running" \/ phase'[r] # "closed"  BY <1>2, <2>1, ShapeFacts
  <2>3. /\ phase' \in [Requests -> Phases] /\ result' \in [Requests -> Results]
        /\ \A q \in Requests \ {r} : phase'[q] = phase[q] /\ result'[q] = result[q]
        /\ phase'[r] = "failed" /\ result'[r] = "error"
    BY <1>2, <2>1, ShapeFacts DEF Phases, Results
  <2> QED  BY <1>1, <1>2, <1>3, <2>1, <2>2, <2>3, ShapeFacts, BesideStep DEF Over
<1>5. CASE ~raised
  <2>1. PICK p \in {"sending", "head"} :
          phase' = [phase EXCEPT ![r] = p] /\ app' = [app EXCEPT ![r] = "running"]
          /\ UNCHANGED result
    BY <1>5 DEF Start
  <2>2. mgr = "up"  BY <1>1, <1>5 DEF IInv, Served, Shape
  <2>3. app[r] = "none"  BY <1>1 DEF IInv, Sound, Hosted
  <2>4. /\ phase' \in [Requests -> Phases] /\ result' \in [Requests -> Results]
        /\ app' \in [Requests -> {"none", "running", "returned", "raised", "cancelled"}]
        /\ \A q \in Requests \ {r} : /\ phase'[q] = phase[q] /\ result'[q] = result[q]
                                     /\ app'[q] = app[q]
        /\ phase'[r] \in {"sending", "head"} /\ result'[r] = result[r] /\ app'[r] = "running"
    BY <1>2, <2>1, ShapeFacts DEF Phases, Results
  <2> QED  BY <1>1, <1>2, <1>3, <2>2, <2>3, <2>4, ShapeFacts, BesideStep DEF Over
<1> QED  BY <1>4, <1>5

\* The steps of a task that only send to the app, or give up.
LEMMA SendingStep ==
    ASSUME IInv, NEW r \in Requests,
           \/ SendBody(r) \/ SendBroken(r) \/ SendConnect(r) \/ CloseEarly(r)
           \/ SendMessage(r) \/ Disconnect(r) \/ Disconnected(r)
    PROVE  IInv'
<1>0. Shape  BY DEF IInv
<1>1. /\ UNCHANGED <<closed, raised, mgr, active, toClient, app, stage, sent, rcvd>>
      /\ active' \subseteq Requests
  BY <1>0 DEF SendBody, SendBroken, SendConnect, CloseEarly, SendMessage, Disconnect,
         Disconnected, connection, apps, Shape
<1>2. toApp' \in [Requests -> Channels(UpKinds)]
  <2>1. {"chunk", "end", "connect", "message", "disconnect"} \subseteq UpKinds  BY DEF UpKinds
  <2>2. CASE SendBody(r) \/ SendMessage(r)
    BY <1>0, <2>1, <2>2, ToAppType DEF SendBody, SendMessage
  <2>3. CASE SendBroken(r) \/ SendConnect(r)
    BY <1>0, <2>1, <2>3, ToAppType DEF SendBroken, SendConnect
  <2>4. CASE Disconnect(r) \/ CloseEarly(r) \/ Disconnected(r)
    BY <1>0, <2>1, <2>4, ToAppType, ShapeFacts DEF Disconnect, CloseEarly, Disconnected
  <2> QED  BY <2>2, <2>3, <2>4
<1>3. /\ up' \in [Requests -> 0 .. MaxUp] /\ budget' \in 0 .. MaxEnv
  <2>1. up \in [Requests -> 0 .. MaxUp] /\ budget \in 0 .. MaxEnv /\ MaxUp \in Nat /\ MaxEnv \in Nat
    BY <1>0, ShapeFacts DEF Shape
  <2>2. up' \in [Requests -> 0 .. MaxUp]
    <3>1. UNCHANGED up \/ (up[r] < MaxUp /\ up' = [up EXCEPT ![r] = @ + 1])
      BY DEF SendBody, SendBroken, SendConnect, CloseEarly, SendMessage, Disconnect, Disconnected
    <3> QED  BY <2>1, <3>1
  <2>3. budget' \in 0 .. MaxEnv
    <3>1. UNCHANGED budget \/ (budget > 0 /\ budget' = budget - 1)
      BY DEF SendBody, SendBroken, SendConnect, CloseEarly, SendMessage, Disconnect,
             Disconnected, Environment
    <3> QED  BY <2>1, <3>1
  <2> QED  BY <2>2, <2>3
<1>4. phase[r] \in {"sending", "head", "open", "disconnecting"}
  BY DEF SendBody, SendBroken, SendConnect, CloseEarly, SendMessage, Disconnect, Disconnected
<1>5. /\ \/ UNCHANGED phase
         \/ \E p \in {"head", "disconnecting", "closing"} : phase' = [phase EXCEPT ![r] = p]
      /\ \/ UNCHANGED result
         \/ \E x \in {"error", "closed"} : result' = [result EXCEPT ![r] = x]
  BY DEF SendBody, SendBroken, SendConnect, CloseEarly, SendMessage, Disconnect, Disconnected,
         Release
<1>6. /\ phase' \in [Requests -> Phases] /\ phase'[r] # "idle" /\ phase'[r] # "closed"
      /\ \A q \in Requests \ {r} : phase'[q] = phase[q]
  BY <1>0, <1>4, <1>5, ShapeFacts DEF Phases
<1>7. /\ result' \in [Requests -> Results] /\ (result'[r] = "end" => result[r] = "end")
      /\ \A q \in Requests \ {r} : result'[q] = result[q]
  BY <1>0, <1>5, ShapeFacts DEF Results
<1>8. ~Over(r) /\ phase[r] # "rejected"  BY <1>4 DEF Over
<1> QED  BY <1>0, <1>1, <1>2, <1>3, <1>6, <1>7, <1>8, ShapeFacts, BesideStep

\* The app receives.
LEMMA AppReceiveStep == ASSUME IInv, NEW r \in Requests, AppReceive(r) PROVE IInv'
<1>0. Shape  BY DEF IInv
<1>1. /\ UNCHANGED <<connection, toClient, app, sent, consumer, budget>>
      /\ app[r] = "running"
  BY DEF AppReceive
<1>2. toApp' \in [Requests -> Channels(UpKinds)]
  <2>1. toApp[r] \in Channels(UpKinds)  BY <1>0, ShapeFacts
  <2>2. CASE AppTurn(r) /\ Ready(toApp[r]) # <<>> /\ toApp' = [toApp EXCEPT ![r] = Received(toApp[r])]
    <3>1. Received(toApp[r]) \in Channels(UpKinds)  BY <2>1, <2>2, ReceivedEffects DEF AppTurn
    <3> QED  BY <1>0, <2>2, <3>1, ShapeFacts
  <2>3. CASE toApp' = [toApp EXCEPT ![r] = Await(toApp[r])]
    <3>1. Await(toApp[r]) \in Channels(UpKinds)  BY <2>1, CloseType
    <3> QED  BY <1>0, <2>3, <3>1, ShapeFacts
  <2> QED  BY <2>2, <2>3 DEF AppReceive
<1>3. \/ UNCHANGED stage \/ stage' = [stage EXCEPT ![r] = "done"]
      \/ stage[r] = "request" /\ stage' = [stage EXCEPT ![r] = "ready"]
  <2>1. CASE UNCHANGED stage  BY <2>1
  <2>2. CASE stage' = [stage EXCEPT ![r] =
                         CASE Head(Ready(toApp[r])) = "end" /\ @ = "request" -> "ready"
                           [] Head(Ready(toApp[r])) = "disconnect" -> "done"
                           [] OTHER -> @]
    <3>1. CASE Head(Ready(toApp[r])) = "end" /\ stage[r] = "request"
      BY <2>2, <3>1, Zenon
    <3>2. CASE Head(Ready(toApp[r])) = "disconnect"
      BY <2>2, <3>2, Zenon
    <3>3. CASE ~(Head(Ready(toApp[r])) = "end" /\ stage[r] = "request")
               /\ Head(Ready(toApp[r])) # "disconnect"
      <4>1. stage' = [stage EXCEPT ![r] = stage[r]]  BY <2>2, <3>3, Zenon
      <4> QED  BY <1>0, <4>1, ShapeFacts
    <3> QED  BY <3>1, <3>2, <3>3
  <2> QED  BY <2>1, <2>2 DEF AppReceive
<1>4. /\ stage' \in [Requests -> {"request", "ready", "body", "rejecting", "done"}]
      /\ \A q \in Requests \ {r} : stage'[q] = stage[q]
      /\ stage[r] = "done" => stage'[r] = "done"
  BY <1>0, <1>3, ShapeFacts
<1>5. phase[r] # "closed" /\ phase[r] # "idle"
  BY <1>1 DEF IInv, Served, AppEndsWithRequest, Sound, Hosted
<1> QED  BY <1>0, <1>1, <1>2, <1>4, <1>5, ShapeFacts, BesideStep
         DEF Shape, connection, consumer, Over

\* A step of a task that reads the channel from the app.
LEMMA FromAppStep ==
    ASSUME IInv, NEW r \in Requests, NEW c \in Channels(DownKinds),
           toClient' = [toClient EXCEPT ![r] = c],
           Linked(c), c.sopen = toClient[r].sopen,
           UNCHANGED <<connection, apps, up>>, budget' \in 0 .. MaxEnv,
           toApp' \in [Requests -> Channels(UpKinds)],
           phase' \in [Requests -> Phases], result' \in [Requests -> Results],
           rcvd' \in [Requests -> Nat],
           \A q \in Requests \ {r} : /\ phase'[q] = phase[q] /\ result'[q] = result[q]
                                     /\ rcvd'[q] = rcvd[q],
           phase[r] # "idle", phase'[r] # "idle", Over(r) => Over(r)',
           app[r] = "running" => phase'[r] # "closed",
           Shape' => Tally(r)'
    PROVE  IInv'
<1>0. Shape /\ Sound(r)  BY DEF IInv
<1>1. /\ toClient' \in [Requests -> Channels(DownKinds)] /\ toClient'[r] = c
      /\ \A q \in Requests \ {r} : toClient'[q] = toClient[q]
  BY <1>0, ShapeFacts
<1>2. Shape'  BY <1>0, <1>1 DEF Shape, Phases, Results, connection, apps
<1>3. Elsewhere(r)  BY <1>1 DEF Elsewhere, connection, apps
<1>4. Sound(r)'
  <2>1. Linked(toClient[r])'  BY <1>1 DEF Linked
  <2>2. Hosted(r)'  BY <1>0, <1>1 DEF Hosted, Sound, connection, apps
  <2> QED  BY <1>2, <2>1, <2>2 DEF Sound
<1>5. app'[r] = "running" => phase'[r] # "closed" /\ mgr = "up"
  BY DEF apps, IInv, Served, AppEndsWithRequest
<1> QED  BY <1>2, <1>3, <1>4, <1>5, RequestStep DEF connection

\* The tally after a step that counts nothing.
LEMMA QuietTally ==
    ASSUME IInv, NEW r \in Requests, NEW c \in Channels(DownKinds),
           toClient'[r] = c,
           LET d == Count(Pending(c), Data)
           IN  d = Due(r) \/ (d <= Due(r) /\ (Over(r)' \/ phase'[r] = "rejected")),
           UNCHANGED <<raised, sent, stage>>, rcvd'[r] = rcvd[r],
           Over(r) => Over(r)',
           ~Over(r)' /\ phase'[r] # "rejected" => ~Over(r) /\ phase[r] # "rejected",
           result'[r] = "end" => result[r] = "end"
    PROVE  Tally(r)'
<1>1. Tally(r) /\ Shape  BY DEF IInv, Sound
<1>2. Due(r)' = Count(Pending(c), Data)  BY DEF Due
<1>3. /\ Due(r) \in Nat /\ Due(r)' \in Nat /\ sent[r] \in Nat /\ rcvd[r] \in Nat
  BY <1>1, <1>2, DueType, PendingFacts, ShapeFacts
<1>4. Due(r)' = Due(r) \/ (Due(r)' <= Due(r) /\ (Over(r)' \/ phase'[r] = "rejected"))
  BY <1>2
<1>5. sent'[r] <= MaxData \/ stage'[r] = "done"  BY <1>1 DEF Tally
<1>6. rcvd'[r] + Due(r)' <= sent'[r]  BY <1>1, <1>3, <1>4 DEF Tally
<1>7. r \notin WebSockets /\ ~raised' /\ ~Over(r)' /\ phase'[r] # "rejected" =>
        rcvd'[r] + Due(r)' = sent'[r]
  BY <1>1, <1>4 DEF Tally
<1>8. /\ result'[r] = "end" => Over(r)'
      /\ r \notin WebSockets /\ result'[r] = "end" =>
           raised' \/ (stage'[r] = "done" /\ rcvd'[r] = sent'[r])
  BY <1>1 DEF Tally
<1> QED  BY <1>5, <1>6, <1>7, <1>8 DEF Tally

\* What receive() returns.
LEMMA TakesEffects ==
    ASSUME IInv, NEW r \in Requests, NEW p, NEW e, Takes(r, p, e)
    PROVE  \E c \in Channels(DownKinds) :
             /\ toClient' = [toClient EXCEPT ![r] = c] /\ toClient'[r] = c
             /\ Linked(c) /\ c.sopen = toClient[r].sopen
             /\ Count(Pending(c), Data) = Due(r) - IF e \in Data THEN 1 ELSE 0
<1>1. /\ toClient[r] \in Channels(DownKinds) /\ Linked(toClient[r])
      /\ toClient \in [Requests -> Channels(DownKinds)]
  BY ShapeFacts DEF IInv, Sound
<1>2. /\ toClient[r].rx # "wait" /\ Ready(toClient[r]) # <<>>
      /\ e = Head(Ready(toClient[r]))
      /\ toClient' = [toClient EXCEPT ![r] = Received(toClient[r])]
  BY DEF Takes
<1>3. /\ Received(toClient[r]) \in Channels(DownKinds)
      /\ Received(toClient[r]).sopen = toClient[r].sopen
      /\ Linked(Received(toClient[r]))
      /\ Count(Pending(Received(toClient[r])), Data)
           = Count(Pending(toClient[r]), Data) - IF e \in Data THEN 1 ELSE 0
  BY <1>1, <1>2, ReceivedEffects
<1>4. toClient'[r] = Received(toClient[r])  BY <1>1, <1>2
<1> QED  BY <1>2, <1>3, <1>4 DEF Due

\* One that is not counted: the first event of a response or handshake, one that
\* ends the response, or part of a rejection.
LEMMA TakeAside ==
    ASSUME IInv, NEW r \in Requests, NEW p, NEW e, Takes(r, p, e),
           NEW n \in {"open", "closing", "rejected", "disconnecting"},
           NEW x \in {"none", "error", "rejected", "ended"},
           phase' = [phase EXCEPT ![r] = n] \/ (UNCHANGED phase /\ phase[r] = n),
           \/ x = "none" /\ UNCHANGED result
           \/ x \in Results \ {"end"} /\ result' = [result EXCEPT ![r] = x]
           \/ x = "ended" /\ r \in WebSockets /\ n = "closing"
                /\ result' = [result EXCEPT ![r] = "end"],
           e \notin Data \/ n \in {"closing", "rejected"},
           phase[r] = "rejected" => n \in {"closing", "rejected"},
           toApp' \in [Requests -> Channels(UpKinds)], UNCHANGED rcvd
    PROVE  IInv'
<1>0. Shape /\ Tally(r)  BY DEF IInv, Sound
<1>1. PICK c \in Channels(DownKinds) :
        /\ toClient' = [toClient EXCEPT ![r] = c] /\ toClient'[r] = c
        /\ Linked(c) /\ c.sopen = toClient[r].sopen
        /\ Count(Pending(c), Data) = Due(r) - IF e \in Data THEN 1 ELSE 0
  BY TakesEffects
<1>2. /\ phase[r] \in {"head", "rejected", "open"}
      /\ UNCHANGED <<connection, apps, up, budget>>
  BY DEF Takes, Receiving
<1>3. /\ phase' \in [Requests -> Phases] /\ phase'[r] = n
      /\ \A q \in Requests \ {r} : phase'[q] = phase[q]
  BY <1>0, ShapeFacts DEF Phases
<1>4. /\ result' \in [Requests -> Results]
      /\ \A q \in Requests \ {r} : result'[q] = result[q]
      /\ result'[r] = "end" => result[r] = "end" \/ (r \in WebSockets /\ n = "closing")
  BY <1>0, ShapeFacts DEF Results
<1>5. /\ Over(r)' <=> n = "closing"
      /\ ~Over(r)
  BY <1>2, <1>3 DEF Over
<1>6. ASSUME Shape' PROVE Tally(r)'
  <2>1. Due(r)' = Due(r) - IF e \in Data THEN 1 ELSE 0  BY <1>1 DEF Due
  <2>2. /\ Due(r) \in Nat /\ Due(r)' \in Nat /\ sent[r] \in Nat /\ rcvd[r] \in Nat
    BY <1>0, <1>6, DueType, DueTypeAfter, ShapeFacts
  <2>3. UNCHANGED <<sent, stage, raised, rcvd>>  BY <1>2 DEF connection, apps
  <2>4. sent'[r] <= MaxData \/ stage'[r] = "done"  BY <1>0, <2>3 DEF Tally
  <2>5. rcvd'[r] + Due(r)' <= sent'[r]  BY <1>0, <2>1, <2>2, <2>3 DEF Tally
  <2>6. ASSUME r \notin WebSockets, ~raised', ~Over(r)', phase'[r] # "rejected"
        PROVE  rcvd'[r] + Due(r)' = sent'[r]
    <3>1. e \notin Data /\ phase[r] # "rejected"  BY <1>3, <1>5, <2>6
    <3>2. Due(r)' = Due(r)  BY <2>1, <2>2, <3>1
    <3> QED  BY <1>0, <1>5, <2>3, <2>6, <3>1, <3>2 DEF Tally
  <2>7. result[r] # "end"  BY <1>0, <1>5 DEF Tally
  <2>8. /\ result'[r] = "end" => Over(r)'
        /\ r \notin WebSockets /\ result'[r] = "end" =>
             raised' \/ (stage'[r] = "done" /\ rcvd'[r] = sent'[r])
    BY <1>4, <1>5, <2>7
  <2> QED  BY <2>4, <2>5, <2>6, <2>8 DEF Tally
<1>7. budget' \in 0 .. MaxEnv /\ rcvd' \in [Requests -> Nat]  BY <1>0, <1>2, ShapeFacts DEF Shape
<1>8. /\ phase[r] # "idle" /\ phase'[r] # "idle" /\ phase'[r] # "closed"
      /\ (Over(r) => Over(r)')
  BY <1>2, <1>3, <1>5
<1> QED  BY <1>1, <1>2, <1>3, <1>4, <1>6, <1>7, <1>8, FromAppStep

\* One that is: a piece of a body, or a message.
LEMMA TakeData ==
    ASSUME IInv, NEW r \in Requests, NEW e \in Data, Takes(r, "open", e), Gets(r)
    PROVE  IInv'
<1>0. Shape /\ Tally(r)  BY DEF IInv, Sound
<1>1. PICK c \in Channels(DownKinds) :
        /\ toClient' = [toClient EXCEPT ![r] = c] /\ toClient'[r] = c
        /\ Linked(c) /\ c.sopen = toClient[r].sopen
        /\ Count(Pending(c), Data) = Due(r) - 1
  BY TakesEffects
<1>2. /\ phase[r] = "open" /\ UNCHANGED <<connection, apps, up, budget, phase, result, toApp>>
      /\ rcvd' = [rcvd EXCEPT ![r] = @ + 1]
  BY DEF Takes, Gets
<1>3. /\ rcvd' \in [Requests -> Nat] /\ rcvd'[r] = rcvd[r] + 1
      /\ \A q \in Requests \ {r} : rcvd'[q] = rcvd[q]
  BY <1>0, <1>2, ShapeFacts
<1>4. ASSUME Shape' PROVE Tally(r)'
  <2>1. /\ Due(r) \in Nat /\ sent[r] \in Nat /\ rcvd[r] \in Nat
    BY <1>0, DueType, ShapeFacts
  <2>2. Due(r)' = Due(r) - 1  BY <1>1 DEF Due
  <2>3. UNCHANGED <<sent, stage, raised>>  BY <1>2 DEF connection, apps
  <2>4. ~Over(r) /\ result[r] # "end"  BY <1>0, <1>2 DEF Over, Tally
  <2>5. rcvd'[r] + Due(r)' = rcvd[r] + Due(r)  BY <1>3, <2>1, <2>2
  <2> QED  BY <1>0, <1>2, <2>3, <2>4, <2>5 DEF Tally, Over
<1>5. /\ phase' \in [Requests -> Phases] /\ result' \in [Requests -> Results]
      /\ toApp' \in [Requests -> Channels(UpKinds)] /\ budget' \in 0 .. MaxEnv
  BY <1>0, <1>2, ShapeFacts DEF Shape
<1>6. phase'[r] = "open" /\ (Over(r) => Over(r)')  BY <1>2 DEF Over
<1> QED  BY <1>1, <1>2, <1>3, <1>4, <1>5, <1>6, FromAppStep

LEMMA ReceiveStep ==
    ASSUME IInv, NEW r \in Requests,
           ReceiveResponse(r) \/ ReceiveHandshake(r) \/ ReceiveBody(r) \/ ReceiveMessage(r)
    PROVE  IInv'
<1>0. Shape /\ toApp \in [Requests -> Channels(UpKinds)]  BY ShapeFacts DEF IInv
<1>1. ASSUME NEW e \in {"start", "accept"}, Takes(r, "head", e), Opens(r) PROVE IInv'
  <2>1. phase[r] = "head" /\ e \notin Data  BY <1>1 DEF Takes, Data
  <2>2. phase' = [phase EXCEPT ![r] = "open"] /\ UNCHANGED <<result, rcvd, toApp>>
    BY <1>1 DEF Opens
  <2> QED  BY <1>0, <1>1, <2>1, <2>2, TakeAside
<1>2. ASSUME NEW p, NEW e, NEW x \in {"error", "rejected"}, Takes(r, p, e), Ends(r, x)
      PROVE  IInv'
  <2>1. /\ phase' = [phase EXCEPT ![r] = "closing"] /\ result' = [result EXCEPT ![r] = x]
        /\ UNCHANGED <<rcvd, toApp>> /\ x \in Results \ {"end"}
    BY <1>2 DEF Ends, Release, Results
  <2> QED  BY <1>0, <1>2, <2>1, TakeAside
<1>3. CASE r \in WebSockets /\ Takes(r, "open", "close") /\ Ends(r, "end")
  <2>1. /\ phase' = [phase EXCEPT ![r] = "closing"] /\ result' = [result EXCEPT ![r] = "end"]
        /\ UNCHANGED <<rcvd, toApp>>
    BY <1>3 DEF Ends, Release
  <2> QED  BY <1>0, <1>3, <2>1, TakeAside
<1>4. CASE /\ Takes(r, "head", "reject")
           /\ phase' = [phase EXCEPT ![r] = "rejected"]
           /\ UNCHANGED <<result, rcvd, toApp>>
  BY <1>0, <1>4, TakeAside
<1>5. CASE Takes(r, "rejected", "body") /\ UNCHANGED <<phase, result, rcvd, toApp>>
  <2>1. phase[r] = "rejected"  BY <1>5 DEF Takes
  <2> QED  BY <1>0, <1>5, <2>1, TakeAside
<1>6. CASE /\ Takes(r, "open", "odd")
           /\ phase' = [phase EXCEPT ![r] = "disconnecting"]
           /\ toApp' = [toApp EXCEPT ![r] = IF @.ropen THEN Send(@, "disconnect") ELSE @]
           /\ UNCHANGED <<result, rcvd>>
  <2>1. "odd" \notin Data /\ "disconnect" \in UpKinds /\ phase[r] = "open"
    BY <1>6 DEF Data, UpKinds, Takes
  <2>2. toApp' \in [Requests -> Channels(UpKinds)]  BY <1>0, <1>6, <2>1, ToAppType
  <2> QED  BY <1>6, <2>1, <2>2, TakeAside
<1>7. ASSUME NEW e \in Data, Takes(r, "open", e), Gets(r) PROVE IInv'
  BY <1>7, TakeData
<1> QED
  <2>1. CASE ReceiveResponse(r)  BY <1>1, <1>2, <2>1 DEF ReceiveResponse
  <2>2. CASE ReceiveHandshake(r)  BY <1>1, <1>2, <1>4, <1>5, <2>2 DEF ReceiveHandshake
  <2>3. CASE ReceiveBody(r)  BY <1>2, <1>7, <2>3 DEF ReceiveBody, Data
  <2>4. CASE ReceiveMessage(r)  BY <1>3, <1>6, <1>7, <2>4 DEF ReceiveMessage, Data
  <2> QED  BY <2>1, <2>2, <2>3, <2>4

\* A step that reads the channel without taking anything from it, or closes it.
LEMMA NothingTaken ==
    ASSUME IInv, NEW r \in Requests, AwaitEvent(r) \/ Cancel(r) \/ CloseRequest(r)
    PROVE  IInv'
<1>0. /\ Shape /\ toClient[r] \in Channels(DownKinds) /\ Linked(toClient[r])
      /\ toApp \in [Requests -> Channels(UpKinds)]
      /\ toClient \in [Requests -> Channels(DownKinds)]
      /\ phase \in [Requests -> Phases] /\ result \in [Requests -> Results]
      /\ rcvd \in [Requests -> Nat] /\ budget \in 0 .. MaxEnv /\ MaxEnv \in Nat
  BY ShapeFacts DEF IInv, Sound, Shape
<1>1. CASE AwaitEvent(r)
  <2> DEFINE c == Await(toClient[r])
  <2>1. /\ phase[r] \in {"head", "rejected", "open"} /\ MustWait(toClient[r])
        /\ toClient' = [toClient EXCEPT ![r] = c]
        /\ UNCHANGED <<connection, toApp, apps, phase, result, rcvd, up, budget>>
    BY <1>1 DEF AwaitEvent, Receiving, consumer
  <2>2. /\ c \in Channels(DownKinds) /\ Linked(c) /\ c.sopen = toClient[r].sopen
        /\ Pending(c) = Pending(toClient[r])
    BY <1>0, <2>1, WaitingEffects
  <2> HIDE DEF c
  <2>3. Count(Pending(c), Data) = Due(r) /\ toClient'[r] = c  BY <1>0, <2>1, <2>2 DEF Due
  <2>4. Tally(r)'
    BY <2>1, <2>2, <2>3, QuietTally DEF connection, apps, Over
  <2>5. /\ phase[r] # "idle" /\ phase'[r] # "idle" /\ phase'[r] # "closed"
        /\ (Over(r) => Over(r)')
    BY <2>1 DEF Over
  <2> QED  BY <1>0, <2>1, <2>2, <2>4, <2>5, FromAppStep
<1>2. CASE Cancel(r)
  <2> DEFINE c == [toClient[r] EXCEPT !.rx = "idle"]
  <2>1. /\ phase[r] \in {"sending", "head", "rejected", "open", "disconnecting"}
        /\ toClient' = [toClient EXCEPT ![r] = c]
        /\ toApp' = [toApp EXCEPT ![r] = Unblock(@)]
        /\ phase' = [phase EXCEPT ![r] = "closing"]
        /\ result' = [result EXCEPT ![r] = "cancelled"]
        /\ UNCHANGED <<connection, apps, rcvd, up>>
    BY <1>2 DEF Cancel, Receiving, Release
  <2>2. /\ c \in Channels(DownKinds) /\ Linked(c) /\ c.sopen = toClient[r].sopen
        /\ Pending(c) = Pending(toClient[r])
    BY <1>0, WaitingEffects
  <2> HIDE DEF c
  <2>3. Count(Pending(c), Data) = Due(r) /\ toClient'[r] = c  BY <1>0, <2>1, <2>2 DEF Due
  <2>4. /\ phase' \in [Requests -> Phases] /\ phase'[r] = "closing"
        /\ result' \in [Requests -> Results] /\ result'[r] = "cancelled"
        /\ \A q \in Requests \ {r} : phase'[q] = phase[q] /\ result'[q] = result[q]
    BY <1>0, <2>1 DEF Phases, Results
  <2>5. Over(r)' /\ rcvd'[r] = rcvd[r]  BY <2>1, <2>4 DEF Over
  <2>6. Tally(r)'
    <3>1. UNCHANGED <<raised, sent, stage>>  BY <2>1 DEF connection, apps
    <3> QED  BY <2>2, <2>3, <2>4, <2>5, <3>1, QuietTally
  <2>7. toApp' \in [Requests -> Channels(UpKinds)]
    <3>1. Unblock(toApp[r]) \in Channels(UpKinds)  BY <1>0, CloseType
    <3> QED  BY <1>0, <2>1, <3>1
  <2>8. budget' \in 0 .. MaxEnv
    <3>1. UNCHANGED budget \/ (budget > 0 /\ budget' = budget - 1)
      BY <1>2 DEF Cancel, Environment
    <3> QED  BY <1>0, <3>1
  <2>9. phase[r] # "idle"  BY <2>1
  <2> QED  BY <1>0, <2>1, <2>2, <2>4, <2>5, <2>6, <2>7, <2>8, <2>9, FromAppStep
<1>3. CASE CloseRequest(r)
  <2> DEFINE c == CloseRecv(toClient[r])
  <2>1. /\ phase[r] = "closing" /\ app[r] # "running"
        /\ toClient' = [toClient EXCEPT ![r] = c]
        /\ toApp' = [toApp EXCEPT ![r] = CloseSend(@)]
        /\ phase' = [phase EXCEPT ![r] = "closed"]
        /\ UNCHANGED <<connection, apps, result, rcvd, up, budget>>
    BY <1>3 DEF CloseRequest
  <2>2. /\ c \in Channels(DownKinds) /\ Linked(c) /\ c.sopen = toClient[r].sopen
        /\ Count(Pending(c), Data) <= Count(Pending(toClient[r]), Data)
    BY <1>0, ClosingEffects
  <2> HIDE DEF c
  <2>3. Count(Pending(c), Data) <= Due(r) /\ toClient'[r] = c  BY <1>0, <2>1, <2>2 DEF Due
  <2>4. /\ phase' \in [Requests -> Phases] /\ phase'[r] = "closed"
        /\ \A q \in Requests \ {r} : phase'[q] = phase[q]
    BY <1>0, <2>1 DEF Phases
  <2>5. Over(r)' /\ rcvd'[r] = rcvd[r] /\ result'[r] = result[r]  BY <2>1, <2>4 DEF Over
  <2>6. Tally(r)'
    <3>1. UNCHANGED <<raised, sent, stage>>  BY <2>1 DEF connection, apps
    <3> QED  BY <2>2, <2>3, <2>4, <2>5, <3>1, QuietTally
  <2>7. toApp' \in [Requests -> Channels(UpKinds)]
    <3>1. CloseSend(toApp[r]) \in Channels(UpKinds)  BY <1>0, CloseType
    <3> QED  BY <1>0, <2>1, <3>1
  <2> QED  BY <1>0, <2>1, <2>2, <2>4, <2>5, <2>6, <2>7, FromAppStep
<1> QED  BY <1>1, <1>2, <1>3

\* The end of the app's task, seen by a task that has received everything: if the
\* app has not raised, it returned, as it is cancelled after the request's end only.
LEMMA ReceiveEndStep == ASSUME IInv, NEW r \in Requests, ReceiveEnd(r) PROVE IInv'
<1>0. /\ Shape /\ toClient[r] \in Channels(DownKinds) /\ Linked(toClient[r])
      /\ Hosted(r) /\ Tally(r)
      /\ toApp \in [Requests -> Channels(UpKinds)]
      /\ toClient \in [Requests -> Channels(DownKinds)]
      /\ phase \in [Requests -> Phases] /\ result \in [Requests -> Results]
      /\ sent \in [Requests -> Nat] /\ rcvd \in [Requests -> Nat]
      /\ app \in [Requests -> {"none", "running", "returned", "raised", "cancelled"}]
      /\ budget \in 0 .. MaxEnv
  BY ShapeFacts DEF IInv, Sound, Shape
<1> DEFINE c == [toClient[r] EXCEPT !.rx = "idle"]
           x == CASE phase[r] = "head"     -> "error"
                  [] phase[r] = "rejected" -> "rejected"
                  [] OTHER                 -> "end"
<1>1. /\ phase[r] \in {"head", "rejected", "open"} /\ AtEnd(toClient[r])
      /\ toClient' = [toClient EXCEPT ![r] = c]
      /\ phase' = [phase EXCEPT ![r] = "closing"] /\ result' = [result EXCEPT ![r] = x]
      /\ UNCHANGED <<connection, toApp, apps, rcvd, up, budget>>
  BY DEF ReceiveEnd, Receiving, Release
<1>2. x \in {"error", "rejected", "end"} /\ (x = "end" => phase[r] = "open")
  <2>1. CASE phase[r] = "head"  BY <2>1, Zenon
  <2>2. CASE phase[r] = "rejected"
    <3>1. phase[r] # "head"  BY <2>2
    <3> QED  BY <2>2, <3>1, Zenon
  <2>3. CASE phase[r] = "open"
    <3>1. phase[r] # "head" /\ phase[r] # "rejected"  BY <2>3
    <3> QED  BY <2>3, <3>1, Zenon
  <2> QED  BY <1>1, <2>1, <2>2, <2>3
<1> HIDE DEF x
<1>3. /\ c \in Channels(DownKinds) /\ Linked(c) /\ c.sopen = toClient[r].sopen
      /\ Pending(c) = Pending(toClient[r])
  BY <1>0, WaitingEffects
<1> HIDE DEF c
<1>4. ~toClient[r].sopen /\ Due(r) = 0  BY <1>0, <1>1, AtEndMeansAll DEF Due
<1>5. raised \/ stage[r] = "done"
  <2>1. app[r] \notin {"none", "running"}  BY <1>0, <1>4 DEF Hosted
  <2>2. ~Over(r)  BY <1>1 DEF Over
  <2> QED  BY <1>0, <2>1, <2>2 DEF Hosted
<1>6. /\ phase' \in [Requests -> Phases] /\ phase'[r] = "closing"
      /\ result' \in [Requests -> Results] /\ result'[r] = x
      /\ \A q \in Requests \ {r} : phase'[q] = phase[q] /\ result'[q] = result[q]
  BY <1>0, <1>1, <1>2 DEF Phases, Results
<1>7. Over(r)' /\ rcvd'[r] = rcvd[r]  BY <1>1, <1>6 DEF Over
<1>8. Tally(r)'
  <2>1. UNCHANGED <<raised, sent, stage>>  BY <1>1 DEF connection, apps
  <2>2. toClient'[r] = c  BY <1>0, <1>1
  <2>3. Due(r)' = 0  BY <1>3, <1>4, <2>2 DEF Due
  <2>4. rcvd[r] \in Nat /\ sent[r] \in Nat  BY <1>0
  <2>5. r \notin WebSockets /\ x = "end" => raised \/ (stage[r] = "done" /\ rcvd[r] = sent[r])
    <3> SUFFICES ASSUME r \notin WebSockets, x = "end", ~raised
                 PROVE  stage[r] = "done" /\ rcvd[r] = sent[r]
      OBVIOUS
    <3>1. ~Over(r) /\ phase[r] # "rejected"  BY <1>2 DEF Over
    <3>2. rcvd[r] + Due(r) = sent[r]  BY <1>0, <3>1 DEF Tally
    <3> QED  BY <1>4, <1>5, <2>4, <3>2
  <2>6. rcvd'[r] + Due(r)' <= sent'[r]  BY <1>0, <1>4, <1>7, <2>1, <2>3 DEF Tally
  <2>7. sent'[r] <= MaxData \/ stage'[r] = "done"  BY <1>0, <2>1 DEF Tally
  <2> QED  BY <1>6, <1>7, <2>1, <2>5, <2>6, <2>7 DEF Tally
<1>9. phase[r] # "idle"  BY <1>1
<1> QED  BY <1>0, <1>1, <1>3, <1>6, <1>7, <1>8, <1>9, FromAppStep

-----------------------------------------------------------------------------
(* The applications *)

\* What an app sends is counted exactly if it is a piece or a message.
LEMMA AppSendStep ==
    ASSUME IInv, NEW r \in Requests, NEW e \in DownKinds,
           NEW n \in {"request", "ready", "body", "rejecting", "done"},
           AppSend(r, e, n), stage[r] # "done", budget' \in 0 .. MaxEnv,
           \/ e \notin Data /\ UNCHANGED sent
           \/ e \in Data /\ Counted(r) /\ (sent[r] < MaxData \/ n = "done")
    PROVE  IInv'
<1>0. /\ Shape /\ toClient[r] \in Channels(DownKinds) /\ Sound(r)
      /\ toClient \in [Requests -> Channels(DownKinds)]
      /\ sent \in [Requests -> 0 .. (MaxData + 1)] /\ sent[r] \in Nat /\ rcvd[r] \in Nat
      /\ stage \in [Requests -> {"request", "ready", "body", "rejecting", "done"}]
      /\ MaxData \in Nat
  BY ShapeFacts DEF IInv, Shape
<1>1. /\ app[r] = "running" /\ toClient[r].snd = <<>>
      /\ toClient' = [toClient EXCEPT ![r] = Send(@, e)]
      /\ stage' = [stage EXCEPT ![r] = n]
      /\ UNCHANGED <<connection, toApp, app, consumer>>
  BY DEF AppSend, AppAwaits, AppTurn, Sending
<1> DEFINE c == Send(toClient[r], e)
<1>2. toClient[r].sopen  BY <1>0, <1>1 DEF Sound, Hosted
<1>3. /\ c \in Channels(DownKinds) /\ c.sopen /\ Linked(c)
      /\ Count(Pending(c), Data) = Count(Pending(toClient[r]), Data) + IF e \in Data THEN 1 ELSE 0
  BY <1>0, <1>1, <1>2, SendEffects DEF Sound
<1>4. toClient' = [toClient EXCEPT ![r] = c]  BY <1>1
<1> HIDE DEF c
<1>5. /\ toClient' \in [Requests -> Channels(DownKinds)] /\ toClient'[r] = c
      /\ \A q \in Requests \ {r} : toClient'[q] = toClient[q]
      /\ stage' \in [Requests -> {"request", "ready", "body", "rejecting", "done"}]
      /\ stage'[r] = n /\ \A q \in Requests \ {r} : stage'[q] = stage[q]
  BY <1>0, <1>1, <1>3, <1>4
<1>6. /\ sent[r] <= MaxData
      /\ sent'[r] = sent[r] + IF e \in Data THEN 1 ELSE 0
      /\ sent'[r] <= MaxData \/ n = "done"
      /\ sent' \in [Requests -> 0 .. (MaxData + 1)]
      /\ \A q \in Requests \ {r} : sent'[q] = sent[q]
  <2>1. sent[r] <= MaxData  BY <1>0 DEF Sound, Tally
  <2>2. CASE e \notin Data /\ UNCHANGED sent  BY <1>0, <2>1, <2>2
  <2>3. CASE e \in Data /\ Counted(r) /\ (sent[r] < MaxData \/ n = "done")
    <3>1. sent' = [sent EXCEPT ![r] = @ + 1]  BY <2>3 DEF Counted
    <3>2. sent[r] + 1 \in 0 .. (MaxData + 1)  BY <1>0, <2>1
    <3> QED  BY <1>0, <2>1, <2>3, <3>1, <3>2
  <2> QED  BY <2>2, <2>3
<1>7. Shape'
  BY <1>0, <1>1, <1>5, <1>6 DEF Shape, connection, consumer
<1>8. Elsewhere(r)  BY <1>1, <1>5, <1>6 DEF Elsewhere, connection, consumer
<1>9. Sound(r)'
  <2>1. UNCHANGED <<raised, app, phase, result, rcvd>>  BY <1>1 DEF connection, consumer
  <2>2. Linked(toClient[r])'  BY <1>3, <1>5 DEF Linked
  <2>3. Hosted(r)'  BY <1>0, <1>1, <1>3, <1>5, <2>1 DEF Sound, Hosted, Over
  <2>4. /\ Due(r)' = Due(r) + IF e \in Data THEN 1 ELSE 0
        /\ Due(r) \in Nat
    BY <1>0, <1>3, <1>5, DueType DEF Due
  <2>5. (Over(r)' <=> Over(r)) /\ rcvd'[r] = rcvd[r] /\ phase'[r] = phase[r]
        /\ result'[r] = result[r]
    BY <2>1 DEF Over
  <2>6. rcvd'[r] + Due(r)' = (rcvd[r] + Due(r)) + (sent'[r] - sent[r])
    BY <1>0, <1>6, <2>4, <2>5
  <2>7. Tally(r)'
    <3>1. sent'[r] <= MaxData \/ stage'[r] = "done"  BY <1>5, <1>6
    <3>2. rcvd'[r] + Due(r)' <= sent'[r]
      <4>1. rcvd[r] + Due(r) <= sent[r]  BY <1>0 DEF Sound, Tally
      <4>2. rcvd[r] + Due(r) \in Nat /\ sent'[r] \in Nat  BY <1>0, <1>6, <2>4
      <4> HIDE DEF Due
      <4> QED  BY <1>0, <2>6, <4>1, <4>2
    <3>3. r \notin WebSockets /\ ~raised' /\ ~Over(r)' /\ phase'[r] # "rejected" =>
            rcvd'[r] + Due(r)' = sent'[r]
      <4> SUFFICES ASSUME r \notin WebSockets, ~raised, ~Over(r), phase[r] # "rejected"
                   PROVE  rcvd'[r] + Due(r)' = sent'[r]
        BY <2>1, <2>5
      <4>1. rcvd[r] + Due(r) = sent[r]  BY <1>0 DEF Sound, Tally
      <4>2. sent'[r] \in Nat  BY <1>0, <1>6
      <4> QED  BY <1>0, <2>6, <4>1, <4>2
    <3>4. result'[r] = "end" => Over(r)'  BY <1>0, <2>5 DEF Sound, Tally
    <3>5. r \notin WebSockets /\ result'[r] = "end" => raised'
      BY <1>0, <2>1, <2>5 DEF Sound, Tally
    <3> QED  BY <3>1, <3>2, <3>3, <3>4, <3>5 DEF Tally
  <2> QED  BY <2>2, <2>3, <2>7 DEF Sound
<1>10. /\ UNCHANGED mgr /\ (closed => closed')
       /\ app'[r] = "running" => phase'[r] # "closed" /\ mgr = "up"
  BY <1>1 DEF connection, consumer, IInv, Served, AppEndsWithRequest
<1> QED  BY <1>7, <1>8, <1>9, <1>10, RequestStep

LEMMA AnswerStep ==
    ASSUME IInv, NEW r \in Requests, AppAnswer(r) \/ AppBody(r) \/ AppMessage(r) \/ AppOdd(r)
    PROVE  IInv'
<1>0. /\ budget \in 0 .. MaxEnv /\ MaxEnv \in Nat
      /\ {"accept", "reject", "close", "start", "body", "last", "message", "odd"} \subseteq DownKinds
      /\ {"body", "last", "message"} \subseteq Data
      /\ \A e \in {"accept", "reject", "close", "start", "odd"} : e \notin Data
  BY ShapeFacts DEF IInv, Shape, DownKinds, Data
<1>1. CASE AppAnswer(r)
  <2>1. stage[r] # "done" /\ UNCHANGED <<sent, budget>>  BY <1>1 DEF AppAnswer
  <2> QED  BY <1>0, <1>1, <2>1, AppSendStep DEF AppAnswer
<1>2. CASE AppBody(r)
  <2>1. stage[r] \in {"rejecting", "body"} /\ Counted(r) /\ UNCHANGED budget
    BY <1>2 DEF AppBody
  <2>2. CASE sent[r] < MaxData /\ AppSend(r, "body", stage[r])
    BY <1>0, <2>1, <2>2, AppSendStep
  <2>3. CASE AppSend(r, "last", "done")  BY <1>0, <2>1, <2>3, AppSendStep
  <2> QED  BY <1>2, <2>2, <2>3 DEF AppBody
<1>3. CASE AppMessage(r)
  <2>1. stage[r] = "body" /\ UNCHANGED budget  BY <1>3 DEF AppMessage
  <2>2. CASE sent[r] < MaxData /\ AppSend(r, "message", "body") /\ Counted(r)
    BY <1>0, <2>1, <2>2, AppSendStep
  <2>3. CASE AppSend(r, "close", "done") /\ UNCHANGED sent
    BY <1>0, <2>1, <2>3, AppSendStep
  <2> QED  BY <1>3, <2>2, <2>3 DEF AppMessage
<1>4. CASE AppOdd(r)
  <2>1. stage[r] \in {"ready", "body", "rejecting"} /\ UNCHANGED sent
        /\ AppSend(r, "odd", stage[r]) /\ budget > 0 /\ budget' = budget - 1
    BY <1>4 DEF AppOdd, Environment
  <2>2. budget' \in 0 .. MaxEnv  BY <1>0, <2>1
  <2> QED  BY <1>0, <2>1, <2>2, AppSendStep
<1> QED  BY <1>1, <1>2, <1>3, <1>4

\* The app's task ends.  An item that it was blocked on is dropped only if the
\* request is over, or the whole connection is.
LEMMA EndAppStep ==
    ASSUME IInv, NEW r \in Requests, NEW how \in {"returned", "raised", "cancelled"},
           EndApp(r, how), app[r] = "running",
           UNCHANGED <<active, closed, mgr, stage, sent, consumer>>,
           raised' \in BOOLEAN, raised => raised', budget' \in 0 .. MaxEnv,
           toClient[r].snd = <<>> \/ raised' \/ Over(r),
           how = "returned" => stage[r] = "done", how = "raised" => raised',
           how = "cancelled" => raised' \/ Over(r)
    PROVE  IInv'
<1>0. /\ Shape /\ toClient[r] \in Channels(DownKinds) /\ Sound(r)
      /\ toClient \in [Requests -> Channels(DownKinds)]
      /\ toApp \in [Requests -> Channels(UpKinds)]
      /\ app \in [Requests -> {"none", "running", "returned", "raised", "cancelled"}]
      /\ sent[r] \in Nat /\ rcvd[r] \in Nat
  BY ShapeFacts DEF IInv, Shape
<1> DEFINE c == CloseSend(Unblock(toClient[r]))
<1>1. /\ app' = [app EXCEPT ![r] = how] /\ toApp' = [toApp EXCEPT ![r] = CloseRecv(@)]
      /\ toClient' = [toClient EXCEPT ![r] = c]
  BY DEF EndApp
<1>2. /\ c \in Channels(DownKinds) /\ Linked(c) /\ ~c.sopen
      /\ Count(Pending(c), Data) <= Count(Pending(toClient[r]), Data)
      /\ toClient[r].snd = <<>> => Count(Pending(c), Data) = Count(Pending(toClient[r]), Data)
  BY <1>0, ClosingEffects DEF Sound
<1> HIDE DEF c
<1>3. /\ toClient' \in [Requests -> Channels(DownKinds)] /\ toClient'[r] = c
      /\ app' \in [Requests -> {"none", "running", "returned", "raised", "cancelled"}]
      /\ app'[r] = how
      /\ \A q \in Requests \ {r} : toClient'[q] = toClient[q] /\ app'[q] = app[q]
  BY <1>0, <1>1, <1>2
<1>4. toApp' \in [Requests -> Channels(UpKinds)]
  <2>1. CloseRecv(toApp[r]) \in Channels(UpKinds)  BY <1>0, CloseType
  <2> QED  BY <1>0, <1>1, <2>1
<1>5. Shape'  BY <1>0, <1>3, <1>4 DEF Shape, consumer
<1>6. Elsewhere(r)  BY <1>3 DEF Elsewhere, consumer
<1>7. Sound(r)'
  <2>1. UNCHANGED <<phase, result, rcvd>> /\ (Over(r)' <=> Over(r))  BY DEF consumer, Over
  <2>2. Linked(toClient[r])'  BY <1>2, <1>3 DEF Linked
  <2>3. Hosted(r)'  BY <1>0, <1>2, <1>3, <2>1 DEF Sound, Hosted
  <2>4. Due(r)' = Count(Pending(c), Data)  BY <1>3 DEF Due
  <2>5. /\ Due(r)' <= Due(r) /\ (toClient[r].snd = <<>> => Due(r)' = Due(r))
        /\ Due(r) \in Nat /\ Due(r)' \in Nat
    BY <1>0, <1>2, <2>4, DueType, PendingFacts DEF Due
  <2>6. Tally(r)'
    <3>1. rcvd'[r] + Due(r)' <= sent'[r]  BY <1>0, <2>1, <2>5 DEF Sound, Tally
    <3>2. r \notin WebSockets /\ ~raised' /\ ~Over(r)' /\ phase'[r] # "rejected" =>
            rcvd'[r] + Due(r)' = sent'[r]
      BY <1>0, <2>1, <2>5 DEF Sound, Tally
    <3> QED  BY <1>0, <2>1, <3>1, <3>2 DEF Sound, Tally
  <2> QED  BY <2>2, <2>3, <2>6 DEF Sound
<1> QED  BY <1>3, <1>5, <1>6, <1>7, RequestStep

LEMMA AppEndStep ==
    ASSUME IInv, NEW r \in Requests, AppReturns(r) \/ AppRaises(r) \/ AppCancelled(r)
    PROVE  IInv'
<1>0. raised \in BOOLEAN /\ budget \in 0 .. MaxEnv /\ MaxEnv \in Nat
  BY ShapeFacts DEF IInv, Shape
<1>1. CASE AppReturns(r)
  BY <1>0, <1>1, EndAppStep DEF AppReturns, AppTurn, Sending, connection
<1>2. CASE AppRaises(r)
  <2>1. budget' \in 0 .. MaxEnv  BY <1>0, <1>2 DEF AppRaises, Environment
  <2> QED  BY <1>0, <1>2, <2>1, EndAppStep DEF AppRaises, AppTurn
<1>3. CASE AppCancelled(r)
  BY <1>0, <1>3, EndAppStep DEF AppCancelled, Cancelled, Over, connection
<1> QED  BY <1>1, <1>2, <1>3

-----------------------------------------------------------------------------
(* The connection, and the theorems *)

LEMMA ConnectionStep == ASSUME IInv, AClose \/ Stop \/ UNCHANGED vars PROVE IInv'
<1>0. Shape /\ budget \in 0 .. MaxEnv /\ MaxEnv \in Nat  BY ShapeFacts DEF IInv, Shape
<1>1. /\ UNCHANGED <<active, raised, toApp, toClient, apps, consumer>>
      /\ closed' \in BOOLEAN /\ (closed => closed') /\ budget' \in 0 .. MaxEnv
      /\ \/ UNCHANGED mgr
         \/ mgr' = "stopped" /\ (closed \/ raised) /\ \A r \in Requests : app[r] # "running"
  <2>1. closed \in BOOLEAN  BY <1>0 DEF Shape
  <2>2. CASE AClose
    <3>1. budget > 0 /\ budget' = budget - 1  BY <2>2 DEF AClose, Environment
    <3>2. budget' \in 0 .. MaxEnv  BY <1>0, <3>1
    <3> QED  BY <2>2, <3>2 DEF AClose
  <2>3. CASE Stop  BY <1>0, <2>1, <2>3 DEF Stop
  <2>4. CASE UNCHANGED vars  BY <1>0, <2>1, <2>4 DEF vars, connection
  <2> QED  BY <2>2, <2>3, <2>4
<1>2. Shape'  BY <1>0, <1>1 DEF Shape, apps, consumer
<1>3. Served'
  BY <1>1 DEF IInv, Served, AppEndsWithRequest, apps, consumer
<1>4. ASSUME NEW r \in Requests PROVE Sound(r)'
  <2>1. Sound(r)  BY DEF IInv
  <2>2. UNCHANGED <<raised, toClient, app, stage, sent, phase, result, rcvd>>
    BY <1>1 DEF apps, consumer
  <2> QED  BY <2>1, <2>2 DEF Sound, Linked, Hosted, Tally, Due, Over
<1> QED  BY <1>2, <1>3, <1>4 DEF IInv

LEMMA InitIInv == Init => IInv
<1> SUFFICES ASSUME Init PROVE IInv  OBVIOUS
<1>1. /\ MaxData \in Nat /\ MaxUp \in Nat /\ MaxEnv \in Nat
  BY ASGIAssumption DEF ASGIAssumption
<1>2. Fresh \in Channels(UpKinds) /\ Fresh \in Channels(DownKinds)  BY FreshType
<1>3. Shape
  <2>1. toApp \in [Requests -> Channels(UpKinds)] /\ toClient \in [Requests -> Channels(DownKinds)]
    BY <1>2 DEF Init
  <2>2. /\ sent \in [Requests -> 0 .. (MaxData + 1)] /\ up \in [Requests -> 0 .. MaxUp]
        /\ budget \in 0 .. MaxEnv /\ rcvd \in [Requests -> Nat]
    BY <1>1 DEF Init
  <2> QED  BY <2>1, <2>2 DEF Init, Shape
<1>4. Served  BY DEF Init, Served, AppEndsWithRequest
<1>5. ASSUME NEW r \in Requests PROVE Sound(r)
  <2>1. /\ toClient[r] = Fresh /\ app[r] = "none" /\ sent[r] = 0 /\ phase[r] = "idle"
        /\ result[r] = "none" /\ rcvd[r] = 0
    BY DEF Init
  <2>2. Fresh.buf = <<>> /\ Fresh.snd = <<>> /\ Fresh.rx = "idle" /\ Fresh.sopen
    BY DEF Fresh
  <2>3. Due(r) = 0
    <3>1. Pending(toClient[r]) = <<>>  BY <2>1, <2>2, <1>2, PendingFacts
    <3> QED  BY <1>2, <3>1, PendingFacts DEF Due
  <2>4. Linked(toClient[r])  BY <2>1, <2>2 DEF Linked
  <2>5. Hosted(r)  BY <2>1, <2>2 DEF Hosted
  <2>6. Tally(r)  BY <1>1, <2>1, <2>3 DEF Tally
  <2> QED  BY <2>4, <2>5, <2>6 DEF Sound
<1> QED  BY <1>3, <1>4, <1>5 DEF IInv

LEMMA NextIInv == IInv /\ [Next]_vars => IInv'
<1> SUFFICES ASSUME IInv, [Next]_vars PROVE IInv'  OBVIOUS
<1>1. ASSUME NEW r \in Requests, Task(r) PROVE IInv'
  BY <1>1, SendingStep, ReceiveStep, NothingTaken, ReceiveEndStep DEF Task
<1>2. ASSUME NEW r \in Requests, App(r) PROVE IInv'
  BY <1>2, AnswerStep, AppReceiveStep, AppEndStep DEF App
<1>3. ASSUME NEW r \in Requests,
             \/ Start(r) \/ CloseEarly(r) \/ Cancel(r) \/ SendMessage(r) \/ Disconnect(r)
             \/ AppMessage(r) \/ AppOdd(r) \/ AppRaises(r)
      PROVE  IInv'
  BY <1>3, StartStep, SendingStep, NothingTaken, AnswerStep, AppEndStep
<1>4. CASE AClose \/ Stop \/ UNCHANGED vars  BY <1>4, ConnectionStep
<1> QED  BY <1>1, <1>2, <1>3, <1>4 DEF Next

LEMMA Invariance == Spec => []IInv
BY InitIInv, NextIInv, PTL DEF Spec

\* The channels carry what they are meant to, and the counters keep their bounds:
\* no more is received than was sent.
THEOREM TypeCorrect == Spec => []TypeOK
<1>1. IInv => TypeOK
  <2> SUFFICES ASSUME IInv PROVE TypeOK  OBVIOUS
  <2>1. ASSUME NEW r \in Requests PROVE rcvd[r] \in 0 .. (MaxData + 1)
    <3>1. Shape /\ Tally(r)  BY DEF IInv, Sound
    <3>2. rcvd[r] \in Nat /\ Due(r) \in Nat /\ sent[r] \in 0 .. (MaxData + 1) /\ MaxData \in Nat
      BY <3>1, ShapeFacts, DueType DEF Shape
    <3> QED  BY <3>1, <3>2 DEF Tally
  <2>2. rcvd \in [Requests -> 0 .. (MaxData + 1)]  BY <2>1, ShapeFacts DEF IInv
  <2> QED  BY <2>2 DEF IInv, Shape, TypeOK
<1> QED  BY <1>1, Invariance, PTL

\* A response body that looks complete is: every piece that the app sent has been
\* received, and the app has sent the last, unless an app raised.
THEOREM BodiesComplete == Spec => []CompleteBody
<1>1. IInv => CompleteBody  BY DEF IInv, Sound, Tally, CompleteBody
<1> QED  BY <1>1, Invariance, PTL

\* An app's task has ended before its request is closed and before manage()
\* returns, however they end.
THEOREM AppsEnd == Spec => []AppEndsWithRequest
<1>1. IInv => AppEndsWithRequest  BY DEF IInv, Served
<1> QED  BY <1>1, Invariance, PTL
=============================================================================
