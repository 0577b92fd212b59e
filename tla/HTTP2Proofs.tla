----------------------------- MODULE HTTP2Proofs -----------------------------
(***************************************************************************)
(* Theorems about HTTP2, for every set of requests, every bound and every  *)
(* environment.                                                            *)
(***************************************************************************)
EXTENDS HTTP2, QueueProofs

(***************************************************************************)
(* Type correctness.  A blocked manager has a current event.               *)
(***************************************************************************)
TypeInv ==
    /\ TypeOK
    /\ mgr = "blocked" => evq # <<>> /\ Current.s \in Requests

\* The events the server and the manager make up are events.
LEMMA TypedEvent ==
    ASSUME NEW kind \in StreamKinds \cup {"ping", "goaway", "ignored"},
           NEW s \in Requests \cup {Zero}, NEW n \in Nat
    PROVE  Ev(kind, s, n) \in Event
BY DEF Ev, Event

\* Leaving the loop starts the reset of exactly the open streams.
LEMMA LeaveLoopType ==
    ASSUME TypeInv, NEW fail \in BOOLEAN, LeaveLoop(fail)
    PROVE  /\ mgr' = "resets" /\ evq' \in Seq(Event)
           /\ toReset' \subseteq Requests /\ inReset' \subseteq Requests
           /\ streams' \subseteq Requests
           /\ failed' \in BOOLEAN /\ exiting' \in BOOLEAN
BY DEF LeaveLoop, TypeInv, TypeOK

\* A flush keeps what it touches in its type.
LEMMA FlushType ==
    ASSUME TypeInv, NEW hdrs, NEW resets, Flush(hdrs, resets)
    PROVE  /\ acks' \in Nat /\ rsts' \subseteq Requests /\ srvWin' \in Nat
           /\ srv' \in [Requests -> {"none", "open", "body", "done"}]
BY DEF Flush, TypeInv, TypeOK

LEMMA CurrentType ==
    ASSUME TypeInv, evq # <<>>
    PROVE  /\ Current \in Event /\ Tail(evq) \in Seq(Event)
           /\ Current.kind \in StreamKinds \cup {"ping", "goaway", "ignored"}
           /\ Current.s \in Requests \cup {Zero}
<1>1. evq \in Seq(Event)  BY DEF TypeInv, TypeOK
<1>2. Head(evq) \in Event /\ Tail(evq) \in Seq(Event)  BY <1>1
<1> QED  BY <1>2 DEF Current, Event

LEMMA ReceiveType == TypeInv /\ Receive => TypeInv'
<1> SUFFICES ASSUME TypeInv, Receive PROVE TypeInv'  OBVIOUS
<1> DEFINE seen == [i \in DOMAIN wire |-> IF Visible(wire[i]) THEN wire[i]
                                        ELSE [wire[i] EXCEPT !.kind = "ignored"]]
           unseen == {i \in DOMAIN wire : wire[i].kind = "data" /\ ~Visible(wire[i])}
<1>1. wire \in Seq(Event) /\ DOMAIN wire = 1 .. Len(wire) /\ Len(wire) \in Nat
  BY DEF TypeInv, TypeOK
<1>2. \A i \in DOMAIN wire : seen[i] \in Event
  <2> SUFFICES ASSUME NEW i \in DOMAIN wire PROVE seen[i] \in Event  OBVIOUS
  <2>1. wire[i] \in Event  BY <1>1
  <2>2. [wire[i] EXCEPT !.kind = "ignored"] \in Event  BY <2>1 DEF Event
  <2> QED  BY <2>1, <2>2
<1>3. seen \in Seq(Event)
  BY <1>1, <1>2
<1>4. Cardinality(unseen) \in Nat
  <2>1. IsFiniteSet(1 .. Len(wire))  BY <1>1, FS_Interval
  <2>2. IsFiniteSet(unseen)  BY <1>1, <2>1, FS_Subset
  <2> QED  BY <2>2, FS_CardinalityType
<1>5. /\ conn' \in {"open", "closed"} /\ rsts' \subseteq Requests /\ wire' \in Seq(Event)
  BY DEF Receive, TypeInv, TypeOK
<1>6. acks' \in Nat
  BY <1>4 DEF Receive, TypeInv, TypeOK
<1>7. st' \in [Requests -> {"idle", "open", "half_local", "half_remote", "closed", "gone"}]
  BY DEF Receive, TypeInv, TypeOK
<1>8. /\ mgr' \in {"resets", "dispatch"} /\ evq' \in Seq(Event)
      /\ toReset' \subseteq Requests /\ inReset' \subseteq Requests
      /\ streams' \subseteq Requests
      /\ failed' \in BOOLEAN /\ exiting' \in BOOLEAN
  BY <1>3, LeaveLoopType DEF Receive, Crash, TypeInv, TypeOK
<1>9. UNCHANGED <<chan, consumer, srv, sent, ended, srvWin, srvUp, budget>>
  BY DEF Receive
<1> QED  BY <1>5, <1>6, <1>7, <1>8, <1>9 DEF TypeInv, TypeOK, consumer

LEMMA SentType ==
    ASSUME TypeInv, NEW c \in Channels(Event), Sent(c)
    PROVE  TypeInv'
<1>1. CloseSend(c) \in Channels(Event)  BY CloseType
<1>2. chan' \in [Requests -> Channels(Event)]  BY <1>1 DEF Sent, TypeInv, TypeOK
<1>3. acks' \in Nat  BY DEF Sent, Acknowledged, TypeInv, TypeOK
<1>4. /\ mgr' \in {"resets", "dispatch"} /\ evq' \in Seq(Event)
      /\ toReset' \subseteq Requests /\ inReset' \subseteq Requests
      /\ streams' \subseteq Requests
      /\ failed' \in BOOLEAN /\ exiting' \in BOOLEAN
  BY CurrentType, LeaveLoopType DEF Sent, Crash, TypeInv, TypeOK
<1>5. UNCHANGED <<conn, st, rsts, consumer, server>>  BY DEF Sent
<1> QED  BY <1>2, <1>3, <1>4, <1>5 DEF TypeInv, TypeOK, consumer, server, network

LEMMA SendBrokenType ==
    ASSUME TypeInv, evq # <<>>, NEW c \in Channels(Event), SendBroken(c)
    PROVE  TypeInv'
<1>1. chan' \in [Requests -> Channels(Event)]  BY DEF SendBroken, TypeInv, TypeOK
<1>2. /\ mgr' \in {"resets", "dispatch"} /\ evq' \in Seq(Event)
      /\ toReset' \subseteq Requests /\ inReset' \subseteq Requests
      /\ streams' \subseteq Requests
      /\ failed' \in BOOLEAN /\ exiting' \in BOOLEAN
  BY CurrentType, LeaveLoopType DEF SendBroken, Crash, TypeInv, TypeOK
<1>3. UNCHANGED <<h2, consumer, server>>  BY DEF SendBroken
<1> QED  BY <1>1, <1>2, <1>3 DEF TypeInv, TypeOK, h2, consumer, server, network

LEMMA LeaveType ==
    ASSUME TypeInv, NEW fail \in BOOLEAN, LeaveLoop(fail),
           UNCHANGED <<st, acks, rsts, consumer, server>>,
           conn' \in {"open", "closed"}, chan' \in [Requests -> Channels(Event)]
    PROVE  TypeInv'
BY LeaveLoopType DEF TypeInv, TypeOK, consumer, server, network

LEMMA DispatchStreamType == TypeInv /\ DispatchStream => TypeInv'
<1> SUFFICES ASSUME TypeInv, DispatchStream PROVE TypeInv'  OBVIOUS
<1> DEFINE c == chan[Current.s]
<1>1. /\ evq # <<>> /\ Current \in Event /\ streams \subseteq Requests
      /\ chan \in [Requests -> Channels(Event)] /\ conn \in {"open", "closed"}
  BY CurrentType DEF DispatchStream, TypeInv, TypeOK
<1>2. CASE Current.s \notin streams
  BY <1>1, <1>2, LeaveType DEF DispatchStream, Crash, h2
<1>3. CASE Current.s \in streams /\ SendBroken(c)
  BY <1>1, <1>3, SendBrokenType
<1>4. CASE Current.s \in streams /\ Sent(Put(c, Current))
  BY <1>1, <1>4, PutType, SentType
<1>5. CASE /\ Current.s \in streams
           /\ chan' = [chan EXCEPT ![Current.s] = Block(c, Current)]
           /\ mgr' = "blocked"
           /\ UNCHANGED <<h2, evq, streams, toReset, inReset, failed, exiting,
                          consumer, server>>
  <2>1. Block(c, Current) \in Channels(Event)  BY <1>1, <1>5, PutType
  <2>2. chan' \in [Requests -> Channels(Event)]  BY <1>1, <1>5, <2>1
  <2>3. evq' # <<>> /\ Current' \in Event /\ Current'.s \in Requests
    BY <1>1, <1>5 DEF Current
  <2> QED  BY <1>5, <2>2, <2>3 DEF TypeInv, TypeOK, h2, consumer, server, network
<1> QED  BY <1>2, <1>3, <1>4, <1>5 DEF DispatchStream

LEMMA ResumeType == TypeInv /\ Resume => TypeInv'
<1> SUFFICES ASSUME TypeInv, Resume PROVE TypeInv'  OBVIOUS
<1>1. evq # <<>> /\ chan[Current.s] \in Channels(Event)
  BY DEF Resume, TypeInv, TypeOK
<1>2. Unblock(chan[Current.s]) \in Channels(Event)  BY <1>1, CloseType
<1> QED  BY <1>1, <1>2, SentType, SendBrokenType DEF Resume

LEMMA CancelledType == TypeInv /\ Cancelled => TypeInv'
<1> SUFFICES ASSUME TypeInv, Cancelled PROVE TypeInv'  OBVIOUS
<1>1. chan \in [Requests -> Channels(Event)] /\ conn \in {"open", "closed"}
  BY DEF TypeInv, TypeOK
<1>2. mgr = "blocked" => Unblock(chan[Current.s]) \in Channels(Event)
  BY <1>1, CloseType DEF TypeInv
<1>3. chan' \in [Requests -> Channels(Event)]  BY <1>1, <1>2 DEF Cancelled
<1> QED  BY <1>1, <1>3, LeaveType DEF Cancelled, h2

\* The manager's steps that send to no channel.
LEMMA ManagerType ==
    ASSUME TypeInv, \/ ReceiveEof \/ ReceiveBroken \/ DispatchPing
                    \/ DispatchGoAway \/ DispatchIgnored \/ BatchDone
                    \/ CloseTransport
    PROVE  TypeInv'
<1>1. chan \in [Requests -> Channels(Event)] /\ conn \in {"open", "closed"}
  BY DEF TypeInv, TypeOK
<1>2. CASE ReceiveEof  BY <1>1, <1>2, LeaveType DEF ReceiveEof
<1>3. CASE ReceiveBroken  BY <1>1, <1>3, LeaveType DEF ReceiveBroken, Crash, h2
<1>4. CASE DispatchPing
  <2>1. /\ mgr' \in {"resets", "dispatch"} /\ evq' \in Seq(Event)
        /\ toReset' \subseteq Requests /\ inReset' \subseteq Requests
        /\ streams' \subseteq Requests
        /\ failed' \in BOOLEAN /\ exiting' \in BOOLEAN
    BY <1>4, CurrentType, LeaveLoopType DEF DispatchPing, Crash, TypeInv, TypeOK
  <2>2. Flush({}, {}) /\ UNCHANGED <<conn, st, chan, consumer, budget>>
    BY <1>4 DEF DispatchPing
  <2>3. UNCHANGED <<sent, ended, srvUp, wire>>  BY <2>2 DEF Flush
  <2> QED  BY <2>1, <2>2, <2>3, FlushType DEF TypeInv, TypeOK, consumer
<1>5. CASE DispatchGoAway  BY <1>1, <1>5, LeaveType DEF DispatchGoAway, h2
<1>6. CASE DispatchIgnored
  BY <1>6, CurrentType DEF DispatchIgnored, TypeInv, TypeOK, h2, consumer, server, network
<1>7. CASE BatchDone
  <2>1. CASE LeaveLoop(FALSE)  BY <1>1, <1>7, <2>1, LeaveType DEF BatchDone, h2
  <2>2. CASE mgr' = "read" /\ UNCHANGED <<evq, streams, toReset, inReset, failed, exiting>>
    BY <1>7, <2>2 DEF BatchDone, TypeInv, TypeOK, h2, consumer, server, network
  <2> QED  BY <1>7, <2>1, <2>2 DEF BatchDone
<1>8. CASE CloseTransport
  <2>1. Flush({}, {})  BY <1>8 DEF CloseTransport
  <2>2. UNCHANGED <<sent, ended, srvUp, wire>>  BY <2>1 DEF Flush
  <2>3. failed' \in BOOLEAN  BY <1>8 DEF CloseTransport, FlushSucceeds, TypeInv, TypeOK
  <2> QED  BY <1>8, <2>1, <2>2, <2>3, FlushType DEF CloseTransport, TypeInv, TypeOK, consumer
<1> QED  BY <1>2, <1>3, <1>4, <1>5, <1>6, <1>7, <1>8

\* Closing what the cancelled children held.
LEMMA DropResetsType ==
    ASSUME TypeInv, DropResets
    PROVE  /\ chan' \in [Requests -> Channels(Event)]
           /\ toReset' \subseteq Requests /\ inReset' \subseteq Requests
<1>1. \A r \in Requests : CloseSend(Unblock(chan[r])) \in Channels(Event)
  BY CloseType DEF TypeInv, TypeOK
<1> QED  BY <1>1 DEF DropResets, TypeInv, TypeOK

LEMMA ResetType ==
    ASSUME TypeInv, \/ \E r \in Requests : ResetSend(r) \/ ResetResume(r)
                    \/ Expire
    PROVE  TypeInv'
<1> DEFINE Kept == UNCHANGED <<h2, mgr, evq, streams, exiting, consumer, server>>
           Changed == /\ chan' \in [Requests -> Channels(Event)]
                      /\ toReset' \subseteq Requests /\ inReset' \subseteq Requests
                      /\ failed' \in BOOLEAN
<1>1. ASSUME Kept, Changed, mgr = "resets" PROVE TypeInv'
  BY <1>1 DEF TypeInv, TypeOK, h2, consumer, server, network
<1>2. CASE Expire
  <2>1. Changed  BY <1>2, DropResetsType DEF Expire, TypeInv, TypeOK
  <2> QED  BY <1>1, <1>2, <2>1 DEF Expire
<1>3. ASSUME NEW r \in Requests, ResetSend(r) PROVE TypeInv'
  <2>1. Ev("reset", r, 0) \in Event  BY TypedEvent DEF StreamKinds
  <2>2. chan[r] \in Channels(Event)  BY DEF TypeInv, TypeOK
  <2>3. /\ CloseSend(Put(chan[r], Ev("reset", r, 0))) \in Channels(Event)
        /\ Block(chan[r], Ev("reset", r, 0)) \in Channels(Event)
    BY <2>1, <2>2, PutType, CloseType
  <2>4. Changed  BY <1>3, <2>3, DropResetsType DEF ResetSend, TypeInv, TypeOK
  <2> QED  BY <1>1, <1>3, <2>4 DEF ResetSend
<1>4. ASSUME NEW r \in Requests, ResetResume(r) PROVE TypeInv'
  <2>1. CloseSend(chan[r]) \in Channels(Event)  BY CloseType DEF TypeInv, TypeOK
  <2>2. Changed  BY <1>4, <2>1, DropResetsType DEF ResetResume, TypeInv, TypeOK
  <2> QED  BY <1>1, <1>4, <2>2 DEF ResetResume
<1> QED  BY <1>2, <1>3, <1>4

Phases  == {"idle", "head", "open", "raised", "closed", "failed"}
Results == {"none", "end", "eos", "reset", "closed", "cancelled", "error"}

LEMMA OutcomeType ==
    ASSUME TypeInv, NEW r \in Requests, NEW p \in Phases, NEW res \in Results,
           Outcome(r, p, res)
    PROVE  phase' \in [Requests -> Phases] /\ result' \in [Requests -> Results]
BY DEF Outcome, TypeInv, TypeOK, Phases, Results

\* A step of r's task that only changes its channel and what it knows.
LEMMA ReaderType ==
    ASSUME TypeInv, UNCHANGED <<h2, manager, network>>, budget' \in Nat,
           chan' \in [Requests -> Channels(Event)],
           phase' \in [Requests -> Phases], result' \in [Requests -> Results],
           rcvd' \in [Requests -> Nat]
    PROVE  TypeInv'
BY DEF TypeInv, TypeOK, Phases, Results, Current, h2, manager, network

LEMMA HandleType ==
    ASSUME TypeInv, NEW r \in Requests, NEW e \in Event, NEW c \in Channels(Event),
           Handle(r, e, c)
    PROVE  /\ chan' \in [Requests -> Channels(Event)]
           /\ phase' \in [Requests -> Phases] /\ result' \in [Requests -> Results]
           /\ rcvd' \in [Requests -> Nat]
<1>1. CloseRecv(c) \in Channels(Event)  BY CloseType
<1>2. chan' \in [Requests -> Channels(Event)]  BY <1>1 DEF Handle, TypeInv, TypeOK
<1>3. rcvd' \in [Requests -> Nat]  BY DEF Handle, TypeInv, TypeOK
<1>4. phase' \in [Requests -> Phases] /\ result' \in [Requests -> Results]
  <2>1. CASE \E p \in Phases, res \in Results : Outcome(r, p, res)
    BY <2>1, OutcomeType
  <2>2. CASE UNCHANGED <<phase, result>>
    BY <2>2 DEF TypeInv, TypeOK, Phases, Results
  <2>3. {"open", "failed", "closed", "raised"} \subseteq Phases
        /\ {"none", "reset", "error"} \cup Final \subseteq Results
    BY DEF Phases, Results, Final
  <2> QED  BY <2>1, <2>2, <2>3 DEF Handle, Final
<1> QED  BY <1>2, <1>3, <1>4

LEMMA EndOfChannelType ==
    ASSUME TypeInv, NEW r \in Requests, NEW c \in Channels(Event), EndOfChannel(r, c)
    PROVE  /\ chan' \in [Requests -> Channels(Event)]
           /\ phase' \in [Requests -> Phases] /\ result' \in [Requests -> Results]
           /\ rcvd' \in [Requests -> Nat]
<1>1. (IF phase[r] = "head" THEN "failed" ELSE "raised") \in Phases /\ "eos" \in Results
  BY DEF Phases, Results
<1> QED  BY <1>1, OutcomeType DEF EndOfChannel, TypeInv, TypeOK

LEMMA PollType == ASSUME TypeInv, NEW r \in Requests, Poll(r) PROVE TypeInv'
<1> DEFINE c == chan[r]
<1>1. c \in Channels(Event) /\ Await(c) \in Channels(Event)
  BY CloseType DEF TypeInv, TypeOK
<1>2. UNCHANGED <<h2, manager, network>> /\ budget' \in Nat
  BY DEF Poll, server, TypeInv, TypeOK
<1>3. CASE Pending(c) # <<>> /\ Handle(r, Head(Pending(c)), Take(c))
  BY <1>1, <1>2, <1>3, TakeType, HandleType, ReaderType
<1>4. CASE EndOfChannel(r, c)
  BY <1>1, <1>2, <1>4, EndOfChannelType, ReaderType
<1>5. CASE chan' = [chan EXCEPT ![r] = Await(c)] /\ UNCHANGED consumer
  BY <1>1, <1>2, <1>5, ReaderType DEF TypeInv, TypeOK, consumer, Phases, Results
<1> QED  BY <1>3, <1>4, <1>5 DEF Poll

LEMMA WakeUpType == ASSUME TypeInv, NEW r \in Requests, WakeUp(r) PROVE TypeInv'
<1> DEFINE c == chan[r]
<1>1. c \in Channels(Event) /\ Wake(c) \in Channels(Event)
  BY WakeType DEF TypeInv, TypeOK
<1>2. UNCHANGED <<h2, manager, network>> /\ budget' \in Nat
  BY DEF WakeUp, server, TypeInv, TypeOK
<1>3. CASE c.buf # <<>> /\ Handle(r, Head(c.buf), Wake(c))
  <2>1. Head(c.buf) \in Event  BY <1>1, <1>3, ChannelFields
  <2> QED  BY <1>1, <1>2, <1>3, <2>1, HandleType, ReaderType
<1>4. CASE EndOfChannel(r, Wake(c))
  BY <1>1, <1>2, <1>4, EndOfChannelType, ReaderType
<1> QED  BY <1>3, <1>4 DEF WakeUp

LEMMA CancelType == ASSUME TypeInv, NEW r \in Requests, Cancel(r) PROVE TypeInv'
<1>1. [chan[r] EXCEPT !.rx = "idle"] \in Channels(Event)
  BY CloseType DEF TypeInv, TypeOK
<1>2. chan' \in [Requests -> Channels(Event)]  BY <1>1 DEF Cancel, TypeInv, TypeOK
<1>3. (IF phase[r] = "head" THEN "failed" ELSE "raised") \in Phases
      /\ "cancelled" \in Results
  BY DEF Phases, Results
<1>4. phase' \in [Requests -> Phases] /\ result' \in [Requests -> Results]
  BY <1>3, OutcomeType DEF Cancel
<1>5. budget' \in Nat  BY DEF Cancel, Environment, TypeInv, TypeOK
<1> QED  BY <1>2, <1>4, <1>5, ReaderType DEF Cancel, TypeInv, TypeOK

LEMMA CloseRequestType == ASSUME TypeInv, NEW r \in Requests, Close(r) PROVE TypeInv'
<1>1. CloseRecv(chan[r]) \in Channels(Event) /\ CloseSend(CloseRecv(chan[r])) \in Channels(Event)
  BY CloseType DEF TypeInv, TypeOK
<1>2. chan' \in [Requests -> Channels(Event)]
  <2>1. \/ chan' = [chan EXCEPT ![r] = CloseRecv(chan[r])]
        \/ chan' = [chan EXCEPT ![r] = CloseSend(CloseRecv(chan[r]))]
    BY DEF Close
  <2>2. chan \in [Requests -> Channels(Event)]  BY DEF TypeInv, TypeOK
  <2> QED  BY <1>1, <2>1, <2>2
<1>3. phase' \in [Requests -> Phases] /\ result' \in [Requests -> Results]
  <2>1. /\ "closed" \in Phases /\ {"closed", "error"} \subseteq Results
        /\ (IF result[r] = "none" THEN "closed" ELSE result[r]) \in Results
    BY DEF Phases, Results, TypeInv, TypeOK
  <2>2. \E res \in Results : Outcome(r, "closed", res)  BY <2>1 DEF Close
  <2> QED  BY <2>1, <2>2, OutcomeType
<1>4. /\ budget' \in Nat /\ streams' \subseteq Requests
      /\ st' \in [Requests -> {"idle", "open", "half_local", "half_remote", "closed", "gone"}]
  <2>1. budget' \in Nat  BY DEF Close, Environment, TypeInv, TypeOK
  <2>2. streams' \in {streams, streams \ {r}} /\ st' \in {st, [st EXCEPT ![r] = "closed"]}
    BY DEF Close
  <2> QED  BY <2>1, <2>2 DEF TypeInv, TypeOK
<1>5. /\ acks' \in Nat /\ rsts' \subseteq Requests /\ srvWin' \in Nat
      /\ srv' \in [Requests -> {"none", "open", "body", "done"}]
      /\ UNCHANGED <<sent, ended, srvUp, wire>>
  <2>1. CASE Flush({}, {r})
    <3>1. UNCHANGED <<sent, ended, srvUp, wire>>  BY <2>1 DEF Flush
    <3> QED  BY <2>1, <3>1, FlushType
  <2>2. CASE acks' = acks /\ rsts' \in {rsts, rsts \cup {r}} /\ UNCHANGED network
    BY <2>2 DEF TypeInv, TypeOK, network
  <2> QED  BY <2>1, <2>2 DEF Close
<1>6. UNCHANGED <<conn, mgr, evq, toReset, inReset, failed, exiting, rcvd>>
  BY DEF Close
<1> QED  BY <1>2, <1>3, <1>4, <1>5, <1>6 DEF TypeInv, TypeOK, Current, Phases, Results

LEMMA SendRequestType == ASSUME TypeInv, NEW r \in Requests, SendRequest(r) PROVE TypeInv'
<1>1. Flush({r}, {})  BY DEF SendRequest
<1>2. UNCHANGED <<sent, ended, srvUp, wire>>  BY <1>1 DEF Flush
<1>3. phase' \in [Requests -> Phases] /\ result' \in [Requests -> Results]
  BY DEF SendRequest, FlushSucceeds, TypeInv, TypeOK, Phases, Results
<1>4. /\ streams' \subseteq Requests
      /\ st' \in [Requests -> {"idle", "open", "half_local", "half_remote", "closed", "gone"}]
  BY DEF SendRequest, Evicted, TypeInv, TypeOK
<1>5. UNCHANGED <<conn, mgr, evq, toReset, inReset, failed, exiting, chan, rcvd, budget>>
  BY DEF SendRequest
<1> QED  BY <1>1, <1>2, <1>3, <1>4, <1>5, FlushType DEF TypeInv, TypeOK, Current, Phases, Results

LEMMA SendEofType == ASSUME TypeInv, NEW r \in Requests, SendEof(r) PROVE TypeInv'
<1>1. Flush({}, {})  BY DEF SendEof
<1>2. UNCHANGED <<sent, ended, srvUp, wire>>  BY <1>1 DEF Flush
<1>3. st' \in [Requests -> {"idle", "open", "half_local", "half_remote", "closed", "gone"}]
  BY DEF SendEof, TypeInv, TypeOK
<1>4. UNCHANGED <<conn, manager, chan, consumer, budget>>  BY DEF SendEof
<1> QED  BY <1>1, <1>2, <1>3, <1>4, FlushType DEF TypeInv, TypeOK, Current, manager, consumer

LEMMA ACloseType == TypeInv /\ AClose => TypeInv'
BY DEF AClose, Environment, TypeInv, TypeOK, Current, h2, consumer, network

\* The server's and the transport's steps change only what they own.
LEMMA ServerType ==
    ASSUME TypeInv, \/ \E r \in Requests : Server(r)
                    \/ ServerPing \/ GoAway \/ ServerClose \/ Abort
    PROVE  TypeInv'
<1>1. OthersWait
  BY DEF Server, Respond, SendData, EndStream, ServerReset, ServerWindow, ServerPing,
         GoAway, ServerClose, Abort
<1>2. /\ srv' \in [Requests -> {"none", "open", "body", "done"}]
      /\ sent' \in [Requests -> Nat] /\ ended' \subseteq Requests
      /\ srvWin' \in Nat /\ srvUp' \in {"up", "eof", "aborted"} /\ budget' \in Nat
  <2>1. ASSUME NEW r \in Requests, Server(r)
        PROVE  /\ srv' \in {srv, [srv EXCEPT ![r] = "body"], [srv EXCEPT ![r] = "done"]}
               /\ sent' \in {sent, [sent EXCEPT ![r] = sent[r] + 1]}
               /\ ended' \subseteq ended \cup {r}
               /\ srvWin' = srvWin \/ (srvWin > 0 /\ srvWin' = srvWin - 1)
               /\ srvUp' = srvUp /\ (budget' = budget \/ (budget > 0 /\ budget' = budget - 1))
    BY <2>1 DEF Server, Respond, SendData, EndStream, ServerReset, ServerWindow, Environment
  <2>2. CASE \E r \in Requests : Server(r)
    <3>1. PICK r \in Requests : Server(r)  BY <2>2
    <3>2. /\ srvWin' = srvWin \/ (srvWin > 0 /\ srvWin' = srvWin - 1)
          /\ budget' = budget \/ (budget > 0 /\ budget' = budget - 1)
          /\ srvUp' = srvUp /\ ended' \subseteq ended \cup {r}
      BY <2>1, <3>1
    <3>3. /\ srvWin' \in Nat /\ budget' \in Nat
          /\ srvUp' \in {"up", "eof", "aborted"} /\ ended' \subseteq Requests
      BY <3>2 DEF TypeInv, TypeOK
    <3>4. sent' = sent \/ sent' = [sent EXCEPT ![r] = sent[r] + 1]  BY <2>1, <3>1
    <3>5. sent[r] + 1 \in Nat /\ sent \in [Requests -> Nat]  BY DEF TypeInv, TypeOK
    <3>6. sent' \in [Requests -> Nat]  BY <3>4, <3>5
    <3>7. srv' \in [Requests -> {"none", "open", "body", "done"}]
      BY <2>1, <3>1 DEF TypeInv, TypeOK
    <3> QED  BY <3>3, <3>6, <3>7
  <2>3. CASE ServerPing \/ GoAway \/ ServerClose \/ Abort
    BY <2>3 DEF ServerPing, GoAway, ServerClose, Abort, Environment, TypeInv, TypeOK
  <2> QED  BY <2>2, <2>3
<1>3. wire' \in Seq(Event)
  <2>1. \/ UNCHANGED wire \/ wire' = <<>>
        \/ \E r \in Requests, n \in Nat, k \in StreamKinds : Transmit(Ev(k, r, n))
        \/ \E k \in {"ping", "goaway"} : Transmit(Ev(k, Zero, 0))
    <3>1. ASSUME NEW r \in Requests, Server(r)
          PROVE  \E n \in Nat, k \in StreamKinds : Transmit(Ev(k, r, n))
      <4>1. sent[r] \in Nat /\ sent[r] + 1 \in Nat /\ 0 \in Nat  BY DEF TypeInv, TypeOK
      <4>2. \E n \in {0, sent[r], sent[r] + 1}, k \in StreamKinds : Transmit(Ev(k, r, n))
        <5>1. CASE Respond(r)  BY <5>1 DEF Respond, StreamKinds
        <5>2. CASE SendData(r)  BY <5>2 DEF SendData, StreamKinds
        <5>3. CASE EndStream(r)  BY <5>3 DEF EndStream, StreamKinds
        <5>4. CASE ServerReset(r)  BY <5>4 DEF ServerReset, StreamKinds
        <5>5. CASE ServerWindow(r)  BY <5>5 DEF ServerWindow, StreamKinds
        <5> QED  BY <3>1, <5>1, <5>2, <5>3, <5>4, <5>5 DEF Server
      <4> QED  BY <4>1, <4>2
    <3> QED  BY <3>1 DEF ServerPing, GoAway, ServerClose, Abort
  <2>2. \A e \in Event : Append(wire, e) \in Seq(Event)  BY DEF TypeInv, TypeOK
  <2>3. wire \in Seq(Event)  BY DEF TypeInv, TypeOK
  <2>4. \A r \in Requests, n \in Nat, k \in StreamKinds : Ev(k, r, n) \in Event
    BY TypedEvent
  <2>5. \A k \in {"ping", "goaway"} : Ev(k, Zero, 0) \in Event  BY TypedEvent
  <2>6. <<>> \in Seq(Event)  OBVIOUS
  <2>7. ASSUME NEW e \in Event, Transmit(e) PROVE wire' \in Seq(Event)
    BY <2>2, <2>7 DEF Transmit
  <2> QED  BY <2>1, <2>3, <2>4, <2>5, <2>6, <2>7
<1> QED  BY <1>1, <1>2, <1>3 DEF OthersWait, TypeInv, TypeOK, Current, h2, manager, consumer

LEMMA InitType == Init => TypeInv
<1> SUFFICES ASSUME Init PROVE TypeInv  OBVIOUS
<1>1. Window \in Nat /\ MaxEnv \in Nat  BY HTTP2Assumption
<1>2. <<>> \in Seq(Event)  OBVIOUS
<1>3. chan \in [Requests -> Channels(Event)]  BY FreshType DEF Init
<1> QED  BY <1>1, <1>2, <1>3 DEF Init, TypeInv, TypeOK

LEMMA NextType == TypeInv /\ [Next]_vars => TypeInv'
<1> SUFFICES ASSUME TypeInv, [Next]_vars PROVE TypeInv'  OBVIOUS
<1>1. CASE ManagerNext
  BY <1>1, ReceiveType, DispatchStreamType, ResumeType, CancelledType, ManagerType,
     ResetType DEF ManagerNext
<1>2. ASSUME NEW r \in Requests, Consumer(r) PROVE TypeInv'
  BY <1>2, SendRequestType, PollType, WakeUpType, CancelType, CloseRequestType,
     SendEofType DEF Consumer, Reader
<1>3. CASE \/ \E r \in Requests : Server(r)
           \/ ServerPing \/ GoAway \/ ServerClose \/ Abort
  BY <1>3, ServerType
<1>4. CASE AClose  BY <1>4, ACloseType
<1>5. CASE UNCHANGED vars
  BY <1>5 DEF vars, h2, manager, consumer, server, network, TypeInv, TypeOK, Current
<1> QED  BY <1>1, <1>2, <1>3, <1>4, <1>5 DEF Next

\* Every variable always has its type: in particular no event is taken from an
\* empty batch and no channel is handed anything but an event.
THEOREM TypeCorrect == Spec => []TypeOK
<1>1. TypeInv => TypeOK  BY DEF TypeInv
<1> QED  BY <1>1, InitType, NextType, PTL DEF Spec
-----------------------------------------------------------------------------
(***************************************************************************)
(* No response just stops.  The invariant has to follow the last event     *)
(* through a blocked send: between the moment the reader's receive() pulls *)
(* it into the buffer and the moment the manager resumes and closes the    *)
(* channel, the buffer must still hold it.                                 *)
(***************************************************************************)
\* Only requests that were sent have a channel the manager works on.
Begun ==
    /\ \A r \in streams \cup toReset \cup inReset : phase[r] # "idle"
    /\ mgr = "blocked" => phase[Current.s] # "idle"
    /\ \A r \in Requests : phase[r] = "idle" => chan[r].sopen

\* A blocked send's item is in the channel's slot, or in its buffer if the
\* reader has pulled it and not taken it yet.
BlockedItem ==
    mgr = "blocked" =>
        \/ chan[Current.s].snd = <<Current>>
        \/ /\ chan[Current.s].snd = <<>>
           /\ Current.kind \in Final /\ Reading(Current.s) => HasFinal(chan[Current.s].buf)

Silent    == Begun /\ BlockedItem /\ NoSilentEnd
SilentInv == TypeInv /\ Silent

LEMMA FinalAppend ==
    ASSUME NEW q \in Seq(Event), NEW e \in Event, HasFinal(q) \/ e.kind \in Final
    PROVE  HasFinal(Append(q, e))
<1>1. CASE HasFinal(q)
  <2>1. PICK i \in DOMAIN q : q[i].kind \in Final  BY <1>1 DEF HasFinal
  <2>2. i \in DOMAIN Append(q, e) /\ Append(q, e)[i] = q[i]  BY <2>1
  <2> QED  BY <2>1, <2>2 DEF HasFinal
<1>2. CASE e.kind \in Final
  <2>1. Len(q) + 1 \in DOMAIN Append(q, e) /\ Append(q, e)[Len(q) + 1] = e  OBVIOUS
  <2> QED  BY <1>2, <2>1 DEF HasFinal
<1> QED  BY <1>1, <1>2

LEMMA FinalRest ==
    ASSUME NEW q \in Seq(Event), HasFinal(q)
    PROVE  q # <<>> /\ (Head(q).kind \in Final \/ HasFinal(Tail(q)))
<1>1. PICK i \in DOMAIN q : q[i].kind \in Final  BY DEF HasFinal
<1>2. q # <<>> /\ Len(q) \in Nat /\ i \in 1 .. Len(q)  BY <1>1
<1>3. CASE i = 1  BY <1>1, <1>2, <1>3
<1>4. CASE i # 1
  <2>1. i - 1 \in 1 .. Len(Tail(q)) /\ Tail(q)[i - 1] = q[i]  BY <1>2, <1>4
  <2>2. i - 1 \in DOMAIN Tail(q)  BY <1>2, <2>1
  <2> QED  BY <1>1, <1>2, <2>1, <2>2 DEF HasFinal
<1> QED  BY <1>3, <1>4

LEMMA FinalConcat ==
    ASSUME NEW p \in Seq(Event), NEW q \in Seq(Event), HasFinal(p)
    PROVE  HasFinal(p \o q)
<1>1. PICK i \in DOMAIN p : p[i].kind \in Final  BY DEF HasFinal
<1>2. p \o q \in Seq(Event) /\ Len(p \o q) = Len(p) + Len(q)  OBVIOUS
<1>3. i \in DOMAIN (p \o q) /\ (p \o q)[i] = p[i]  BY <1>1, <1>2
<1> QED  BY <1>1, <1>3 DEF HasFinal

LEMMA FinalLast ==
    ASSUME NEW p \in Seq(Event), NEW e \in Event, e.kind \in Final
    PROVE  HasFinal(p \o <<e>>)
<1>1. p \o <<e>> = Append(p, e)  OBVIOUS
<1> QED  BY <1>1, FinalAppend

\* Once the manager has left its loop there is little to show.
LEMMA LeftSilent ==
    ASSUME SilentInv, mgr' \in {"resets", "stopped"}, phase' = phase,
           streams' \cup toReset' \cup inReset' \subseteq streams \cup toReset \cup inReset,
           \A r \in Requests : phase[r] = "idle" => chan'[r].sopen
    PROVE  Silent'
BY DEF SilentInv, Silent, Begun, BlockedItem, NoSilentEnd, Reading, Alive, TypeInv, TypeOK

LEMMA SentSilent ==
    ASSUME SilentInv, NEW c \in Channels(Event), Sent(c), Current.s \in Requests,
           phase[Current.s] # "idle", Alive,
           Reading(Current.s) /\ (Current.kind \in Final \/ ~c.sopen) => HasFinal(c.buf)
    PROVE  Silent'
<1>1. phase' = phase /\ chan \in [Requests -> Channels(Event)]
  BY DEF Sent, consumer, SilentInv, TypeInv, TypeOK
<1>2. /\ Current.kind \in Final => chan' = [chan EXCEPT ![Current.s] = CloseSend(c)]
      /\ Current.kind \notin Final => chan' = [chan EXCEPT ![Current.s] = c]
  BY DEF Sent
<1>3. \A r \in Requests : phase[r] = "idle" => chan'[r].sopen
  BY <1>1, <1>2 DEF SilentInv, Silent, Begun
<1>4. CASE mgr' = "resets"
  <2>1. streams' \cup toReset' \cup inReset' \subseteq streams \cup toReset \cup inReset
    BY <1>4 DEF Sent, Crash, LeaveLoop
  <2> QED  BY <1>1, <1>3, <1>4, <2>1, LeftSilent
<1>5. CASE mgr' = "dispatch"
  <2>1. streams' \subseteq streams /\ UNCHANGED <<toReset, inReset>>
    BY <1>5 DEF Sent, Crash, LeaveLoop
  <2>2. Begun'  BY <1>1, <1>3, <1>5, <2>1 DEF SilentInv, Silent, Begun
  <2>3. BlockedItem'  BY <1>5 DEF BlockedItem
  <2>4. CloseSend(c).buf = c.buf  BY EndEffects
  <2>5. ASSUME NEW r \in Requests, Reading(r), ~chan'[r].sopen
        PROVE  HasFinal(chan'[r].buf)
    <3>1. CASE r = Current.s  BY <1>1, <1>2, <2>4, <2>5, <3>1
    <3>2. CASE r # Current.s
      <4>1. chan'[r] = chan[r]  BY <1>1, <1>2, <3>2
      <4> QED  BY <2>5, <4>1 DEF SilentInv, Silent, NoSilentEnd, Reading
    <3> QED  BY <3>1, <3>2
  <2>6. NoSilentEnd'  BY <1>1, <2>5 DEF NoSilentEnd, Reading, HasFinal
  <2> QED  BY <2>2, <2>3, <2>6 DEF Silent
<1> QED  BY <1>4, <1>5 DEF Sent, Crash, LeaveLoop

LEMMA SendBrokenSilent ==
    ASSUME SilentInv, NEW c \in Channels(Event), SendBroken(c), Current.s \in Requests,
           Alive, c.buf = chan[Current.s].buf, c.sopen = chan[Current.s].sopen
    PROVE  Silent'
<1>1. phase' = phase /\ chan \in [Requests -> Channels(Event)]
  BY DEF SendBroken, consumer, SilentInv, TypeInv, TypeOK
<1>2. \A r \in Requests : chan'[r].buf = chan[r].buf /\ chan'[r].sopen = chan[r].sopen
  BY <1>1 DEF SendBroken
<1>3. CASE mgr' = "resets"
  BY <1>1, <1>2, <1>3, LeftSilent DEF SendBroken, Crash, LeaveLoop, SilentInv, Silent, Begun
<1>4. CASE mgr' = "dispatch"
  <2>1. UNCHANGED <<streams, toReset, inReset>>
    BY <1>4 DEF SendBroken, Crash, LeaveLoop
  <2>2. Begun'  BY <1>1, <1>2, <1>4, <2>1 DEF SilentInv, Silent, Begun
  <2>3. BlockedItem'  BY <1>4 DEF BlockedItem
  <2>4. NoSilentEnd'
    BY <1>1, <1>2 DEF SilentInv, Silent, NoSilentEnd, Reading, HasFinal
  <2> QED  BY <2>2, <2>3, <2>4 DEF Silent
<1> QED  BY <1>3, <1>4 DEF SendBroken, Crash, LeaveLoop

\* Any other step of the manager that leaves the loop.
LEMMA LeaveSilent ==
    ASSUME SilentInv, NEW fail, LeaveLoop(fail), phase' = phase,
           \A r \in Requests : chan'[r].sopen = chan[r].sopen
    PROVE  Silent'
BY LeftSilent DEF LeaveLoop, SilentInv, Silent, Begun

\* Steps that leave the manager's place, every channel and every phase alone.
LEMMA ElsewhereSilent ==
    ASSUME SilentInv, UNCHANGED <<chan, phase, streams, toReset, inReset>>,
           UNCHANGED <<mgr, evq>> \/ (Alive /\ mgr' \in {"read", "dispatch"})
    PROVE  Silent'
<1>1. Begun'  BY DEF SilentInv, Silent, Begun, Current
<1>2. BlockedItem'
  BY DEF SilentInv, Silent, BlockedItem, Current, Reading, HasFinal
<1>3. NoSilentEnd'  BY DEF SilentInv, Silent, NoSilentEnd, Reading, Alive, HasFinal
<1> QED  BY <1>1, <1>2, <1>3 DEF Silent

LEMMA DispatchStreamSilent == SilentInv /\ DispatchStream => Silent'
<1> SUFFICES ASSUME SilentInv, DispatchStream PROVE Silent'  OBVIOUS
<1> DEFINE c == chan[Current.s]
<1>1. /\ evq # <<>> /\ Current \in Event /\ streams \subseteq Requests
      /\ chan \in [Requests -> Channels(Event)] /\ Alive
  BY CurrentType DEF DispatchStream, SilentInv, TypeInv, TypeOK, Alive
<1>2. CASE Current.s \notin streams
  <2>1. LeaveLoop(TRUE) /\ UNCHANGED <<chan, phase>>
    BY <1>2 DEF DispatchStream, Crash, consumer
  <2> QED  BY <2>1, LeaveSilent
<1>3. CASE Current.s \in streams
  <2>1. c \in Channels(Event) /\ phase[Current.s] # "idle" /\ Current.s \in Requests
    BY <1>1, <1>3 DEF SilentInv, Silent, Begun
  <2>2. CASE SendBroken(c)  BY <1>1, <2>1, <2>2, SendBrokenSilent
  <2>3. CASE Sent(Put(c, Current))
    <3> DEFINE d == Put(c, Current)
    <3>1. /\ d \in Channels(Event) /\ d.buf = Append(c.buf, Current) /\ d.sopen = c.sopen
          /\ c.buf \in Seq(Event)
      <4>1. d \in Channels(Event)  BY <1>1, <2>1, PutType
      <4>2. d.buf = Append(c.buf, Current) /\ d.sopen = c.sopen
        BY <1>1, <2>1, SenderEffects
      <4>3. c.buf \in Seq(Event)  BY <2>1, ChannelFields
      <4> QED  BY <4>1, <4>2, <4>3
    <3>2. Reading(Current.s) /\ ~c.sopen => HasFinal(c.buf)
      BY <1>1, <2>1 DEF SilentInv, Silent, NoSilentEnd, Reading
    <3>3. Reading(Current.s) /\ (Current.kind \in Final \/ ~d.sopen) => HasFinal(d.buf)
      <4>1. HasFinal(c.buf) \/ Current.kind \in Final => HasFinal(Append(c.buf, Current))
        BY <1>1, <3>1, FinalAppend
      <4> QED  BY <3>1, <3>2, <4>1
    <3> QED  BY <1>1, <2>1, <2>3, <3>1, <3>3, SentSilent
  <2>4. CASE /\ chan' = [chan EXCEPT ![Current.s] = Block(c, Current)]
             /\ mgr' = "blocked"
             /\ UNCHANGED <<h2, evq, streams, toReset, inReset, failed, exiting,
                            consumer, server>>
    <3>1. /\ phase' = phase /\ UNCHANGED <<evq, streams, toReset, inReset>>
          /\ Current' = Current
      BY <2>4 DEF consumer, Current
    <3>2. \A r \in Requests : chan'[r].buf = chan[r].buf /\ chan'[r].sopen = chan[r].sopen
      BY <1>1, <2>1, <2>4, SenderEffects
    <3>3. chan'[Current.s].snd = <<Current>>
      BY <1>1, <2>1, <2>4, SenderEffects
    <3>4. Begun'  BY <2>1, <2>4, <3>1, <3>2 DEF SilentInv, Silent, Begun
    <3>5. BlockedItem'  BY <3>1, <3>3 DEF BlockedItem
    <3>6. NoSilentEnd'
      BY <1>1, <3>1, <3>2 DEF SilentInv, Silent, NoSilentEnd, Reading, HasFinal
    <3> QED  BY <3>4, <3>5, <3>6 DEF Silent
  <2> QED  BY <1>3, <2>2, <2>3, <2>4 DEF DispatchStream
<1> QED  BY <1>2, <1>3

LEMMA ResumeSilent == SilentInv /\ Resume => Silent'
<1> SUFFICES ASSUME SilentInv, Resume PROVE Silent'  OBVIOUS
<1> DEFINE c == chan[Current.s]
<1>1. /\ Current.s \in Requests /\ c \in Channels(Event) /\ Alive
      /\ phase[Current.s] # "idle"
  BY DEF Resume, SilentInv, TypeInv, TypeOK, Alive, Silent, Begun
<1>2. CASE c.snd = <<>> /\ Sent(c)
  <2>1. <<>> # <<Current>>  OBVIOUS
  <2>2. Reading(Current.s) /\ Current.kind \in Final => HasFinal(c.buf)
    BY <1>2, <2>1 DEF Resume, SilentInv, Silent, BlockedItem
  <2>3. Reading(Current.s) /\ ~c.sopen => HasFinal(c.buf)
    BY <1>1 DEF SilentInv, Silent, NoSilentEnd, Reading
  <2> QED  BY <1>1, <1>2, <2>2, <2>3, SentSilent
<1>3. CASE SendBroken(Unblock(c))
  BY <1>1, <1>3, CloseType, EndEffects, SendBrokenSilent
<1> QED  BY <1>2, <1>3 DEF Resume

\* A step of r's own task: it puts d in place of r's channel.  If r reads on,
\* what was due in the channel before and was not the event it took is in d.
LEMMA TaskSilent ==
    ASSUME SilentInv, NEW r \in Requests, NEW d \in Channels(Event),
           chan' = [chan EXCEPT ![r] = d],
           UNCHANGED <<mgr, evq, toReset, inReset>>, streams' \subseteq streams,
           phase[r] # "idle", phase'[r] # "idle",
           \A q \in Requests \ {r} : phase'[q] = phase[q],
           d.snd = chan[r].snd \/ d.snd = <<>>,
           phase'[r] \in {"head", "open"} =>
               /\ Reading(r) /\ (~d.sopen => ~chan[r].sopen)
               /\ HasFinal(chan[r].buf) => HasFinal(d.buf)
               /\ d.snd # chan[r].snd /\ HasFinal(Pending(chan[r])) => HasFinal(d.buf)
    PROVE  Silent'
<1>1. /\ chan \in [Requests -> Channels(Event)] /\ Current' = Current
      /\ streams \subseteq Requests /\ toReset \subseteq Requests /\ inReset \subseteq Requests
      /\ mgr = "blocked" => Current.s \in Requests /\ evq # <<>>
  BY DEF SilentInv, TypeInv, TypeOK, Current
<1>2. chan'[r] = d /\ \A q \in Requests \ {r} : chan'[q] = chan[q]  BY <1>1
<1>3. Begun'  BY <1>1, <1>2 DEF SilentInv, Silent, Begun
<1>4. BlockedItem'
  <2> SUFFICES ASSUME mgr = "blocked"
               PROVE  \/ chan'[Current.s].snd = <<Current>>
                      \/ /\ chan'[Current.s].snd = <<>>
                         /\ Current.kind \in Final /\ phase'[Current.s] \in {"head", "open"}
                               => HasFinal(chan'[Current.s].buf)
    BY <1>1 DEF BlockedItem, Reading, HasFinal
  <2>1. CASE Current.s # r
    BY <1>1, <1>2, <2>1 DEF SilentInv, Silent, BlockedItem, Reading
  <2>2. CASE Current.s = r /\ d.snd = chan[r].snd
    BY <1>1, <1>2, <2>2 DEF SilentInv, Silent, BlockedItem
  <2>3. CASE Current.s = r /\ d.snd # chan[r].snd
    <3>1. chan[r].snd = <<Current>> /\ d.snd = <<>>
      BY <1>1, <2>3 DEF SilentInv, Silent, BlockedItem
    <3>2. chan[r].buf \in Seq(Event) /\ Current \in Event
      BY <1>1, ChannelFields, CurrentType DEF SilentInv
    <3>3. Current.kind \in Final => HasFinal(Pending(chan[r]))
      BY <3>1, <3>2, FinalLast DEF Pending
    <3> QED  BY <1>2, <2>3, <3>1, <3>3
  <2> QED  BY <2>1, <2>2, <2>3
<1>5. NoSilentEnd'
  <2> SUFFICES ASSUME Alive, NEW q \in Requests,
                      phase'[q] \in {"head", "open"}, ~chan'[q].sopen
               PROVE  HasFinal(chan'[q].buf)
    BY DEF NoSilentEnd, Reading, Alive, HasFinal
  <2>1. CASE q = r  BY <1>2, <2>1 DEF SilentInv, Silent, NoSilentEnd, Reading
  <2>2. CASE q # r  BY <1>2, <2>2 DEF SilentInv, Silent, NoSilentEnd, Reading
  <2> QED  BY <2>1, <2>2
<1> QED  BY <1>3, <1>4, <1>5 DEF Silent

\* What Handle does to the phase: a task that reads on was not given a last event.
LEMMA HandleEffects ==
    ASSUME TypeInv, NEW r \in Requests, NEW e \in Event, NEW c \in Channels(Event),
           Handle(r, e, c)
    PROVE  /\ Reading(r) /\ phase[r] # "idle" /\ phase'[r] # "idle"
           /\ \A q \in Requests \ {r} : phase'[q] = phase[q]
           /\ \/ chan' = [chan EXCEPT ![r] = c] /\ (phase'[r] \in {"head", "open"} => e.kind \notin Final)
              \/ chan' = [chan EXCEPT ![r] = CloseRecv(c)] /\ phase'[r] = "closed"
<1>1. phase \in [Requests -> Phases]  BY DEF TypeInv, TypeOK, Phases
<1>2. CASE phase[r] = "head"
  BY <1>1, <1>2 DEF Handle, Outcome, Reading, Final
<1>3. CASE phase[r] = "open"
  BY <1>1, <1>3 DEF Handle, Outcome, Reading, Final
<1> QED  BY <1>2, <1>3 DEF Handle

\* Handling the first event of q with d as the channel left behind.
LEMMA HandleSilent ==
    ASSUME SilentInv, NEW r \in Requests, NEW q \in Seq(Event), q # <<>>,
           NEW d \in Channels(Event), Handle(r, Head(q), d), UNCHANGED manager,
           d.buf = Tail(q), d.sopen = chan[r].sopen,
           \/ d.snd = chan[r].snd /\ q = chan[r].buf
           \/ d.snd = <<>> /\ q = Pending(chan[r])
    PROVE  Silent'
<1>1. /\ chan[r] \in Channels(Event) /\ Head(q) \in Event
      /\ CloseRecv(d) \in Channels(Event) /\ CloseRecv(d).snd = d.snd
  <2>1. chan[r] \in Channels(Event)  BY DEF SilentInv, TypeInv, TypeOK
  <2>2. Head(q) \in Event  OBVIOUS
  <2>3. CloseRecv(d) \in Channels(Event)  BY CloseType
  <2>4. CloseRecv(d).snd = d.snd  BY EndEffects
  <2> QED  BY <2>1, <2>2, <2>3, <2>4
<1>2. HasFinal(chan[r].buf) => HasFinal(q)
  BY <1>1, ChannelFields, FinalConcat DEF Pending
<1>3. HasFinal(q) /\ Head(q).kind \notin Final => HasFinal(d.buf)  BY FinalRest
<1>4. UNCHANGED <<mgr, evq, toReset, inReset>> /\ streams' \subseteq streams
  BY DEF manager
<1>5. /\ Reading(r) /\ phase[r] # "idle" /\ phase'[r] # "idle"
      /\ \A p \in Requests \ {r} : phase'[p] = phase[p]
      /\ \/ /\ chan' = [chan EXCEPT ![r] = d]
            /\ phase'[r] \in {"head", "open"} => Head(q).kind \notin Final
         \/ chan' = [chan EXCEPT ![r] = CloseRecv(d)] /\ phase'[r] = "closed"
  BY <1>1, HandleEffects DEF SilentInv
<1>6. CASE chan' = [chan EXCEPT ![r] = CloseRecv(d)] /\ phase'[r] = "closed"
  BY <1>1, <1>4, <1>5, <1>6, TaskSilent
<1>7. CASE /\ chan' = [chan EXCEPT ![r] = d]
           /\ phase'[r] \in {"head", "open"} => Head(q).kind \notin Final
  <2>1. phase'[r] \in {"head", "open"} =>
          /\ HasFinal(chan[r].buf) => HasFinal(d.buf)
          /\ d.snd # chan[r].snd /\ HasFinal(Pending(chan[r])) => HasFinal(d.buf)
    BY <1>2, <1>3, <1>7
  <2> QED  BY <1>4, <1>5, <1>7, <2>1, TaskSilent
<1> QED  BY <1>5, <1>6, <1>7

LEMMA EndOfChannelSilent ==
    ASSUME SilentInv, NEW r \in Requests, NEW d \in Channels(Event), Reading(r),
           EndOfChannel(r, d), UNCHANGED manager, d.snd = chan[r].snd
    PROVE  Silent'
<1>1. phase \in [Requests -> Phases]  BY DEF SilentInv, TypeInv, TypeOK, Phases
<1>2. /\ phase'[r] \in {"failed", "raised"} /\ phase[r] # "idle"
      /\ \A p \in Requests \ {r} : phase'[p] = phase[p]
      /\ chan' = [chan EXCEPT ![r] = d]
  BY <1>1 DEF EndOfChannel, Outcome, Reading
<1> QED  BY <1>2, TaskSilent DEF manager

LEMMA PollSilent == ASSUME SilentInv, NEW r \in Requests, Poll(r) PROVE Silent'
<1> DEFINE c == chan[r]
<1>1. c \in Channels(Event) /\ Reading(r) /\ UNCHANGED manager
  BY DEF Poll, SilentInv, TypeInv, TypeOK, Reading
<1>2. CASE Pending(c) # <<>> /\ Handle(r, Head(Pending(c)), Take(c))
  <2>1. Pending(c) \in Seq(Event)  BY <1>1, ChannelFields DEF Pending
  <2>2. Take(c) \in Channels(Event)  BY <1>1, <1>2, TakeType
  <2>3. Take(c).buf = Tail(Pending(c)) /\ Take(c).snd = <<>> /\ Take(c).sopen = c.sopen
    BY <1>1, ReceiverEffects
  <2> QED  BY <1>1, <1>2, <2>1, <2>2, <2>3, HandleSilent
<1>3. CASE EndOfChannel(r, c)  BY <1>1, <1>3, EndOfChannelSilent
<1>4. CASE chan' = [chan EXCEPT ![r] = Await(c)] /\ UNCHANGED consumer
  <2>1. Await(c) \in Channels(Event)  BY <1>1, CloseType
  <2>2. Await(c).buf = c.buf /\ Await(c).snd = c.snd /\ Await(c).sopen = c.sopen
    BY <1>1, ReceiverEffects
  <2>3. phase' = phase /\ phase[r] # "idle"  BY <1>1, <1>4 DEF consumer, Reading
  <2> QED  BY <1>1, <1>4, <2>1, <2>2, <2>3, TaskSilent DEF manager
<1> QED  BY <1>2, <1>3, <1>4 DEF Poll

LEMMA WakeUpSilent == ASSUME SilentInv, NEW r \in Requests, WakeUp(r) PROVE Silent'
<1> DEFINE c == chan[r]
<1>1. c \in Channels(Event) /\ Reading(r) /\ UNCHANGED manager /\ c.buf \in Seq(Event)
  <2>1. c \in Channels(Event)  BY DEF SilentInv, TypeInv, TypeOK
  <2> QED  BY <2>1, ChannelFields DEF WakeUp
<1>2. Wake(c) \in Channels(Event)  BY <1>1, WakeType
<1>3. /\ c.buf # <<>> => Wake(c).buf = Tail(c.buf)
      /\ Wake(c).snd = c.snd /\ Wake(c).sopen = c.sopen
  BY <1>1, ReceiverEffects
<1>4. CASE c.buf # <<>> /\ Handle(r, Head(c.buf), Wake(c))
  BY <1>1, <1>2, <1>3, <1>4, HandleSilent
<1>5. CASE EndOfChannel(r, Wake(c))
  BY <1>1, <1>2, <1>3, <1>5, EndOfChannelSilent
<1> QED  BY <1>4, <1>5 DEF WakeUp

LEMMA CancelSilent == ASSUME SilentInv, NEW r \in Requests, Cancel(r) PROVE Silent'
<1> DEFINE d == [chan[r] EXCEPT !.rx = "idle"]
<1>1. chan \in [Requests -> Channels(Event)] /\ phase \in [Requests -> Phases]
  BY DEF SilentInv, TypeInv, TypeOK, Phases
<1>2. chan[r] \in Channels(Event)  BY <1>1
<1>3. d \in Channels(Event)  BY <1>2 DEF Channels
<1>4. d.snd = chan[r].snd  BY <1>2 DEF Channels
<1>5. chan' = [chan EXCEPT ![r] = d] /\ UNCHANGED manager  BY DEF Cancel
<1>6. /\ phase'[r] \in {"failed", "raised"} /\ phase[r] # "idle"
      /\ \A p \in Requests \ {r} : phase'[p] = phase[p]
  BY <1>1 DEF Cancel, Outcome, Reading
<1> QED  BY <1>3, <1>4, <1>5, <1>6, TaskSilent DEF manager

LEMMA CloseSilent == ASSUME SilentInv, NEW r \in Requests, Close(r) PROVE Silent'
<1> DEFINE d == CloseRecv(chan[r])
<1>1. chan[r] \in Channels(Event) /\ phase \in [Requests -> Phases]
  BY DEF SilentInv, TypeInv, TypeOK, Phases
<1>2. d \in Channels(Event) /\ d.snd = chan[r].snd  BY <1>1, CloseType, EndEffects
<1>3. CloseSend(d) \in Channels(Event) /\ CloseSend(d).snd = chan[r].snd
  BY <1>2, CloseType, EndEffects
<1>4. phase[r] # "idle" /\ \E res : Outcome(r, "closed", res)  BY DEF Close
<1>5. phase'[r] = "closed" /\ \A p \in Requests \ {r} : phase'[p] = phase[p]
  BY <1>1, <1>4 DEF Outcome
<1>6. /\ UNCHANGED <<mgr, evq, toReset, inReset>> /\ streams' \subseteq streams
      /\ chan' = [chan EXCEPT ![r] = d] \/ chan' = [chan EXCEPT ![r] = CloseSend(d)]
  BY DEF Close
<1> QED  BY <1>2, <1>3, <1>4, <1>5, <1>6, TaskSilent

LEMMA SendRequestSilent == ASSUME SilentInv, NEW r \in Requests, SendRequest(r) PROVE Silent'
<1>1. /\ phase \in [Requests -> Phases] /\ phase[r] = "idle"
      /\ phase'[r] \in {"head", "failed"} /\ \A q \in Requests \ {r} : phase'[q] = phase[q]
  BY DEF SendRequest, SilentInv, TypeInv, TypeOK, Phases
<1>2. /\ UNCHANGED <<chan, mgr, evq, toReset, inReset>> /\ streams' = streams \cup {r}
      /\ Current' = Current /\ streams' \cup toReset \cup inReset \subseteq Requests
      /\ mgr = "blocked" => Current.s \in Requests
  BY DEF SendRequest, Current, SilentInv, TypeInv, TypeOK
<1>3. chan[r].sopen /\ (mgr = "blocked" => Current.s # r)
  BY <1>1 DEF SilentInv, Silent, Begun
<1>4. Begun'  BY <1>1, <1>2 DEF SilentInv, Silent, Begun
<1>5. BlockedItem'
  BY <1>1, <1>2, <1>3 DEF SilentInv, Silent, BlockedItem, Reading, HasFinal
<1>6. NoSilentEnd'
  BY <1>1, <1>2, <1>3 DEF SilentInv, Silent, NoSilentEnd, Alive, Reading, HasFinal
<1> QED  BY <1>4, <1>5, <1>6 DEF Silent

LEMMA ResetSilent ==
    ASSUME SilentInv, \/ \E r \in Requests : ResetSend(r) \/ ResetResume(r)
                      \/ Expire
    PROVE  Silent'
<1>1. mgr = "resets" /\ mgr' = mgr /\ phase' = phase
  BY DEF ResetSend, ResetResume, Expire, consumer
<1>2. streams' \cup toReset' \cup inReset' \subseteq streams \cup toReset \cup inReset
  BY DEF ResetSend, ResetResume, Expire, DropResets
<1>3. \A r \in Requests : \/ r \in toReset \cup inReset
                           \/ chan'[r] = chan[r]
  BY DEF ResetSend, ResetResume, Expire, DropResets, SilentInv, TypeInv, TypeOK
<1>4. \A r \in Requests : phase[r] = "idle" => chan'[r].sopen
  BY <1>3 DEF SilentInv, Silent, Begun
<1> QED  BY <1>1, <1>2, <1>4, LeftSilent

LEMMA NextSilent == SilentInv /\ [Next]_vars => Silent'
<1> SUFFICES ASSUME SilentInv, [Next]_vars PROVE Silent'  OBVIOUS
<1>1. CASE Receive
  <2>1. UNCHANGED <<chan, phase>> /\ Alive  BY <1>1 DEF Receive, consumer, Alive
  <2>2. CASE Crash  BY <2>1, <2>2, LeaveSilent DEF Crash
  <2>3. CASE mgr' = "dispatch" /\ UNCHANGED <<streams, toReset, inReset>>
    BY <2>1, <2>3, ElsewhereSilent
  <2> QED  BY <1>1, <2>2, <2>3 DEF Receive
<1>2. CASE ReceiveEof \/ ReceiveBroken \/ DispatchGoAway
  BY <1>2, LeaveSilent DEF ReceiveEof, ReceiveBroken, DispatchGoAway, Crash, consumer
<1>3. CASE DispatchPing \/ DispatchIgnored \/ BatchDone
  <2>1. UNCHANGED <<chan, phase>> /\ Alive
    BY <1>3 DEF DispatchPing, DispatchIgnored, BatchDone, consumer, Alive
  <2>2. \/ \E fail \in BOOLEAN : LeaveLoop(fail)
        \/ mgr' \in {"read", "dispatch"} /\ UNCHANGED <<streams, toReset, inReset>>
    BY <1>3 DEF DispatchPing, DispatchIgnored, BatchDone, Crash
  <2> QED  BY <2>1, <2>2, LeaveSilent, ElsewhereSilent
<1>4. CASE DispatchStream  BY <1>4, DispatchStreamSilent
<1>5. CASE Resume  BY <1>5, ResumeSilent
<1>6. CASE Cancelled
  <2>1. chan \in [Requests -> Channels(Event)] /\ (mgr = "blocked" => Current.s \in Requests)
    BY DEF SilentInv, TypeInv, TypeOK
  <2>2. \A r \in Requests : chan'[r].sopen = chan[r].sopen
    <3>1. CASE UNCHANGED chan  BY <3>1
    <3>2. CASE mgr = "blocked" /\ chan' = [chan EXCEPT ![Current.s] = Unblock(@)]
      <4>1. Unblock(chan[Current.s]).sopen = chan[Current.s].sopen  BY <2>1, <3>2, EndEffects
      <4> QED  BY <2>1, <3>2, <4>1
    <3> QED  BY <1>6, <3>1, <3>2 DEF Cancelled
  <2> QED  BY <1>6, <2>2, LeaveSilent DEF Cancelled, consumer
<1>7. CASE Expire \/ \E r \in Requests : ResetSend(r) \/ ResetResume(r)  BY <1>7, ResetSilent
<1>8. CASE CloseTransport
  BY <1>8, LeftSilent DEF CloseTransport, consumer, SilentInv, Silent, Begun
<1>9. ASSUME NEW r \in Requests, Consumer(r) PROVE Silent'
  <2>1. CASE SendEof(r)
    BY <2>1, ElsewhereSilent DEF SendEof, manager, consumer
  <2> QED  BY <1>9, <2>1, SendRequestSilent, PollSilent, WakeUpSilent, CancelSilent, CloseSilent
           DEF Consumer, Reader
<1>10. CASE AClose \/ UNCHANGED vars
  BY <1>10, ElsewhereSilent DEF AClose, vars, manager, consumer
<1>11. CASE ServerPing \/ GoAway \/ ServerClose \/ Abort \/ \E r \in Requests : Server(r)
  <2>1. OthersWait
    BY <1>11 DEF Server, Respond, SendData, EndStream, ServerReset, ServerWindow, ServerPing,
                 GoAway, ServerClose, Abort
  <2> QED  BY <2>1, ElsewhereSilent DEF OthersWait, manager, consumer
<1> QED
  BY <1>1, <1>2, <1>3, <1>4, <1>5, <1>6, <1>7, <1>8, <1>9, <1>10, <1>11 DEF Next, ManagerNext

LEMMA InitSilent == Init => Silent
<1> SUFFICES ASSUME Init PROVE Silent  OBVIOUS
<1>1. \A r \in Requests : chan[r] = Fresh /\ Fresh.sopen = TRUE  BY DEF Init, Fresh
<1> QED  BY <1>1 DEF Init, Silent, Begun, BlockedItem, NoSilentEnd, Reading

\* For any number of concurrent requests and whatever the server, the transport
\* and the other tasks do: while the manager runs, a response a task is reading
\* ends only with a StreamEnded or StreamReset event, never by a closed channel.
THEOREM ResponsesNeverJustStop == Spec => []NoSilentEnd
<1>1. Init => SilentInv  BY InitType, InitSilent DEF SilentInv
<1>2. SilentInv /\ [Next]_vars => SilentInv'  BY NextType, NextSilent DEF SilentInv
<1>3. SilentInv => NoSilentEnd  BY DEF SilentInv, Silent
<1> QED  BY <1>1, <1>2, <1>3, PTL DEF Spec

-----------------------------------------------------------------------------
(***************************************************************************)
(* Where the manager and its children are, and who holds a blocked send.   *)
(***************************************************************************)
Stations ==
    /\ mgr \notin {"dispatch", "blocked"} => evq = <<>>
    /\ mgr # "resets" => toReset = {} /\ inReset = {}
    /\ streams \cap (toReset \cup inReset) = {} /\ toReset \cap inReset = {}

\* Only the manager's current event and the children's RST_STREAMs wait for room.
Slot(r) == chan[r].snd # <<>> =>
    \/ mgr = "blocked" /\ Current.s = r /\ chan[r].snd = <<Current>>
    \/ r \in inReset /\ chan[r].snd = <<Ev("reset", r, 0)>>

InPlace  == Stations /\ \A r \in Requests : Slot(r)
PlaceInv == SilentInv /\ InPlace

LEMMA TypeParts ==
    ASSUME SilentInv
    PROVE  /\ TypeInv /\ TypeOK /\ Begun
           /\ chan \in [Requests -> Channels(Event)]
           /\ evq \in Seq(Event) /\ wire \in Seq(Event)
           /\ streams \subseteq Requests /\ toReset \subseteq Requests /\ inReset \subseteq Requests
           /\ phase \in [Requests -> Phases] /\ result \in [Requests -> Results]
           /\ rcvd \in [Requests -> Nat] /\ sent \in [Requests -> Nat]
           /\ srv \in [Requests -> {"none", "open", "body", "done"}]
           /\ ended \subseteq Requests
           /\ mgr \in {"read", "dispatch", "blocked", "resets", "stopped"}
BY DEF SilentInv, Silent, TypeInv, TypeOK, Phases, Results

\* A place in a channel stays with who holds it, or is given up.
LEMMA SlotKept ==
    ASSUME InPlace, NEW r \in Requests,
           \/ chan'[r].snd = <<>>
           \/ /\ chan'[r].snd = chan[r].snd
              /\ mgr = "blocked" => mgr' = "blocked" /\ evq' = evq
              /\ r \in inReset => r \in inReset'
    PROVE  Slot(r)'
BY DEF InPlace, Slot, Current

\* Leaving the loop: the streams become children, none of which has started.
LEMMA LeavePlace ==
    ASSUME PlaceInv, NEW fail, LeaveLoop(fail), Alive,
           \A r \in Requests : \/ chan'[r].snd = <<>>
                               \/ chan'[r].snd = chan[r].snd /\ mgr # "blocked"
    PROVE  InPlace'
<1>1. inReset = {}  BY DEF PlaceInv, InPlace, Stations, Alive
<1>2. Stations'  BY <1>1 DEF LeaveLoop, Stations
<1>3. ASSUME NEW r \in Requests PROVE Slot(r)'
  BY <1>1, <1>3, SlotKept DEF PlaceInv
<1> QED  BY <1>2, <1>3 DEF InPlace

\* The manager goes on in its loop.
LEMMA LoopPlace ==
    ASSUME PlaceInv, Alive, mgr' = "dispatch" \/ (mgr' = "read" /\ evq' = <<>>),
           streams' \subseteq streams, UNCHANGED <<toReset, inReset>>,
           \A r \in Requests : \/ chan'[r].snd = <<>>
                               \/ chan'[r].snd = chan[r].snd /\ mgr # "blocked"
    PROVE  InPlace'
<1>1. inReset = {} /\ toReset = {}  BY DEF PlaceInv, InPlace, Stations, Alive
<1>2. Stations'  BY <1>1 DEF Stations
<1>3. ASSUME NEW r \in Requests PROVE Slot(r)'
  BY <1>1, <1>3, SlotKept DEF PlaceInv
<1> QED  BY <1>2, <1>3 DEF InPlace

\* What a send that has returned leaves in the slots.
LEMMA SentPlace ==
    ASSUME PlaceInv, NEW c \in Channels(Event), Sent(c), Alive, Current.s \in Requests,
           c.snd = <<>>
    PROVE  InPlace'
<1>1. /\ chan \in [Requests -> Channels(Event)]
      /\ chan' = [chan EXCEPT ![Current.s] = CloseSend(c)] \/ chan' = [chan EXCEPT ![Current.s] = c]
  BY TypeParts DEF PlaceInv, Sent
<1>2. CloseSend(c).snd = c.snd  BY EndEffects
<1>3. \A r \in Requests : \/ chan'[r].snd = <<>>
                          \/ chan'[r].snd = chan[r].snd /\ mgr # "blocked"
  <2> SUFFICES ASSUME NEW r \in Requests
               PROVE  \/ chan'[r].snd = <<>>
                      \/ chan'[r].snd = chan[r].snd /\ mgr # "blocked"
    OBVIOUS
  <2>1. CASE r = Current.s  BY <1>1, <1>2, <2>1
  <2>2. CASE r # Current.s
    <3>1. mgr = "blocked" => chan[r].snd = <<>>
      BY <2>2 DEF PlaceInv, InPlace, Slot, Stations
    <3> QED  BY <1>1, <2>2, <3>1
  <2> QED  BY <2>1, <2>2
<1>4. CASE Crash  BY <1>3, <1>4, LeavePlace DEF Crash
<1>5. CASE mgr' = "dispatch" /\ streams' \subseteq streams /\ UNCHANGED <<toReset, inReset>>
  BY <1>3, <1>5, LoopPlace
<1> QED  BY <1>4, <1>5 DEF Sent

LEMMA SendBrokenPlace ==
    ASSUME PlaceInv, NEW c \in Channels(Event), SendBroken(c), Alive, Current.s \in Requests,
           c.snd = <<>>
    PROVE  InPlace'
<1>1. /\ chan \in [Requests -> Channels(Event)]
      /\ chan' = [chan EXCEPT ![Current.s] = c]
  BY TypeParts DEF PlaceInv, SendBroken
<1>3. \A r \in Requests : \/ chan'[r].snd = <<>>
                          \/ chan'[r].snd = chan[r].snd /\ mgr # "blocked"
  <2> SUFFICES ASSUME NEW r \in Requests
               PROVE  \/ chan'[r].snd = <<>>
                      \/ chan'[r].snd = chan[r].snd /\ mgr # "blocked"
    OBVIOUS
  <2>1. CASE r = Current.s  BY <1>1, <2>1
  <2>2. CASE r # Current.s
    <3>1. mgr = "blocked" => chan[r].snd = <<>>
      BY <2>2 DEF PlaceInv, InPlace, Slot, Stations
    <3> QED  BY <1>1, <2>2, <3>1
  <2> QED  BY <2>1, <2>2
<1>4. CASE Crash  BY <1>3, <1>4, LeavePlace DEF Crash
<1>5. CASE mgr' = "dispatch" /\ streams' \subseteq streams /\ UNCHANGED <<toReset, inReset>>
  BY <1>3, <1>5, LoopPlace
<1> QED  BY <1>4, <1>5 DEF SendBroken

\* While the manager dispatches, nothing is blocked.
LEMMA NothingBlocked ==
    ASSUME PlaceInv, Alive, NEW r \in Requests, mgr # "blocked" \/ Current.s # r
    PROVE  chan[r].snd = <<>>
BY DEF PlaceInv, InPlace, Stations, Slot, Alive

LEMMA DispatchStreamPlace == PlaceInv /\ DispatchStream => InPlace'
<1> SUFFICES ASSUME PlaceInv, DispatchStream PROVE InPlace'  OBVIOUS
<1> DEFINE c == chan[Current.s]
<1>1. /\ Alive /\ mgr = "dispatch" /\ Current \in Event
      /\ chan \in [Requests -> Channels(Event)] /\ streams \subseteq Requests
  BY TypeParts, CurrentType DEF PlaceInv, DispatchStream, Alive
<1>2. CASE Current.s \notin streams
  BY <1>1, <1>2, LeavePlace DEF DispatchStream, Crash
<1>3. CASE Current.s \in streams
  <2>1. c \in Channels(Event) /\ Current.s \in Requests /\ c.snd = <<>>
    BY <1>1, <1>3, NothingBlocked
  <2>2. CASE SendBroken(c)  BY <1>1, <2>1, <2>2, SendBrokenPlace
  <2>3. CASE Sent(Put(c, Current))
    BY <1>1, <2>1, <2>3, SentPlace, PutType, SenderEffects
  <2>4. CASE /\ chan' = [chan EXCEPT ![Current.s] = Block(c, Current)]
             /\ mgr' = "blocked"
             /\ UNCHANGED <<h2, evq, streams, toReset, inReset, failed, exiting,
                            consumer, server>>
    <3>1. Block(c, Current).snd = <<Current>>  BY <1>1, <2>1, SenderEffects
    <3>2. Current' = Current  BY <2>4 DEF Current
    <3>3. Stations'  BY <1>1, <2>4 DEF PlaceInv, InPlace, Stations
    <3>4. ASSUME NEW r \in Requests PROVE Slot(r)'
      <4>1. CASE r = Current.s  BY <1>1, <2>1, <2>4, <3>1, <3>2, <4>1 DEF Slot
      <4>2. CASE r # Current.s
        BY <1>1, <2>4, <4>2, NothingBlocked DEF Slot
      <4> QED  BY <4>1, <4>2
    <3> QED  BY <3>3, <3>4 DEF InPlace
  <2> QED  BY <1>3, <2>2, <2>3, <2>4 DEF DispatchStream
<1> QED  BY <1>2, <1>3

LEMMA ResumePlace == PlaceInv /\ Resume => InPlace'
<1> SUFFICES ASSUME PlaceInv, Resume PROVE InPlace'  OBVIOUS
<1> DEFINE c == chan[Current.s]
<1>1. Alive /\ Current.s \in Requests /\ c \in Channels(Event)
  BY DEF PlaceInv, SilentInv, TypeInv, TypeOK, Resume, Alive
<1>2. CASE c.snd = <<>> /\ Sent(c)  BY <1>1, <1>2, SentPlace
<1>3. CASE SendBroken(Unblock(c))
  BY <1>1, <1>3, SendBrokenPlace, CloseType, EndEffects
<1> QED  BY <1>2, <1>3 DEF Resume

LEMMA CancelledPlace == PlaceInv /\ Cancelled => InPlace'
<1> SUFFICES ASSUME PlaceInv, Cancelled PROVE InPlace'  OBVIOUS
<1>1. /\ Alive /\ chan \in [Requests -> Channels(Event)]
      /\ LeaveLoop(FALSE) /\ (mgr = "blocked" => Current.s \in Requests)
  BY TypeParts DEF PlaceInv, TypeInv, Cancelled, Alive
<1>2. CASE mgr # "blocked" /\ UNCHANGED chan  BY <1>1, <1>2, LeavePlace
<1>3. CASE mgr = "blocked" /\ chan' = [chan EXCEPT ![Current.s] = Unblock(@)]
  <2>1. Unblock(chan[Current.s]).snd = <<>>  BY <1>1, <1>3, EndEffects
  <2>2. \A r \in Requests : chan'[r].snd = <<>>
    <3> SUFFICES ASSUME NEW r \in Requests PROVE chan'[r].snd = <<>>  OBVIOUS
    <3>1. CASE r = Current.s  BY <1>1, <1>3, <2>1, <3>1
    <3>2. CASE r # Current.s  BY <1>1, <1>3, <3>2, NothingBlocked
    <3> QED  BY <3>1, <3>2
  <2> QED  BY <1>1, <2>2, LeavePlace
<1> QED  BY <1>2, <1>3 DEF Cancelled

\* The children: one starts, waits, ends, or all are dropped.
LEMMA DropPlace ==
    ASSUME PlaceInv, DropResets, mgr = "resets", UNCHANGED <<mgr, evq, streams>>
    PROVE  InPlace'
<1>1. Stations'  BY DEF DropResets, PlaceInv, InPlace, Stations
<1>2. ASSUME NEW r \in Requests PROVE Slot(r)'
  <2>1. chan[r] \in Channels(Event)  BY TypeParts DEF PlaceInv
  <2>2. Unblock(chan[r]) \in Channels(Event)  BY <2>1, CloseType
  <2>3. CloseSend(Unblock(chan[r])).snd = <<>>  BY <2>1, <2>2, EndEffects
  <2>4. r \notin inReset => chan[r].snd = <<>>
    BY DEF PlaceInv, InPlace, Slot
  <2>5. chan'[r].snd = <<>>  BY <2>3, <2>4 DEF DropResets
  <2> QED  BY <2>5 DEF Slot
<1> QED  BY <1>1, <1>2 DEF InPlace

LEMMA ResetPlace ==
    ASSUME PlaceInv, \/ \E r \in Requests : ResetSend(r) \/ ResetResume(r)
                     \/ Expire
    PROVE  InPlace'
<1>0. chan \in [Requests -> Channels(Event)]  BY TypeParts DEF PlaceInv
<1>1. CASE Expire  BY <1>1, DropPlace DEF Expire
<1>2. ASSUME NEW r \in Requests, ResetSend(r) PROVE InPlace'
  <2> DEFINE e == Ev("reset", r, 0)
  <2>1. /\ e \in Event /\ chan[r] \in Channels(Event) /\ chan[r].snd = <<>>
        /\ mgr = "resets" /\ UNCHANGED <<mgr, evq, streams>> /\ r \in toReset /\ r \notin inReset
    <3>1. e \in Event  BY TypedEvent DEF StreamKinds
    <3>2. chan[r].snd = <<>>  BY <1>2 DEF ResetSend, PlaceInv, InPlace, Stations, Slot
    <3> QED  BY <1>0, <1>2, <3>1, <3>2 DEF ResetSend, PlaceInv, InPlace, Stations
  <2>2. /\ Put(chan[r], e) \in Channels(Event) /\ Put(chan[r], e).snd = <<>>
        /\ Block(chan[r], e).snd = <<e>>
    <3>1. Put(chan[r], e) \in Channels(Event)  BY <2>1, PutType
    <3>2. Put(chan[r], e).snd = chan[r].snd /\ Block(chan[r], e).snd = <<e>>
      BY <2>1, SenderEffects
    <3> QED  BY <2>1, <3>1, <3>2
  <2>3. CloseSend(Put(chan[r], e)).snd = <<>>  BY <2>2, EndEffects
  <2>4. CASE DropResets  BY <2>1, <2>4, DropPlace
  <2>5. CASE /\ chan' = [chan EXCEPT ![r] = CloseSend(Put(@, e))]
             /\ toReset' = toReset \ {r} /\ UNCHANGED inReset
    <3>1. Stations'  BY <2>1, <2>5 DEF PlaceInv, InPlace, Stations
    <3>2. ASSUME NEW q \in Requests PROVE Slot(q)'
      <4>1. chan'[q].snd = chan[q].snd \/ chan'[q].snd = <<>>  BY <1>0, <2>3, <2>5
      <4> QED  BY <2>1, <2>5, <4>1, SlotKept DEF PlaceInv
    <3> QED  BY <3>1, <3>2 DEF InPlace
  <2>6. CASE /\ chan' = [chan EXCEPT ![r] = Block(@, e)]
             /\ toReset' = toReset \ {r} /\ inReset' = inReset \cup {r}
    <3>1. Stations'  BY <2>1, <2>6 DEF PlaceInv, InPlace, Stations
    <3>2. ASSUME NEW q \in Requests PROVE Slot(q)'
      <4>1. CASE q = r  BY <1>0, <2>2, <2>6, <4>1 DEF Slot
      <4>2. CASE q # r  
        <5>1. chan'[q].snd = chan[q].snd  BY <1>0, <2>6, <4>2
        <5> QED  BY <2>1, <2>6, <5>1, SlotKept DEF PlaceInv
      <4> QED  BY <4>1, <4>2
    <3> QED  BY <3>1, <3>2 DEF InPlace
  <2> QED  BY <1>2, <2>4, <2>5, <2>6 DEF ResetSend
<1>3. ASSUME NEW r \in Requests, ResetResume(r) PROVE InPlace'
  <2>1. mgr = "resets" /\ UNCHANGED <<mgr, evq, streams>>  BY <1>3 DEF ResetResume
  <2>2. CASE DropResets  BY <2>1, <2>2, DropPlace
  <2>3. CASE /\ chan[r].snd = <<>> /\ chan' = [chan EXCEPT ![r] = CloseSend(@)]
             /\ inReset' = inReset \ {r} /\ UNCHANGED toReset
    <3>1. Stations'  BY <2>1, <2>3 DEF PlaceInv, InPlace, Stations
    <3>2. CloseSend(chan[r]).snd = <<>>
      <4>1. chan[r] \in Channels(Event)  BY <1>0
      <4> QED  BY <2>3, <4>1, EndEffects
    <3>3. ASSUME NEW q \in Requests PROVE Slot(q)'
      <4>1. CASE q = r  BY <1>0, <2>3, <3>2, <4>1 DEF Slot
      <4>2. CASE q # r  
        <5>1. chan'[q].snd = chan[q].snd  BY <1>0, <2>3, <4>2
        <5> QED  BY <2>1, <2>3, <4>2, <5>1, SlotKept DEF PlaceInv
      <4> QED  BY <4>1, <4>2
    <3> QED  BY <3>1, <3>3 DEF InPlace
  <2> QED  BY <1>3, <2>2, <2>3 DEF ResetResume
<1> QED  BY <1>1, <1>2, <1>3

\* What is left pending, once the first that was pending has been taken into d.
TookFirst(c, d) ==
    /\ Pending(c) # <<>> /\ Pending(d) = Tail(Pending(c))
    /\ d.sopen = c.sopen /\ d.ropen = c.ropen
    /\ \/ c.buf # <<>> /\ Head(Pending(c)) = Head(c.buf) /\ d.buf = Tail(c.buf) /\ d.snd = c.snd
       \/ d.buf = Tail(Pending(c)) /\ d.snd = <<>>

Same(c, d) == d.buf = c.buf /\ d.snd = c.snd /\ d.sopen = c.sopen /\ d.ropen = c.ropen

\* A task that reads takes what is first, finds the channel at its end, or waits.
LEMMA ReaderSteps ==
    ASSUME SilentInv, NEW r \in Requests, Reader(r)
    PROVE  /\ UNCHANGED <<h2, manager, server>> /\ Reading(r)
           /\ \E d \in Channels(Event) :
                \/ TookFirst(chan[r], d) /\ Handle(r, Head(Pending(chan[r])), d)
                \/ Same(chan[r], d) /\ EndOfChannel(r, d)
                   /\ (chan[r].rx = "woken" => chan[r].buf = <<>>)
                   /\ (chan[r].rx # "woken" => chan[r].buf = <<>> /\ ~chan[r].sopen)
                \/ Same(chan[r], d) /\ chan' = [chan EXCEPT ![r] = d] /\ UNCHANGED consumer
<1> DEFINE c == chan[r]
<1>1. c \in Channels(Event) /\ c.buf \in Seq(Event) /\ c.snd \in Seq(Event)
  BY TypeParts, ChannelFields
<1>2. UNCHANGED <<h2, manager, server>> /\ Reading(r)  BY DEF Reader, Poll, WakeUp
<1>3. CASE Poll(r) /\ Pending(c) # <<>> /\ Handle(r, Head(Pending(c)), Take(c))
  <2>1. Take(c) \in Channels(Event)  BY <1>1, <1>3, TakeType
  <2>2. /\ Take(c).buf = Tail(Pending(c)) /\ Take(c).snd = <<>>
        /\ Take(c).sopen = c.sopen /\ Take(c).ropen = c.ropen
    BY <1>1, ReceiverEffects
  <2>3. Tail(Pending(c)) \in Seq(Event)  BY <1>1, <1>3 DEF Pending
  <2>4. Pending(Take(c)) = Tail(Pending(c))  BY <2>2, <2>3 DEF Pending
  <2> QED  BY <1>2, <1>3, <2>1, <2>2, <2>4 DEF TookFirst
<1>4. CASE WakeUp(r) /\ c.buf # <<>> /\ Handle(r, Head(c.buf), Wake(c))
  <2>1. Wake(c) \in Channels(Event)  BY <1>1, WakeType
  <2>2. /\ Wake(c).buf = Tail(c.buf) /\ Wake(c).snd = c.snd
        /\ Wake(c).sopen = c.sopen /\ Wake(c).ropen = c.ropen
    BY <1>1, <1>4, ReceiverEffects
  <2>3. /\ Head(Pending(c)) = Head(c.buf) /\ Pending(c) # <<>>
        /\ Tail(Pending(c)) = Tail(c.buf) \o c.snd
    BY <1>1, <1>4, PendingParts
  <2>4. Pending(Wake(c)) = Tail(Pending(c))  BY <2>2, <2>3 DEF Pending
  <2>5. TookFirst(c, Wake(c))  BY <1>4, <2>2, <2>3, <2>4 DEF TookFirst
  <2> QED  BY <1>2, <1>4, <2>1, <2>3, <2>5
<1>5. CASE Poll(r) /\ Pending(c) = <<>> /\ ~c.sopen /\ EndOfChannel(r, c)
  <2>1. c.buf = <<>>  BY <1>1, <1>5 DEF Pending
  <2> QED  BY <1>1, <1>2, <1>5, <2>1 DEF Same, Poll
<1>6. CASE WakeUp(r) /\ c.buf = <<>> /\ EndOfChannel(r, Wake(c))
  <2>1. Wake(c) \in Channels(Event)  BY <1>1, WakeType
  <2>2. Wake(c).buf = c.buf  BY <1>1, <1>6 DEF Wake, Channels
  <2>3. Wake(c).snd = c.snd /\ Wake(c).sopen = c.sopen /\ Wake(c).ropen = c.ropen
    BY <1>1, ReceiverEffects
  <2> QED  BY <1>2, <1>6, <2>1, <2>2, <2>3 DEF Same, WakeUp
<1>7. CASE Poll(r) /\ chan' = [chan EXCEPT ![r] = Await(c)] /\ UNCHANGED consumer
  <2>1. Await(c) \in Channels(Event)  BY <1>1, CloseType
  <2>2. Same(c, Await(c))  BY <1>1, ReceiverEffects DEF Same
  <2> QED  BY <1>2, <1>7, <2>1, <2>2
<1> QED  BY <1>3, <1>4, <1>5, <1>6, <1>7 DEF Reader, Poll, WakeUp

\* What handling an event does to the channel and to what r's task knows.
LEMMA HandleCases ==
    ASSUME SilentInv, NEW r \in Requests, NEW e \in Event, NEW d \in Channels(Event),
           Handle(r, e, d)
    PROVE  /\ \A q \in Requests \ {r} : /\ phase'[q] = phase[q] /\ rcvd'[q] = rcvd[q]
                                        /\ result'[q] = result[q] /\ chan'[q] = chan[q]
           /\ \/ /\ phase[r] = "head" /\ e.kind = "response" /\ chan'[r] = d
                 /\ phase'[r] = "open" /\ result' = [result EXCEPT ![r] = "none"] /\ rcvd' = rcvd
              \/ /\ phase[r] = "head" /\ chan'[r] = d /\ phase'[r] = "failed" /\ rcvd' = rcvd
                 /\ \E v \in {"reset", "error"} : result' = [result EXCEPT ![r] = v]
              \/ /\ phase[r] = "open" /\ e.kind = "data" /\ chan'[r] = d /\ phase' = phase
                 /\ rcvd' = [rcvd EXCEPT ![r] = @ + 1] /\ result' = result
              \/ /\ phase[r] = "open" /\ e.kind \in Final /\ chan'[r] = CloseRecv(d)
                 /\ phase'[r] = "closed" /\ result' = [result EXCEPT ![r] = e.kind] /\ rcvd' = rcvd
              \/ /\ phase[r] = "open" /\ e.kind \notin {"data"} \cup Final /\ chan'[r] = d
                 /\ phase'[r] = "raised" /\ result' = [result EXCEPT ![r] = "error"] /\ rcvd' = rcvd
<1>1. /\ phase \in [Requests -> Phases] /\ result \in [Requests -> Results]
      /\ rcvd \in [Requests -> Nat] /\ chan \in [Requests -> Channels(Event)]
  BY TypeParts
<1>2. CASE phase[r] = "head"
  <2>1. chan' = [chan EXCEPT ![r] = d] /\ rcvd' = rcvd  BY <1>2 DEF Handle
  <2>2. \/ e.kind = "response" /\ Outcome(r, "open", "none")
        \/ \E v \in {"reset", "error"} : Outcome(r, "failed", v)
    BY <1>2 DEF Handle
  <2> QED  BY <1>1, <1>2, <2>1, <2>2 DEF Outcome
<1>3. CASE phase[r] = "open" /\ e.kind = "data"
  BY <1>1, <1>3 DEF Handle, Final
<1>4. CASE phase[r] = "open" /\ e.kind \in Final
  BY <1>1, <1>4 DEF Handle, Outcome, Final
<1>5. CASE phase[r] = "open" /\ e.kind \notin {"data"} \cup Final
  BY <1>1, <1>5 DEF Handle, Outcome
<1> QED  BY <1>2, <1>3, <1>4, <1>5 DEF Handle

\* A step of a task: of its own channel it may empty the slot, never fill it.
LEMMA TaskPlace ==
    ASSUME PlaceInv, NEW r \in Requests, UNCHANGED <<mgr, evq, toReset, inReset>>,
           streams' \subseteq streams \/ (streams' = streams \cup {r} /\ phase[r] = "idle"),
           \A q \in Requests : chan'[q].snd = chan[q].snd \/ chan'[q].snd = <<>>
    PROVE  InPlace'
<1>1. phase[r] = "idle" => r \notin toReset \cup inReset
  BY TypeParts DEF PlaceInv, Begun
<1>2. Stations'  BY <1>1 DEF PlaceInv, InPlace, Stations
<1>3. ASSUME NEW q \in Requests PROVE Slot(q)'  BY SlotKept DEF PlaceInv
<1> QED  BY <1>2, <1>3 DEF InPlace

LEMMA ReaderPlace == ASSUME PlaceInv, NEW r \in Requests, Reader(r) PROVE InPlace'
<1>0. SilentInv /\ chan \in [Requests -> Channels(Event)] /\ chan[r] \in Channels(Event)
  BY TypeParts DEF PlaceInv
<1>1. UNCHANGED manager  BY <1>0, ReaderSteps
<1>2. PICK d \in Channels(Event) :
        /\ d.snd = chan[r].snd \/ d.snd = <<>>
        /\ \/ Pending(chan[r]) # <<>> /\ Handle(r, Head(Pending(chan[r])), d)
           \/ chan' = [chan EXCEPT ![r] = d]
  BY <1>0, ReaderSteps DEF TookFirst, Same, EndOfChannel
<1>3. Pending(chan[r]) # <<>> => Head(Pending(chan[r])) \in Event  BY <1>0, TakeType
<1>4. CloseRecv(d).snd = d.snd  BY EndEffects
<1>5. \A q \in Requests : chan'[q].snd = chan[q].snd \/ chan'[q].snd = <<>>
  <2>1. CASE chan' = [chan EXCEPT ![r] = d]  BY <1>0, <1>2, <2>1
  <2>2. CASE Pending(chan[r]) # <<>> /\ Handle(r, Head(Pending(chan[r])), d)
    <3>1. chan'[r] \in {d, CloseRecv(d)} /\ \A q \in Requests \ {r} : chan'[q] = chan[q]
      BY <1>0, <1>3, <2>2, HandleCases
    <3> QED  BY <1>2, <1>4, <3>1
  <2> QED  BY <1>2, <2>1, <2>2
<1> QED  BY <1>1, <1>5, TaskPlace DEF manager

LEMMA ConsumerPlace == ASSUME PlaceInv, NEW r \in Requests, Consumer(r) PROVE InPlace'
<1>0. chan \in [Requests -> Channels(Event)] /\ chan[r] \in Channels(Event)
  BY TypeParts DEF PlaceInv
<1>1. CASE Reader(r)  BY <1>1, ReaderPlace
<1>2. CASE SendRequest(r)  BY <1>2, TaskPlace DEF SendRequest
<1>3. CASE Cancel(r)
  <2>1. [chan[r] EXCEPT !.rx = "idle"].snd = chan[r].snd  BY <1>0 DEF Channels
  <2> QED  BY <1>0, <1>3, <2>1, TaskPlace DEF Cancel, manager
<1>4. CASE Close(r)
  <2>1. /\ CloseRecv(chan[r]).snd = chan[r].snd /\ CloseRecv(chan[r]) \in Channels(Event)
    BY <1>0, EndEffects, CloseType
  <2>2. CloseSend(CloseRecv(chan[r])).snd = chan[r].snd  BY <2>1, EndEffects
  <2>3. chan' \in {[chan EXCEPT ![r] = CloseRecv(chan[r])],
                   [chan EXCEPT ![r] = CloseSend(CloseRecv(chan[r]))]}
    BY <1>4 DEF Close
  <2>4. \A q \in Requests : chan'[q].snd = chan[q].snd  BY <1>0, <2>1, <2>2, <2>3
  <2>5. UNCHANGED <<mgr, evq, toReset, inReset>> /\ streams' \subseteq streams
    BY <1>4 DEF Close
  <2> QED  BY <2>4, <2>5, TaskPlace
<1>5. CASE SendEof(r)  BY <1>5, TaskPlace DEF SendEof, manager
<1> QED  BY <1>1, <1>2, <1>3, <1>4, <1>5 DEF Consumer

\* The server, the transport and aclose() touch none of this.
LEMMA OthersWaitSteps ==
    ASSUME \/ ServerPing \/ GoAway \/ ServerClose \/ Abort
           \/ \E r \in Requests : Server(r)
    PROVE  OthersWait /\ srvUp = "up"
BY DEF Server, Respond, SendData, EndStream, ServerReset, ServerWindow, ServerPing,
       GoAway, ServerClose, Abort, ServerTurn

LEMMA NextPlace == PlaceInv /\ [Next]_vars => InPlace'
<1> SUFFICES ASSUME PlaceInv, [Next]_vars PROVE InPlace'  OBVIOUS
<1>0. \A r \in Requests : mgr \in {"read", "dispatch"} => chan[r].snd = <<>>
  BY NothingBlocked DEF Alive
<1>1. CASE Receive \/ ReceiveEof \/ ReceiveBroken \/ DispatchPing \/ DispatchGoAway
           \/ DispatchIgnored \/ BatchDone
  <2>1. /\ UNCHANGED chan /\ Alive /\ mgr \in {"read", "dispatch"}
        /\ \/ \E fail \in BOOLEAN : LeaveLoop(fail)
           \/ /\ mgr' = "dispatch" \/ (mgr' = "read" /\ evq' = <<>>)
              /\ UNCHANGED <<streams, toReset, inReset>>
    BY <1>1 DEF Receive, ReceiveEof, ReceiveBroken, DispatchPing, DispatchGoAway,
               DispatchIgnored, BatchDone, Crash, Alive
  <2> QED  BY <1>0, <2>1, LeavePlace, LoopPlace
<1>2. CASE CloseTransport
  <2>1. Stations' /\ \A r \in Requests : Slot(r)'
    BY <1>2 DEF CloseTransport, PlaceInv, InPlace, Stations, Slot
  <2> QED  BY <2>1 DEF InPlace
<1>3. CASE AClose \/ UNCHANGED vars
  BY <1>3 DEF AClose, vars, manager, PlaceInv, InPlace, Stations, Slot, Current
<1>4. CASE ServerPing \/ GoAway \/ ServerClose \/ Abort \/ \E r \in Requests : Server(r)
  BY <1>4, OthersWaitSteps DEF OthersWait, manager, PlaceInv, InPlace, Stations, Slot, Current
<1> QED
  BY <1>1, <1>2, <1>3, <1>4, DispatchStreamPlace, ResumePlace, CancelledPlace, ResetPlace,
     ConsumerPlace DEF Next, ManagerNext

LEMMA InitPlace == Init => PlaceInv
<1> SUFFICES ASSUME Init PROVE PlaceInv  OBVIOUS
<1>1. \A r \in Requests : chan[r].snd = <<>>  BY DEF Init, Fresh
<1> QED  BY <1>1, InitType, InitSilent DEF Init, PlaceInv, SilentInv, InPlace, Stations, Slot

LEMMA PlaceCorrect == Spec => []PlaceInv
<1>1. PlaceInv /\ [Next]_vars => PlaceInv'
  BY NextPlace, NextType, NextSilent DEF PlaceInv, SilentInv
<1> QED  BY <1>1, InitPlace, PTL DEF Spec

-----------------------------------------------------------------------------
(***************************************************************************)
(* Flow control: every DATA frame of the window is accounted for.          *)
(***************************************************************************)
DataEvents == {e \in Event : e.kind = "data"}

LEMMA InFlightCount ==
    ASSUME NEW q \in Seq(Event)
    PROVE  InFlight(q) = Count(q, DataEvents) /\ InFlight(q) \in Nat
<1>1. \A i \in DOMAIN q : q[i] \in Event  OBVIOUS
<1>2. {i \in DOMAIN q : q[i].kind = "data"} = Sort(q, DataEvents)  BY <1>1 DEF Sort, DataEvents
<1> QED  BY <1>2, CountType DEF Count, InFlight

LEMMA InFlightNone == InFlight(<<>>) = 0
<1>1. {i \in DOMAIN <<>> : <<>>[i].kind = "data"} = {}  OBVIOUS
<1> QED  BY <1>1, FS_EmptySet DEF InFlight

LEMMA InFlightTail ==
    ASSUME NEW q \in Seq(Event), q # <<>>
    PROVE  InFlight(Tail(q)) = InFlight(q) - IF Head(q).kind = "data" THEN 1 ELSE 0
<1>1. Tail(q) \in Seq(Event) /\ Head(q) \in Event  OBVIOUS
<1>2. Head(q) \in DataEvents <=> Head(q).kind = "data"  BY <1>1 DEF DataEvents
<1>3. Count(Tail(q), DataEvents) = Count(q, DataEvents) - IF Head(q) \in DataEvents THEN 1 ELSE 0
  BY CountTail
<1> QED  BY <1>1, <1>2, <1>3, InFlightCount

LEMMA InFlightAppend ==
    ASSUME NEW q \in Seq(Event), NEW e \in Event
    PROVE  InFlight(Append(q, e)) = InFlight(q) + IF e.kind = "data" THEN 1 ELSE 0
<1>1. Append(q, e) \in Seq(Event)  OBVIOUS
<1>2. e \in DataEvents <=> e.kind = "data"  BY DEF DataEvents
<1>3. Count(Append(q, e), DataEvents) = Count(q, DataEvents) + IF e \in DataEvents THEN 1 ELSE 0
  BY CountAppend
<1> QED  BY <1>1, <1>2, <1>3, InFlightCount

\* Nothing brings back a connection, a transport or a manager that has gone.
Open == Alive /\ conn = "open" /\ srvUp # "aborted"

\* What h2 has queued is flushed.
LEMMA FlushCredit ==
    ASSUME NEW hdrs, NEW resets, Flush(hdrs, resets), SilentInv
    PROVE  srvWin' + acks' = srvWin + acks /\ wire' = wire
BY DEF Flush, SilentInv, TypeInv, TypeOK

LEMMA ReceiveCredit ==
    ASSUME PlaceInv, WindowCredit, Receive
    PROVE  WindowCredit'
<1> SUFFICES ASSUME Alive', conn' = "open", srvUp' # "aborted"
             PROVE  /\ Open
                    /\ srvWin' + acks' + InFlight(evq') + InFlight(wire')
                         = srvWin + acks + InFlight(evq) + InFlight(wire)
  BY DEF WindowCredit, Open, Receive
<1> DEFINE data   == {i \in DOMAIN wire : wire[i].kind = "data"}
           unseen == {i \in DOMAIN wire : wire[i].kind = "data" /\ ~Visible(wire[i])}
           passed == {i \in DOMAIN wire : wire[i].kind = "data" /\ Visible(wire[i])}
           seen   == [i \in DOMAIN wire |-> IF Visible(wire[i]) THEN wire[i]
                                        ELSE [wire[i] EXCEPT !.kind = "ignored"]]
<1>1. /\ wire \in Seq(Event) /\ srvWin \in Nat /\ acks \in Nat
      /\ mgr = "read" /\ evq = <<>> /\ DOMAIN wire = 1 .. Len(wire) /\ Len(wire) \in Nat
      /\ \A i \in DOMAIN wire : wire[i] \in Event
  BY DEF PlaceInv, SilentInv, TypeInv, TypeOK, InPlace, Stations, Receive
<1>2. /\ acks' = acks + Cardinality(unseen) /\ evq' = seen /\ conn = "open"
      /\ wire' = <<>> /\ UNCHANGED <<srvWin, srvUp>>
  BY DEF Receive, Crash, LeaveLoop, Alive
<1>3. InFlight(evq) = 0 /\ InFlight(wire') = 0 /\ InFlight(wire) = Cardinality(data)
  BY <1>1, <1>2, InFlightNone DEF InFlight
<1>4. InFlight(seen) = Cardinality(passed)
  <2>1. DOMAIN seen = DOMAIN wire  OBVIOUS
  <2>2. \A i \in DOMAIN wire : seen[i].kind = "data" <=> wire[i].kind = "data" /\ Visible(wire[i])
    <3> SUFFICES ASSUME NEW i \in DOMAIN wire
                 PROVE  seen[i].kind = "data" <=> wire[i].kind = "data" /\ Visible(wire[i])
      OBVIOUS
    <3>1. [wire[i] EXCEPT !.kind = "ignored"].kind = "ignored"  BY <1>1 DEF Event
    <3> QED  BY <3>1
  <2>3. {i \in DOMAIN seen : seen[i].kind = "data"} = passed  BY <2>1, <2>2
  <2> QED  BY <2>3 DEF InFlight
<1>5. Cardinality(data) = Cardinality(passed) + Cardinality(unseen)
      /\ Cardinality(passed) \in Nat /\ Cardinality(unseen) \in Nat
  <2>1. IsFiniteSet(1 .. Len(wire))  BY <1>1, FS_Interval
  <2>2. IsFiniteSet(passed) /\ IsFiniteSet(unseen)  BY <1>1, <2>1, FS_Subset
  <2>3. data = passed \cup unseen /\ passed \cap unseen = {}  OBVIOUS
  <2>4. Cardinality(passed \cup unseen)
          = Cardinality(passed) + Cardinality(unseen) - Cardinality(passed \cap unseen)
    <3> HIDE DEF passed, unseen
    <3> QED  BY <2>2, FS_Union
  <2>5. Cardinality({}) = 0  BY FS_EmptySet
  <2>6. Cardinality(passed) \in Nat /\ Cardinality(unseen) \in Nat
    BY <2>2, FS_CardinalityType
  <2> HIDE DEF data, passed, unseen
  <2> QED  BY <2>3, <2>4, <2>5, <2>6
<1>6. srvUp # "aborted" => Open  BY <1>1, <1>2 DEF Open, Alive
<1> QED
  <2> HIDE DEF data, passed, unseen, seen
  <2>1. srvWin' + acks' + InFlight(evq') + InFlight(wire')
          = srvWin + acks + InFlight(evq) + InFlight(wire)
    BY <1>1, <1>2, <1>3, <1>4, <1>5
  <2> QED  BY <1>2, <1>6, <2>1

\* A step of the manager's loop: the current event is acknowledged, or is none
\* that needs to be.
LEMMA LoopCredit ==
    ASSUME PlaceInv, WindowCredit, Alive, UNCHANGED <<srvUp, wire, conn>>,
           srvWin' \in Nat, acks' \in Nat,
           \/ /\ UNCHANGED <<srvWin, acks>>
              /\ \/ evq' = evq \/ mgr' = "resets"
                 \/ evq # <<>> /\ Current.kind # "data" /\ evq' = Tail(evq)
           \/ UNCHANGED srvWin /\ evq # <<>> /\ acks' = Acknowledged
              /\ (evq' = Tail(evq) \/ mgr' = "resets")
           \/ /\ srvWin' + acks' = srvWin + acks
              /\ \/ evq # <<>> /\ Current.kind = "ping" /\ evq' = Tail(evq)
                 \/ mgr' = "resets"
    PROVE  WindowCredit'
<1> SUFFICES ASSUME mgr' # "resets", conn = "open", srvUp # "aborted"
             PROVE  srvWin' + acks' + InFlight(evq') = srvWin + acks + InFlight(evq)
  BY DEF WindowCredit, Alive
<1>1. /\ srvWin \in Nat /\ acks \in Nat /\ evq \in Seq(Event) /\ InFlight(evq) \in Nat
  BY InFlightCount DEF PlaceInv, SilentInv, TypeInv, TypeOK
<1>2. evq # <<>> => InFlight(Tail(evq)) = InFlight(evq) - IF Current.kind = "data" THEN 1 ELSE 0
  BY <1>1, InFlightTail DEF Current
<1>3. CASE UNCHANGED <<srvWin, acks>> /\ evq' = evq  BY <1>3
<1>4. CASE /\ srvWin' + acks' = srvWin + acks
           /\ evq # <<>> /\ Current.kind # "data" /\ evq' = Tail(evq)
  <2>1. InFlight(evq') = InFlight(evq)  BY <1>1, <1>2, <1>4
  <2> QED  BY <1>1, <1>4, <2>1
<1>5. CASE /\ UNCHANGED srvWin /\ evq # <<>> /\ acks' = Acknowledged /\ evq' = Tail(evq)
  <2>1. srvWin' = srvWin /\ InFlight(evq') = InFlight(evq) + (acks - acks')
    BY <1>1, <1>2, <1>5 DEF Acknowledged
  <2> QED  BY <1>1, <2>1
<1> QED  BY <1>3, <1>4, <1>5

LEMMA ManagerCredit ==
    ASSUME PlaceInv, WindowCredit, ManagerNext
    PROVE  WindowCredit'
<1>0. srvWin' \in Nat /\ acks' \in Nat
  BY NextType DEF Next, PlaceInv, SilentInv, TypeInv, TypeOK
<1>1. CASE Receive  BY <1>1, ReceiveCredit
<1>2. CASE ReceiveEof \/ ReceiveBroken \/ DispatchGoAway \/ Cancelled \/ CloseTransport
           \/ Expire \/ \E r \in Requests : ResetSend(r) \/ ResetResume(r)
  <2>1. ~Alive'
    BY <1>2 DEF ReceiveEof, ReceiveBroken, DispatchGoAway, Cancelled, CloseTransport, Expire,
               ResetSend, ResetResume, Crash, LeaveLoop, Alive
  <2> QED  BY <2>1 DEF WindowCredit
<1>3. CASE BatchDone
  <2>1. Alive /\ UNCHANGED <<srvUp, wire, conn, srvWin, acks>> /\ (evq' = evq \/ mgr' = "resets")
    BY <1>3 DEF BatchDone, LeaveLoop, h2, server, network, Alive
  <2> QED  BY <1>0, <2>1, LoopCredit
<1>4. CASE DispatchIgnored
  <2>1. /\ Alive /\ UNCHANGED <<srvUp, wire, conn, srvWin, acks>>
        /\ evq # <<>> /\ Current.kind # "data" /\ evq' = Tail(evq)
    BY <1>4 DEF DispatchIgnored, h2, server, network, Alive
  <2> QED  BY <1>0, <2>1, LoopCredit
<1>5. CASE DispatchPing
  <2>1. /\ Alive /\ Flush({}, {}) /\ UNCHANGED conn /\ SilentInv
        /\ evq # <<>> /\ Current.kind = "ping" /\ (evq' = Tail(evq) \/ mgr' = "resets")
    BY <1>5 DEF DispatchPing, Crash, LeaveLoop, Alive, PlaceInv
  <2>2. srvWin' + acks' = srvWin + acks /\ wire' = wire  BY <2>1, FlushCredit
  <2>3. srvUp' = srvUp  BY <2>1 DEF Flush
  <2> QED  BY <1>0, <2>1, <2>2, <2>3, LoopCredit
<1>6. ASSUME NEW c, Sent(c), Alive PROVE WindowCredit'
  <2>1. /\ UNCHANGED <<srvUp, wire, conn, srvWin>> /\ evq # <<>> /\ acks' = Acknowledged
        /\ (evq' = Tail(evq) \/ mgr' = "resets")
    BY <1>6 DEF Sent, Crash, LeaveLoop, server, network
  <2> QED  BY <1>0, <1>6, <2>1, LoopCredit
<1>7. ASSUME NEW c, SendBroken(c), Alive, evq # <<>> PROVE WindowCredit'
  <2>1. /\ UNCHANGED <<srvUp, wire, conn, srvWin, acks>>
        /\ \/ Current.kind # "data" /\ evq' = Tail(evq)
           \/ mgr' = "resets"
    BY <1>7 DEF SendBroken, Crash, LeaveLoop, h2, server, network, Final
  <2> QED  BY <1>0, <1>7, <2>1, LoopCredit
<1>8. CASE DispatchStream
  <2>1. Alive /\ evq # <<>>  BY <1>8 DEF DispatchStream, Alive
  <2>2. CASE UNCHANGED <<h2, server>> /\ (Crash \/ evq' = evq)
    <3>1. UNCHANGED <<srvUp, wire, conn, srvWin, acks>> /\ (evq' = evq \/ mgr' = "resets")
      BY <2>2 DEF Crash, LeaveLoop, h2, server, network
    <3> QED  BY <1>0, <2>1, <3>1, LoopCredit
  <2> QED  BY <1>6, <1>7, <1>8, <2>1, <2>2 DEF DispatchStream
<1>9. CASE Resume
  <2>1. Alive /\ evq # <<>>  BY <1>9 DEF Resume, Alive, PlaceInv, SilentInv, TypeInv
  <2> QED  BY <1>6, <1>7, <1>9, <2>1 DEF Resume
<1> QED
  BY <1>1, <1>2, <1>3, <1>4, <1>5, <1>8, <1>9 DEF ManagerNext

LEMMA ConsumerCredit ==
    ASSUME PlaceInv, WindowCredit, NEW r \in Requests, Consumer(r)
    PROVE  WindowCredit'
<1>1. /\ UNCHANGED <<mgr, evq, conn, srvUp, wire>> /\ srvWin' + acks' = srvWin + acks
  <2>1. CASE Reader(r) \/ Cancel(r)
    BY <2>1 DEF Reader, Poll, WakeUp, Cancel, h2, manager, server, network
  <2>2. CASE SendRequest(r) \/ SendEof(r)
    <3>1. \E hdrs : Flush(hdrs, {})  BY <2>2 DEF SendRequest, SendEof
    <3>2. UNCHANGED <<mgr, evq, conn>>  BY <2>2 DEF SendRequest, SendEof, manager
    <3> QED  BY <3>1, <3>2, FlushCredit DEF PlaceInv, Flush
  <2>3. CASE Close(r)
    <3>1. UNCHANGED <<mgr, evq, conn>> /\ (Flush({}, {r}) \/ UNCHANGED <<acks, network>>)
      BY <2>3 DEF Close
    <3> QED  BY <3>1, FlushCredit DEF PlaceInv, Flush, network
  <2> QED  BY <2>1, <2>2, <2>3 DEF Consumer
<1>2. srvWin \in Nat /\ acks \in Nat /\ evq \in Seq(Event) /\ wire \in Seq(Event)
  BY DEF PlaceInv, SilentInv, TypeInv, TypeOK
<1> QED  BY <1>1, <1>2 DEF WindowCredit, Alive

LEMMA ServerCredit ==
    ASSUME PlaceInv, WindowCredit,
           \/ ServerPing \/ GoAway \/ ServerClose \/ Abort \/ AClose
           \/ \E r \in Requests : Server(r)
    PROVE  WindowCredit'
<1>1. /\ srvWin \in Nat /\ acks \in Nat /\ evq \in Seq(Event) /\ wire \in Seq(Event)
      /\ sent \in [Requests -> Nat] /\ InFlight(evq) \in Nat /\ InFlight(wire) \in Nat
  BY InFlightCount DEF PlaceInv, SilentInv, TypeInv, TypeOK
<1>2. ASSUME UNCHANGED <<mgr, evq, conn, acks>>, srvUp' # "aborted" => srvUp # "aborted",
             srvUp' # "aborted" => InFlight(wire') = InFlight(wire) + (srvWin - srvWin'),
             srvWin' \in Nat, InFlight(wire') \in Nat
      PROVE  WindowCredit'
  <2> SUFFICES ASSUME Open'
               PROVE  srvWin' + acks' + InFlight(evq') + InFlight(wire') = Window
    BY DEF WindowCredit, Open
  <2>1. srvWin + acks + InFlight(evq) + InFlight(wire) = Window
    BY <1>2 DEF WindowCredit, Open, Alive
  <2>2. InFlight(wire') = InFlight(wire) + (srvWin - srvWin')  BY <1>2 DEF Open
  <2>3. acks' = acks /\ InFlight(evq') = InFlight(evq)  BY <1>2
  <2> QED  BY <1>1, <1>2, <2>1, <2>2, <2>3
<1>3. srvWin' \in Nat /\ wire' \in Seq(Event) /\ InFlight(wire') \in Nat
  <2>1. srvWin' \in Nat /\ wire' \in Seq(Event)
    BY NextType DEF Next, PlaceInv, SilentInv, TypeInv, TypeOK
  <2> QED  BY <2>1, InFlightCount
<1>4. CASE AClose \/ ServerClose \/ Abort
  <2>1. /\ UNCHANGED <<mgr, evq, conn, acks>> /\ (srvUp' # "aborted" => srvUp # "aborted")
        /\ srvUp' # "aborted" => UNCHANGED <<srvWin, wire>>
    BY <1>4 DEF AClose, ServerClose, Abort, ServerTurn, OthersWait, h2, manager, network
  <2> QED  BY <1>2, <1>3, <2>1
<1>5. ASSUME NEW kind \in StreamKinds \cup {"ping", "goaway"}, kind # "data",
             NEW s \in Requests \cup {Zero}, NEW n \in Nat, Transmit(Ev(kind, s, n)),
             OthersWait, UNCHANGED <<srvWin, srvUp>>
      PROVE  WindowCredit'
  <2>1. Ev(kind, s, n) \in Event /\ Ev(kind, s, n).kind # "data"  BY <1>5, TypedEvent DEF Ev
  <2>2. InFlight(wire') = InFlight(wire)  BY <1>1, <1>5, <2>1, InFlightAppend DEF Transmit
  <2> QED  BY <1>2, <1>3, <1>5, <2>2 DEF OthersWait, h2, manager
<1>6. CASE ServerPing \/ GoAway
  <2>1. {"ping", "goaway"} \subseteq StreamKinds \cup {"ping", "goaway"}  OBVIOUS
  <2> QED  BY <1>5, <1>6, <2>1 DEF ServerPing, GoAway
<1>7. ASSUME NEW r \in Requests, Server(r) PROVE WindowCredit'
  <2>1. CASE SendData(r)
    <3>1. /\ Ev("data", r, sent[r] + 1) \in Event /\ Ev("data", r, sent[r] + 1).kind = "data"
      BY <1>1, TypedEvent DEF Ev, StreamKinds
    <3>2. InFlight(wire') = InFlight(wire) + 1
      BY <1>1, <2>1, <3>1, InFlightAppend DEF SendData, Transmit
    <3>3. /\ UNCHANGED <<mgr, evq, conn, acks, srvUp>> /\ srvWin' = srvWin - 1
      BY <2>1 DEF SendData, OthersWait, h2, manager
    <3> QED  BY <1>1, <1>2, <1>3, <3>2, <3>3
  <2>2. CASE Respond(r) \/ EndStream(r) \/ ServerReset(r) \/ ServerWindow(r)
    <3>1. /\ OthersWait /\ UNCHANGED <<srvWin, srvUp>>
          /\ \E kind \in {"response", "end", "reset", "window"}, n \in Nat : Transmit(Ev(kind, r, n))
      BY <1>1, <2>2 DEF Respond, EndStream, ServerReset, ServerWindow
    <3> QED  BY <1>5, <3>1 DEF StreamKinds
  <2> QED  BY <1>7, <2>1, <2>2 DEF Server
<1> QED  BY <1>4, <1>6, <1>7

\* While the connection is up no DATA frame of the window is lost: each is at
\* the server, in flight, not yet dispatched, or acknowledged and about to be
\* flushed (_http2.py:143-207).
THEOREM CreditKept == Spec => []WindowCredit
<1>1. Init => WindowCredit
  BY InFlightNone, HTTP2Assumption DEF Init, WindowCredit
<1>2. PlaceInv /\ WindowCredit /\ [Next]_vars => WindowCredit'
  <2>1. CASE UNCHANGED vars
    BY <2>1 DEF vars, h2, manager, server, network, WindowCredit, Alive
  <2> QED  BY <2>1, ManagerCredit, ConsumerCredit, ServerCredit DEF Next
<1> QED  BY <1>1, <1>2, PlaceCorrect, PTL DEF Spec

-----------------------------------------------------------------------------
(***************************************************************************)
(* What is on its way to each task.  DATA carries its number in the        *)
(* stream, and so does the END_STREAM that closes it; the channel, the     *)
(* batch and the wire are one line of them.                                *)
(***************************************************************************)
Data(r)  == {e \in Event : e.kind = "data" /\ e.s = r}
Signs(r) == {e \in Event : e.kind \in {"data", "end"} /\ e.s = r}
NoneOf(r, q) == \A i \in DOMAIN q : q[i].s # r

\* Before it is sent, nothing is known of a request anywhere.
Unused(r) == phase[r] = "idle" =>
    /\ st[r] = "idle" /\ srv[r] \in {"none", "done"} /\ r \notin ended
    /\ chan[r] = Fresh /\ rcvd[r] = 0 /\ sent[r] = 0 /\ result[r] = "none"
    /\ NoneOf(r, evq) /\ NoneOf(r, wire)

\* A stream that h2 no longer reads from has nothing left on the wire.
Quiet(r) ==
    /\ \A i \in DOMAIN wire : wire[i].s = r /\ wire[i].kind \in Final => srv[r] = "done"
    /\ Reading(r) => st[r] # "idle"
    /\ Reading(r) /\ st[r] \in {"half_remote", "closed", "gone"}
         => srv[r] = "done" /\ NoneOf(r, wire)

\* A task that reads will get, in this order, all that the server has sent.
Fed(r) == Reading(r) =>
    LET p == Pending(chan[r])
    IN  /\ chan[r].ropen
        /\ \A i \in DOMAIN p : p[i].s = r
        /\ Numbered(p, Data(r), Signs(r), rcvd[r])
        /\ Alive => /\ Line(Data(r), Signs(r), p, Batch, wire, rcvd[r])
                    /\ srvUp # "aborted" =>
                         sent[r] = Total(Data(r), p, Batch, wire, rcvd[r])

Feed    == \A r \in Requests : Unused(r) /\ Quiet(r) /\ Fed(r)
FeedInv == PlaceInv /\ Feed

LEMMA NoneOfTail ==
    ASSUME NEW r, NEW q \in Seq(Event), q # <<>>, NoneOf(r, q)
    PROVE  Head(q).s # r /\ NoneOf(r, Tail(q))
BY DEF NoneOf

LEMMA NoneOfAppend ==
    ASSUME NEW r, NEW q \in Seq(Event), NEW e \in Event, NoneOf(r, q), e.s # r
    PROVE  NoneOf(r, Append(q, e))
BY DEF NoneOf

\* The manager only talks to streams of which it has an event, or that it resets.
LEMMA ManagerTouches ==
    ASSUME PlaceInv, ManagerNext
    PROVE  /\ UNCHANGED <<phase, result, rcvd, sent, ended, srvUp>>
           /\ \A r \in Requests : srv'[r] \in {srv[r], "done"}
           /\ ~Receive => /\ UNCHANGED <<st, wire>>
                          /\ evq' \in {evq, <<>>} \/ (evq # <<>> /\ evq' = Tail(evq))
           /\ \A r \in Requests :
                 \/ chan'[r] = chan[r]
                 \/ evq # <<>> /\ Current.s = r
                 \/ r \in toReset \cup inReset
<1>0. /\ chan \in [Requests -> Channels(Event)] /\ wire \in Seq(Event)
      /\ srv \in [Requests -> {"none", "open", "body", "done"}]
      /\ mgr = "blocked" => evq # <<>>
  BY TypeParts DEF PlaceInv, TypeInv
<1>1. CASE Receive
  BY <1>0, <1>1 DEF Receive, consumer
<1>2. ASSUME NEW c, Sent(c) \/ SendBroken(c), evq # <<>>
      PROVE  /\ UNCHANGED <<consumer, server, st>>
             /\ evq' \in {<<>>, Tail(evq)}
             /\ \A r \in Requests : r # Current.s => chan'[r] = chan[r]
  BY <1>0, <1>2 DEF Sent, SendBroken, Crash, LeaveLoop, h2
<1>3. CASE DispatchStream
  <2>1. CASE \E c : Sent(c) \/ SendBroken(c)
    BY <1>0, <1>2, <1>3, <2>1 DEF DispatchStream, consumer, server, network, Receive
  <2>2. CASE Crash /\ UNCHANGED <<h2, chan, consumer, server>>
    BY <1>0, <1>3, <2>2 DEF Crash, LeaveLoop, h2, consumer, server, network
  <2>3. CASE /\ chan' = [chan EXCEPT ![Current.s] = Block(chan[Current.s], Current)]
             /\ UNCHANGED <<h2, evq, consumer, server>>
    BY <1>0, <1>3, <2>3 DEF DispatchStream, h2, consumer, server, network
  <2> QED  BY <1>3, <2>1, <2>2, <2>3 DEF DispatchStream
<1>4. CASE Resume
  <2>1. \E c : Sent(c) \/ SendBroken(c)  BY <1>4 DEF Resume
  <2>2. evq # <<>>  BY <1>0, <1>4 DEF Resume
  <2> QED  BY <1>0, <1>2, <1>4, <2>1, <2>2 DEF consumer, server, network
<1>5. CASE Cancelled
  BY <1>0, <1>5 DEF Cancelled, LeaveLoop, h2, consumer, server, network
<1>6. CASE ReceiveEof \/ ReceiveBroken \/ DispatchGoAway \/ DispatchIgnored \/ BatchDone
  BY <1>0, <1>6 DEF ReceiveEof, ReceiveBroken, DispatchGoAway, DispatchIgnored, BatchDone,
                    Crash, LeaveLoop, h2, consumer, server, network
<1>7. CASE DispatchPing \/ CloseTransport
  <2>1. Flush({}, {}) /\ UNCHANGED <<consumer, st, chan>>
    BY <1>7 DEF DispatchPing, CloseTransport
  <2>2. evq' \in {evq, <<>>} \/ (evq # <<>> /\ evq' = Tail(evq))
    BY <1>7 DEF DispatchPing, CloseTransport, Crash, LeaveLoop
  <2>3. UNCHANGED <<sent, ended, srvUp, wire>> /\ \A r \in Requests : srv'[r] \in {srv[r], "done"}
    BY <2>1 DEF Flush
  <2> QED  BY <2>1, <2>2, <2>3 DEF consumer
<1>8. CASE Expire \/ \E r \in Requests : ResetSend(r) \/ ResetResume(r)
  <2>1. UNCHANGED <<h2, evq, consumer, server>>
    BY <1>8 DEF Expire, ResetSend, ResetResume
  <2>2. \A r \in Requests : chan'[r] = chan[r] \/ r \in toReset \cup inReset
    BY <1>0, <1>8 DEF Expire, ResetSend, ResetResume, DropResets
  <2> QED  BY <1>0, <2>1, <2>2 DEF h2, consumer, server, network
<1> QED  BY <1>1, <1>3, <1>4, <1>5, <1>6, <1>7, <1>8 DEF ManagerNext

\* What arrives of a batch has the stream it had.
LEMMA ReceiveBatch ==
    ASSUME PlaceInv, Receive
    PROVE  /\ wire \in Seq(Event) /\ wire' = <<>> /\ evq = <<>>
           /\ \/ ~Alive' /\ evq' = <<>>
              \/ /\ mgr' = "dispatch" /\ evq' \in Seq(Event) /\ Len(evq') = Len(wire)
                 /\ \A i \in 1 .. Len(wire) :
                       /\ evq'[i].s = wire[i].s
                       /\ Visible(wire[i]) => evq'[i] = wire[i]
                       /\ ~Visible(wire[i]) => evq'[i].kind = "ignored"
<1>1. wire \in Seq(Event) /\ evq = <<>> /\ evq' \in Seq(Event)
      /\ \A i \in DOMAIN wire : wire[i] \in Event
  BY NextType DEF PlaceInv, SilentInv, TypeInv, TypeOK, InPlace, Stations, Receive, Next, ManagerNext
<1>2. wire' = <<>>  BY DEF Receive
<1>3. CASE Crash  BY <1>1, <1>2, <1>3 DEF Crash, LeaveLoop, Alive
<1>4. CASE /\ mgr' = "dispatch"
           /\ evq' = [i \in DOMAIN wire |-> IF Visible(wire[i]) THEN wire[i]
                                            ELSE [wire[i] EXCEPT !.kind = "ignored"]]
  <2>1. Len(evq') = Len(wire) /\ DOMAIN wire = 1 .. Len(wire)  BY <1>1, <1>4
  <2>2. ASSUME NEW i \in 1 .. Len(wire)
        PROVE  /\ evq'[i].s = wire[i].s
               /\ Visible(wire[i]) => evq'[i] = wire[i]
               /\ ~Visible(wire[i]) => evq'[i].kind = "ignored"
    <3>1. wire[i] \in Event  BY <1>1, <2>1
    <3>2. [wire[i] EXCEPT !.kind = "ignored"].s = wire[i].s
          /\ [wire[i] EXCEPT !.kind = "ignored"].kind = "ignored"
      BY <3>1 DEF Event
    <3> QED  BY <1>4, <2>1, <3>2
  <2> QED  BY <1>1, <1>2, <1>4, <2>1, <2>2
<1> QED  BY <1>3, <1>4 DEF Receive

\* What arrives of a stream only ever closes it.
LEMMA ReceiveStates ==
    ASSUME Receive, NEW r \in Requests
    PROVE  /\ st[r] \in {"idle", "closed", "gone"} => st'[r] = st[r]
           /\ st[r] \notin {"idle", "closed", "gone"} =>
                \/ st'[r] = st[r]
                \/ /\ st'[r] \in {"half_remote", "closed"}
                   /\ \E i \in DOMAIN wire :
                         wire[i].s = r /\ (wire[i].kind = "reset" \/ wire[i].kind = "end")
BY DEF Receive

LEMMA ManagerUnused ==
    ASSUME PlaceInv, ManagerNext, NEW r \in Requests, Unused(r)
    PROVE  Unused(r)'
<1> SUFFICES ASSUME phase'[r] = "idle" PROVE Unused(r)'  BY DEF Unused
<1>1. /\ UNCHANGED <<phase, result, rcvd, sent, ended>> /\ srv'[r] \in {srv[r], "done"}
  BY ManagerTouches
<1>2. /\ st[r] = "idle" /\ srv[r] \in {"none", "done"} /\ r \notin ended
      /\ chan[r] = Fresh /\ rcvd[r] = 0 /\ sent[r] = 0 /\ result[r] = "none"
      /\ NoneOf(r, evq) /\ NoneOf(r, wire)
  BY <1>1 DEF Unused
<1>3. evq \in Seq(Event) /\ wire \in Seq(Event)
      /\ r \notin toReset \cup inReset
  <2>1. r \notin toReset \cup inReset  BY <1>1, TypeParts DEF PlaceInv, Begun
  <2> QED  BY <2>1 DEF PlaceInv, SilentInv, TypeInv, TypeOK
<1>4. chan'[r] = chan[r]
  <2>1. evq # <<>> => Current.s # r  BY <1>2, <1>3, NoneOfTail DEF Current
  <2> QED  BY <1>3, <2>1, ManagerTouches
<1>5. st'[r] = "idle"
  <2>1. CASE Receive  BY <1>2, <2>1, ReceiveStates
  <2>2. CASE ~Receive  BY <1>2, <2>2, ManagerTouches
  <2> QED  BY <2>1, <2>2
<1>6. NoneOf(r, evq') /\ NoneOf(r, wire')
  <2>1. NoneOf(r, <<>>)  BY DEF NoneOf
  <2>2. CASE Receive
    <3>1. DOMAIN wire = 1 .. Len(wire)  BY <1>3
    <3>2. evq' = <<>> \/ (evq' \in Seq(Event) /\ Len(evq') = Len(wire)
                          /\ \A i \in 1 .. Len(wire) : evq'[i].s = wire[i].s)
      BY <2>2, ReceiveBatch
    <3>3. NoneOf(r, evq')  BY <1>2, <2>1, <3>1, <3>2 DEF NoneOf
    <3> QED  BY <2>1, <2>2, <3>3, ReceiveBatch
  <2>3. CASE ~Receive
    <3>1. wire' = wire /\ (evq' \in {evq, <<>>} \/ (evq # <<>> /\ evq' = Tail(evq)))
      BY <2>3, ManagerTouches
    <3> QED  BY <1>2, <1>3, <2>1, <3>1, NoneOfTail
  <2> QED  BY <2>2, <2>3
<1> QED  BY <1>1, <1>2, <1>4, <1>5, <1>6 DEF Unused

LEMMA ManagerQuiet ==
    ASSUME PlaceInv, ManagerNext, NEW r \in Requests, Quiet(r)
    PROVE  Quiet(r)'
<1>1. UNCHANGED phase /\ srv'[r] \in {srv[r], "done"}  BY ManagerTouches
<1>2. Reading(r)' <=> Reading(r)  BY <1>1 DEF Reading
<1>3. CASE Receive
  <2>1. wire' = <<>> /\ NoneOf(r, wire')  BY <1>3, ReceiveBatch DEF NoneOf
  <2>2. srv' = srv  BY <1>3 DEF Receive
  <2>3. /\ st[r] \in {"idle", "closed", "gone"} => st'[r] = st[r]
        /\ st[r] \notin {"idle", "closed", "gone"} =>
             \/ st'[r] = st[r]
             \/ /\ st'[r] \in {"half_remote", "closed"}
                /\ \E i \in DOMAIN wire : wire[i].s = r /\ wire[i].kind \in Final
    BY <1>3, ReceiveStates DEF Final
  <2> QED  BY <1>2, <2>1, <2>2, <2>3 DEF Quiet
<1>4. CASE ~Receive
  <2>1. UNCHANGED <<st, wire>>  BY <1>4, ManagerTouches
  <2> QED  BY <1>1, <1>2, <2>1 DEF Quiet
<1> QED  BY <1>3, <1>4

-----------------------------------------------------------------------------
\* How a step of the manager moves what is on its way to r.
Moved(r) ==
    /\ chan'[r].ropen = chan[r].ropen
    /\ \/ ~chan[r].ropen
       \/ Pending(chan'[r]) = Pending(chan[r]) /\ Batch' = Batch
       \/ /\ ~Alive'
          /\ \/ Pending(chan'[r]) \in {Pending(chan[r]), chan[r].buf}
             \/ Pending(chan'[r]) = Append(Pending(chan[r]), Ev("reset", r, 0))
       \/ /\ mgr = "dispatch" /\ evq # <<>> /\ Current.s = r
          /\ Current.kind \in StreamKinds
          /\ Pending(chan'[r]) = Append(Pending(chan[r]), Current)
          /\ Alive' => Batch' = Tail(evq)
       \/ /\ mgr = "dispatch" /\ evq # <<>>
          /\ Current.s # r \/ Current.kind \notin StreamKinds
          /\ Pending(chan'[r]) = Pending(chan[r]) /\ Batch' = Tail(evq)

\* What the manager's operations on a channel leave pending.
LEMMA PendingOf ==
    ASSUME NEW c \in Channels(Event), NEW e \in Event
    PROVE  /\ Pending(CloseSend(c)) = Pending(c) /\ Pending(Unblock(c)) = c.buf
           /\ c.snd = <<>> => /\ Pending(c) = c.buf
                              /\ Pending(Put(c, e)) = Append(Pending(c), e)
                              /\ Pending(Block(c, e)) = Append(Pending(c), e)
<1>1. c.buf \in Seq(Event) /\ c.snd \in Seq(Event)  BY ChannelFields
<1>2. \A s \in Seq(Event) : s \o <<>> = s /\ Append(s, e) \in Seq(Event) /\ Append(s, e) = s \o <<e>>
  BY AppendIsConcat
<1>3. Pending(CloseSend(c)) = Pending(c) /\ Pending(Unblock(c)) = c.buf
  BY <1>1, <1>2, EndEffects DEF Pending
<1>4. ASSUME c.snd = <<>>
      PROVE  /\ Pending(c) = c.buf
             /\ Pending(Put(c, e)) = Append(Pending(c), e)
             /\ Pending(Block(c, e)) = Append(Pending(c), e)
  <2>1. Pending(c) = c.buf  BY <1>1, <1>2, <1>4 DEF Pending
  <2>2. Put(c, e).buf = Append(c.buf, e) /\ Put(c, e).snd = <<>>
    BY <1>4, SenderEffects
  <2>3. Block(c, e).buf = c.buf /\ Block(c, e).snd = <<e>>  BY SenderEffects
  <2>4. Pending(Put(c, e)) = Append(c.buf, e)  BY <1>1, <1>2, <2>2 DEF Pending
  <2>5. Pending(Block(c, e)) = Append(c.buf, e)  BY <1>1, <1>2, <2>3 DEF Pending
  <2> QED  BY <2>1, <2>4, <2>5
<1> QED  BY <1>3, <1>4

LEMMA SentMoved ==
    ASSUME PlaceInv, NEW c \in Channels(Event), Sent(c), NEW r \in Requests, Current.s \in Requests,
           mgr \in {"dispatch", "blocked"}, c.ropen = chan[Current.s].ropen,
           mgr = "dispatch" => Current.kind \in StreamKinds,
           mgr = "blocked" => Pending(c) = Pending(chan[Current.s]),
           mgr = "dispatch" => Pending(c) = Append(Pending(chan[Current.s]), Current)
    PROVE  Moved(r)
<1>1. /\ chan \in [Requests -> Channels(Event)]
      /\ chan' = [chan EXCEPT ![Current.s] = CloseSend(c)] \/ chan' = [chan EXCEPT ![Current.s] = c]
  BY TypeParts DEF PlaceInv, Sent
<1>2. /\ Pending(CloseSend(c)) = Pending(c) /\ CloseSend(c).ropen = c.ropen
  <2>1. CASE evq # <<>>
    <3>1. Current \in Event  BY <2>1, CurrentType DEF PlaceInv, SilentInv
    <3> QED  BY <3>1, PendingOf, EndEffects
  <2> QED  BY <2>1 DEF Sent
<1>3. /\ r = Current.s => Pending(chan'[r]) = Pending(c) /\ chan'[r].ropen = c.ropen
      /\ r # Current.s => chan'[r] = chan[r]
  BY <1>1, <1>2
<1>4. /\ evq # <<>>
      /\ ~Alive' \/ Batch' = Tail(evq)
  BY DEF Sent, Crash, LeaveLoop, Alive, Batch
<1>5. mgr = "blocked" => Batch = Tail(evq)  BY DEF Batch
<1>6. CASE mgr = "blocked"
  <2>1. Pending(chan'[r]) = Pending(chan[r]) /\ chan'[r].ropen = chan[r].ropen
    BY <1>3, <1>6
  <2> QED  BY <1>4, <1>5, <1>6, <2>1 DEF Moved
<1>7. CASE mgr = "dispatch"
  <2>1. CASE r = Current.s  BY <1>3, <1>4, <1>7, <2>1 DEF Moved
  <2>2. CASE r # Current.s  BY <1>3, <1>4, <1>7, <2>2 DEF Moved
  <2> QED  BY <2>1, <2>2
<1> QED  BY <1>6, <1>7

LEMMA BrokenMoved ==
    ASSUME PlaceInv, NEW c \in Channels(Event), SendBroken(c), NEW r \in Requests,
           Current.s \in Requests, evq # <<>>, mgr \in {"dispatch", "blocked"},
           ~chan[Current.s].ropen, ~c.ropen
    PROVE  Moved(r)
<1>1. chan \in [Requests -> Channels(Event)] /\ chan' = [chan EXCEPT ![Current.s] = c]
  BY TypeParts DEF PlaceInv, SendBroken
<1>2. CASE r = Current.s
  <2>1. c.ropen \in BOOLEAN /\ chan[r].ropen \in BOOLEAN  BY <1>1, <1>2, ChannelFields
  <2> QED  BY <1>1, <1>2, <2>1 DEF Moved
<1>3. CASE r # Current.s
  <2>1. chan'[r] = chan[r]  BY <1>1, <1>3
  <2>2. ~Alive' \/ (mgr' = "dispatch" /\ evq' = Tail(evq))
    BY DEF SendBroken, Crash, LeaveLoop, Alive
  <2> QED  BY <1>3, <2>1, <2>2 DEF Moved, Batch
<1> QED  BY <1>2, <1>3

LEMMA ManagerMoves ==
    ASSUME PlaceInv, ManagerNext, ~Receive, NEW r \in Requests
    PROVE  Moved(r)
<1>0. /\ chan \in [Requests -> Channels(Event)] /\ SilentInv /\ TypeInv
      /\ \A q \in Requests : chan[q] \in Channels(Event)
  BY TypeParts DEF PlaceInv
<1>1. CASE UNCHANGED chan /\ ~Alive'  BY <1>1 DEF Moved
<1>2. CASE ReceiveEof \/ ReceiveBroken \/ DispatchGoAway \/ CloseTransport
  BY <1>1, <1>2 DEF ReceiveEof, ReceiveBroken, DispatchGoAway, CloseTransport,
                    Crash, LeaveLoop, Alive
<1>3. CASE DispatchPing \/ DispatchIgnored
  <2>1. /\ UNCHANGED chan /\ mgr = "dispatch" /\ evq # <<>> /\ Current.kind \in {"ping", "ignored"}
        /\ ~Alive' \/ (mgr' = mgr /\ evq' = Tail(evq))
    BY <1>3 DEF DispatchPing, DispatchIgnored, Crash, LeaveLoop, Alive
  <2> QED  BY <1>1, <2>1 DEF Moved, StreamKinds, Batch
<1>4. CASE BatchDone
  <2>1. UNCHANGED chan /\ mgr = "dispatch" /\ (~Alive' \/ (mgr' = "read" /\ evq' = evq))
    BY <1>4 DEF BatchDone, LeaveLoop, Alive
  <2> QED  BY <1>1, <2>1 DEF Moved, Batch
<1>5. CASE Cancelled
  <2>1. ~Alive' /\ (UNCHANGED chan \/ (/\ chan' = [chan EXCEPT ![Current.s] = Unblock(@)]))
    BY <1>5 DEF Cancelled, LeaveLoop, Alive
  <2>2. Pending(Unblock(chan[r])) = chan[r].buf /\ Unblock(chan[r]).ropen = chan[r].ropen
    <3>1. Ev("reset", r, 0) \in Event  BY TypedEvent DEF StreamKinds
    <3> QED  BY <1>0, <3>1, PendingOf, EndEffects
  <2>3. CASE chan' = [chan EXCEPT ![Current.s] = Unblock(@)]
    <3>1. \/ chan'[r] = chan[r]
          \/ chan'[r] = Unblock(chan[r])
      BY <1>0, <2>3
    <3> QED  BY <2>1, <2>2, <3>1 DEF Moved
  <2> QED  BY <1>1, <2>1, <2>3
<1>6. CASE DispatchStream
  <2> DEFINE c == chan[Current.s]
  <2>1. mgr = "dispatch" /\ evq # <<>> /\ Current \in Event
    BY <1>0, <1>6, CurrentType DEF DispatchStream
  <2>2. CASE Current.s \notin streams
    BY <1>1, <1>6, <2>2 DEF DispatchStream, Crash, LeaveLoop, Alive
  <2>3. CASE Current.s \in streams
    <3>1. Current.s \in Requests /\ c \in Channels(Event) /\ c.snd = <<>>
      BY <1>0, <2>1, <2>3, TypeParts, NothingBlocked DEF Alive
    <3>2. CASE ~c.ropen /\ SendBroken(c)  BY <2>1, <3>1, <3>2, BrokenMoved
    <3>3. CASE Sent(Put(c, Current))
      <4>1. /\ Put(c, Current) \in Channels(Event) /\ Put(c, Current).ropen = c.ropen
            /\ Pending(Put(c, Current)) = Append(Pending(c), Current)
        BY <2>1, <3>1, PutType, SenderEffects, PendingOf
      <4> QED  BY <1>6, <2>1, <3>1, <3>3, <4>1, SentMoved DEF DispatchStream
    <3>4. CASE /\ chan' = [chan EXCEPT ![Current.s] = Block(c, Current)]
               /\ mgr' = "blocked" /\ evq' = evq
      <4>1. /\ Block(c, Current).ropen = c.ropen
            /\ Pending(Block(c, Current)) = Append(Pending(c), Current)
        BY <2>1, <3>1, SenderEffects, PendingOf
      <4>2. Batch' = Tail(evq)  BY <3>4 DEF Batch
      <4>3. CASE r = Current.s  BY <1>0, <1>6, <2>1, <3>4, <4>1, <4>2, <4>3 DEF Moved, DispatchStream
      <4>4. CASE r # Current.s
        <5>1. chan'[r] = chan[r]  BY <1>0, <3>4, <4>4
        <5> QED  BY <2>1, <4>2, <4>4, <5>1 DEF Moved
      <4> QED  BY <4>3, <4>4
    <3> QED  BY <1>6, <2>3, <3>2, <3>3, <3>4 DEF DispatchStream
  <2> QED  BY <2>2, <2>3
<1>7. CASE Resume
  <2> DEFINE c == chan[Current.s]
  <2>1. /\ mgr = "blocked" /\ evq # <<>> /\ Current.s \in Requests /\ c \in Channels(Event)
    BY <1>0, <1>7 DEF Resume, TypeInv
  <2>2. CASE Sent(c)  BY <2>1, <2>2, SentMoved
  <2>3. CASE ~c.ropen /\ SendBroken(Unblock(c))
    <3>1. Unblock(c) \in Channels(Event) /\ Unblock(c).ropen = c.ropen
      BY <2>1, CloseType, EndEffects
    <3> QED  BY <2>1, <2>3, <3>1, BrokenMoved
  <2> QED  BY <1>7, <2>2, <2>3 DEF Resume
<1>8. CASE Expire \/ \E q \in Requests : ResetSend(q) \/ ResetResume(q)
  <2> DEFINE e == Ev("reset", r, 0)
  <2>1. mgr = "resets" /\ mgr' = mgr /\ ~Alive'
    BY <1>8 DEF Expire, ResetSend, ResetResume, Alive
  <2>2. e \in Event /\ chan[r] \in Channels(Event)  BY <1>0, TypedEvent DEF StreamKinds
  <2>3. CASE DropResets
    <3>1. Unblock(chan[r]) \in Channels(Event)  BY <2>2, CloseType
    <3>2. /\ Pending(CloseSend(Unblock(chan[r]))) = chan[r].buf
          /\ CloseSend(Unblock(chan[r])).ropen = chan[r].ropen
      BY <2>2, <3>1, PendingOf, EndEffects
    <3>3. chan'[r] \in {chan[r], CloseSend(Unblock(chan[r]))}  BY <2>3 DEF DropResets
    <3> QED  BY <2>1, <3>2, <3>3 DEF Moved
  <2>4. ASSUME NEW q \in Requests, ResetSend(q) \/ ResetResume(q), ~DropResets
        PROVE  Moved(r)
    <3>1. CASE q # r
      <4>1. chan'[r] = chan[r]  BY <1>0, <2>4, <3>1 DEF ResetSend, ResetResume
      <4> QED  BY <2>1, <4>1 DEF Moved
    <3>2. CASE q = r
      <4>1. \/ chan'[r] = CloseSend(chan[r])
            \/ /\ chan[r].snd = <<>>
               /\ chan'[r] \in {CloseSend(Put(chan[r], e)), Block(chan[r], e)}
        <5>1. ResetSend(r) => chan[r].snd = <<>>
          BY DEF ResetSend, PlaceInv, InPlace, Stations, Slot
        <5> QED  BY <1>0, <2>4, <3>2, <5>1 DEF ResetSend, ResetResume
      <4>2. CASE chan'[r] = CloseSend(chan[r])
        <5>1. Pending(chan'[r]) = Pending(chan[r]) /\ chan'[r].ropen = chan[r].ropen
          BY <2>2, <4>2, PendingOf, EndEffects
        <5> QED  BY <2>1, <5>1 DEF Moved
      <4>3. CASE /\ chan[r].snd = <<>>
                 /\ chan'[r] \in {CloseSend(Put(chan[r], e)), Block(chan[r], e)}
        <5>1. Put(chan[r], e) \in Channels(Event)  BY <2>2, PutType
        <5>2. /\ Put(chan[r], e).ropen = chan[r].ropen /\ Block(chan[r], e).ropen = chan[r].ropen
              /\ CloseSend(Put(chan[r], e)).ropen = Put(chan[r], e).ropen
          BY <2>2, <5>1, SenderEffects, EndEffects
        <5>3. /\ Pending(CloseSend(Put(chan[r], e))) = Pending(Put(chan[r], e))
              /\ Pending(Put(chan[r], e)) = Append(Pending(chan[r]), e)
              /\ Pending(Block(chan[r], e)) = Append(Pending(chan[r]), e)
          BY <2>2, <4>3, <5>1, PendingOf
        <5> QED  BY <2>1, <4>3, <5>2, <5>3 DEF Moved
      <4> QED  BY <4>1, <4>2, <4>3
    <3> QED  BY <3>1, <3>2
  <2> QED  BY <1>8, <2>3, <2>4 DEF Expire
<1> QED  BY <1>2, <1>3, <1>4, <1>5, <1>6, <1>7, <1>8 DEF ManagerNext

\* The parts of Fed, for a task that reads.
LEMMA FedParts ==
    ASSUME PlaceInv, NEW r \in Requests
    PROVE  /\ chan[r] \in Channels(Event) /\ Pending(chan[r]) \in Seq(Event)
           /\ chan[r].buf \in Seq(Event) /\ chan[r].snd \in Seq(Event)
           /\ Batch \in Seq(Event) /\ wire \in Seq(Event) /\ rcvd[r] \in Nat
           /\ sent[r] \in Nat /\ evq \in Seq(Event)
<1>1. /\ chan[r] \in Channels(Event) /\ evq \in Seq(Event) /\ wire \in Seq(Event)
      /\ rcvd[r] \in Nat /\ sent[r] \in Nat /\ TypeInv
  BY TypeParts DEF PlaceInv
<1>2. chan[r].buf \in Seq(Event) /\ chan[r].snd \in Seq(Event)  BY <1>1, ChannelFields
<1>3. Pending(chan[r]) \in Seq(Event)  BY <1>2 DEF Pending
<1>4. Batch \in Seq(Event)  BY <1>1, CurrentType DEF Batch, TypeInv
<1> QED  BY <1>1, <1>2, <1>3, <1>4

LEMMA MovedFed ==
    ASSUME PlaceInv, NEW r \in Requests, Fed(r), Moved(r),
           UNCHANGED <<phase, rcvd, sent, wire>>, Alive' => Alive,
           srvUp' # "aborted" => srvUp # "aborted"
    PROVE  Fed(r)'
<1> DEFINE A == Data(r)
           B == Signs(r)
           p == Pending(chan[r])
           n == rcvd[r]
<1>0. /\ p \in Seq(Event) /\ Batch \in Seq(Event) /\ wire \in Seq(Event) /\ n \in Nat
      /\ chan[r].buf \in Seq(Event) /\ chan[r].snd \in Seq(Event) /\ evq \in Seq(Event)
  BY FedParts
<1> SUFFICES ASSUME Reading(r)' PROVE Fed(r)'  BY DEF Fed
<1>1. /\ chan[r].ropen /\ Numbered(p, A, B, n) /\ \A i \in DOMAIN p : p[i].s = r
      /\ Alive => /\ Line(A, B, p, Batch, wire, n)
                  /\ srvUp # "aborted" => sent[r] = Total(A, p, Batch, wire, n)
  BY DEF Fed, Reading
<1>2. chan'[r].ropen  BY <1>1 DEF Moved
<1>3. A' = A /\ B' = B /\ rcvd'[r] = n /\ sent'[r] = sent[r] /\ wire' = wire  BY DEF Data, Signs
<1> HIDE DEF A, B, n
<1>4. ASSUME NEW q \in Seq(Event), Pending(chan'[r]) = q, Numbered(q, A, B, n),
             \A i \in DOMAIN q : q[i].s = r,
             Alive' => Line(A, B, q, Batch', wire, n)
                       /\ Total(A, q, Batch', wire, n) = Total(A, p, Batch, wire, n)
      PROVE  Fed(r)'
  <2>1. rcvd'[r] = n  BY <1>3
  <2>2. Alive' => /\ Line(A, B, Pending(chan'[r]), Batch', wire', n)
                  /\ srvUp' # "aborted" =>
                       sent'[r] = Total(A, Pending(chan'[r]), Batch', wire', n)
    BY <1>1, <1>3, <1>4
  <2>3. /\ \A i \in DOMAIN Pending(chan'[r]) : Pending(chan'[r])[i].s = r
        /\ Numbered(Pending(chan'[r]), A, B, n)
    BY <1>4
  <2> HIDE DEF p
  <2> QED  BY <1>2, <1>3, <2>1, <2>2, <2>3 DEF Fed, A, B
<1>5. CASE Pending(chan'[r]) = p /\ (~Alive' \/ Batch' = Batch)
  BY <1>0, <1>1, <1>4, <1>5
<1>6. CASE ~Alive' /\ Pending(chan'[r]) = chan[r].buf
  <2>1. p = chan[r].buf \o chan[r].snd  BY DEF Pending
  <2>2. Numbered(chan[r].buf, A, B, n)  BY <1>0, <1>1, <2>1, NumberedPart
  <2>3. \A i \in DOMAIN chan[r].buf : chan[r].buf[i].s = r
    <3> SUFFICES ASSUME NEW i \in DOMAIN chan[r].buf PROVE chan[r].buf[i].s = r  OBVIOUS
    <3> DEFINE s == chan[r].buf
               t == chan[r].snd
    <3>0. s \in Seq(Event) /\ t \in Seq(Event) /\ i \in DOMAIN s  BY <1>0
    <3> HIDE DEF s, t
    <3>2. i \in DOMAIN (s \o t) /\ (s \o t)[i] = s[i]
      <4>1. /\ Len(s) \in Nat /\ Len(t) \in Nat /\ DOMAIN s = 1 .. Len(s)
            /\ DOMAIN (s \o t) = 1 .. Len(s) + Len(t)
        BY <3>0
      <4> QED  BY <3>0, <4>1
    <3>1. i \in DOMAIN (chan[r].buf \o chan[r].snd)
          /\ (chan[r].buf \o chan[r].snd)[i] = chan[r].buf[i]
      BY <3>2 DEF s, t
    <3> QED  BY <1>1, <2>1, <3>1
  <2> QED  BY <1>0, <1>4, <1>6, <2>2, <2>3
<1>7. CASE ~Alive' /\ Pending(chan'[r]) = Append(p, Ev("reset", r, 0))
  <2> DEFINE e == Ev("reset", r, 0)
  <2>1. e \in Event /\ e.s = r /\ e.kind = "reset"  BY TypedEvent DEF Ev, StreamKinds
  <2>2. e \notin B  BY <2>1 DEF B, Signs
  <2> HIDE DEF e, p
  <2>3. Append(p, e) \in Seq(Event) /\ Numbered(Append(p, e), A, B, n)
    BY <1>0, <1>1, <2>1, <2>2, NumberedAppend DEF n
  <2>4. \A i \in DOMAIN Append(p, e) : Append(p, e)[i].s = r  BY <1>0, <1>1, <2>1
  <2> QED  BY <1>4, <1>7, <2>3, <2>4 DEF e
<1>8. CASE /\ mgr = "dispatch" /\ evq # <<>> /\ Current.s = r
           /\ Pending(chan'[r]) = Append(p, Current) /\ (Alive' => Batch' = Tail(evq))
  <2>1. Alive /\ Batch = evq /\ Current = Head(evq) /\ Current \in Event
    BY <1>8, CurrentType DEF Alive, Batch, Current, PlaceInv, SilentInv
  <2>2. Line(A, B, p, evq, wire, n)  BY <1>1, <2>1
  <2> HIDE DEF p
  <2>3. /\ Line(A, B, Append(p, Head(evq)), Tail(evq), wire, n)
        /\ Total(A, Append(p, Head(evq)), Tail(evq), wire, n) = Total(A, p, evq, wire, n)
    BY <1>0, <1>8, <2>2, LineMove
  <2>4. /\ Append(p, Current) \in Seq(Event) /\ Numbered(Append(p, Current), A, B, n)
    BY <1>0, <2>1, <2>3 DEF Line
  <2>5. \A i \in DOMAIN Append(p, Current) : Append(p, Current)[i].s = r
    BY <1>0, <1>1, <1>8, <2>1
  <2> QED  BY <1>4, <1>8, <2>1, <2>3, <2>4, <2>5
<1>9. CASE /\ mgr = "dispatch" /\ evq # <<>>
           /\ Current.s # r \/ Current.kind \notin StreamKinds
           /\ Pending(chan'[r]) = p /\ Batch' = Tail(evq)
  <2>1. Alive /\ Batch = evq /\ Current = Head(evq)
    BY <1>9 DEF Alive, Batch, Current
  <2>2. Line(A, B, p, evq, wire, n) /\ Head(evq) \notin A \cup B
    BY <1>1, <1>9, <2>1 DEF A, B, Data, Signs, StreamKinds
  <2> HIDE DEF p
  <2>3. /\ Line(A, B, p, Tail(evq), wire, n)
        /\ Total(A, p, Tail(evq), wire, n) = Total(A, p, evq, wire, n)
    BY <1>0, <1>9, <2>2, LineMove
  <2> QED  BY <1>0, <1>1, <1>4, <1>9, <2>1, <2>3
<1> QED  BY <1>1, <1>5, <1>6, <1>7, <1>8, <1>9 DEF Moved

LEMMA ReceiveFed ==
    ASSUME PlaceInv, Receive, NEW r \in Requests, Fed(r), Quiet(r)
    PROVE  Fed(r)'
<1> DEFINE A == Data(r)
           B == Signs(r)
           p == Pending(chan[r])
           n == rcvd[r]
<1>0. /\ p \in Seq(Event) /\ wire \in Seq(Event) /\ n \in Nat
  BY FedParts
<1> SUFFICES ASSUME Reading(r)' PROVE Fed(r)'  BY DEF Fed
<1>1. UNCHANGED <<chan, phase, rcvd, sent, srvUp>> /\ Alive
  BY DEF Receive, consumer, Alive
<1>2. /\ chan[r].ropen /\ Numbered(p, A, B, n) /\ \A i \in DOMAIN p : p[i].s = r
      /\ Line(A, B, p, Batch, wire, n)
      /\ srvUp # "aborted" => sent[r] = Total(A, p, Batch, wire, n)
  BY <1>1 DEF Fed, Reading
<1>3. Batch = <<>> /\ wire' = <<>>
  BY ReceiveBatch DEF Batch, Receive
<1>4. CASE ~Alive'
  <2>1. Pending(chan[r])' = p /\ rcvd'[r] = n /\ A' = A /\ B' = B /\ chan'[r] = chan[r]
    BY <1>1 DEF Data, Signs
  <2> QED  BY <1>2, <1>4, <2>1 DEF Fed
<1>5. CASE mgr' = "dispatch"
  <2>1. /\ evq' \in Seq(Event) /\ Len(evq') = Len(wire)
        /\ \A i \in 1 .. Len(wire) : /\ evq'[i].s = wire[i].s
                                     /\ Visible(wire[i]) => evq'[i] = wire[i]
    BY <1>5, ReceiveBatch DEF Alive
  <2>2. ASSUME NEW i \in 1 .. Len(wire)
        PROVE  wire[i] = evq'[i] \/ (wire[i] \notin A \cup B /\ evq'[i] \notin A \cup B)
    <3>1. CASE wire[i].s = r
      <4>1. i \in DOMAIN wire  BY <1>0
      <4>2. ~NoneOf(r, wire)  BY <3>1, <4>1 DEF NoneOf
      <4>3. st[r] \notin {"idle", "closed", "gone"}  BY <1>1, <4>2 DEF Quiet, Reading
      <4> QED  BY <2>1, <3>1, <4>3 DEF Visible
    <3>2. CASE wire[i].s # r  BY <2>1, <3>2 DEF Data, Signs
    <3> QED  BY <3>1, <3>2
  <2> HIDE DEF A, B, p, n
  <2>3. /\ Line(A, B, p, evq', <<>>, n)
        /\ Total(A, p, evq', <<>>, n) = Total(A, p, <<>>, wire, n)
    BY <1>0, <1>2, <1>3, <2>1, <2>2, LineArrive
  <2>4. Batch' = evq'  BY <1>5 DEF Batch
  <2>5. /\ Pending(chan'[r]) = p /\ rcvd'[r] = n /\ A' = A /\ B' = B /\ chan'[r] = chan[r]
    BY <1>1 DEF A, B, p, n, Data, Signs
  <2>6. /\ Line(A, B, p, Batch', wire', n)
        /\ srvUp' # "aborted" => sent'[r] = Total(A, p, Batch', wire', n)
    BY <1>1, <1>2, <1>3, <2>3, <2>4
  <2> QED  BY <1>2, <2>5, <2>6 DEF Fed, A, B
<1> QED  BY <1>4, <1>5, ReceiveBatch DEF Alive

LEMMA ManagerFed ==
    ASSUME PlaceInv, ManagerNext, NEW r \in Requests, Fed(r), Quiet(r)
    PROVE  Fed(r)'
<1>1. Alive' => Alive
  <2>1. CASE Receive \/ DispatchStream \/ Resume \/ DispatchPing \/ DispatchIgnored \/ BatchDone
    BY <2>1 DEF Receive, DispatchStream, Resume, DispatchPing, DispatchIgnored, BatchDone, Alive
  <2>2. CASE ReceiveEof \/ ReceiveBroken \/ DispatchGoAway \/ Cancelled \/ CloseTransport
    BY <2>2 DEF ReceiveEof, ReceiveBroken, DispatchGoAway, Cancelled, CloseTransport,
               Crash, LeaveLoop, Alive
  <2>3. CASE Expire \/ \E q \in Requests : ResetSend(q) \/ ResetResume(q)
    BY <2>3 DEF Expire, ResetSend, ResetResume, Alive
  <2> QED  BY <2>1, <2>2, <2>3 DEF ManagerNext
<1>2. CASE Receive  BY <1>2, ReceiveFed
<1>3. CASE ~Receive
  <2>1. Moved(r)  BY <1>3, ManagerMoves
  <2>2. UNCHANGED <<phase, rcvd, sent, wire, srvUp>>  BY <1>3, ManagerTouches
  <2> QED  BY <1>1, <2>1, <2>2, MovedFed
<1> QED  BY <1>2, <1>3

-----------------------------------------------------------------------------
\* The tasks.  A task that takes what is first of what is pending is given it
\* in its turn.
LEMMA OthersFeed ==
    ASSUME PlaceInv, NEW r \in Requests, Unused(r), Quiet(r), Fed(r),
           chan'[r] = chan[r], rcvd'[r] = rcvd[r], phase'[r] = phase[r], result'[r] = result[r],
           UNCHANGED <<mgr, evq, sent, ended, wire, srvUp>>,
           srv'[r] \in {srv[r], "done"},
           \/ st'[r] = st[r]
           \/ st[r] \in {"half_remote", "closed"} /\ st'[r] \in {"closed", "gone"}
           \/ st[r] = "open" /\ st'[r] = "half_local"
    PROVE  Unused(r)' /\ Quiet(r)' /\ Fed(r)'
<1>1. Reading(r)' <=> Reading(r)  BY DEF Reading
<1>2. Unused(r)'  BY DEF Unused, NoneOf
<1>3. Quiet(r)'  BY <1>1 DEF Quiet, NoneOf
<1>4. Batch' = Batch /\ (Alive' <=> Alive)  BY DEF Batch, Alive
<1>5. Fed(r)'
  <2> SUFFICES ASSUME Reading(r)' PROVE Fed(r)'  BY DEF Fed
  <2> DEFINE A == Data(r)
             B == Signs(r)
             p == Pending(chan[r])
             n == rcvd[r]
  <2>1. /\ Pending(chan'[r]) = p /\ rcvd'[r] = n /\ A' = A /\ B' = B
    BY DEF Data, Signs
  <2>2. /\ chan[r].ropen /\ Numbered(p, A, B, n) /\ \A i \in DOMAIN p : p[i].s = r
        /\ Alive => /\ Line(A, B, p, Batch, wire, n)
                    /\ srvUp # "aborted" => sent[r] = Total(A, p, Batch, wire, n)
    BY <1>1 DEF Fed
  <2> HIDE DEF A, B, p, n
  <2>3. Alive' => /\ Line(A, B, p, Batch', wire', n)
                  /\ srvUp' # "aborted" => sent'[r] = Total(A, p, Batch', wire', n)
    BY <1>4, <2>2
  <2> QED  BY <2>1, <2>2, <2>3 DEF Fed, A, B
<1> QED  BY <1>2, <1>3, <1>5

LEMMA SendRequestFeed ==
    ASSUME PlaceInv, Feed, NEW r \in Requests, SendRequest(r)
    PROVE  Feed'
<1>1. /\ chan' = chan /\ rcvd' = rcvd /\ UNCHANGED <<mgr, evq, sent, ended, wire, srvUp>>
      /\ phase[r] = "idle" /\ phase'[r] \in {"head", "failed"}
      /\ \A q \in Requests \ {r} : phase'[q] = phase[q] /\ result'[q] = result[q]
      /\ st'[r] \in {"open", "half_local"}
      /\ \A q \in Requests \ {r} : st'[q] = st[q] \/ (st[q] = "closed" /\ st'[q] = "gone")
      /\ \A q \in Requests \ {r} : srv'[q] \in {srv[q], "done"}
  <2>1. /\ phase \in [Requests -> Phases] /\ result \in [Requests -> Results]
        /\ st \in [Requests -> {"idle", "open", "half_local", "half_remote", "closed", "gone"}]
    BY TypeParts DEF PlaceInv, SilentInv, TypeInv, TypeOK
  <2> QED  BY <2>1 DEF SendRequest, Flush, Evicted
<1>2. /\ chan[r] = Fresh /\ rcvd[r] = 0 /\ sent[r] = 0 /\ NoneOf(r, evq) /\ NoneOf(r, wire)
  BY <1>1 DEF Feed, Unused
<1>3. ASSUME NEW q \in Requests, q # r PROVE Unused(q)' /\ Quiet(q)' /\ Fed(q)'
  BY <1>1, <1>3, OthersFeed DEF Feed
<1>4. Unused(r)'  BY <1>1 DEF Unused
<1>5. Quiet(r)'  BY <1>1, <1>2 DEF Quiet, NoneOf
<1>6. Fed(r)'
  <2>0. /\ Batch \in Seq(Event) /\ wire \in Seq(Event) /\ evq \in Seq(Event)
        /\ mgr = "blocked" => evq # <<>>
    BY FedParts DEF PlaceInv, SilentInv, TypeInv
  <2>1. Pending(Fresh) = <<>> /\ Fresh.ropen  BY DEF Pending, Fresh
  <2>2. NoneOf(r, Batch)  BY <1>2, <2>0, NoneOfTail DEF Batch
  <2>3. ASSUME NEW q \in Seq(Event), NoneOf(r, q)
        PROVE  Count(q, Data(r)) = 0 /\ Numbered(q, Data(r), Signs(r), 0)
    <3>1. \A i \in DOMAIN q : q[i] \notin Data(r) /\ q[i] \notin Signs(r)
      BY <2>3 DEF NoneOf, Data, Signs
    <3> QED  BY <3>1, CountNone, NumberedNone
  <2>4. /\ Count(<<>>, Data(r)) = 0 /\ Numbered(<<>>, Data(r), Signs(r), 0)
    <3>1. NoneOf(r, <<>>) /\ <<>> \in Seq(Event)  BY DEF NoneOf
    <3> QED  BY <2>3, <3>1
  <2>5. /\ Line(Data(r), Signs(r), <<>>, Batch, wire, 0)
        /\ Total(Data(r), <<>>, Batch, wire, 0) = 0
    BY <1>2, <2>0, <2>2, <2>3, <2>4 DEF Line, Total
  <2>6. Batch' = Batch /\ wire' = wire /\ sent'[r] = 0 /\ rcvd'[r] = 0 /\ chan'[r] = Fresh
        /\ Data(r)' = Data(r) /\ Signs(r)' = Signs(r)
    BY <1>1, <1>2 DEF Batch, Data, Signs
  <2> QED  BY <2>1, <2>4, <2>5, <2>6 DEF Fed
<1> QED  BY <1>3, <1>4, <1>5, <1>6 DEF Feed

\* r's task stops reading, or does something to its own stream.
LEMMA StopsFeed ==
    ASSUME PlaceInv, Feed, NEW r \in Requests, phase[r] # "idle",
           phase'[r] \notin {"idle", "head", "open"},
           \A q \in Requests \ {r} :
              /\ chan'[q] = chan[q] /\ rcvd'[q] = rcvd[q] /\ phase'[q] = phase[q]
              /\ result'[q] = result[q] /\ st'[q] = st[q],
           \A q \in Requests : srv'[q] \in {srv[q], "done"},
           UNCHANGED <<mgr, evq, sent, ended, wire, srvUp>>
    PROVE  Feed'
<1>1. ASSUME NEW q \in Requests, q # r PROVE Unused(q)' /\ Quiet(q)' /\ Fed(q)'
  BY <1>1, OthersFeed DEF Feed
<1>2. Unused(r)' /\ Fed(r)'  BY DEF Unused, Fed, Reading
<1>3. Quiet(r)'  BY DEF Feed, Quiet, Reading
<1> QED  BY <1>1, <1>2, <1>3 DEF Feed

LEMMA SendEofFeed ==
    ASSUME PlaceInv, Feed, NEW r \in Requests, SendEof(r)
    PROVE  Feed'
<1>1. /\ UNCHANGED <<chan, rcvd, phase, result, mgr, evq, sent, ended, wire, srvUp>>
      /\ \A q \in Requests : srv'[q] \in {srv[q], "done"}
      /\ \A q \in Requests :
            \/ st'[q] = st[q]
            \/ st[q] = "half_remote" /\ st'[q] = "closed"
            \/ st[q] = "open" /\ st'[q] = "half_local"
  <2>1. st \in [Requests -> {"idle", "open", "half_local", "half_remote", "closed", "gone"}]
    BY DEF PlaceInv, SilentInv, TypeInv, TypeOK
  <2> QED  BY <2>1 DEF SendEof, Flush, consumer, manager
<1> QED  BY <1>1, OthersFeed DEF Feed

LEMMA CancelCloseFeed ==
    ASSUME PlaceInv, Feed, NEW r \in Requests, Cancel(r) \/ Close(r)
    PROVE  Feed'
<1>0. /\ phase \in [Requests -> Phases] /\ result \in [Requests -> Results]
      /\ chan \in [Requests -> Channels(Event)]
      /\ st \in [Requests -> {"idle", "open", "half_local", "half_remote", "closed", "gone"}]
  BY TypeParts DEF PlaceInv, SilentInv, TypeInv, TypeOK
<1>1. CASE Cancel(r)
  <2>1. /\ phase[r] # "idle" /\ phase'[r] \in {"failed", "raised"} /\ UNCHANGED <<h2, rcvd, manager, network>>
        /\ \A q \in Requests \ {r} :
              chan'[q] = chan[q] /\ phase'[q] = phase[q] /\ result'[q] = result[q]
    BY <1>0, <1>1 DEF Cancel, Outcome, Reading
  <2> QED  BY <2>1, StopsFeed DEF h2, manager, network
<1>2. CASE Close(r)
  <2>1. \E v : Outcome(r, "closed", v)  BY <1>2 DEF Close
  <2>2. /\ phase[r] # "idle" /\ UNCHANGED <<mgr, evq, rcvd>>
        /\ \A q \in Requests \ {r} : chan'[q] = chan[q] /\ st'[q] = st[q]
        /\ Flush({}, {r}) \/ UNCHANGED network
    BY <1>0, <1>2 DEF Close
  <2>3. /\ UNCHANGED <<sent, ended, wire, srvUp>>
        /\ \A q \in Requests : srv'[q] \in {srv[q], "done"}
    BY <2>2 DEF Flush, network
  <2>4. phase'[r] = "closed" /\ \A q \in Requests \ {r} : phase'[q] = phase[q] /\ result'[q] = result[q]
    BY <1>0, <2>1 DEF Outcome
  <2> QED  BY <2>2, <2>3, <2>4, StopsFeed
<1> QED  BY <1>1, <1>2

LEMMA ReaderFeed ==
    ASSUME PlaceInv, Feed, NEW r \in Requests, Reader(r)
    PROVE  Feed'
<1> DEFINE A == Data(r)
           B == Signs(r)
           c == chan[r]
           p == Pending(c)
           n == rcvd[r]
<1>0. /\ p \in Seq(Event) /\ Batch \in Seq(Event) /\ wire \in Seq(Event) /\ n \in Nat
      /\ SilentInv /\ c \in Channels(Event)
      /\ phase \in [Requests -> Phases] /\ result \in [Requests -> Results]
      /\ chan \in [Requests -> Channels(Event)] /\ rcvd \in [Requests -> Nat]
  BY FedParts, TypeParts DEF PlaceInv
<1>1. /\ UNCHANGED <<h2, manager, server>> /\ Reading(r)
      /\ UNCHANGED <<mgr, evq, sent, ended, wire, srvUp, st, srv>> /\ phase[r] # "idle"
      /\ UNCHANGED <<Batch, Alive>>
  BY <1>0, ReaderSteps DEF h2, manager, server, network, Reading, Batch, Alive
<1>2. /\ c.ropen /\ Numbered(p, A, B, n) /\ \A i \in DOMAIN p : p[i].s = r
      /\ Alive => /\ Line(A, B, p, Batch, wire, n)
                  /\ srvUp # "aborted" => sent[r] = Total(A, p, Batch, wire, n)
  BY <1>1 DEF Feed, Fed
<1>3. PICK d \in Channels(Event) :
        \/ TookFirst(c, d) /\ Handle(r, Head(p), d)
        \/ Same(c, d) /\ EndOfChannel(r, d)
        \/ Same(c, d) /\ chan' = [chan EXCEPT ![r] = d] /\ UNCHANGED consumer
  BY <1>0, ReaderSteps
<1>4. ASSUME \A q \in Requests \ {r} : /\ phase'[q] = phase[q] /\ rcvd'[q] = rcvd[q]
                                        /\ result'[q] = result[q] /\ chan'[q] = chan[q],
             phase'[r] \notin {"idle", "head", "open"}
      PROVE  Feed'
  BY <1>1, <1>4, StopsFeed
<1>5. ASSUME \A q \in Requests \ {r} : /\ phase'[q] = phase[q] /\ rcvd'[q] = rcvd[q]
                                        /\ result'[q] = result[q] /\ chan'[q] = chan[q],
             phase'[r] \in {"head", "open"}, Fed(r)'
      PROVE  Feed'
  <2>1. ASSUME NEW q \in Requests, q # r PROVE Unused(q)' /\ Quiet(q)' /\ Fed(q)'
    BY <1>1, <1>5, <2>1, OthersFeed DEF Feed
  <2>2. Unused(r)' /\ Quiet(r)'  BY <1>1, <1>5 DEF Feed, Unused, Quiet, NoneOf, Reading
  <2> QED  BY <1>5, <2>1, <2>2 DEF Feed
<1>6. ASSUME chan'[r] = d, d.ropen, NEW q \in Seq(Event), Pending(d) = q, NEW m, rcvd'[r] = m,
             \A i \in DOMAIN q : q[i].s = r, Numbered(q, A, B, m),
             Alive => Line(A, B, q, Batch, wire, m)
                      /\ Total(A, q, Batch, wire, m) = Total(A, p, Batch, wire, n)
      PROVE  Fed(r)'
  <2> HIDE DEF A, B, p, n
  <2>1. A' = A /\ B' = B  BY DEF A, B, Data, Signs
  <2>2. Alive' => /\ Line(A, B, q, Batch', wire', m)
                  /\ srvUp' # "aborted" => sent'[r] = Total(A, q, Batch', wire', m)
    BY <1>1, <1>2, <1>6
  <2> QED  BY <1>6, <2>1, <2>2 DEF Fed, A, B
<1>7. CASE TookFirst(c, d) /\ Handle(r, Head(p), d)
  <2> DEFINE e == Head(p)
  <2>1. p # <<>> /\ Pending(d) = Tail(p) /\ d.ropen = c.ropen /\ e \in Event /\ Tail(p) \in Seq(Event)
    BY <1>0, <1>7 DEF TookFirst
  <2>2. /\ \A q \in Requests \ {r} : /\ phase'[q] = phase[q] /\ rcvd'[q] = rcvd[q]
                                      /\ result'[q] = result[q] /\ chan'[q] = chan[q]
        /\ \/ phase'[r] \in {"failed", "closed", "raised"}
           \/ /\ e.kind = "response" /\ chan'[r] = d /\ phase'[r] = "open" /\ rcvd' = rcvd
           \/ /\ phase[r] = "open" /\ e.kind = "data" /\ chan'[r] = d /\ phase' = phase
              /\ rcvd' = [rcvd EXCEPT ![r] = @ + 1]
    BY <1>0, <1>7, <2>1, HandleCases
  <2>3. e.s = r /\ \A i \in DOMAIN Tail(p) : Tail(p)[i].s = r  BY <1>0, <1>2, <2>1
  <2> DEFINE m == n + IF Head(p) \in A THEN 1 ELSE 0
  <2>4. /\ Numbered(Tail(p), A, B, m)
        /\ Alive => Line(A, B, Tail(p), Batch, wire, m)
                    /\ Total(A, Tail(p), Batch, wire, m) = Total(A, p, Batch, wire, n)
    <3> HIDE DEF A, B, p, n
    <3> QED  BY <1>0, <1>2, <2>1, NumberedTail, LineTake
  <2>5. CASE phase'[r] \in {"failed", "closed", "raised"}  BY <1>4, <2>2, <2>5
  <2>6. CASE e.kind = "response" /\ chan'[r] = d /\ phase'[r] = "open" /\ rcvd' = rcvd
    <3>1. rcvd'[r] = m  BY <1>0, <2>6 DEF Data
    <3>2. Fed(r)'
      <4> HIDE DEF A, B, p, n, m
      <4> QED  BY <1>2, <1>6, <2>1, <2>3, <2>4, <2>6, <3>1
    <3> QED  BY <1>5, <2>2, <2>6, <3>2
  <2>7. CASE /\ phase[r] = "open" /\ e.kind = "data" /\ chan'[r] = d /\ phase' = phase
             /\ rcvd' = [rcvd EXCEPT ![r] = @ + 1]
    <3>1. rcvd'[r] = m  BY <1>0, <2>1, <2>3, <2>7 DEF Data
    <3>2. Fed(r)'
      <4> HIDE DEF A, B, p, n, m
      <4> QED  BY <1>2, <1>6, <2>1, <2>3, <2>4, <2>7, <3>1
    <3> QED  BY <1>5, <2>2, <2>7, <3>2
  <2> QED  BY <2>2, <2>5, <2>6, <2>7
<1>8. CASE Same(c, d) /\ EndOfChannel(r, d)
  <2>1. phase'[r] \in {"failed", "raised"}
        /\ \A q \in Requests \ {r} : /\ phase'[q] = phase[q] /\ rcvd'[q] = rcvd[q]
                                      /\ result'[q] = result[q] /\ chan'[q] = chan[q]
    BY <1>0, <1>8 DEF EndOfChannel, Outcome
  <2> QED  BY <1>4, <2>1
<1>9. CASE Same(c, d) /\ chan' = [chan EXCEPT ![r] = d] /\ UNCHANGED consumer
  <2>1. /\ chan'[r] = d /\ Pending(d) = p /\ d.ropen /\ rcvd'[r] = n /\ phase'[r] = phase[r]
        /\ \A q \in Requests \ {r} : /\ phase'[q] = phase[q] /\ rcvd'[q] = rcvd[q]
                                      /\ result'[q] = result[q] /\ chan'[q] = chan[q]
    BY <1>0, <1>2, <1>9 DEF Same, Pending, consumer
  <2>2. Fed(r)'
    <3> HIDE DEF A, B, p, n
    <3> QED  BY <1>0, <1>2, <1>6, <2>1
  <2> QED  BY <1>1, <1>5, <2>1, <2>2 DEF Reading
<1> QED  BY <1>3, <1>7, <1>8, <1>9

-----------------------------------------------------------------------------
\* The server puts a frame on the wire.
LEMMA PutFeed ==
    ASSUME PlaceInv, NEW r \in Requests, Unused(r), Quiet(r), Fed(r), OthersWait,
           srvUp' = srvUp, srvUp = "up", NEW e \in Event, wire' = Append(wire, e),
           e.s = r => srv[r] \in {"open", "body"},
           e.s = r /\ e.kind \in Final => srv'[r] = "done",
           e.s # r => srv'[r] = srv[r] /\ (r \in ended' => r \in ended),
           sent'[r] = sent[r] + (IF e \in Data(r) THEN 1 ELSE 0),
           e \in Signs(r) => e.n = sent'[r]
    PROVE  Unused(r)' /\ Quiet(r)' /\ Fed(r)'
<1>0. /\ wire \in Seq(Event) /\ Batch \in Seq(Event) /\ rcvd[r] \in Nat
      /\ Pending(chan[r]) \in Seq(Event)
  BY FedParts
<1>1. /\ UNCHANGED <<phase, result, rcvd, chan, mgr, evq, st>>
  BY DEF OthersWait, h2, manager, consumer
<1>2. Reading(r)' <=> Reading(r)  BY <1>1 DEF Reading
<1>3. Unused(r)'
  <2> SUFFICES ASSUME phase[r] = "idle" PROVE Unused(r)'  BY <1>1 DEF Unused
  <2>1. e.s # r  BY DEF Unused
  <2>2. NoneOf(r, wire')  BY <1>0, <2>1, NoneOfAppend DEF Unused
  <2>3. e \notin Data(r)  BY <2>1 DEF Data
  <2>4. sent'[r] = 0  BY <2>3 DEF Unused
  <2>5. NoneOf(r, evq')  BY <1>1 DEF Unused
  <2> QED  BY <1>1, <2>1, <2>2, <2>4, <2>5 DEF Unused
<1>4. Quiet(r)'
  <2>1. ASSUME NEW i \in DOMAIN wire', wire'[i].s = r, wire'[i].kind \in Final
        PROVE  srv'[r] = "done"
    <3>1. \/ i \in DOMAIN wire /\ wire'[i] = wire[i]
          \/ wire'[i] = e
      BY <1>0, <2>1
    <3>2. CASE i \in DOMAIN wire /\ wire'[i] = wire[i]
      <4>1. srv[r] = "done"  BY <2>1, <3>2 DEF Quiet
      <4> QED  BY <4>1
    <3> QED  BY <2>1, <3>1, <3>2
  <2>2. Reading(r)' => st'[r] # "idle"  BY <1>1, <1>2 DEF Quiet
  <2>3. ASSUME Reading(r)', st'[r] \in {"half_remote", "closed", "gone"}
        PROVE  srv'[r] = "done" /\ NoneOf(r, wire')
    <3>1. srv[r] = "done" /\ NoneOf(r, wire)  BY <1>1, <1>2, <2>3 DEF Quiet
    <3>2. e.s # r  BY <3>1
    <3> QED  BY <1>0, <3>1, <3>2, NoneOfAppend
  <2> QED  BY <2>1, <2>2, <2>3 DEF Quiet
<1>5. Fed(r)'
  <2> SUFFICES ASSUME Reading(r)' PROVE Fed(r)'  BY DEF Fed
  <2> DEFINE A == Data(r)
             B == Signs(r)
             p == Pending(chan[r])
             n == rcvd[r]
  <2>1. /\ Pending(chan'[r]) = p /\ rcvd'[r] = n /\ A' = A /\ B' = B /\ chan'[r] = chan[r]
        /\ Batch' = Batch /\ (Alive' <=> Alive)
    BY <1>1 DEF Data, Signs, Batch, Alive
  <2>2. /\ chan[r].ropen /\ Numbered(p, A, B, n) /\ \A i \in DOMAIN p : p[i].s = r
        /\ Alive => /\ Line(A, B, p, Batch, wire, n)
                    /\ srvUp # "aborted" => sent[r] = Total(A, p, Batch, wire, n)
    BY <1>2 DEF Fed
  <2>3. /\ sent'[r] = sent[r] + (IF e \in A THEN 1 ELSE 0) /\ (e \in B => e.n = sent'[r])
    OBVIOUS
  <2> HIDE DEF A, B, p, n
  <2>4. ASSUME Alive
        PROVE  Line(A, B, p, Batch, wire', n) /\ sent'[r] = Total(A, p, Batch, wire', n)
    <3>1. e \in B => e.n = Total(A, p, Batch, wire, n) + IF e \in A THEN 1 ELSE 0
      BY <2>2, <2>3, <2>4
    <3>2. p \in Seq(Event) /\ n \in Nat  BY <1>0 DEF p, n
    <3>3. /\ Line(A, B, p, Batch, Append(wire, e), n)
          /\ Total(A, p, Batch, Append(wire, e), n)
               = Total(A, p, Batch, wire, n) + IF e \in A THEN 1 ELSE 0
      BY <1>0, <2>2, <2>4, <3>1, <3>2, LinePut
    <3> QED  BY <2>2, <2>3, <2>4, <3>3
  <2> QED  BY <2>1, <2>2, <2>4 DEF Fed, A, B
<1> QED  BY <1>3, <1>4, <1>5

LEMMA ServerFeed ==
    ASSUME PlaceInv, Feed, NEW q \in Requests, Server(q)
    PROVE  Feed'
<1> SUFFICES ASSUME NEW r \in Requests PROVE Unused(r)' /\ Quiet(r)' /\ Fed(r)'
  BY DEF Feed
<1>0. /\ Unused(r) /\ Quiet(r) /\ Fed(r) /\ srvUp = "up" /\ OthersWait
      /\ sent \in [Requests -> Nat] /\ srv \in [Requests -> {"none", "open", "body", "done"}]
  BY OthersWaitSteps, TypeParts DEF Feed, PlaceInv
<1>1. ASSUME NEW kind \in {"response", "reset", "window"}, Transmit(Ev(kind, q, 0)),
             srv[q] \in {"open", "body"}, UNCHANGED <<sent, ended, srvUp>>,
             kind = "reset" => srv'[q] = "done",
             \A o \in Requests \ {q} : srv'[o] = srv[o]
      PROVE  Unused(r)' /\ Quiet(r)' /\ Fed(r)'
  <2> DEFINE e == Ev(kind, q, 0)
  <2>1. e \in Event /\ e.s = q /\ e.kind = kind  BY TypedEvent DEF Ev, StreamKinds
  <2>2. e \notin Data(r) /\ e \notin Signs(r)  BY <2>1 DEF Data, Signs
  <2>3. wire' = Append(wire, e)  BY <1>1 DEF Transmit
  <2>4. sent'[r] = sent[r] + (IF e \in Data(r) THEN 1 ELSE 0)  BY <1>0, <1>1, <2>2
  <2> HIDE DEF e
  <2> QED  BY <1>0, <1>1, <2>1, <2>2, <2>3, <2>4, PutFeed DEF Final
<1>2. CASE SendData(q)
  <2> DEFINE e == Ev("data", q, sent[q] + 1)
  <2>1. e \in Event /\ e.s = q /\ e.kind = "data" /\ e.n = sent[q] + 1
    BY <1>0, TypedEvent DEF Ev, StreamKinds
  <2>2. /\ e \in Data(r) <=> r = q
        /\ e \in Signs(r) <=> r = q
    BY <2>1 DEF Data, Signs
  <2>3. /\ wire' = Append(wire, e) /\ srv[q] = "body" /\ UNCHANGED <<srv, ended, srvUp>>
        /\ sent' = [sent EXCEPT ![q] = @ + 1]
    BY <1>2 DEF SendData, Transmit
  <2>4. /\ sent'[r] = sent[r] + (IF e \in Data(r) THEN 1 ELSE 0)
        /\ e \in Signs(r) => e.n = sent'[r]
    BY <1>0, <2>1, <2>2, <2>3
  <2> HIDE DEF e
  <2> QED  BY <1>0, <2>1, <2>3, <2>4, PutFeed DEF Final
<1>3. CASE EndStream(q)
  <2> DEFINE e == Ev("end", q, sent[q])
  <2>1. e \in Event /\ e.s = q /\ e.kind = "end" /\ e.n = sent[q]
    BY <1>0, TypedEvent DEF Ev, StreamKinds
  <2>2. e \notin Data(r) /\ (e \in Signs(r) => r = q)  BY <2>1 DEF Data, Signs
  <2>3. /\ wire' = Append(wire, e) /\ srv[q] = "body" /\ UNCHANGED <<sent, srvUp>>
        /\ srv' = [srv EXCEPT ![q] = "done"] /\ ended' = ended \cup {q}
    BY <1>3 DEF EndStream, Transmit
  <2>4. /\ sent'[r] = sent[r] + (IF e \in Data(r) THEN 1 ELSE 0)
        /\ e \in Signs(r) => e.n = sent'[r]
    BY <1>0, <2>1, <2>2, <2>3
  <2>5. /\ srv'[q] = "done" /\ \A o \in Requests \ {q} : srv'[o] = srv[o]
    BY <1>0, <2>3
  <2> HIDE DEF e
  <2> QED  BY <1>0, <2>1, <2>3, <2>4, <2>5, PutFeed DEF Final
<1>4. CASE Respond(q)
  BY <1>0, <1>1, <1>4 DEF Respond
<1>5. CASE ServerReset(q)
  BY <1>0, <1>1, <1>5 DEF ServerReset
<1>6. CASE ServerWindow(q)
  BY <1>0, <1>1, <1>6 DEF ServerWindow
<1> QED  BY <1>2, <1>3, <1>4, <1>5, <1>6 DEF Server

\* Frames of no stream, and the end of the transport.
LEMMA TransportFeed ==
    ASSUME PlaceInv, Feed, ServerPing \/ GoAway \/ ServerClose \/ Abort \/ AClose
    PROVE  Feed'
<1> SUFFICES ASSUME NEW r \in Requests PROVE Unused(r)' /\ Quiet(r)' /\ Fed(r)'
  BY DEF Feed
<1>0. /\ Unused(r) /\ Quiet(r) /\ Fed(r) /\ sent \in [Requests -> Nat]
  BY TypeParts DEF Feed, PlaceInv
<1>1. CASE ServerPing \/ GoAway
  <2>1. PICK kind \in {"ping", "goaway"} : Transmit(Ev(kind, Zero, 0))
    BY <1>1 DEF ServerPing, GoAway
  <2> DEFINE e == Ev(kind, Zero, 0)
  <2>2. e \in Event /\ e.s = Zero /\ Zero # r  BY TypedEvent, HTTP2Assumption DEF Ev
  <2>3. e \notin Data(r) /\ e \notin Signs(r)  BY <2>2 DEF Data, Signs
  <2>4. /\ wire' = Append(wire, e) /\ UNCHANGED <<srv, sent, ended, srvUp>> /\ OthersWait
        /\ srvUp = "up"
    BY <1>1, <2>1, OthersWaitSteps DEF ServerPing, GoAway, Transmit
  <2>5. sent'[r] = sent[r] + (IF e \in Data(r) THEN 1 ELSE 0)  BY <1>0, <2>3, <2>4
  <2> HIDE DEF e
  <2> QED  BY <1>0, <2>2, <2>3, <2>4, <2>5, PutFeed
<1>2. CASE AClose
  <2>1. UNCHANGED <<chan, rcvd, phase, result, mgr, evq, sent, ended, wire, srvUp, srv, st>>
    BY <1>2 DEF AClose, h2, consumer, network
  <2> QED  BY <1>0, <2>1, OthersFeed
<1>3. CASE ServerClose \/ Abort
  <2>1. /\ UNCHANGED <<chan, rcvd, phase, result, mgr, evq, sent, ended, srv, st>>
        /\ srvUp = "up" /\ (wire' = wire \/ (wire' = <<>> /\ srvUp' = "aborted"))
    BY <1>3 DEF ServerClose, Abort, ServerTurn, OthersWait, h2, manager, consumer
  <2>2. Reading(r)' <=> Reading(r)  BY <2>1 DEF Reading
  <2>3. Unused(r)' /\ Quiet(r)'  BY <1>0, <2>1, <2>2 DEF Unused, Quiet, NoneOf
  <2>4. Fed(r)'
    <3> SUFFICES ASSUME Reading(r)' PROVE Fed(r)'  BY DEF Fed
    <3> DEFINE A == Data(r)
               B == Signs(r)
               p == Pending(chan[r])
               n == rcvd[r]
    <3>1. /\ Pending(chan'[r]) = p /\ rcvd'[r] = n /\ A' = A /\ B' = B /\ chan'[r] = chan[r]
          /\ Batch' = Batch /\ (Alive' <=> Alive)
      BY <2>1 DEF Data, Signs, Batch, Alive
    <3>2. /\ chan[r].ropen /\ Numbered(p, A, B, n) /\ \A i \in DOMAIN p : p[i].s = r
          /\ Alive => Line(A, B, p, Batch, wire, n) /\ sent[r] = Total(A, p, Batch, wire, n)
      BY <1>0, <2>1, <2>2 DEF Fed
    <3> HIDE DEF A, B, p, n
    <3>3. ASSUME Alive
          PROVE  /\ Line(A, B, p, Batch, wire', n)
                 /\ srvUp' # "aborted" => sent'[r] = Total(A, p, Batch, wire', n)
      <4>1. \A m : Numbered(<<>>, A, B, m)  BY NumberedNone
      <4> QED  BY <2>1, <3>2, <3>3, <4>1 DEF Line
    <3> QED  BY <3>1, <3>2, <3>3 DEF Fed, A, B
  <2> QED  BY <2>3, <2>4
<1> QED  BY <1>1, <1>2, <1>3

LEMMA InitFeed == Init => Feed
<1> SUFFICES ASSUME Init, NEW r \in Requests PROVE Unused(r) /\ Quiet(r) /\ Fed(r)
  BY DEF Feed
<1>1. phase[r] = "idle"  BY DEF Init
<1> QED  BY <1>1 DEF Init, Unused, Quiet, Fed, Reading, NoneOf

LEMMA NextFeed == PlaceInv /\ Feed /\ [Next]_vars => Feed'
<1> SUFFICES ASSUME PlaceInv, Feed, [Next]_vars PROVE Feed'  OBVIOUS
<1>1. CASE ManagerNext
  BY <1>1, ManagerUnused, ManagerQuiet, ManagerFed DEF Feed
<1>2. ASSUME NEW r \in Requests, Consumer(r) PROVE Feed'
  BY <1>2, SendRequestFeed, ReaderFeed, CancelCloseFeed, SendEofFeed DEF Consumer
<1>3. CASE UNCHANGED vars
  <2>1. UNCHANGED <<chan, rcvd, phase, result, mgr, evq, sent, ended, wire, srvUp, srv, st>>
    BY <1>3 DEF vars, h2, manager, consumer, server, network
  <2> QED  BY <2>1, OthersFeed DEF Feed
<1> QED  BY <1>1, <1>2, <1>3, ServerFeed, TransportFeed DEF Next

LEMMA FeedCorrect == Spec => []FeedInv
<1>1. Init => FeedInv  BY InitPlace, InitFeed DEF FeedInv
<1>2. FeedInv /\ [Next]_vars => FeedInv'
  BY NextPlace, NextType, NextSilent, NextFeed DEF FeedInv, PlaceInv, SilentInv
<1> QED  BY <1>1, <1>2, PTL DEF Spec

\* While the manager runs, DATA reaches each task in the order the server sent
\* it, without gap or repetition, across its channel, a blocked send, the rest
\* of the batch and the wire (_http2.py:158-195).
THEOREM BodiesInOrder == Spec => []InOrder
<1>1. FeedInv => InOrder
  <2> SUFFICES ASSUME FeedInv, Alive, NEW r \in Requests, Reading(r),
                      NEW i \in DataOf(r, Due(r))
               PROVE  Due(r)[i].n = rcvd[r] + Cardinality({j \in DataOf(r, Due(r)) : j <= i})
    BY DEF InOrder
  <2> DEFINE A == Data(r)
             B == Signs(r)
             p == Pending(chan[r])
             q == Due(r)
  <2>1. /\ p \in Seq(Event) /\ Batch \in Seq(Event) /\ wire \in Seq(Event) /\ rcvd[r] \in Nat
    BY FedParts DEF FeedInv
  <2>2. Line(A, B, p, Batch, wire, rcvd[r])  BY DEF FeedInv, Feed, Fed
  <2>3. q \in Seq(Event) /\ Numbered(q, A, B, rcvd[r])
    <3> HIDE DEF A, B, p
    <3>1. (p \o Batch) \o wire \in Seq(Event) /\ Numbered((p \o Batch) \o wire, A, B, rcvd[r])
      BY <2>1, <2>2, LineThrough
    <3> QED  BY <3>1 DEF Due, p
  <2> HIDE DEF q
  <2>4. i \in DOMAIN q /\ q[i].kind = "data" /\ q[i].s = r  BY DEF DataOf, q
  <2>5. q[i] \in Event  BY <2>3, <2>4
  <2>6. q[i].n = rcvd[r] + Count(SubSeq(q, 1, i), A)
    BY <2>3, <2>4, <2>5 DEF Numbered, Signs
  <2>7. Sort(SubSeq(q, 1, i), A) = {j \in DataOf(r, q) : j <= i}
    <3>1. DOMAIN q = 1 .. Len(q) /\ Len(q) \in Nat /\ i \in 1 .. Len(q)  BY <2>3, <2>4
    <3>2. SubSeq(q, 1, i) = [j \in 1 .. i |-> q[j]]  BY <2>3, <3>1
    <3>3. \A j \in 1 .. Len(q) : q[j] \in A <=> q[j].kind = "data" /\ q[j].s = r
      BY <2>3, <3>1 DEF Data
    <3> HIDE DEF A
    <3>4. Sort(SubSeq(q, 1, i), A) = {j \in 1 .. i : q[j] \in A}  BY <3>2 DEF Sort
    <3>5. DataOf(r, q) = {j \in 1 .. Len(q) : q[j] \in A}  BY <3>1, <3>3 DEF DataOf
    <3> QED  BY <3>1, <3>4, <3>5
  <2> QED  BY <2>6, <2>7 DEF q, Count
<1> QED  BY <1>1, FeedCorrect, PTL

-----------------------------------------------------------------------------
(***************************************************************************)
(* Every step is a step of ResponseBody, where no response is given up     *)
(* before its end and the 10 s limit does not pass.                        *)
(***************************************************************************)
Patient == Env \cap {"close", "cancel", "expire", "window"} = {}

\* An event tells the truth about what the server has sent by now.
Faithful(e) ==
    /\ e.kind = "end" => e.s \in ended /\ e.n = sent[e.s]
    /\ e.kind = "data" => e.s \in Requests /\ e.n <= sent[e.s]
    /\ e.kind = "window" => "window" \in Env

Signed ==
    /\ \A r \in ended : srv[r] = "done"
    /\ \A e \in ItemsOf(evq) \cup ItemsOf(wire) : Faithful(e)
    /\ \A r \in Requests : Reading(r) => \A e \in ItemsOf(Pending(chan[r])) :
          Faithful(e) /\ e.kind \in StreamKinds

\* There is one response to a request: begun, on its way, or still to be sent.
Heads(r)   == {e \in Event : e.kind = "response" /\ e.s = r}
Opened(r)  == IF phase[r] = "open" THEN 1 ELSE 0
Awaited(r) == IF srv[r] \in {"none", "open"} THEN 1 ELSE 0
Weight(r)  == Total(Heads(r), Pending(chan[r]), Batch, wire, Opened(r)) + Awaited(r)
Once(r)    == Reading(r) => Weight(r) <= 1

\* The reader has pulled the manager's last event for r out of its blocked send.
Taken(r) == mgr = "blocked" /\ Current.s = r /\ Current.kind \in Final /\ chan[r].snd = <<>>

\* A channel whose sender has gone has a last event; one that is to get a last
\* event has none yet, and has its reader.
Ends(r) ==
    /\ chan[r].rx = "woken" => chan[r].buf # <<>> \/ ~chan[r].sopen
    /\ Reading(r) /\ ~chan[r].sopen => HasFinal(chan[r].buf)
    /\ Reading(r) /\ r \in inReset /\ chan[r].snd = <<>> => HasFinal(chan[r].buf)
    /\ mgr # "stopped" /\ r \in streams \cup toReset /\ (~chan[r].ropen \/ HasFinal(chan[r].buf))
         => Taken(r)
    /\ r \in inReset /\ (~chan[r].ropen \/ HasFinal(chan[r].buf)) => chan[r].snd = <<>>

\* What a task has said of its response so far.
Said(r) ==
    /\ phase[r] \in {"idle", "head", "open"} => result[r] = "none"
    /\ phase[r] = "raised" => mgr = "stopped" /\ result[r] = "cancelled"

Told == /\ mgr = "blocked" => Current.s \in streams
        /\ \A r \in Requests : Ends(r) /\ Said(r)

PatientInv == FeedInv /\ Signed /\ (\A r \in Requests : Once(r)) /\ Told

-----------------------------------------------------------------------------
(* Faithful events *)

LEMMA StillFaithful ==
    ASSUME NEW e \in Event, Faithful(e),
           \A q \in Requests : sent[q] \in Nat /\ sent'[q] \in Nat /\ sent[q] <= sent'[q],
           \A q \in ended : q \in ended' /\ sent'[q] = sent[q]
    PROVE  Faithful(e)'
<1>1. e.n \in Nat  BY DEF Event
<1>2. CASE e.kind = "data"
  <2>1. e.s \in Requests /\ e.n <= sent[e.s] /\ sent[e.s] <= sent'[e.s]
        /\ sent[e.s] \in Nat /\ sent'[e.s] \in Nat
    BY <1>2 DEF Faithful
  <2>2. e.n <= sent'[e.s]  BY <1>1, <2>1
  <2> QED  BY <1>2, <2>1, <2>2 DEF Faithful
<1>3. CASE e.kind # "data"  BY <1>3 DEF Faithful
<1> QED  BY <1>2, <1>3

\* The server has sent what it had sent: nothing that is on its way becomes false.
LEMMA SignedKept ==
    ASSUME FeedInv, Signed,
           \A q \in Requests : sent'[q] \in Nat /\ sent[q] <= sent'[q],
           \A q \in ended : q \in ended' /\ sent'[q] = sent[q],
           \A q \in ended' : srv'[q] = "done",
           \A e \in ItemsOf(evq') \cup ItemsOf(wire') :
              e \in ItemsOf(evq) \cup ItemsOf(wire) \/ Faithful(e)',
           \A r \in Requests : Reading(r)' => \A e \in ItemsOf(Pending(chan'[r])) :
              /\ \/ Faithful(e)'
                 \/ Reading(r) /\ e \in ItemsOf(Pending(chan[r]))
                 \/ e \in ItemsOf(evq)
              /\ e.kind \in StreamKinds \/ (Reading(r) /\ e \in ItemsOf(Pending(chan[r])))
    PROVE  Signed'
<1>1. /\ \A q \in Requests : sent[q] \in Nat
      /\ \A e \in ItemsOf(evq) \cup ItemsOf(wire) : e \in Event
      /\ \A r \in Requests : \A e \in ItemsOf(Pending(chan[r])) : e \in Event
  <2>1. /\ evq \in Seq(Event) /\ wire \in Seq(Event)
        /\ \A r \in Requests : Pending(chan[r]) \in Seq(Event)
        /\ \A q \in Requests : sent[q] \in Nat
    BY FedParts, TypeParts DEF FeedInv, PlaceInv
  <2> QED  BY <2>1 DEF ItemsOf
<1>2. ASSUME NEW e \in Event, Faithful(e) PROVE Faithful(e)'
  BY <1>1, <1>2, StillFaithful
<1>3. \A e \in ItemsOf(evq') \cup ItemsOf(wire') : Faithful(e)'
  BY <1>1, <1>2 DEF Signed
<1>4. ASSUME NEW r \in Requests, Reading(r)', NEW e \in ItemsOf(Pending(chan'[r]))
      PROVE  Faithful(e)' /\ e.kind \in StreamKinds
  BY <1>1, <1>2, <1>4 DEF Signed
<1> QED  BY <1>3, <1>4 DEF Signed, ItemsOf, Pending

LEMMA ManagerSigned ==
    ASSUME FeedInv, Signed, ManagerNext
    PROVE  Signed'
<1>0. /\ UNCHANGED <<phase, sent, ended>> /\ \A q \in Requests : srv'[q] \in {srv[q], "done"}
      /\ evq \in Seq(Event) /\ wire \in Seq(Event) /\ ended \subseteq Requests
      /\ sent \in [Requests -> Nat] /\ PlaceInv
  BY ManagerTouches, TypeParts DEF FeedInv, PlaceInv
<1>1. /\ \A q \in Requests : sent'[q] \in Nat /\ sent[q] <= sent'[q]
      /\ \A q \in ended' : srv'[q] = "done"
  BY <1>0 DEF Signed
<1>2. \A r \in Requests : Reading(r)' <=> Reading(r)  BY <1>0 DEF Reading
<1>3. CASE Receive
  <2>1. \A r \in Requests : Pending(chan'[r]) = Pending(chan[r])  BY <1>3 DEF Receive
  <2>2. /\ wire' = <<>>
        /\ \/ evq' = <<>>
           \/ /\ evq' \in Seq(Event) /\ Len(evq') = Len(wire)
              /\ \A i \in 1 .. Len(wire) : \/ evq'[i] = wire[i]
                                           \/ evq'[i].kind = "ignored"
    BY <1>0, <1>3, ReceiveBatch
  <2>3. \A e : e.kind = "ignored" => Faithful(e)'  BY DEF Faithful
  <2>4. \A e \in ItemsOf(evq') : e \in ItemsOf(wire) \/ Faithful(e)'
    <3>1. CASE evq' = <<>>  BY <3>1 DEF ItemsOf
    <3>2. CASE /\ evq' \in Seq(Event) /\ Len(evq') = Len(wire)
               /\ \A i \in 1 .. Len(wire) : \/ evq'[i] = wire[i]
                                            \/ evq'[i].kind = "ignored"
      <4>1. DOMAIN evq' = 1 .. Len(wire) /\ DOMAIN wire = 1 .. Len(wire)  BY <1>0, <3>2
      <4> QED  BY <2>3, <3>2, <4>1 DEF ItemsOf
    <3> QED  BY <2>2, <3>1, <3>2
  <2>5. ItemsOf(wire') = {}  BY <2>2 DEF ItemsOf
  <2> QED  BY <1>0, <1>1, <1>2, <2>1, <2>4, <2>5, SignedKept DEF Signed
<1>4. CASE ~Receive
  <2>1. wire' = wire /\ (evq' \in {evq, <<>>} \/ (evq # <<>> /\ evq' = Tail(evq)))
    BY <1>0, <1>4, ManagerTouches
  <2>2. ItemsOf(evq') \subseteq ItemsOf(evq)
    <3>1. PICK e : e \in Event
      <4>1. Ev("ping", Zero, 0) \in Event  BY TypedEvent
      <4> QED  BY <4>1
    <3> QED  BY <1>0, <2>1, <3>1, ItemsKept
  <2>3. ASSUME NEW r \in Requests, Reading(r), NEW e \in ItemsOf(Pending(chan'[r]))
        PROVE  /\ Faithful(e)' \/ e \in ItemsOf(Pending(chan[r])) \/ e \in ItemsOf(evq)
               /\ e.kind \in StreamKinds \/ e \in ItemsOf(Pending(chan[r]))
    <3> DEFINE p == Pending(chan[r])
               x == Ev("reset", r, 0)
    <3>1. /\ p \in Seq(Event) /\ chan[r].buf \in Seq(Event) /\ chan[r].snd \in Seq(Event)
          /\ x \in Event /\ x.kind = "reset"
      BY <1>0, FedParts, TypedEvent DEF Ev, StreamKinds
    <3>2. chan[r].ropen  BY <2>3 DEF FeedInv, Feed, Fed
    <3>3. \/ Pending(chan'[r]) \in {p, chan[r].buf, Append(p, x)}
          \/ /\ evq # <<>> /\ Current.kind \in StreamKinds
             /\ Pending(chan'[r]) = Append(p, Current)
      BY <1>0, <1>4, <3>2, ManagerMoves DEF Moved
    <3>4. ItemsOf(chan[r].buf) \subseteq ItemsOf(p)  BY <3>1, ItemsKept DEF Pending
    <3>5. ItemsOf(Append(p, x)) = ItemsOf(p) \cup {x}
      <4> HIDE DEF p, x
      <4> QED  BY <3>1, ItemsKept
    <3>6. Faithful(x)' /\ x.kind \in StreamKinds  BY <3>1 DEF Faithful, StreamKinds
    <3>7. ASSUME evq # <<>>
          PROVE  ItemsOf(Append(p, Current)) = ItemsOf(p) \cup {Current} /\ Current \in ItemsOf(evq)
      <4>1. Current \in Event  BY <1>0, <3>7, CurrentType DEF PlaceInv, SilentInv
      <4> HIDE DEF p
      <4> QED  BY <1>0, <3>1, <3>7, <4>1, ItemsKept DEF Current
    <3> HIDE DEF p, x
    <3>8. CASE Pending(chan'[r]) \in {p, chan[r].buf, Append(p, x)}
      BY <2>3, <3>4, <3>5, <3>6, <3>8 DEF p
    <3>9. CASE /\ evq # <<>> /\ Current.kind \in StreamKinds
               /\ Pending(chan'[r]) = Append(p, Current)
      BY <2>3, <3>7, <3>9 DEF p
    <3> QED  BY <3>3, <3>8, <3>9
  <2> QED  BY <1>0, <1>1, <1>2, <2>1, <2>2, <2>3, SignedKept
<1> QED  BY <1>3, <1>4

\* A task only takes events.
LEMMA TaskSigned ==
    ASSUME FeedInv, Signed, UNCHANGED <<evq, wire, sent, ended>>,
           \A q \in ended : srv'[q] = "done",
           \A q \in Requests : Reading(q)' =>
              \/ ItemsOf(Pending(chan'[q])) = {}
              \/ Reading(q) /\ ItemsOf(Pending(chan'[q])) \subseteq ItemsOf(Pending(chan[q]))
    PROVE  Signed'
<1>1. /\ sent \in [Requests -> Nat]  BY TypeParts DEF FeedInv, PlaceInv
<1> QED  BY <1>1, SignedKept

LEMMA ConsumerSigned ==
    ASSUME FeedInv, Signed, NEW r \in Requests, Consumer(r)
    PROVE  Signed'
<1>0. /\ chan \in [Requests -> Channels(Event)] /\ phase \in [Requests -> Phases]
      /\ result \in [Requests -> Results] /\ srv \in [Requests -> {"none", "open", "body", "done"}]
      /\ ended \subseteq Requests /\ SilentInv /\ PlaceInv
      /\ \A q \in Requests : chan[q] \in Channels(Event) /\ Pending(chan[q]) \in Seq(Event)
  BY TypeParts, FedParts DEF FeedInv, PlaceInv
<1>1. CASE SendRequest(r)
  <2>1. /\ UNCHANGED <<evq, chan, wire, sent, ended>> /\ phase[r] = "idle"
        /\ \A q \in Requests \ {r} : phase'[q] = phase[q] /\ srv'[q] \in {srv[q], "done"}
    BY <1>0, <1>1 DEF SendRequest, Flush
  <2>2. r \notin ended /\ chan[r] = Fresh  BY <2>1 DEF FeedInv, Feed, Unused
  <2>3. Pending(Fresh) = <<>>  BY DEF Fresh, Pending
  <2>4. ItemsOf(Pending(chan'[r])) = {}  BY <2>1, <2>2, <2>3 DEF ItemsOf
  <2>5. \A q \in Requests \ {r} : Reading(q)' => Reading(q)  BY <2>1 DEF Reading
  <2>6. \A q \in ended : srv'[q] = "done"  BY <1>0, <2>1, <2>2 DEF Signed
  <2> QED  BY <2>1, <2>4, <2>5, <2>6, TaskSigned
<1>2. CASE SendEof(r)
  <2>1. UNCHANGED <<evq, chan, wire, sent, ended, phase>>
        /\ \A q \in Requests : srv'[q] \in {srv[q], "done"}
    BY <1>0, <1>2 DEF SendEof, Flush, manager, consumer
  <2> QED  BY <1>0, <2>1, TaskSigned DEF Reading, Signed
<1>3. ASSUME UNCHANGED <<evq, wire, sent, ended>>, \A q \in Requests : srv'[q] \in {srv[q], "done"},
             \A q \in Requests \ {r} : chan'[q] = chan[q] /\ phase'[q] = phase[q],
             \/ phase'[r] \notin {"head", "open"}
             \/ Reading(r) /\ ItemsOf(Pending(chan'[r])) \subseteq ItemsOf(Pending(chan[r]))
      PROVE  Signed'
  BY <1>0, <1>3, TaskSigned DEF Reading, Signed
<1>4. CASE Cancel(r)
  <2>1. /\ UNCHANGED <<evq, wire, sent, ended, srv>> /\ phase'[r] \in {"failed", "raised"}
        /\ \A q \in Requests \ {r} : chan'[q] = chan[q] /\ phase'[q] = phase[q]
    BY <1>0, <1>4 DEF Cancel, Outcome, manager, network
  <2> QED  BY <1>3, <2>1
<1>5. CASE Close(r)
  <2>1. /\ UNCHANGED <<evq>> /\ phase'[r] = "closed"
        /\ \A q \in Requests \ {r} : chan'[q] = chan[q] /\ phase'[q] = phase[q]
    <3>1. \E v : Outcome(r, "closed", v)  BY <1>5 DEF Close
    <3>2. phase'[r] = "closed" /\ \A q \in Requests \ {r} : phase'[q] = phase[q]
      BY <1>0, <3>1 DEF Outcome
    <3> QED  BY <1>0, <1>5, <3>2 DEF Close
  <2>2. Flush({}, {r}) \/ UNCHANGED network  BY <1>5 DEF Close
  <2>3. UNCHANGED <<wire, sent, ended>> /\ \A q \in Requests : srv'[q] \in {srv[q], "done"}
    BY <2>2 DEF Flush, network
  <2> QED  BY <1>3, <2>1, <2>3
<1>6. CASE Reader(r)
  <2>1. /\ UNCHANGED <<evq, wire, sent, ended, srv>> /\ Reading(r)
    BY <1>0, <1>6, ReaderSteps DEF manager, server, network
  <2>2. PICK d \in Channels(Event) :
          \/ TookFirst(chan[r], d) /\ Handle(r, Head(Pending(chan[r])), d)
          \/ Same(chan[r], d) /\ EndOfChannel(r, d)
          \/ Same(chan[r], d) /\ chan' = [chan EXCEPT ![r] = d] /\ UNCHANGED consumer
    BY <1>0, <1>6, ReaderSteps
  <2>3. CASE TookFirst(chan[r], d) /\ Handle(r, Head(Pending(chan[r])), d)
    <3> DEFINE p == Pending(chan[r])
    <3>1. p # <<>> /\ Pending(d) = Tail(p) /\ Head(p) \in Event
      BY <1>0, <2>3 DEF TookFirst
    <3>2. ItemsOf(Tail(p)) \subseteq ItemsOf(p)
      <4>1. p \in Seq(Event)  BY <1>0
      <4> HIDE DEF p
      <4> QED  BY <3>1, <4>1, ItemsKept
    <3>3. /\ \A q \in Requests \ {r} : phase'[q] = phase[q] /\ chan'[q] = chan[q]
          /\ phase'[r] \in {"failed", "closed", "raised"} \/ chan'[r] = d
      BY <1>0, <2>3, <3>1, HandleCases
    <3> QED  BY <1>3, <2>1, <3>1, <3>2, <3>3
  <2>4. CASE Same(chan[r], d) /\ EndOfChannel(r, d)
    <3>1. /\ \A q \in Requests \ {r} : phase'[q] = phase[q] /\ chan'[q] = chan[q]
          /\ phase'[r] \in {"failed", "raised"}
      BY <1>0, <2>4 DEF EndOfChannel, Outcome
    <3> QED  BY <1>3, <2>1, <3>1
  <2>5. CASE Same(chan[r], d) /\ chan' = [chan EXCEPT ![r] = d] /\ UNCHANGED consumer
    <3>1. /\ \A q \in Requests \ {r} : phase'[q] = phase[q] /\ chan'[q] = chan[q]
          /\ Pending(chan'[r]) = Pending(chan[r])
      BY <1>0, <2>5 DEF consumer, Same, Pending
    <3> QED  BY <1>3, <2>1, <3>1
  <2> QED  BY <2>2, <2>3, <2>4, <2>5
<1> QED  BY <1>1, <1>2, <1>4, <1>5, <1>6 DEF Consumer

\* The server puts on the wire what is true.
LEMMA PutSigned ==
    ASSUME FeedInv, Signed, OthersWait, NEW e \in Event, wire' = Append(wire, e),
           \A q \in Requests : sent'[q] \in Nat /\ sent[q] <= sent'[q],
           \A q \in ended : q \in ended' /\ sent'[q] = sent[q],
           \A q \in ended' : srv'[q] = "done",
           Faithful(e)'
    PROVE  Signed'
<1>1. UNCHANGED <<evq, chan, phase>> /\ wire \in Seq(Event)
  BY TypeParts DEF OthersWait, manager, consumer, FeedInv, PlaceInv
<1>2. ItemsOf(wire') = ItemsOf(wire) \cup {e}  BY <1>1, ItemsKept
<1>3. \A r \in Requests : Reading(r)' =>
         Reading(r) /\ \A x \in ItemsOf(Pending(chan'[r])) : x \in ItemsOf(Pending(chan[r]))
  BY <1>1 DEF Reading
<1> QED  BY <1>1, <1>2, <1>3, SignedKept

LEMMA ServerSigned ==
    ASSUME FeedInv, Signed, NEW r \in Requests, Server(r)
    PROVE  Signed'
<1>0. /\ OthersWait /\ sent \in [Requests -> Nat] /\ ended \subseteq Requests
      /\ srv \in [Requests -> {"none", "open", "body", "done"}]
      /\ \A q \in ended : srv[q] = "done"
  BY OthersWaitSteps, TypeParts DEF FeedInv, PlaceInv, Signed
<1>1. ASSUME NEW kind \in {"response", "reset", "window"}, Transmit(Ev(kind, r, 0)),
             kind = "window" => "window" \in Env, srv[r] # "done",
             UNCHANGED <<sent, ended>>, \A q \in Requests \ {r} : srv'[q] = srv[q]
      PROVE  Signed'
  <2> DEFINE e == Ev(kind, r, 0)
  <2>1. e \in Event /\ e.kind = kind  BY TypedEvent DEF Ev, StreamKinds
  <2>2. Faithful(e)'
    <3>1. kind # "data" /\ kind # "end" /\ (kind = "window" => "window" \in Env)
      BY <1>1
    <3>2. ASSUME NEW x, x.kind = kind PROVE Faithful(x)'  BY <3>1, <3>2 DEF Faithful
    <3> QED  BY <2>1, <3>2
  <2>3. wire' = Append(wire, e)  BY <1>1 DEF Transmit
  <2>4. /\ \A q \in Requests : sent'[q] \in Nat /\ sent[q] <= sent'[q]
        /\ \A q \in ended' : srv'[q] = "done"
    BY <1>0, <1>1
  <2> HIDE DEF e
  <2> QED  BY <1>0, <1>1, <2>1, <2>2, <2>3, <2>4, PutSigned
<1>2. CASE Respond(r)  BY <1>0, <1>1, <1>2 DEF Respond
<1>3. CASE ServerReset(r)  BY <1>0, <1>1, <1>3 DEF ServerReset
<1>4. CASE SendData(r)
  <2>0. PICK e \in Event : /\ e = Ev("data", r, sent[r] + 1)
                          /\ e.kind = "data" /\ e.s = r /\ e.n = sent[r] + 1
    <3>1. sent[r] + 1 \in Nat  BY <1>0
    <3>2. Ev("data", r, sent[r] + 1) \in Event  BY <3>1, TypedEvent DEF StreamKinds
    <3> QED  BY <3>2 DEF Ev
  <2>1. /\ wire' = Append(wire, e) /\ srv[r] = "body" /\ UNCHANGED <<srv, ended>>
        /\ sent' = [sent EXCEPT ![r] = sent[r] + 1]
    BY <1>4, <2>0 DEF SendData, Transmit
  <2>3. /\ \A q \in Requests : sent'[q] \in Nat /\ sent[q] <= sent'[q]
        /\ r \notin ended /\ sent'[r] = sent[r] + 1 /\ sent[r] + 1 \in Nat
        /\ \A q \in Requests \ {r} : sent'[q] = sent[q]
    BY <1>0, <2>1
  <2>4. Faithful(e)'
    <3>1. e.n <= sent'[e.s]  BY <1>0, <2>0, <2>3
    <3> QED  BY <2>0, <3>1 DEF Faithful
  <2> QED  BY <1>0, <2>1, <2>3, <2>4, PutSigned
<1>5. CASE EndStream(r)
  <2>0. PICK e \in Event : /\ e = Ev("end", r, sent[r])
                          /\ e.kind = "end" /\ e.s = r /\ e.n = sent[r]
    <3>1. sent[r] \in Nat  BY <1>0
    <3>2. Ev("end", r, sent[r]) \in Event  BY <3>1, TypedEvent DEF StreamKinds
    <3> QED  BY <3>2 DEF Ev
  <2>1. /\ wire' = Append(wire, e) /\ UNCHANGED sent
        /\ srv' = [srv EXCEPT ![r] = "done"] /\ ended' = ended \cup {r}
    BY <1>5, <2>0 DEF EndStream, Transmit
  <2>3. /\ \A q \in Requests : sent'[q] \in Nat /\ sent[q] <= sent'[q]
        /\ \A q \in ended' : srv'[q] = "done"
    BY <1>0, <2>1
  <2>4. Faithful(e)'  BY <2>0, <2>1 DEF Faithful
  <2> QED  BY <1>0, <2>1, <2>3, <2>4, PutSigned
<1>6. CASE ServerWindow(r)  BY <1>0, <1>1, <1>6 DEF ServerWindow, Environment
<1> QED  BY <1>2, <1>3, <1>4, <1>5, <1>6 DEF Server

LEMMA NextSigned == FeedInv /\ Signed /\ [Next]_vars => Signed'
<1> SUFFICES ASSUME FeedInv, Signed, [Next]_vars PROVE Signed'  OBVIOUS
<1>0. sent \in [Requests -> Nat] /\ \A q \in ended : srv[q] = "done"
  BY TypeParts DEF FeedInv, PlaceInv, Signed
<1>1. CASE ServerPing \/ GoAway
  <2>1. PICK kind \in {"ping", "goaway"} : Transmit(Ev(kind, Zero, 0))
    BY <1>1 DEF ServerPing, GoAway
  <2> DEFINE e == Ev(kind, Zero, 0)
  <2>2. e \in Event /\ e.kind = kind  BY TypedEvent DEF Ev
  <2>3. Faithful(e)'  BY <2>2 DEF Faithful
  <2>4. wire' = Append(wire, e) /\ OthersWait /\ UNCHANGED <<srv, sent, ended>>
    BY <1>1, <2>1 DEF ServerPing, GoAway, Transmit
  <2>5. \A q \in Requests : sent'[q] \in Nat /\ sent[q] <= sent'[q]  BY <1>0, <2>4
  <2> HIDE DEF e
  <2> QED  BY <1>0, <2>2, <2>3, <2>4, <2>5, PutSigned
<1>2. CASE AClose \/ ServerClose \/ Abort \/ UNCHANGED vars
  <2>1. UNCHANGED <<chan, phase, evq, sent, ended, srv>> /\ wire' \in {wire, <<>>}
    BY <1>2 DEF AClose, ServerClose, Abort, OthersWait, vars, manager, consumer, server, network
  <2>2. ItemsOf(wire') \subseteq ItemsOf(wire)  BY <2>1 DEF ItemsOf
  <2>3. \A q \in Requests : sent'[q] \in Nat /\ sent[q] <= sent'[q]  BY <1>0, <2>1
  <2>4. \A r \in Requests : Reading(r)' =>
           Reading(r) /\ \A x \in ItemsOf(Pending(chan'[r])) : x \in ItemsOf(Pending(chan[r]))
    BY <2>1 DEF Reading
  <2> QED  BY <1>0, <2>1, <2>2, <2>3, <2>4, SignedKept
<1> QED  BY <1>1, <1>2, ManagerSigned, ConsumerSigned, ServerSigned DEF Next

-----------------------------------------------------------------------------
(* One response to a request *)

LEMMA WeightType ==
    ASSUME PlaceInv, NEW r \in Requests
    PROVE  /\ Weight(r) \in Nat /\ Opened(r) \in {0, 1} /\ Awaited(r) \in {0, 1}
           /\ Total(Heads(r), Pending(chan[r]), Batch, wire, Opened(r)) \in Nat
<1>1. Opened(r) \in {0, 1} /\ Awaited(r) \in {0, 1}  BY DEF Opened, Awaited
<1>2. Opened(r) \in Nat /\ Awaited(r) \in Nat  BY <1>1
<1>3. Total(Heads(r), Pending(chan[r]), Batch, wire, Opened(r)) \in Nat
  BY <1>2, FedParts, LineCounts
<1> QED  BY <1>1, <1>2, <1>3 DEF Weight

LEMMA OnceKept ==
    ASSUME PlaceInv, PlaceInv', NEW r \in Requests, Once(r),
           Reading(r)' => /\ Reading(r) /\ Awaited(r)' <= Awaited(r)
                          /\ Total(Heads(r), Pending(chan[r]), Batch, wire, Opened(r))'
                               <= Total(Heads(r), Pending(chan[r]), Batch, wire, Opened(r))
    PROVE  Once(r)'
<1> DEFINE T == Total(Heads(r), Pending(chan[r]), Batch, wire, Opened(r))
<1>1. T \in Nat /\ Awaited(r) \in {0, 1} /\ Weight(r) = T + Awaited(r)  BY WeightType DEF Weight
<1>2. T' \in Nat /\ Awaited(r)' \in {0, 1} /\ Weight(r)' = T' + Awaited(r)'
  <2>1. T' \in Nat
    <3>1. /\ Pending(chan'[r]) \in Seq(Event) /\ Batch' \in Seq(Event) /\ wire' \in Seq(Event)
          /\ Opened(r)' \in Nat
      <4>1. /\ chan' \in [Requests -> Channels(Event)] /\ evq' \in Seq(Event) /\ wire' \in Seq(Event)
            /\ mgr' = "blocked" => evq' # <<>>
        BY DEF PlaceInv, SilentInv, TypeInv, TypeOK
      <4>2. chan'[r].buf \in Seq(Event) /\ chan'[r].snd \in Seq(Event)  BY <4>1, ChannelFields
      <4>3. Opened(r)' \in Nat  BY DEF Opened
      <4> QED  BY <4>1, <4>2, <4>3 DEF Pending, Batch
    <3>2. T' = Total(Heads(r), Pending(chan'[r]), Batch', wire', Opened(r)')
      BY DEF Total, Heads
    <3> QED  BY <3>1, <3>2, LineCounts
  <2> QED  BY <2>1 DEF Weight, Awaited
<1> HIDE DEF T
<1>3. Reading(r)' => Reading(r) /\ Awaited(r)' <= Awaited(r) /\ T' <= T  BY DEF T
<1> QED  BY <1>1, <1>2, <1>3 DEF Once

LEMMA NoSigns ==
    ASSUME NEW A, NEW p, NEW b, NEW w, NEW n
    PROVE  Line(A, {}, p, b, w, n)
BY NumberedNone DEF Line

\* A step of the manager passes events on, or drops them.
LEMMA ManagerOnce ==
    ASSUME FeedInv, PlaceInv', ManagerNext, NEW r \in Requests, Once(r)
    PROVE  Once(r)'
<1> DEFINE A == Heads(r)
           p == Pending(chan[r])
           n == Opened(r)
<1> SUFFICES ASSUME Reading(r)' PROVE Once(r)'  BY DEF Once
<1>0. /\ p \in Seq(Event) /\ Batch \in Seq(Event) /\ wire \in Seq(Event) /\ n \in Nat
      /\ chan[r].buf \in Seq(Event) /\ chan[r].snd \in Seq(Event) /\ evq \in Seq(Event)
      /\ PlaceInv
  BY FedParts DEF FeedInv, Opened
<1>1. /\ phase' = phase /\ srv'[r] \in {srv[r], "done"} /\ Reading(r) /\ Fed(r) /\ Quiet(r)
      /\ chan[r].ropen
  BY <1>0, ManagerTouches DEF Reading, FeedInv, Feed, Fed
<1>2. A' = A /\ Opened(r)' = n /\ Awaited(r)' <= Awaited(r)
  BY <1>1 DEF Heads, Opened, Awaited
<1>3. ASSUME Total(A, Pending(chan'[r]), Batch', wire', n) <= Total(A, p, Batch, wire, n)
      PROVE  Once(r)'
  <2>1. Total(Heads(r), Pending(chan[r]), Batch, wire, Opened(r))'
          = Total(A, Pending(chan'[r]), Batch', wire', n)
    BY <1>2 DEF Total
  <2> QED  BY <1>0, <1>1, <1>2, <1>3, <2>1, OnceKept
<1>4. ~Alive' => Batch' = <<>>
  BY DEF Alive, Batch, PlaceInv, InPlace, Stations
<1>5. Count(<<>>, A) = 0  BY CountNone
<1>6. Total(A, p, Batch, wire, n) \in Nat /\ Count(p, A) \in Nat /\ Count(Batch, A) \in Nat
      /\ Count(wire, A) \in Nat /\ Count(evq, A) \in Nat
  BY <1>0, LineCounts, CountType
<1>7. CASE Receive
  <2>1. Pending(chan'[r]) = p /\ Batch = <<>> /\ wire' = <<>>
    BY <1>0, <1>7, ReceiveBatch DEF Receive, Batch
  <2>2. CASE ~Alive'
    <3> HIDE DEF A, p, n
    <3>1. Batch' = <<>>  BY <1>4, <2>2
    <3>2. Total(A, p, <<>>, <<>>, n) <= Total(A, p, <<>>, wire, n)
      BY <1>0, <1>5, <1>6 DEF Total
    <3> QED  BY <1>3, <2>1, <3>1, <3>2
  <2>3. CASE Alive'
    <3>1. /\ evq' \in Seq(Event) /\ Len(evq') = Len(wire) /\ Batch' = evq'
          /\ \A i \in 1 .. Len(wire) : /\ evq'[i].s = wire[i].s
                                       /\ Visible(wire[i]) => evq'[i] = wire[i]
      BY <1>0, <1>7, <2>3, ReceiveBatch DEF Batch
    <3>2. ASSUME NEW i \in 1 .. Len(wire)
          PROVE  wire[i] = evq'[i] \/ (wire[i] \notin A /\ evq'[i] \notin A)
      <4>1. CASE wire[i].s = r
        <5>1. i \in DOMAIN wire  BY <1>0
        <5>2. ~NoneOf(r, wire)  BY <4>1, <5>1 DEF NoneOf
        <5>3. st[r] \notin {"idle", "closed", "gone"}  BY <1>1, <5>2 DEF Quiet
        <5> QED  BY <3>1, <4>1, <5>3 DEF Visible
      <4>2. CASE wire[i].s # r  BY <3>1, <4>2 DEF Heads
      <4> QED  BY <4>1, <4>2
    <3> HIDE DEF A, p, n
    <3>3. Total(A, p, evq', <<>>, n) = Total(A, p, <<>>, wire, n)
      <4> DEFINE t == evq'
                 B == {}
      <4>1. \A i \in 1 .. Len(wire) :
               wire[i] = t[i] \/ (wire[i] \notin A \cup B /\ t[i] \notin A \cup B)
        BY <3>2
      <4>2. Line(A, B, p, <<>>, wire, n)  BY NoSigns
      <4>3. t \in Seq(Event) /\ Len(wire) = Len(t)  BY <3>1
      <4> HIDE DEF t, B
      <4>4. Total(A, p, t, <<>>, n) = Total(A, p, <<>>, wire, n)
        BY <1>0, <4>1, <4>2, <4>3, LineArrive
      <4> QED  BY <4>4 DEF t
    <3>4. Total(A, Pending(chan'[r]), Batch', wire', n) <= Total(A, p, Batch, wire, n)
      BY <1>6, <2>1, <3>1, <3>3
    <3> QED  BY <1>3, <3>4
  <2> QED  BY <2>2, <2>3
<1>8. CASE ~Receive
  <2>1. Moved(r) /\ wire' = wire  BY <1>0, <1>8, ManagerMoves, ManagerTouches
  <2>2. ASSUME Count(Pending(chan'[r]), A) \in Nat, Count(Batch', A) \in Nat,
               Count(Pending(chan'[r]), A) + Count(Batch', A) <= Count(p, A) + Count(Batch, A)
        PROVE  Once(r)'
    <3> HIDE DEF A, p, n
    <3> DEFINE x == Count(Pending(chan'[r]), A)
               y == Count(Batch', A)
    <3>0. x \in Nat /\ y \in Nat /\ x + y <= Count(p, A) + Count(Batch, A)  BY <2>2
    <3>1. Total(A, Pending(chan'[r]), Batch', wire', n) <= Total(A, p, Batch, wire, n)
      <4>1. Total(A, Pending(chan'[r]), Batch', wire', n) = n + x + y + Count(wire, A)
        BY <2>1 DEF Total
      <4>2. Total(A, p, Batch, wire, n) = n + Count(p, A) + Count(Batch, A) + Count(wire, A)
        BY DEF Total
      <4>3. n \in Nat /\ Count(p, A) \in Nat /\ Count(Batch, A) \in Nat /\ Count(wire, A) \in Nat
        BY <1>0, <1>6
      <4> HIDE DEF x, y
      <4> QED  BY <3>0, <4>1, <4>2, <4>3
    <3> QED  BY <1>3, <3>1 DEF A, p, n
  <2>3. CASE Pending(chan'[r]) = p /\ Batch' = Batch
    <3> HIDE DEF A, p, n
    <3> QED  BY <1>6, <2>2, <2>3
  <2>4. CASE ~Alive' /\ Pending(chan'[r]) \in {p, chan[r].buf}
    <3>1. p = chan[r].buf \o chan[r].snd  BY DEF Pending
    <3> HIDE DEF A, p, n
    <3>2. Count(p, A) = Count(chan[r].buf, A) + Count(chan[r].snd, A)
      BY <1>0, <3>1, CountConcat
    <3>3. Count(chan[r].buf, A) \in Nat /\ Count(chan[r].snd, A) \in Nat  BY <1>0, CountType
    <3>4. /\ Count(Pending(chan'[r]), A) \in Nat /\ Count(Pending(chan'[r]), A) <= Count(p, A)
          /\ Count(Batch', A) = 0
      BY <1>4, <1>5, <1>6, <2>4, <3>2, <3>3
    <3> QED  BY <1>6, <2>2, <3>4
  <2>5. CASE ~Alive' /\ Pending(chan'[r]) = Append(p, Ev("reset", r, 0))
    <3>1. Ev("reset", r, 0) \in Event /\ Ev("reset", r, 0).kind = "reset"
      BY TypedEvent DEF Ev, StreamKinds
    <3>2. Ev("reset", r, 0) \notin A  BY <3>1 DEF Heads
    <3> HIDE DEF A, p, n
    <3>3. Count(Append(p, Ev("reset", r, 0)), A) = Count(p, A)
      BY <1>0, <1>6, <3>1, <3>2, CountAppend
    <3>4. Count(Batch', A) = 0  BY <1>4, <1>5, <2>5
    <3> QED  BY <1>6, <2>2, <2>5, <3>3, <3>4
  <2>6. CASE /\ mgr = "dispatch" /\ evq # <<>>
             /\ \/ Pending(chan'[r]) = Append(p, Current)
                \/ Pending(chan'[r]) = p /\ Batch' = Tail(evq)
             /\ Alive' => Batch' = Tail(evq)
    <3> DEFINE k == IF Current \in A THEN 1 ELSE 0
    <3>1. Batch = evq /\ Current = Head(evq) /\ Current \in Event /\ Tail(evq) \in Seq(Event)
      BY <1>0, <2>6, CurrentType DEF Batch, Current, PlaceInv, SilentInv
    <3>2. Count(Tail(evq), A) = Count(evq, A) - k /\ Count(Tail(evq), A) \in Nat
      BY <1>0, <2>6, <3>1, CountTail, CountType
    <3>3. Count(Append(p, Current), A) = Count(p, A) + k
      <4> HIDE DEF p
      <4> QED  BY <1>0, <3>1, CountAppend
    <3>4. k \in {0, 1}  OBVIOUS
    <3> HIDE DEF A, p, n, k
    <3>5. Count(Batch', A) \in {0, Count(Tail(evq), A)}  BY <1>4, <1>5, <2>6
    <3>6. Count(Pending(chan'[r]), A) \in {Count(p, A), Count(p, A) + k}  BY <2>6, <3>3
    <3>7. Count(Batch, A) = Count(Tail(evq), A) + k  BY <1>6, <3>1, <3>2, <3>4
    <3> QED  BY <1>6, <2>2, <3>2, <3>4, <3>5, <3>6, <3>7
  <2> QED  BY <1>1, <2>1, <2>3, <2>4, <2>5, <2>6 DEF Moved
<1> QED  BY <1>7, <1>8

\* Nothing happens to r, or r's task stops reading.
LEMMA ElsewhereOnce ==
    ASSUME PlaceInv, PlaceInv', NEW r \in Requests, Once(r),
           \/ ~Reading(r)'
           \/ /\ chan'[r] = chan[r] /\ phase'[r] = phase[r] /\ UNCHANGED <<mgr, evq>>
              /\ srv'[r] \in {srv[r], "done"} /\ wire' \in {wire, <<>>}
    PROVE  Once(r)'
<1> SUFFICES ASSUME Reading(r)' PROVE Once(r)'  BY DEF Once
<1>1. /\ chan'[r] = chan[r] /\ phase'[r] = phase[r] /\ Batch' = Batch
      /\ srv'[r] \in {srv[r], "done"} /\ wire' \in {wire, <<>>}
  BY DEF Batch
<1>2. Reading(r) /\ Opened(r)' = Opened(r) /\ Awaited(r)' <= Awaited(r)
  BY <1>1 DEF Reading, Opened, Awaited
<1>3. Total(Heads(r), Pending(chan[r]), Batch, wire, Opened(r))'
        = Total(Heads(r), Pending(chan[r]), Batch, wire', Opened(r))
  BY <1>1, <1>2 DEF Heads, Total
<1>4. Total(Heads(r), Pending(chan[r]), Batch, wire', Opened(r))
        <= Total(Heads(r), Pending(chan[r]), Batch, wire, Opened(r))
  <2>1. /\ Count(Pending(chan[r]), Heads(r)) \in Nat /\ Count(Batch, Heads(r)) \in Nat
        /\ Count(wire, Heads(r)) \in Nat /\ Opened(r) \in Nat
    BY FedParts, CountType DEF Opened
  <2>2. Count(wire', Heads(r)) \in {0, Count(wire, Heads(r))}  BY <1>1, CountNone
  <2> QED  BY <2>1, <2>2 DEF Total
<1> QED  BY <1>2, <1>3, <1>4, OnceKept

LEMMA SendRequestOnce ==
    ASSUME FeedInv, NEW r \in Requests, SendRequest(r)
    PROVE  Once(r)'
<1> DEFINE A == Heads(r)
<1>1. /\ UNCHANGED <<mgr, evq, chan, wire>> /\ phase[r] = "idle" /\ phase'[r] \in {"head", "failed"}
  <2>1. phase \in [Requests -> Phases]  BY TypeParts DEF FeedInv, PlaceInv
  <2> QED  BY <2>1 DEF SendRequest, Flush
<1>2. /\ chan[r] = Fresh /\ NoneOf(r, evq) /\ NoneOf(r, wire)
      /\ evq \in Seq(Event) /\ wire \in Seq(Event) /\ Batch \in Seq(Event)
      /\ mgr = "blocked" => evq # <<>>
  BY <1>1, FedParts DEF FeedInv, Feed, Unused, PlaceInv, SilentInv, TypeInv
<1>3. Pending(Fresh) = <<>>  BY DEF Fresh, Pending
<1>4. NoneOf(r, Batch)  BY <1>2, NoneOfTail DEF Batch
<1>5. ASSUME NEW q, NoneOf(r, q) PROVE Count(q, A) = 0
  <2>1. \A i \in DOMAIN q : q[i] \notin A  BY <1>5 DEF NoneOf, Heads
  <2> QED  BY <2>1, CountNone
<1>6. NoneOf(r, <<>>)  BY DEF NoneOf
<1>7. Opened(r)' = 0 /\ Awaited(r)' \in {0, 1}  BY <1>1 DEF Opened, Awaited
<1>8. Batch' = Batch /\ A' = A  BY <1>1 DEF Batch, Heads
<1>9. Total(Heads(r), Pending(chan[r]), Batch, wire, Opened(r))' = Total(A, <<>>, Batch, wire, 0)
  BY <1>1, <1>2, <1>3, <1>7, <1>8 DEF Total
<1>10. Total(A, <<>>, Batch, wire, 0) = 0
  <2> HIDE DEF A
  <2> QED  BY <1>2, <1>4, <1>5, <1>6 DEF Total
<1> QED  BY <1>7, <1>9, <1>10 DEF Once, Weight

\* A task that takes a response has it.
LEMMA ReaderOnce ==
    ASSUME FeedInv, PlaceInv', NEW r \in Requests, Reader(r), Once(r)
    PROVE  Once(r)'
<1> DEFINE A == Heads(r)
           c == chan[r]
           p == Pending(c)
           n == Opened(r)
<1> SUFFICES ASSUME Reading(r)' PROVE Once(r)'  BY DEF Once
<1>0. /\ p \in Seq(Event) /\ Batch \in Seq(Event) /\ wire \in Seq(Event) /\ n \in Nat
      /\ PlaceInv /\ SilentInv /\ chan \in [Requests -> Channels(Event)]
      /\ phase \in [Requests -> Phases]
  BY FedParts, TypeParts DEF FeedInv, PlaceInv, Opened
<1>1. /\ UNCHANGED <<mgr, evq, wire, srv>> /\ Reading(r)
  BY <1>0, ReaderSteps DEF manager, server, network
<1>2. Batch' = Batch /\ Awaited(r)' <= Awaited(r) /\ A' = A
  BY <1>1 DEF Batch, Awaited, Heads
<1>3. ASSUME NEW m \in Nat, Opened(r)' = m, NEW q, Pending(chan'[r]) = q,
             Total(A, q, Batch, wire, m) <= Total(A, p, Batch, wire, n)
      PROVE  Once(r)'
  <2>1. Total(Heads(r), Pending(chan[r]), Batch, wire, Opened(r))' = Total(A, q, Batch, wire, m)
    BY <1>1, <1>2, <1>3 DEF Total
  <2> QED  BY <1>0, <1>1, <1>2, <1>3, <2>1, OnceKept
<1>4. PICK d \in Channels(Event) :
        \/ TookFirst(c, d) /\ Handle(r, Head(p), d)
        \/ Same(c, d) /\ EndOfChannel(r, d)
        \/ Same(c, d) /\ chan' = [chan EXCEPT ![r] = d] /\ UNCHANGED consumer
  BY <1>0, ReaderSteps
<1>5. CASE TookFirst(c, d) /\ Handle(r, Head(p), d)
  <2>1. /\ p # <<>> /\ Pending(d) = Tail(p) /\ Head(p) \in Event
    BY <1>0, <1>5 DEF TookFirst
  <2>2. /\ \A i \in DOMAIN p : p[i].s = r /\ Head(p) = p[1] /\ 1 \in DOMAIN p
    <3>1. Fed(r)  BY DEF FeedInv, Feed
    <3>2. \A i \in DOMAIN p : p[i].s = r  BY <1>1, <3>1 DEF Fed
    <3> HIDE DEF p
    <3> QED  BY <1>0, <2>1, <3>2
  <2>3. chan'[r] = d /\ \/ phase[r] = "head" /\ Head(p).kind = "response" /\ phase'[r] = "open"
                        \/ phase[r] = "open" /\ Head(p).kind = "data" /\ phase'[r] = "open"
    <3> HIDE DEF p
    <3> QED  BY <1>0, <1>5, <2>1, HandleCases DEF Reading
  <2>4. Opened(r)' = n + IF Head(p) \in A THEN 1 ELSE 0
    <3>1. Head(p) \in A <=> Head(p).kind = "response"
      BY <2>1, <2>2 DEF Heads
    <3> HIDE DEF p, A
    <3> QED  BY <2>3, <3>1 DEF Opened
  <2>5. Opened(r)' \in Nat  BY DEF Opened
  <2> HIDE DEF A, p, n
  <2>6. PICK m \in Nat : m = Opened(r)'  BY <2>5
  <2>7. Line(A, {}, p, Batch, wire, n)  BY NoSigns
  <2>8. m = n + IF Head(p) \in A THEN 1 ELSE 0  BY <2>4, <2>6
  <2>9. Total(A, Tail(p), Batch, wire, m) = Total(A, p, Batch, wire, n)
    BY <1>0, <2>1, <2>7, <2>8, LineTake
  <2>10. Total(A, p, Batch, wire, n) \in Nat  BY <1>0, LineCounts
  <2>11. Pending(chan'[r]) = Tail(p)  BY <2>1, <2>3
  <2>12. Total(A, Tail(p), Batch, wire, m) <= Total(A, p, Batch, wire, n)  BY <2>9, <2>10
  <2>13. Opened(r)' = m  BY <2>6
  <2> QED  BY <1>3, <2>6, <2>11, <2>12, <2>13
<1>6. CASE Same(c, d) /\ EndOfChannel(r, d)
  <2>1. phase'[r] \in {"failed", "raised"}  BY <1>0, <1>6 DEF EndOfChannel, Outcome
  <2> QED  BY <2>1 DEF Reading
<1>7. CASE Same(c, d) /\ chan' = [chan EXCEPT ![r] = d] /\ UNCHANGED consumer
  <2>1. Pending(chan'[r]) = p /\ Opened(r)' = n
    BY <1>0, <1>7 DEF Same, Pending, consumer, Opened
  <2> HIDE DEF A, p, n
  <2>2. Total(A, p, Batch, wire, n) \in Nat  BY <1>0, LineCounts
  <2> QED  BY <1>0, <1>3, <2>1, <2>2
<1> QED  BY <1>4, <1>5, <1>6, <1>7

LEMMA ConsumerOnce ==
    ASSUME FeedInv, PlaceInv', NEW q \in Requests, Consumer(q), NEW r \in Requests, Once(r)
    PROVE  Once(r)'
<1>0. /\ PlaceInv /\ SilentInv /\ chan \in [Requests -> Channels(Event)]
      /\ phase \in [Requests -> Phases] /\ srv \in [Requests -> {"none", "open", "body", "done"}]
      /\ chan[q] \in Channels(Event)
  BY TypeParts DEF FeedInv, PlaceInv
<1>1. CASE SendRequest(q)
  <2>1. CASE q = r  BY <1>1, <2>1, SendRequestOnce
  <2>2. CASE q # r
    <3>1. /\ UNCHANGED <<mgr, evq, chan, wire>> /\ phase'[r] = phase[r]
          /\ srv'[r] \in {srv[r], "done"}
      BY <1>0, <1>1, <2>2 DEF SendRequest, Flush
    <3> QED  BY <1>0, <3>1, ElsewhereOnce
  <2> QED  BY <2>1, <2>2
<1>2. CASE Reader(q)
  <2>1. CASE q = r  BY <1>2, <2>1, ReaderOnce
  <2>2. CASE q # r
    <3>1. UNCHANGED <<mgr, evq, wire, srv>>
      BY <1>0, <1>2, ReaderSteps DEF manager, server, network
    <3>2. chan'[r] = chan[r] /\ phase'[r] = phase[r]
      BY <1>0, <1>2, <2>2 DEF Reader, Poll, WakeUp, Handle, EndOfChannel, Outcome, consumer
    <3> QED  BY <1>0, <3>1, <3>2, ElsewhereOnce
  <2> QED  BY <2>1, <2>2
<1>3. CASE Cancel(q)
  <2>1. /\ UNCHANGED <<mgr, evq, wire, srv>> /\ phase'[q] \in {"failed", "raised"}
        /\ \A o \in Requests \ {q} : chan'[o] = chan[o] /\ phase'[o] = phase[o]
    BY <1>0, <1>3 DEF Cancel, Outcome, manager, network
  <2> QED  BY <1>0, <2>1, ElsewhereOnce DEF Reading
<1>4. CASE Close(q)
  <2>1. \E v : Outcome(q, "closed", v)  BY <1>4 DEF Close
  <2>2. phase'[q] = "closed" /\ \A o \in Requests \ {q} : phase'[o] = phase[o]
    BY <1>0, <2>1 DEF Outcome
  <2>3. /\ UNCHANGED <<mgr, evq>> /\ (Flush({}, {q}) \/ UNCHANGED network)
        /\ \A o \in Requests \ {q} : chan'[o] = chan[o]
    BY <1>0, <1>4 DEF Close
  <2>4. wire' = wire /\ \A o \in Requests \ {q} : srv'[o] \in {srv[o], "done"}
    BY <1>0, <2>3 DEF Flush, network
  <2> QED  BY <1>0, <2>2, <2>3, <2>4, ElsewhereOnce DEF Reading
<1>5. CASE SendEof(q)
  <2>1. UNCHANGED <<mgr, evq, chan, wire, phase>> /\ srv'[r] \in {srv[r], "done"}
    BY <1>0, <1>5 DEF SendEof, Flush, manager, consumer
  <2> QED  BY <1>0, <2>1, ElsewhereOnce
<1> QED  BY <1>1, <1>2, <1>3, <1>4, <1>5 DEF Consumer

\* The server responds once.
LEMMA PutOnce ==
    ASSUME FeedInv, PlaceInv', NEW r \in Requests, Once(r), OthersWait,
           NEW e \in Event, wire' = Append(wire, e),
           Awaited(r)' + (IF e \in Heads(r) THEN 1 ELSE 0) <= Awaited(r)
    PROVE  Once(r)'
<1> DEFINE A == Heads(r)
           p == Pending(chan[r])
           n == Opened(r)
           k == IF e \in A THEN 1 ELSE 0
<1>1. UNCHANGED <<chan, phase, mgr, evq>>  BY DEF OthersWait, manager, consumer
<1>2. Batch' = Batch /\ Opened(r)' = n /\ A' = A /\ (Reading(r)' <=> Reading(r))
  BY <1>1 DEF Batch, Opened, Heads, Reading
<1>3. /\ p \in Seq(Event) /\ Batch \in Seq(Event) /\ wire \in Seq(Event) /\ n \in Nat
  BY FedParts DEF FeedInv, Opened
<1>4. Total(Heads(r), Pending(chan[r]), Batch, wire, Opened(r))' = Total(A, p, Batch, wire', n)
  BY <1>1, <1>2 DEF Total
<1>5. /\ Awaited(r)' + k <= Awaited(r) /\ k \in {0, 1}
      /\ Awaited(r) \in {0, 1} /\ Awaited(r)' \in {0, 1}
  BY DEF Awaited
<1>6. Weight(r) = Total(A, p, Batch, wire, n) + Awaited(r)
      /\ Weight(r)' = Total(A, p, Batch, wire', n) + Awaited(r)'
  BY <1>4 DEF Weight
<1> HIDE DEF A, p, n
<1>7. Total(A, p, Batch, wire', n) = Total(A, p, Batch, wire, n) + k
      /\ Total(A, p, Batch, wire, n) \in Nat
  <2>1. Line(A, {}, p, Batch, wire, n) /\ e \notin {}  BY NoSigns
  <2>2. Total(A, p, Batch, Append(wire, e), n) = Total(A, p, Batch, wire, n) + k
    BY <1>3, <2>1, LinePut
  <2> QED  BY <1>3, <2>2, LineCounts
<1> HIDE DEF k
<1>8. Weight(r)' <= Weight(r) /\ Weight(r) \in Nat /\ Weight(r)' \in Nat
  BY <1>5, <1>6, <1>7
<1> QED  BY <1>2, <1>8 DEF Once

LEMMA NextOnce ==
    ASSUME FeedInv, PlaceInv', [Next]_vars, NEW r \in Requests, Once(r)
    PROVE  Once(r)'
<1>0. PlaceInv /\ srv \in [Requests -> {"none", "open", "body", "done"}]
      /\ sent \in [Requests -> Nat]
  BY TypeParts DEF FeedInv, PlaceInv
<1>1. ASSUME NEW kind \in StreamKinds \cup {"ping", "goaway"}, NEW s \in Requests \cup {Zero},
             NEW n \in Nat, Transmit(Ev(kind, s, n)), OthersWait,
             kind = "response" /\ s = r => srv[r] = "open" /\ srv'[r] = "body",
             srv'[r] = srv[r] \/ srv'[r] \in {"body", "done"}
      PROVE  Once(r)'
  <2>1. PICK e \in Event : e = Ev(kind, s, n) /\ e.kind = kind /\ e.s = s
    <3>1. Ev(kind, s, n) \in Event  BY TypedEvent
    <3> QED  BY <3>1 DEF Ev
  <2>2. wire' = Append(wire, e)  BY <1>1, <2>1 DEF Transmit
  <2>3. Awaited(r)' + (IF e \in Heads(r) THEN 1 ELSE 0) <= Awaited(r)
    <3>1. e \in Heads(r) => srv[r] = "open" /\ srv'[r] = "body"  BY <1>1, <2>1 DEF Heads
    <3>2. srv'[r] = srv[r] \/ srv'[r] \in {"body", "done"}  BY <1>1
    <3> QED  BY <3>1, <3>2 DEF Awaited
  <2> QED  BY <1>1, <2>1, <2>2, <2>3, PutOnce
<1>2. ASSUME NEW q \in Requests, Server(q) PROVE Once(r)'
  <2>1. OthersWait /\ sent[q] + 1 \in Nat /\ sent[q] \in Nat  BY <1>0, <1>2, OthersWaitSteps
  <2>2. CASE Respond(q)
    <3>1. /\ Transmit(Ev("response", q, 0)) /\ srv[q] = "open" /\ srv' = [srv EXCEPT ![q] = "body"]
      BY <2>2 DEF Respond
    <3> QED  BY <1>0, <1>1, <2>1, <3>1 DEF StreamKinds
  <2>3. CASE SendData(q)
    BY <1>0, <1>1, <2>1, <2>3 DEF SendData, StreamKinds
  <2>4. CASE EndStream(q)
    BY <1>0, <1>1, <2>1, <2>4 DEF EndStream, StreamKinds
  <2>5. CASE ServerReset(q)
    BY <1>0, <1>1, <2>1, <2>5 DEF ServerReset, StreamKinds
  <2>6. CASE ServerWindow(q)
    BY <1>0, <1>1, <2>1, <2>6 DEF ServerWindow, StreamKinds
  <2> QED  BY <1>2, <2>2, <2>3, <2>4, <2>5, <2>6 DEF Server
<1>3. CASE ServerPing
  BY <1>1, <1>3, OthersWaitSteps DEF ServerPing
<1>4. CASE GoAway
  BY <1>1, <1>4, OthersWaitSteps DEF GoAway
<1>5. CASE AClose \/ ServerClose \/ Abort \/ UNCHANGED vars
  <2>1. UNCHANGED <<chan, phase, mgr, evq, srv>> /\ wire' \in {wire, <<>>}
    BY <1>5 DEF AClose, ServerClose, Abort, OthersWait, vars, manager, consumer, server, network
  <2> QED  BY <1>0, <2>1, ElsewhereOnce
<1> QED  BY <1>2, <1>3, <1>4, <1>5, ManagerOnce, ConsumerOnce DEF Next

-----------------------------------------------------------------------------
(* A channel ends with a last event *)

LEMMA FinalOnly ==
    ASSUME NEW p \in Seq(Event), NEW e \in Event
    PROVE  /\ ~HasFinal(<<>>)
           /\ HasFinal(Append(p, e)) => HasFinal(p) \/ e.kind \in Final
           /\ HasFinal(p \o <<e>>) => HasFinal(p) \/ e.kind \in Final
           /\ p # <<>> /\ (Head(p).kind \in Final \/ HasFinal(Tail(p))) => HasFinal(p)
<1>1. ~HasFinal(<<>>)  BY DEF HasFinal
<1>2. ASSUME HasFinal(Append(p, e)) PROVE HasFinal(p) \/ e.kind \in Final
  <2>1. PICK i \in DOMAIN Append(p, e) : Append(p, e)[i].kind \in Final  BY <1>2 DEF HasFinal
  <2>2. (i \in DOMAIN p /\ Append(p, e)[i] = p[i]) \/ Append(p, e)[i] = e  BY <2>1
  <2> QED  BY <2>1, <2>2 DEF HasFinal
<1>3. p \o <<e>> = Append(p, e)  OBVIOUS
<1>4. ASSUME p # <<>>, Head(p).kind \in Final \/ HasFinal(Tail(p)) PROVE HasFinal(p)
  <2>1. 1 \in DOMAIN p /\ Head(p) = p[1]  BY <1>4
  <2>2. ASSUME HasFinal(Tail(p)) PROVE HasFinal(p)
    <3>1. PICK i \in DOMAIN Tail(p) : Tail(p)[i].kind \in Final  BY <2>2 DEF HasFinal
    <3>2. i + 1 \in DOMAIN p /\ Tail(p)[i] = p[i + 1]  BY <1>4, <3>1
    <3> QED  BY <3>1, <3>2 DEF HasFinal
  <2> QED  BY <1>4, <2>1, <2>2 DEF HasFinal
<1> QED  BY <1>1, <1>2, <1>3, <1>4

\* The fields of a channel at its end.
LEMMA Rests ==
    ASSUME NEW c \in Channels(Event), NEW e \in Event
    PROVE  /\ Unblock(c).rx = c.rx /\ Block(c, e).rx = c.rx
           /\ CloseRecv(c).rx = "idle" /\ CloseSend(CloseRecv(c)).rx = "idle"
           /\ Take(c).rx = c.rx /\ Wake(c).rx = "idle" /\ Await(c).rx = "wait"
BY DEF Unblock, Block, CloseRecv, CloseSend, Take, Wake, Await, Channels

\* Nothing happens to r's channel but that a blocked send is called off.
LEMMA EndsKept ==
    ASSUME PlaceInv, NEW r \in Requests, Ends(r),
           chan'[r] = chan[r] \/ (chan'[r] = Unblock(chan[r]) /\ r \notin inReset'),
           Reading(r)' => Reading(r), r \in inReset' => r \in inReset,
           mgr' # "stopped" /\ r \in streams' \cup toReset' =>
              /\ mgr # "stopped" /\ r \in streams \cup toReset
              /\ Taken(r) => Taken(r)'
    PROVE  Ends(r)'
<1>1. chan[r] \in Channels(Event) /\ Ev("reset", r, 0) \in Event
  BY TypeParts, TypedEvent DEF PlaceInv, StreamKinds
<1>2. /\ chan'[r].buf = chan[r].buf /\ chan'[r].rx = chan[r].rx
      /\ chan'[r].sopen = chan[r].sopen /\ chan'[r].ropen = chan[r].ropen
      /\ r \in inReset' => chan'[r].snd = chan[r].snd
  <2>1. LET d == Unblock(chan[r])
        IN  /\ d.buf = chan[r].buf /\ d.rx = chan[r].rx
            /\ d.sopen = chan[r].sopen /\ d.ropen = chan[r].ropen
    BY <1>1, Rests, EndEffects
  <2> QED  BY <2>1
<1>3. HasFinal(chan[r].buf)' = HasFinal(chan[r].buf)
  BY <1>2 DEF HasFinal
<1> QED  BY <1>2, <1>3 DEF Ends

\* A step of the manager that leaves the channels alone.
LEMMA UntouchedTold ==
    ASSUME PlaceInv, Told, UNCHANGED <<chan, phase, result>>,
           mgr \notin {"blocked", "stopped"}, mgr' # "blocked",
           inReset' \subseteq inReset,
           mgr' # "stopped" => streams' \cup toReset' \subseteq streams \cup toReset
    PROVE  Told'
<1>1. ASSUME NEW r \in Requests PROVE Ends(r)' /\ Said(r)'
  <2>1. Ends(r) /\ Said(r) /\ ~Taken(r)  BY DEF Told, Taken
  <2>2. Ends(r)'  BY <2>1, EndsKept DEF Reading
  <2>3. Said(r)'  BY <2>1 DEF Said
  <2> QED  BY <2>2, <2>3
<1> QED  BY <1>1 DEF Told

LEMMA LoopTold ==
    ASSUME PlaceInv, Told,
           \/ Receive \/ ReceiveEof \/ ReceiveBroken \/ DispatchPing \/ DispatchGoAway
           \/ DispatchIgnored \/ BatchDone \/ CloseTransport
           \/ DispatchStream /\ Current.s \notin streams
           \/ Cancelled /\ mgr # "blocked"
    PROVE  Told'
<1>1. ASSUME NEW fail, LeaveLoop(fail)
      PROVE  /\ mgr' # "blocked" /\ inReset' \subseteq inReset
             /\ streams' \cup toReset' \subseteq streams \cup toReset
  BY <1>1 DEF LeaveLoop
<1>2. UNCHANGED <<chan, phase, result>> /\ mgr \notin {"blocked", "stopped"}
  BY DEF Receive, ReceiveEof, ReceiveBroken, DispatchPing, DispatchGoAway, DispatchIgnored,
         BatchDone, CloseTransport, DispatchStream, Cancelled, consumer
<1>3. \/ \E fail : LeaveLoop(fail)
      \/ mgr' \in {"read", "dispatch", "stopped"} /\ UNCHANGED <<streams, toReset, inReset>>
  BY DEF Receive, ReceiveEof, ReceiveBroken, DispatchPing, DispatchGoAway, DispatchIgnored,
         BatchDone, CloseTransport, DispatchStream, Cancelled, Crash
<1> QED  BY <1>1, <1>2, <1>3, UntouchedTold

LEMMA CancelledTold ==
    ASSUME PlaceInv, Told, Cancelled, mgr = "blocked"
    PROVE  Told'
<1>1. /\ UNCHANGED <<phase, result>> /\ chan[Current.s].snd # <<>> /\ Current.s \in Requests
      /\ chan' = [chan EXCEPT ![Current.s] = Unblock(@)]
      /\ mgr' = "resets" /\ inReset' = {} /\ toReset' = streams /\ streams' = {}
  BY DEF Cancelled, LeaveLoop, consumer, PlaceInv, SilentInv, TypeInv
<1>2. chan \in [Requests -> Channels(Event)]  BY TypeParts DEF PlaceInv
<1>3. ASSUME NEW r \in Requests PROVE Ends(r)' /\ Said(r)'
  <2>1. Ends(r) /\ Said(r) /\ ~Taken(r)  BY <1>1 DEF Told, Taken
  <2>2. chan'[r] \in {chan[r], Unblock(chan[r])}  BY <1>1, <1>2
  <2>3. Ends(r)'  BY <1>1, <2>1, <2>2, EndsKept DEF Reading
  <2>4. Said(r)'  BY <1>1, <2>1 DEF Said
  <2> QED  BY <2>3, <2>4
<1> QED  BY <1>1, <1>3 DEF Told

\* The manager's send to the stream of its current event has returned.
LEMMA SentTold ==
    ASSUME PlaceInv, Told, NEW c \in Channels(Event), Sent(c), Alive,
           Current.s \in streams,
           c.rx = "woken" => c.buf # <<>> \/ ~c.sopen,
           Reading(Current.s) /\ (Current.kind \in Final \/ ~c.sopen) => HasFinal(c.buf),
           Current.kind \notin Final => c.ropen /\ ~HasFinal(c.buf)
    PROVE  Told'
<1>0. PICK s \in Requests : s = Current.s
  BY TypeParts DEF PlaceInv
<1>1. /\ UNCHANGED <<phase, result>> /\ chan \in [Requests -> Channels(Event)]
      /\ inReset = {} /\ toReset = {} /\ streams \subseteq Requests
  BY TypeParts DEF Sent, consumer, PlaceInv, InPlace, Stations, Alive
<1>2. /\ mgr' = "dispatch" /\ UNCHANGED <<toReset, inReset>> /\ streams' \subseteq streams
      /\ \/ /\ Current.kind \in Final /\ s \notin streams'
            /\ chan' = [chan EXCEPT ![s] = CloseSend(c)]
         \/ /\ Current.kind \notin Final
            /\ chan' = [chan EXCEPT ![s] = c]
  BY <1>0 DEF Sent
<1>3. CloseSend(c).buf = c.buf /\ CloseSend(c).sopen = FALSE  BY EndEffects
<1>4. ASSUME NEW r \in Requests PROVE Said(r)'
  BY <1>1, <1>2, <1>4 DEF Told, Said, Alive
<1>5. ASSUME NEW r \in Requests, r # s PROVE Ends(r)'
  <2>1. chan'[r] = chan[r] /\ ~Taken(r) /\ Ends(r)  BY <1>0, <1>1, <1>2, <1>5 DEF Taken, Told
  <2> QED  BY <1>1, <1>2, <2>1, EndsKept DEF Reading, Alive
<1>6. Ends(s)'
  <2>1. inReset' = {} /\ toReset' = {}  BY <1>1, <1>2
  <2>2. Reading(s)' <=> Reading(s)  BY <1>1 DEF Reading
  <2>3. CASE Current.kind \in Final
    <3>1. /\ chan'[s].buf = c.buf /\ ~chan'[s].sopen /\ s \notin streams' \cup toReset' \cup inReset'
      BY <1>1, <1>2, <1>3, <2>1, <2>3
    <3>2. Reading(s) => HasFinal(chan'[s].buf)  BY <1>0, <2>3, <3>1
    <3> QED  BY <2>2, <3>1, <3>2 DEF Ends, HasFinal
  <2>4. CASE Current.kind \notin Final
    <3>1. chan'[s] = c  BY <1>1, <1>2, <2>4
    <3>2. Reading(s) /\ ~c.sopen => HasFinal(c.buf)  BY <1>0
    <3> QED  BY <2>1, <2>2, <2>4, <3>1, <3>2 DEF Ends, HasFinal
  <2> QED  BY <2>3, <2>4
<1> QED  BY <1>2, <1>4, <1>5, <1>6 DEF Told

LEMMA DispatchStreamTold == PlaceInv /\ Told /\ DispatchStream => Told'
<1> SUFFICES ASSUME PlaceInv, Told, DispatchStream PROVE Told'  OBVIOUS
<1>1. CASE Current.s \notin streams  BY <1>1, LoopTold
<1>2. CASE Current.s \in streams
  <2>1. PICK s \in Requests : s = Current.s /\ s \in streams
    BY <1>2, TypeParts DEF PlaceInv
  <2>2. PICK e \in Event : e = Current
    BY CurrentType DEF DispatchStream, PlaceInv, SilentInv
  <2>3. /\ mgr = "dispatch" /\ chan[s] \in Channels(Event) /\ chan \in [Requests -> Channels(Event)]
        /\ chan[s].buf \in Seq(Event) /\ chan[s].snd = <<>> /\ ~Taken(s)
        /\ inReset = {} /\ toReset = {} /\ Alive
    <3>1. chan \in [Requests -> Channels(Event)] /\ chan[s] \in Channels(Event)
      BY TypeParts DEF PlaceInv
    <3>2. mgr = "dispatch" /\ Alive  BY DEF DispatchStream, Alive
    <3>3. chan[s].snd = <<>>
      BY <2>1, <3>2, NothingBlocked DEF PlaceInv, InPlace, Stations, Slot
    <3>4. chan[s].buf \in Seq(Event)  BY <3>1, ChannelFields
    <3> QED  BY <3>1, <3>2, <3>3, <3>4 DEF Taken, PlaceInv, InPlace, Stations
  <2>4. /\ chan[s].ropen /\ ~HasFinal(chan[s].buf) /\ Ends(s)
        /\ Reading(s) => chan[s].sopen
    BY <2>1, <2>3 DEF Told, Ends
  <2>5. CASE SendBroken(chan[s]) /\ ~chan[s].ropen  BY <2>4, <2>5
  <2>6. CASE Sent(Put(chan[s], e))
    <3> DEFINE d == Put(chan[s], e)
    <3>1. /\ d \in Channels(Event) /\ d.buf = Append(chan[s].buf, e)
          /\ d.sopen = chan[s].sopen /\ d.ropen = chan[s].ropen
      BY <2>3, PutType, SenderEffects
    <3>2. d.buf # <<>> /\ (HasFinal(d.buf) <=> e.kind \in Final)
      <4>1. d.buf # <<>>  BY <2>3, <3>1
      <4>2. HasFinal(d.buf) => e.kind \in Final
        <5>1. HasFinal(Append(chan[s].buf, e)) => HasFinal(chan[s].buf) \/ e.kind \in Final
          BY <2>3, FinalOnly
        <5> QED  BY <2>4, <3>1, <5>1
      <4>3. e.kind \in Final => HasFinal(d.buf)  BY <2>3, <3>1, FinalAppend
      <4> QED  BY <4>1, <4>2, <4>3
    <3> HIDE DEF d
    <3>3. Sent(d)  BY <2>6 DEF d
    <3> QED  BY <2>1, <2>2, <2>3, <2>4, <3>1, <3>2, <3>3, SentTold
  <2>7. CASE /\ chan' = [chan EXCEPT ![s] = Block(chan[s], e)]
             /\ mgr' = "blocked"
             /\ UNCHANGED <<evq, streams, toReset, inReset, consumer>>
    <3>1. UNCHANGED <<phase, result>> /\ Current' = Current  BY <2>7 DEF consumer, Current
    <3>2. ASSUME NEW r \in Requests PROVE Said(r)'
      BY <2>3, <3>1, <3>2 DEF Told, Said
    <3>3. ASSUME NEW r \in Requests, r # s PROVE Ends(r)'
      <4>1. chan'[r] = chan[r] /\ ~Taken(r) /\ Ends(r)  BY <2>3, <2>7, <3>3 DEF Taken, Told
      <4> QED  BY <2>3, <2>7, <3>1, <4>1, EndsKept DEF Reading
    <3>4. Ends(s)'
      <4>1. LET d == Block(chan[s], e)
            IN  /\ d.buf = chan[s].buf /\ d.rx = chan[s].rx
                /\ d.sopen = chan[s].sopen /\ d.ropen = chan[s].ropen
        BY <2>3, Rests, SenderEffects
      <4>2. chan'[s] = Block(chan[s], e)  BY <2>3, <2>7
      <4>3. /\ chan'[s].buf = chan[s].buf /\ chan'[s].rx = chan[s].rx
            /\ chan'[s].sopen = chan[s].sopen /\ chan'[s].ropen = chan[s].ropen
        BY <4>1, <4>2
      <4>4. (Reading(s)' <=> Reading(s)) /\ s \notin inReset'
        BY <2>3, <2>7, <3>1 DEF Reading
      <4> QED  BY <2>3, <2>4, <4>3, <4>4 DEF Ends, HasFinal
    <3>5. (Current.s \in streams)'  BY <2>1, <2>7, <3>1
    <3> QED  BY <3>2, <3>3, <3>4, <3>5 DEF Told
  <2> QED  BY <2>1, <2>2, <2>5, <2>6, <2>7 DEF DispatchStream
<1> QED  BY <1>1, <1>2

LEMMA ResumeTold == PlaceInv /\ Told /\ Resume => Told'
<1> SUFFICES ASSUME PlaceInv, Told, Resume PROVE Told'  OBVIOUS
<1>1. PICK s \in Requests : s = Current.s /\ s \in streams
  BY TypeParts DEF PlaceInv, Resume, Told
<1>2. /\ mgr = "blocked" /\ chan[s] \in Channels(Event) /\ Alive /\ Ends(s)
  BY TypeParts DEF PlaceInv, Resume, Alive, Told
<1>3. CASE chan[s].snd # <<>> /\ ~chan[s].ropen
  BY <1>1, <1>2, <1>3 DEF Ends, Taken
<1>4. CASE chan[s].snd = <<>> /\ Sent(chan[s])
  <2>1. CASE Current.kind \in Final
    <3>1. Reading(s) => HasFinal(chan[s].buf)
      <4>1. <<>> # <<Current>>  OBVIOUS
      <4> QED  BY <1>1, <1>2, <1>4, <2>1, <4>1 DEF PlaceInv, SilentInv, Silent, BlockedItem
    <3> QED  BY <1>1, <1>2, <1>4, <2>1, <3>1, SentTold DEF Ends
  <2>2. CASE Current.kind \notin Final
    <3>1. chan[s].ropen /\ ~HasFinal(chan[s].buf)
      BY <1>1, <1>2, <2>2 DEF Ends, Taken
    <3>2. Reading(s) /\ ~chan[s].sopen => HasFinal(chan[s].buf)  BY <1>2 DEF Ends
    <3>3. chan[s].rx = "woken" => chan[s].buf # <<>> \/ ~chan[s].sopen  BY <1>2 DEF Ends
    <3> QED  BY <1>1, <1>2, <1>4, <2>2, <3>1, <3>2, <3>3, SentTold
  <2> QED  BY <2>1, <2>2
<1> QED  BY <1>1, <1>3, <1>4 DEF Resume

\* The manager's children: none of them finds its receiver gone.
LEMMA ResetTold ==
    ASSUME PlaceInv, Told, NEW r \in Requests, ResetSend(r) \/ ResetResume(r)
    PROVE  Told'
<1>1. PICK e \in Event : e = Ev("reset", r, 0) /\ e.kind \in Final
  <2>1. Ev("reset", r, 0) \in Event  BY TypedEvent DEF StreamKinds
  <2> QED  BY <2>1 DEF Ev, Final
<1>2. /\ mgr = "resets" /\ UNCHANGED <<mgr, phase, result, streams>>
      /\ chan \in [Requests -> Channels(Event)] /\ chan[r] \in Channels(Event)
      /\ chan[r].buf \in Seq(Event) /\ Ends(r) /\ ~Taken(r)
      /\ toReset \subseteq Requests /\ inReset \subseteq Requests
  <2>1. chan[r] \in Channels(Event)  BY TypeParts DEF PlaceInv
  <2> QED  BY <2>1, ChannelFields, TypeParts
           DEF ResetSend, ResetResume, consumer, Told, Taken, PlaceInv
<1>3. streams \cap (toReset \cup inReset) = {} /\ toReset \cap inReset = {}
  BY DEF PlaceInv, InPlace, Stations
<1>4. ASSUME \A q \in Requests \ {r} : chan'[q] = chan[q],
             toReset' \cup inReset' \subseteq toReset \cup inReset, toReset' \subseteq toReset,
             inReset' \subseteq inReset \cup {r},
             Ends(r)'
      PROVE  Told'
  <2>1. ASSUME NEW q \in Requests, q # r PROVE Ends(q)'
    <3>1. Ends(q) /\ ~Taken(q) /\ chan'[q] = chan[q] /\ (q \in inReset' => q \in inReset)
      BY <1>2, <1>4, <2>1 DEF Told, Taken
    <3> QED  BY <1>2, <1>4, <3>1, EndsKept DEF Reading
  <2>2. ASSUME NEW q \in Requests PROVE Said(q)'
    BY <1>2, <2>2 DEF Told, Said
  <2> QED  BY <1>2, <1>4, <2>1, <2>2 DEF Told
<1>5. Reading(r)' <=> Reading(r)  BY <1>2 DEF Reading
<1>6. CASE /\ r \in toReset /\ chan[r].ropen
           /\ chan' = [chan EXCEPT ![r] = CloseSend(Put(@, e))]
           /\ toReset' = toReset \ {r} /\ UNCHANGED inReset
  <2>1. Put(chan[r], e) \in Channels(Event) /\ Put(chan[r], e).buf = Append(chan[r].buf, e)
    <3>1. Put(chan[r], e) \in Channels(Event)  BY <1>1, <1>2, PutType
    <3>2. Put(chan[r], e).buf = Append(chan[r].buf, e)  BY <1>1, <1>2, SenderEffects
    <3> QED  BY <3>1, <3>2
  <2>2. /\ CloseSend(Put(chan[r], e)).buf = Append(chan[r].buf, e)
        /\ CloseSend(Put(chan[r], e)).sopen = FALSE
    BY <2>1, EndEffects
  <2>3. HasFinal(Append(chan[r].buf, e))  BY <1>1, <1>2, FinalAppend
  <2>4. chan'[r].buf = Append(chan[r].buf, e) /\ ~chan'[r].sopen
    BY <1>2, <1>6, <2>2
  <2>5. r \notin streams' \cup toReset' \cup inReset'  BY <1>2, <1>3, <1>6
  <2>6. Ends(r)'  BY <1>5, <2>3, <2>4, <2>5 DEF Ends, HasFinal
  <2> QED  BY <1>2, <1>4, <1>6, <2>6
<1>7. CASE /\ r \in toReset /\ chan[r].ropen
           /\ chan' = [chan EXCEPT ![r] = Block(@, e)]
           /\ toReset' = toReset \ {r} /\ inReset' = inReset \cup {r}
  <2>1. LET d == Block(chan[r], e)
        IN  /\ d.buf = chan[r].buf /\ d.rx = chan[r].rx /\ d.snd = <<e>>
            /\ d.sopen = chan[r].sopen /\ d.ropen = chan[r].ropen
    BY <1>1, <1>2, Rests, SenderEffects
  <2>2. /\ chan'[r].buf = chan[r].buf /\ chan'[r].rx = chan[r].rx /\ chan'[r].snd # <<>>
        /\ chan'[r].sopen = chan[r].sopen /\ chan'[r].ropen = chan[r].ropen
    <3>1. chan'[r] = Block(chan[r], e) /\ <<e>> # <<>>  BY <1>2, <1>7
    <3> QED  BY <2>1, <3>1
  <2>3. chan[r].ropen /\ ~HasFinal(chan[r].buf)  BY <1>2, <1>7 DEF Ends
  <2>4. r \notin streams' \cup toReset'  BY <1>2, <1>3, <1>7
  <2>5. Ends(r)'  BY <1>2, <1>5, <2>2, <2>3, <2>4 DEF Ends, HasFinal
  <2> QED  BY <1>2, <1>4, <1>7, <2>5
<1>8. CASE /\ r \in inReset /\ chan[r].snd = <<>>
           /\ chan' = [chan EXCEPT ![r] = CloseSend(@)]
           /\ inReset' = inReset \ {r} /\ UNCHANGED toReset
  <2>1. CloseSend(chan[r]).buf = chan[r].buf /\ CloseSend(chan[r]).sopen = FALSE
    BY <1>2, EndEffects
  <2>2. chan'[r].buf = chan[r].buf /\ ~chan'[r].sopen  BY <1>2, <1>8, <2>1
  <2>3. Reading(r) => HasFinal(chan[r].buf)  BY <1>2, <1>8 DEF Ends
  <2>4. r \notin streams' \cup toReset' \cup inReset'  BY <1>2, <1>3, <1>8
  <2>5. Ends(r)'  BY <1>5, <2>2, <2>3, <2>4 DEF Ends, HasFinal
  <2> QED  BY <1>2, <1>4, <1>8, <2>5
<1>9. CASE r \in toReset /\ ~chan[r].ropen  BY <1>2, <1>9 DEF Ends
<1>10. CASE r \in inReset /\ chan[r].snd # <<>> /\ ~chan[r].ropen  BY <1>2, <1>10 DEF Ends
<1>11. CASE ResetSend(r)  BY <1>1, <1>6, <1>7, <1>9, <1>11 DEF ResetSend
<1>12. CASE ResetResume(r)  BY <1>8, <1>10, <1>12 DEF ResetResume
<1> QED  BY <1>11, <1>12

LEMMA ManagerTold == Patient /\ PlaceInv /\ Told /\ ManagerNext => Told'
<1>1. Patient => ~Expire  BY DEF Patient, Expire
<1> QED  BY <1>1, LoopTold, CancelledTold, DispatchStreamTold, ResumeTold, ResetTold
         DEF ManagerNext

-----------------------------------------------------------------------------
\* A step of a task that leaves its channel alone, and those of the others.
LEMMA TaskTold ==
    ASSUME PlaceInv, Told, NEW r \in Requests, UNCHANGED <<mgr, evq, toReset, inReset>>,
           \A q \in Requests \ {r} : /\ chan'[q] = chan[q] /\ phase'[q] = phase[q]
                                     /\ result'[q] = result[q]
                                     /\ q \in streams' <=> q \in streams,
           mgr = "blocked" => streams \subseteq streams',
           Ends(r)', Said(r)'
    PROVE  Told'
<1>1. ASSUME NEW q \in Requests, q # r PROVE Ends(q)' /\ Said(q)'
  <2>1. /\ chan'[q] = chan[q] /\ phase'[q] = phase[q] /\ result'[q] = result[q]
        /\ Ends(q) /\ Said(q) /\ (q \in streams' <=> q \in streams)
    BY <1>1 DEF Told
  <2>2. Current' = Current /\ (Taken(q) => Taken(q)')  BY <2>1 DEF Current, Taken
  <2>3. Ends(q)'  BY <2>1, <2>2, EndsKept DEF Reading
  <2>4. Said(q)'  BY <2>1 DEF Said
  <2> QED  BY <2>3, <2>4
<1>2. mgr = "blocked" => Current' = Current /\ Current.s \in streams  BY DEF Current, Told
<1> QED  BY <1>1, <1>2 DEF Told

LEMMA SendRequestTold ==
    ASSUME FeedInv, Told, NEW r \in Requests, SendRequest(r)
    PROVE  Told'
<1>1. /\ UNCHANGED <<mgr, evq, toReset, inReset, chan>> /\ streams' = streams \cup {r}
      /\ phase[r] = "idle" /\ chan[r] = Fresh
  BY DEF SendRequest, FeedInv, Feed, Unused
<1>2. /\ phase \in [Requests -> Phases] /\ result \in [Requests -> Results]
  BY TypeParts DEF FeedInv, PlaceInv
<1>3. /\ \A q \in Requests \ {r} : phase'[q] = phase[q] /\ result'[q] = result[q]
      /\ \/ phase'[r] = "head" /\ result'[r] = "none"
         \/ phase'[r] = "failed"
  BY <1>2 DEF SendRequest
<1>4. Ends(r)'
  <2>1. ~HasFinal(<<>>)  BY DEF HasFinal
  <2>2. /\ chan'[r].rx = "idle" /\ chan'[r].sopen /\ chan'[r].ropen /\ chan'[r].buf = <<>>
        /\ r \notin inReset'
    BY <1>1 DEF Fresh, FeedInv, PlaceInv, SilentInv, Silent, Begun
  <2> QED  BY <2>1, <2>2 DEF Ends, HasFinal
<1>5. Said(r)'  BY <1>3 DEF Said
<1> QED  BY <1>1, <1>3, <1>4, <1>5, TaskTold DEF FeedInv

LEMMA CancelTold ==
    ASSUME Patient, PlaceInv, Told, NEW r \in Requests, Cancel(r)
    PROVE  Told'
<1>1. /\ UNCHANGED manager /\ mgr = "stopped" /\ inReset = {}
      /\ chan' = [chan EXCEPT ![r].rx = "idle"]
      /\ phase'[r] \in {"failed", "raised"} /\ result'[r] = "cancelled"
      /\ \A q \in Requests \ {r} : phase'[q] = phase[q] /\ result'[q] = result[q]
  BY TypeParts DEF Cancel, Patient, Environment, Outcome, PlaceInv, InPlace, Stations
<1>2. chan \in [Requests -> Channels(Event)] /\ chan[r] \in Channels(Event)
  BY TypeParts DEF PlaceInv
<1>3. chan'[r].rx = "idle" /\ \A q \in Requests \ {r} : chan'[q] = chan[q]
  BY <1>1, <1>2 DEF Channels
<1>4. Ends(r)' /\ Said(r)'
  BY <1>1, <1>3 DEF Ends, Said, Reading, manager
<1> QED  BY <1>1, <1>3, <1>4, TaskTold DEF manager

LEMMA CloseTold ==
    ASSUME Patient, PlaceInv, Told, NEW r \in Requests, Close(r)
    PROVE  Told'
<1>1. UNCHANGED <<mgr, evq, toReset, inReset>> /\ mgr = "stopped" /\ inReset = {}
  BY DEF Close, Patient, Environment, Told, Said, PlaceInv, InPlace, Stations
<1>2. \E v : Outcome(r, "closed", v)  BY DEF Close
<1>3. /\ phase \in [Requests -> Phases] /\ result \in [Requests -> Results]
      /\ chan \in [Requests -> Channels(Event)] /\ chan[r] \in Channels(Event)
      /\ streams \subseteq Requests
  BY TypeParts DEF PlaceInv
<1>4. /\ phase'[r] = "closed"
      /\ \A q \in Requests \ {r} : phase'[q] = phase[q] /\ result'[q] = result[q]
  BY <1>2, <1>3 DEF Outcome
<1>5. /\ \A q \in Requests \ {r} : chan'[q] = chan[q] /\ (q \in streams' <=> q \in streams)
      /\ chan'[r] \in {CloseRecv(chan[r]), CloseSend(CloseRecv(chan[r]))}
  BY <1>3 DEF Close
<1>6. chan'[r].rx = "idle"
  <2>1. Ev("reset", r, 0) \in Event  BY TypedEvent DEF StreamKinds
  <2> QED  BY <1>3, <1>5, <2>1, Rests
<1>7. Ends(r)' /\ Said(r)'  BY <1>1, <1>4, <1>6 DEF Ends, Said, Reading
<1> QED  BY <1>1, <1>4, <1>5, <1>7, TaskTold

\* A task never leaves receive() with its wake-up still to come.
LEMMA ReaderRests ==
    ASSUME SilentInv, NEW r \in Requests, Reader(r)
    PROVE  chan'[r].rx \in {"idle", "wait"}
<1> DEFINE c == chan[r]
<1>1. /\ c \in Channels(Event) /\ Ev("reset", r, 0) \in Event
      /\ chan \in [Requests -> Channels(Event)]
  BY TypeParts, TypedEvent DEF StreamKinds
<1>2. ASSUME NEW e, NEW d, d.rx = "idle", CloseRecv(d).rx = "idle", Handle(r, e, d)
      PROVE  chan'[r].rx = "idle"
  BY <1>1, <1>2 DEF Handle
<1>3. Take(c) \in Channels(Event) \/ Pending(c) = <<>>  BY <1>1, TakeType
<1>4. Wake(c) \in Channels(Event)  BY <1>1, WakeType
<1>5. CASE Poll(r)
  <2>1. c.rx = "idle" /\ Take(c).rx = "idle" /\ Await(c).rx = "wait"
    BY <1>1, <1>5, Rests DEF Poll
  <2>2. CASE Pending(c) # <<>> /\ Handle(r, Head(Pending(c)), Take(c))
    <3>1. CloseRecv(Take(c)).rx = "idle"  BY <1>1, <1>3, <2>2, Rests
    <3> QED  BY <1>2, <2>1, <2>2, <3>1
  <2>3. CASE EndOfChannel(r, c)  BY <1>1, <2>1, <2>3 DEF EndOfChannel
  <2>4. CASE chan' = [chan EXCEPT ![r] = Await(c)]  BY <1>1, <2>1, <2>4
  <2> QED  BY <1>5, <2>2, <2>3, <2>4 DEF Poll
<1>6. CASE WakeUp(r)
  <2>1. Wake(c).rx = "idle" /\ CloseRecv(Wake(c)).rx = "idle"  BY <1>1, <1>4, Rests
  <2>2. CASE Handle(r, Head(c.buf), Wake(c))  BY <1>2, <2>1, <2>2
  <2>3. CASE EndOfChannel(r, Wake(c))  BY <1>1, <2>1, <2>3 DEF EndOfChannel
  <2> QED  BY <1>6, <2>2, <2>3 DEF WakeUp
<1> QED  BY <1>5, <1>6 DEF Reader

\* Where the last event was when r's task took something.
LEMMA LastTaken ==
    ASSUME NEW c \in Channels(Event), NEW d \in Channels(Event), TookFirst(c, d)
    PROVE  LET e == Head(Pending(c))
           IN  /\ HasFinal(d.buf) \/ e.kind \in Final
                     => HasFinal(c.buf) \/ (d.snd = <<>> /\ HasFinal(Pending(c)))
               /\ e.kind \notin Final /\ HasFinal(c.buf) => HasFinal(d.buf)
               /\ e.kind \notin Final /\ HasFinal(Pending(c)) /\ d.snd = <<>> => HasFinal(d.buf)
               /\ c.snd = <<>> => d.snd = <<>>
<1> DEFINE p == Pending(c)
<1>1. /\ c.buf \in Seq(Event) /\ c.snd \in Seq(Event) /\ d.buf \in Seq(Event) /\ d.snd \in Seq(Event)
      /\ p \in Seq(Event) /\ p # <<>> /\ Head(p) \in Event
      /\ Pending(d) = Tail(p)
  <2>1. /\ c.buf \in Seq(Event) /\ c.snd \in Seq(Event) /\ d.buf \in Seq(Event) /\ d.snd \in Seq(Event)
    BY ChannelFields
  <2>2. p \in Seq(Event) /\ p # <<>> /\ Pending(d) = Tail(p)  BY <2>1 DEF Pending, TookFirst
  <2>3. Head(p) \in Event
    <3> HIDE DEF p
    <3> QED  BY <2>2
  <2> QED  BY <2>1, <2>2, <2>3
<1>2. /\ HasFinal(c.buf) => HasFinal(p)
      /\ d.snd = <<>> => Pending(d) = d.buf
  <2>1. HasFinal(c.buf) => HasFinal(p)  BY <1>1, FinalConcat DEF Pending
  <2>2. d.snd = <<>> => Pending(d) = d.buf
    <3>1. \A s \in Seq(Event) : s \o <<>> = s  OBVIOUS
    <3>2. d.buf \in Seq(Event)  BY <1>1
    <3> QED  BY <3>1, <3>2 DEF Pending
  <2> QED  BY <2>1, <2>2
<1>3. HasFinal(p) => Head(p).kind \in Final \/ HasFinal(Tail(p))
  <2> HIDE DEF p
  <2> QED  BY <1>1, FinalRest
<1>4. Head(p).kind \in Final \/ HasFinal(Tail(p)) => HasFinal(p)
  <2> HIDE DEF p
  <2> QED  BY <1>1, FinalOnly
<1>5. CASE c.buf # <<>> /\ Head(p) = Head(c.buf) /\ d.buf = Tail(c.buf) /\ d.snd = c.snd
  <2>1. Head(c.buf).kind \in Final \/ HasFinal(Tail(c.buf)) => HasFinal(c.buf)
    BY <1>1, <1>5, FinalOnly
  <2>2. HasFinal(c.buf) => Head(c.buf).kind \in Final \/ HasFinal(Tail(c.buf))
    BY <1>1, FinalRest
  <2> HIDE DEF p
  <2> QED  BY <1>1, <1>2, <1>3, <1>5, <2>1, <2>2 DEF p
<1>6. CASE d.buf = Tail(p) /\ d.snd = <<>>
  <2> HIDE DEF p
  <2> QED  BY <1>1, <1>2, <1>3, <1>4, <1>6 DEF p
<1> QED  BY <1>5, <1>6 DEF TookFirst

\* A last event in r's channel is the one the manager, or a child, is there for.
LEMMA WhereLast ==
    ASSUME PlaceInv, Told, NEW r \in Requests, NEW d \in Channels(Event), TookFirst(chan[r], d),
           HasFinal(d.buf) \/ Head(Pending(chan[r])).kind \in Final
    PROVE  /\ mgr # "stopped" /\ r \in streams \cup toReset =>
                 mgr = "blocked" /\ Current.s = r /\ Current.kind \in Final /\ d.snd = <<>>
           /\ r \in inReset => d.snd = <<>>
<1> DEFINE c == chan[r]
<1>1. c \in Channels(Event) /\ c.buf \in Seq(Event)  BY TypeParts, ChannelFields DEF PlaceInv
<1>2. /\ HasFinal(c.buf) \/ (d.snd = <<>> /\ HasFinal(Pending(c)))
      /\ c.snd = <<>> => d.snd = <<>>
  BY <1>1, LastTaken
<1>3. Ends(r) /\ Slot(r) /\ Stations  BY DEF Told, PlaceInv, InPlace
<1>4. CASE HasFinal(c.buf)  BY <1>2, <1>3, <1>4 DEF Ends, Taken
<1>5. CASE ~HasFinal(c.buf)
  <2>1. d.snd = <<>> /\ HasFinal(Pending(c))  BY <1>2, <1>5
  <2>2. c.snd # <<>>
    <3>1. c.buf \o <<>> = c.buf  BY <1>1
    <3> QED  BY <1>5, <2>1, <3>1 DEF Pending
  <2>3. CASE mgr = "blocked" /\ Current.s = r /\ c.snd = <<Current>>
    <3>1. PICK e \in Event : e = Current
      BY <2>3, CurrentType DEF PlaceInv, SilentInv, TypeInv
    <3>2. HasFinal(c.buf \o <<e>>)  BY <2>1, <2>3, <3>1 DEF Pending
    <3>3. e.kind \in Final  BY <1>1, <1>5, <3>2, FinalOnly
    <3> QED  BY <2>1, <2>3, <3>1, <3>3
  <2>4. CASE r \in inReset  BY <1>3, <2>1, <2>4 DEF Stations
  <2> QED  BY <1>3, <2>2, <2>3, <2>4 DEF Slot
<1> QED  BY <1>4, <1>5

\* What r's task takes is of its response, in order, and true.
LEMMA RightEvent ==
    ASSUME FeedInv, Signed, NEW r \in Requests, Reading(r), Pending(chan[r]) # <<>>
    PROVE  LET e == Head(Pending(chan[r]))
           IN  /\ e \in Event /\ e.s = r /\ Faithful(e) /\ e.kind \in StreamKinds
               /\ e.kind = "data" => e.n = rcvd[r] + 1
               /\ e.kind = "end" => e.n = rcvd[r]
<1> DEFINE p == Pending(chan[r])
           e == Head(p)
<1>1. p \in Seq(Event) /\ rcvd[r] \in Nat /\ PlaceInv  BY FedParts DEF FeedInv
<1>2. Fed(r)  BY DEF FeedInv, Feed
<1>3. (\A i \in DOMAIN p : p[i].s = r) /\ Numbered(p, Data(r), Signs(r), rcvd[r])
  BY <1>2 DEF Fed
<1>4. ItemsOf(p) = {p[i] : i \in DOMAIN p}  BY DEF ItemsOf
<1>5. \A x \in ItemsOf(p) : Faithful(x) /\ x.kind \in StreamKinds  BY DEF Signed
<1>6. e \in Event /\ e.s = r /\ e \in ItemsOf(p)
  <2> HIDE DEF p
  <2>1. p # <<>>  BY DEF p
  <2>2. 1 \in DOMAIN p /\ Head(p) = p[1]  BY <1>1, <2>1
  <2> QED  BY <1>1, <1>3, <1>4, <2>1, <2>2
<1>7. Faithful(e) /\ e.kind \in StreamKinds  BY <1>5, <1>6
<1>8. e \in Signs(r) => e.n = rcvd[r] + IF e \in Data(r) THEN 1 ELSE 0
  <2> HIDE DEF p
  <2>1. p # <<>>  BY DEF p
  <2> QED  BY <1>1, <1>3, <2>1, NumberedTail
<1>9. /\ e.kind = "data" => e \in Signs(r) /\ e \in Data(r)
      /\ e.kind = "end" => e \in Signs(r) /\ e \notin Data(r)
  BY <1>6 DEF Signs, Data
<1>10. rcvd[r] + 0 = rcvd[r]  BY <1>1
<1> HIDE DEF e, p
<1>11. (e.kind = "data" => e.n = rcvd[r] + 1) /\ (e.kind = "end" => e.n = rcvd[r])
  <2>1. ASSUME e.kind = "data" PROVE e.n = rcvd[r] + 1
    <3>1. e \in Signs(r) /\ e \in Data(r)  BY <1>9, <2>1
    <3> QED  BY <1>8, <3>1
  <2>2. ASSUME e.kind = "end" PROVE e.n = rcvd[r]
    <3>1. e \in Signs(r) /\ e \notin Data(r)  BY <1>9, <2>2
    <3>2. e.n = rcvd[r] + 0  BY <1>8, <3>1
    <3> QED  BY <1>10, <3>2
  <2> QED  BY <2>1, <2>2
<1> QED  BY <1>6, <1>7, <1>11 DEF e, p

\* Where no response is given up, it is not a second response either.
LEMMA TakenEvent ==
    ASSUME Patient, FeedInv, Signed, NEW r \in Requests, Once(r), Reading(r), Pending(chan[r]) # <<>>
    PROVE  LET e == Head(Pending(chan[r]))
           IN  /\ e \in Event /\ e.s = r /\ Faithful(e) /\ e.kind \in StreamKinds
               /\ e.kind \in {"response", "data", "end", "reset"}
               /\ phase[r] = "open" => e.kind # "response"
               /\ e.kind = "data" => e.n = rcvd[r] + 1
               /\ e.kind = "end" => e.n = rcvd[r]
<1> DEFINE p == Pending(chan[r])
           e == Head(p)
<1>1. p \in Seq(Event)  BY FedParts DEF FeedInv
<1>2. /\ e \in Event /\ e.s = r /\ Faithful(e) /\ e.kind \in StreamKinds
      /\ e.kind = "data" => e.n = rcvd[r] + 1
      /\ e.kind = "end" => e.n = rcvd[r]
  BY RightEvent
<1>3. e.kind \in {"response", "data", "end", "reset"}
  BY <1>2 DEF Faithful, StreamKinds, Patient
<1>4. ASSUME phase[r] = "open", e.kind = "response" PROVE FALSE
  <2>1. e \in Heads(r)  BY <1>2, <1>4 DEF Heads
  <2>2. Count(p, Heads(r)) > 0
    <3>1. p # <<>>  OBVIOUS
    <3> HIDE DEF p
    <3>2. Count(Tail(p), Heads(r)) = Count(p, Heads(r)) - 1
      BY <1>1, <2>1, <3>1, CountTail
    <3>3. Tail(p) \in Seq(Event)  BY <1>1, <3>1
    <3>4. Count(Tail(p), Heads(r)) \in Nat /\ Count(p, Heads(r)) \in Nat
      BY <1>1, <3>3, CountType
    <3> QED  BY <3>2, <3>4
  <2>3. /\ Count(p, Heads(r)) \in Nat /\ Count(Batch, Heads(r)) \in Nat
        /\ Count(wire, Heads(r)) \in Nat
    <3>1. PlaceInv  BY DEF FeedInv
    <3>2. Batch \in Seq(Event) /\ wire \in Seq(Event)  BY <3>1, FedParts
    <3> HIDE DEF p
    <3> QED  BY <1>1, <3>2, CountType
  <2>4. Opened(r) = 1 /\ Awaited(r) \in {0, 1} /\ Weight(r) <= 1
    BY <1>4 DEF Opened, Awaited, Once
  <2> HIDE DEF p
  <2>5. Weight(r) = Total(Heads(r), p, Batch, wire, 1) + Awaited(r)  BY <2>4 DEF Weight, p
  <2> QED  BY <2>2, <2>3, <2>4, <2>5 DEF Total
<1> HIDE DEF e, p
<1> QED  BY <1>2, <1>3, <1>4 DEF e, p

\* A response ends with an event: its channel never just ends.
LEMMA NeverEndOfChannel ==
    ASSUME PlaceInv, Told, NEW r \in Requests, Reading(r),
           chan[r].rx = "woken" => chan[r].buf = <<>>,
           chan[r].rx # "woken" => chan[r].buf = <<>> /\ ~chan[r].sopen
    PROVE  FALSE
<1>1. Ends(r) /\ chan[r].buf = <<>>  BY DEF Told
<1>2. ~HasFinal(<<>>)  BY DEF HasFinal
<1> QED  BY <1>1, <1>2 DEF Ends

\* The three things a task that reads does, where no response is given up.
LEMMA ReaderDoes ==
    ASSUME Patient, FeedInv, Signed, Told, NEW r \in Requests, Once(r), Reader(r)
    PROVE  /\ UNCHANGED <<h2, manager, server>> /\ Reading(r)
           /\ \A q \in Requests \ {r} : /\ phase'[q] = phase[q] /\ rcvd'[q] = rcvd[q]
                                        /\ result'[q] = result[q] /\ chan'[q] = chan[q]
           /\ \E d \in Channels(Event) :
                \/ /\ TookFirst(chan[r], d) /\ Pending(chan[r]) # <<>>
                   /\ LET e == Head(Pending(chan[r]))
                      IN  \/ /\ phase[r] = "head" /\ e.kind = "response" /\ chan'[r] = d
                             /\ phase'[r] = "open" /\ result' = [result EXCEPT ![r] = "none"]
                             /\ rcvd' = rcvd
                          \/ /\ phase[r] = "head" /\ chan'[r] = d /\ phase'[r] = "failed"
                             /\ rcvd' = rcvd
                             /\ \E v \in {"reset", "error"} : result' = [result EXCEPT ![r] = v]
                          \/ /\ phase[r] = "open" /\ e.kind = "data" /\ chan'[r] = d
                             /\ phase' = phase /\ result' = result
                             /\ rcvd' = [rcvd EXCEPT ![r] = @ + 1]
                          \/ /\ phase[r] = "open" /\ e.kind \in Final /\ chan'[r] = CloseRecv(d)
                             /\ phase'[r] = "closed" /\ result' = [result EXCEPT ![r] = e.kind]
                             /\ rcvd' = rcvd
                \/ Same(chan[r], d) /\ chan' = [chan EXCEPT ![r] = d] /\ UNCHANGED consumer
<1>0. PlaceInv /\ SilentInv /\ chan \in [Requests -> Channels(Event)]
  BY TypeParts DEF FeedInv, PlaceInv
<1>1. UNCHANGED <<h2, manager, server>> /\ Reading(r)  BY <1>0, ReaderSteps
<1>2. PICK d \in Channels(Event) :
        \/ TookFirst(chan[r], d) /\ Handle(r, Head(Pending(chan[r])), d)
        \/ /\ chan[r].rx = "woken" => chan[r].buf = <<>>
           /\ chan[r].rx # "woken" => chan[r].buf = <<>> /\ ~chan[r].sopen
        \/ Same(chan[r], d) /\ chan' = [chan EXCEPT ![r] = d] /\ UNCHANGED consumer
  BY <1>0, ReaderSteps
<1>3. ~(/\ chan[r].rx = "woken" => chan[r].buf = <<>>
        /\ chan[r].rx # "woken" => chan[r].buf = <<>> /\ ~chan[r].sopen)
  BY <1>0, <1>1, NeverEndOfChannel
<1>4. CASE TookFirst(chan[r], d) /\ Handle(r, Head(Pending(chan[r])), d)
  <2> DEFINE e == Head(Pending(chan[r]))
  <2>1. Pending(chan[r]) # <<>>  BY <1>4 DEF TookFirst
  <2>2. /\ e \in Event /\ e.kind \in {"response", "data"} \cup Final
        /\ phase[r] = "open" => e.kind # "response"
    BY <1>1, <2>1, TakenEvent DEF Final
  <2>3. Handle(r, e, d) /\ TookFirst(chan[r], d)  BY <1>4
  <2> HIDE DEF e
  <2>4. /\ \A q \in Requests \ {r} : /\ phase'[q] = phase[q] /\ rcvd'[q] = rcvd[q]
                                     /\ result'[q] = result[q] /\ chan'[q] = chan[q]
        /\ \/ /\ phase[r] = "head" /\ e.kind = "response" /\ chan'[r] = d
              /\ phase'[r] = "open" /\ result' = [result EXCEPT ![r] = "none"] /\ rcvd' = rcvd
           \/ /\ phase[r] = "head" /\ chan'[r] = d /\ phase'[r] = "failed" /\ rcvd' = rcvd
              /\ \E v \in {"reset", "error"} : result' = [result EXCEPT ![r] = v]
           \/ /\ phase[r] = "open" /\ e.kind = "data" /\ chan'[r] = d /\ phase' = phase
              /\ rcvd' = [rcvd EXCEPT ![r] = @ + 1] /\ result' = result
           \/ /\ phase[r] = "open" /\ e.kind \in Final /\ chan'[r] = CloseRecv(d)
              /\ phase'[r] = "closed" /\ result' = [result EXCEPT ![r] = e.kind] /\ rcvd' = rcvd
    BY <1>0, <2>2, <2>3, HandleCases
  <2> QED  BY <1>1, <2>1, <2>3, <2>4 DEF e
<1>5. CASE Same(chan[r], d) /\ chan' = [chan EXCEPT ![r] = d] /\ UNCHANGED consumer
  <2>1. \A q \in Requests \ {r} : /\ phase'[q] = phase[q] /\ rcvd'[q] = rcvd[q]
                                  /\ result'[q] = result[q] /\ chan'[q] = chan[q]
    BY <1>0, <1>5 DEF consumer
  <2> QED  BY <1>1, <1>5, <2>1
<1> QED  BY <1>2, <1>3, <1>4, <1>5

LEMMA ReaderTold ==
    ASSUME Patient, FeedInv, Signed, Told, NEW r \in Requests, Once(r), Reader(r)
    PROVE  Told'
<1> DEFINE c == chan[r]
<1>0. PlaceInv /\ SilentInv /\ chan \in [Requests -> Channels(Event)] /\ c \in Channels(Event)
      /\ result \in [Requests -> Results] /\ phase \in [Requests -> Phases]
      /\ Ends(r) /\ Said(r) /\ Slot(r) /\ Stations
  BY TypeParts DEF FeedInv, PlaceInv, InPlace, Told
<1>1. UNCHANGED <<mgr, evq, streams, toReset, inReset>> /\ Reading(r) /\ Current' = Current
  BY ReaderDoes DEF manager, Current
<1>2. \A q \in Requests \ {r} : /\ phase'[q] = phase[q] /\ result'[q] = result[q]
                                /\ chan'[q] = chan[q]
  BY ReaderDoes
<1>3. chan'[r].rx # "woken"  BY <1>0, ReaderRests
<1>4. c.ropen  BY <1>1 DEF FeedInv, Feed, Fed
<1>5. ASSUME Ends(r)', Said(r)' PROVE Told'
  BY <1>0, <1>1, <1>2, <1>5, TaskTold
<1>6. PICK d \in Channels(Event) :
        \/ /\ TookFirst(c, d)
           /\ LET e == Head(Pending(c))
              IN  \/ /\ e.kind = "response" /\ chan'[r] = d
                     /\ phase'[r] = "open" /\ result' = [result EXCEPT ![r] = "none"]
                  \/ chan'[r] = d /\ phase'[r] = "failed"
                  \/ /\ phase[r] = "open" /\ e.kind = "data" /\ chan'[r] = d
                     /\ phase' = phase /\ result' = result
                  \/ /\ e.kind \in Final /\ chan'[r] = CloseRecv(d) /\ phase'[r] = "closed"
        \/ Same(c, d) /\ chan' = [chan EXCEPT ![r] = d] /\ UNCHANGED consumer
  BY ReaderDoes
<1>7. CASE TookFirst(c, d)
           /\ LET e == Head(Pending(c))
              IN  \/ /\ e.kind = "response" /\ chan'[r] = d
                     /\ phase'[r] = "open" /\ result' = [result EXCEPT ![r] = "none"]
                  \/ chan'[r] = d /\ phase'[r] = "failed"
                  \/ /\ phase[r] = "open" /\ e.kind = "data" /\ chan'[r] = d
                     /\ phase' = phase /\ result' = result
                  \/ /\ e.kind \in Final /\ chan'[r] = CloseRecv(d) /\ phase'[r] = "closed"
  <2> DEFINE k == Head(Pending(c)).kind
  <2>1. /\ HasFinal(d.buf) \/ k \in Final =>
              /\ mgr # "stopped" /\ r \in streams \cup toReset =>
                    mgr = "blocked" /\ Current.s = r /\ Current.kind \in Final /\ d.snd = <<>>
              /\ r \in inReset => d.snd = <<>>
    BY <1>0, <1>7, WhereLast
  <2>2. /\ k \notin Final /\ HasFinal(c.buf) => HasFinal(d.buf)
        /\ k \notin Final /\ HasFinal(Pending(c)) /\ d.snd = <<>> => HasFinal(d.buf)
        /\ d.sopen = c.sopen /\ d.ropen = c.ropen
        /\ d.snd = <<>> \/ d.snd = c.snd
    BY <1>0, <1>7, LastTaken DEF TookFirst
  <2>3. r \in inReset /\ d.snd = <<>> => HasFinal(c.buf) \/ HasFinal(Pending(c))
    <3>1. SUFFICES ASSUME r \in inReset, c.snd # <<>> PROVE HasFinal(Pending(c))
      BY <1>0, <1>1 DEF Ends
    <3>2. PICK e \in Event : e = Ev("reset", r, 0) /\ e.kind \in Final
      <4>1. Ev("reset", r, 0) \in Event  BY TypedEvent DEF StreamKinds
      <4> QED  BY <4>1 DEF Ev, Final
    <3>3. c.snd = <<e>> /\ c.buf \in Seq(Event)
      BY <1>0, <3>1, <3>2, ChannelFields DEF Slot, Stations
    <3> QED  BY <3>2, <3>3, FinalLast DEF Pending
  <2>4. /\ CloseRecv(d).snd = d.snd /\ chan'[r].snd = d.snd
    <3>1. CloseRecv(d).snd = d.snd  BY EndEffects
    <3> QED  BY <1>7, <3>1
  <2> HIDE DEF k
  <2>5. \/ k \notin Final /\ chan'[r] = d
        \/ chan'[r] = d /\ phase'[r] = "failed"
        \/ k \in Final /\ chan'[r] = CloseRecv(d) /\ phase'[r] = "closed"
    BY <1>7 DEF k, Final
  <2>6. ASSUME Reading(r)' PROVE chan'[r] = d /\ k \notin Final
    BY <2>5, <2>6 DEF Reading
  <2>7. Ends(r)'
    <3>1. ASSUME Reading(r)', ~chan'[r].sopen PROVE HasFinal(chan'[r].buf)
      BY <1>0, <1>1, <2>2, <2>6, <3>1 DEF Ends
    <3>2. ASSUME Reading(r)', r \in inReset', chan'[r].snd = <<>> PROVE HasFinal(chan'[r].buf)
      BY <1>1, <2>2, <2>3, <2>6, <3>2
    <3>3. ~chan'[r].ropen \/ HasFinal(chan'[r].buf) => HasFinal(d.buf) \/ k \in Final
      BY <1>4, <2>2, <2>5
    <3>4. Taken(r)' <=> mgr = "blocked" /\ Current.s = r /\ Current.kind \in Final /\ d.snd = <<>>
      BY <1>1, <2>4 DEF Taken
    <3>5. ASSUME mgr' # "stopped", r \in (streams \cup toReset)',
                 ~chan'[r].ropen \/ HasFinal(chan'[r].buf)
          PROVE  Taken(r)'
      BY <1>1, <2>1, <3>3, <3>4, <3>5 DEF k
    <3>6. ASSUME r \in inReset', ~chan'[r].ropen \/ HasFinal(chan'[r].buf)
          PROVE  chan'[r].snd = <<>>
      BY <1>1, <2>1, <2>4, <3>3, <3>6 DEF k
    <3> QED  BY <1>3, <3>1, <3>2, <3>5, <3>6 DEF Ends, HasFinal
  <2>8. Said(r)'  BY <1>0, <1>7 DEF Said
  <2> QED  BY <1>5, <2>7, <2>8
<1>8. CASE Same(c, d) /\ chan' = [chan EXCEPT ![r] = d] /\ UNCHANGED consumer
  <2>1. chan'[r] = d /\ phase' = phase /\ result' = result  BY <1>0, <1>8 DEF consumer
  <2>2. /\ chan'[r].buf = c.buf /\ chan'[r].snd = c.snd
        /\ chan'[r].sopen = c.sopen /\ chan'[r].ropen = c.ropen
    BY <1>8, <2>1 DEF Same
  <2>3. (Taken(r)' <=> Taken(r)) /\ (Reading(r)' <=> Reading(r))
    BY <1>1, <2>1, <2>2 DEF Taken, Reading
  <2>4. Ends(r)'  BY <1>0, <1>1, <1>3, <2>2, <2>3 DEF Ends, HasFinal
  <2>5. Said(r)'  BY <1>0, <1>1, <2>1 DEF Said
  <2> QED  BY <1>5, <2>4, <2>5
<1> QED  BY <1>6, <1>7, <1>8

LEMMA NextTold ==
    ASSUME Patient, FeedInv, Signed, Told, \A r \in Requests : Once(r), [Next]_vars
    PROVE  Told'
<1>0. PlaceInv  BY DEF FeedInv
<1>1. ASSUME UNCHANGED <<mgr, evq, streams, toReset, inReset, chan, phase, result>>
      PROVE  Told'
  <2>1. ASSUME NEW r \in Requests PROVE Ends(r)' /\ Said(r)'
    <3>1. Ends(r) /\ Said(r) /\ (Taken(r)' <=> Taken(r))  BY <1>1 DEF Told, Taken, Current
    <3>2. Ends(r)'  BY <1>0, <1>1, <3>1, EndsKept DEF Reading
    <3>3. Said(r)'  BY <1>1, <3>1 DEF Said
    <3> QED  BY <3>2, <3>3
  <2> QED  BY <1>1, <2>1 DEF Told, Current
<1>2. CASE ManagerNext  BY <1>0, <1>2, ManagerTold
<1>3. ASSUME NEW r \in Requests, Consumer(r) PROVE Told'
  <2>1. CASE SendEof(r)  BY <1>1, <2>1 DEF SendEof, manager, consumer
  <2> QED  BY <1>0, <1>3, <2>1, SendRequestTold, ReaderTold, CancelTold, CloseTold DEF Consumer
<1>4. CASE \/ ServerPing \/ GoAway \/ ServerClose \/ Abort
           \/ \E r \in Requests : Server(r)
  BY <1>1, <1>4, OthersWaitSteps DEF OthersWait, manager, consumer
<1>5. CASE AClose \/ UNCHANGED vars
  BY <1>1, <1>5 DEF AClose, vars, manager, consumer
<1> QED  BY <1>2, <1>3, <1>4, <1>5 DEF Next

LEMMA NextPatient == Patient /\ PatientInv /\ [Next]_vars => PatientInv'
<1> SUFFICES ASSUME Patient, PatientInv, [Next]_vars PROVE PatientInv'  OBVIOUS
<1>1. FeedInv'
  BY NextPlace, NextType, NextSilent, NextFeed DEF PatientInv, FeedInv, PlaceInv, SilentInv
<1>2. Signed'  BY NextSigned DEF PatientInv
<1>3. Told'  BY NextTold DEF PatientInv
<1>4. \A r \in Requests : Once(r)'  BY <1>1, NextOnce DEF PatientInv, FeedInv
<1> QED  BY <1>1, <1>2, <1>3, <1>4 DEF PatientInv

-----------------------------------------------------------------------------
(* The steps of a body, in terms of the connection's variables *)
BodyStep == [Body!Next]_(Body!vars)

LEMMA BodyStutters ==
    ASSUME UNCHANGED <<sent, ended, rcvd, phase, result>>
    PROVE  BodyStep
BY DEF BodyStep, Body!vars

LEMMA BodyConsumed ==
    ASSUME NEW r \in Requests, result[r] = "none", rcvd[r] < sent[r],
           rcvd' = [rcvd EXCEPT ![r] = @ + 1], UNCHANGED <<sent, ended, phase, result>>
    PROVE  BodyStep
<1>1. Body!Consume(r)  BY DEF Body!Consume
<1> QED  BY <1>1 DEF BodyStep, Body!Next

\* r's task learns, once, how its response ended, or goes on as before.
LEMMA BodyTells ==
    ASSUME SilentInv, NEW r \in Requests, UNCHANGED <<sent, ended, rcvd>>,
           \A q \in Requests \ {r} : phase'[q] = phase[q] /\ result'[q] = result[q],
           \/ result[r] = "none" /\ result'[r] # "eos"
           \/ {result[r], result'[r]} \subseteq {"reset", "closed", "cancelled", "error"},
           result[r] = "none" /\ result'[r] = "end" => r \in ended /\ rcvd[r] = sent[r]
    PROVE  BodyStep
<1> DEFINE Tell(q) == IF result[q] = "none" THEN "none"
                      ELSE IF \/ result[q] = "end"
                              \/ result[q] = "eos" /\ phase[q] # "failed" THEN "end"
                      ELSE "failed"
           told == [q \in Requests |-> Tell(q)]
<1>1. \A q \in Requests \ {r} : told'[q] = told[q]  OBVIOUS
<1>2. told'[r] = told[r] => told' = told  BY <1>1
<1>3. ASSUME NEW v, told'[r] = v PROVE told' = [told EXCEPT ![r] = v]
  <2>1. told = [q \in Requests |-> told[q]] /\ told' = [q \in Requests |-> told'[q]]
    OBVIOUS
  <2> HIDE DEF told
  <2> QED  BY <1>1, <1>3, <2>1
<1>4. CASE told'[r] = told[r]
  <2>1. told' = told  BY <1>2, <1>4
  <2> QED  BY <2>1 DEF BodyStep, Body!vars
<1>5. CASE told'[r] # told[r]
  <2>1. result[r] = "none" /\ result'[r] \notin {"none", "eos"}  BY <1>5
  <2>2. told[r] = "none"  BY <2>1
  <2>3. CASE result'[r] = "end"
    <3>1. told' = [told EXCEPT ![r] = "end"]  BY <1>3, <2>3
    <3>2. Body!TellEnd(r)  BY <2>1, <2>2, <2>3, <3>1 DEF Body!TellEnd
    <3> QED  BY <3>2 DEF BodyStep, Body!Next
  <2>4. CASE result'[r] # "end"
    <3>1. told' = [told EXCEPT ![r] = "failed"]  BY <1>3, <2>1, <2>4
    <3>2. Body!TellFailure(r)  BY <2>2, <3>1 DEF Body!TellFailure
    <3> QED  BY <3>2 DEF BodyStep, Body!Next
  <2> QED  BY <2>3, <2>4
<1> QED  BY <1>4, <1>5

LEMMA TaskBody ==
    ASSUME Patient, PatientInv, NEW r \in Requests, Consumer(r)
    PROVE  BodyStep
<1>0. /\ SilentInv /\ PlaceInv /\ FeedInv /\ Signed /\ Told /\ Once(r) /\ Said(r)
      /\ phase \in [Requests -> Phases] /\ result \in [Requests -> Results]
      /\ rcvd \in [Requests -> Nat] /\ sent \in [Requests -> Nat]
  BY TypeParts DEF PatientInv, FeedInv, PlaceInv, Told
<1>1. CASE SendRequest(r)
  <2>1. /\ UNCHANGED <<rcvd, sent, ended>> /\ phase[r] = "idle"
        /\ \A q \in Requests \ {r} : phase'[q] = phase[q] /\ result'[q] = result[q]
        /\ result'[r] \in {"none", "error"}
    BY <1>0, <1>1 DEF SendRequest, Flush
  <2> QED  BY <1>0, <2>1, BodyTells DEF Said
<1>2. CASE Reader(r)
  <2>1. UNCHANGED <<sent, ended>> /\ Reading(r) /\ result[r] = "none"
    BY <1>0, <1>2, ReaderDoes DEF server, network, Said, Reading
  <2>2. PICK d :
          \/ /\ Pending(chan[r]) # <<>>
             /\ LET e == Head(Pending(chan[r]))
                IN  \/ /\ result' = [result EXCEPT ![r] = "none"] /\ rcvd' = rcvd
                    \/ /\ rcvd' = rcvd
                       /\ \E v \in {"reset", "error"} : result' = [result EXCEPT ![r] = v]
                    \/ /\ e.kind = "data" /\ phase' = phase /\ result' = result
                       /\ rcvd' = [rcvd EXCEPT ![r] = @ + 1]
                    \/ /\ e.kind \in Final /\ result' = [result EXCEPT ![r] = e.kind]
                       /\ rcvd' = rcvd
          \/ chan' = [chan EXCEPT ![r] = d] /\ UNCHANGED consumer
    BY <1>0, <1>2, ReaderDoes
  <2>3. \A q \in Requests \ {r} : phase'[q] = phase[q] /\ result'[q] = result[q]
    BY <1>0, <1>2, ReaderDoes
  <2>4. CASE UNCHANGED consumer  BY <2>1, <2>4, BodyStutters DEF consumer
  <2>5. ASSUME NEW v \in {"none", "reset", "error"}, result' = [result EXCEPT ![r] = v], rcvd' = rcvd
        PROVE  BodyStep
    <3>1. result'[r] = v  BY <1>0, <2>5
    <3> QED  BY <1>0, <2>1, <2>3, <2>5, <3>1, BodyTells
  <2>6. ASSUME Pending(chan[r]) # <<>>, Head(Pending(chan[r])).kind = "data",
               rcvd' = [rcvd EXCEPT ![r] = @ + 1], phase' = phase, result' = result
        PROVE  BodyStep
    <3>1. PICK e \in Event : /\ e.s = r /\ Faithful(e) /\ e.kind = "data" /\ e.n = rcvd[r] + 1
      BY <1>0, <2>1, <2>6, TakenEvent
    <3>2. e.n <= sent[r]  BY <3>1 DEF Faithful
    <3>3. rcvd[r] \in Nat /\ sent[r] \in Nat  BY <1>0
    <3>4. rcvd[r] < sent[r]  BY <3>1, <3>2, <3>3
    <3> QED  BY <2>1, <2>6, <3>4, BodyConsumed
  <2>7. ASSUME Pending(chan[r]) # <<>>, NEW e, e = Head(Pending(chan[r])), e.kind \in Final,
               result' = [result EXCEPT ![r] = e.kind], rcvd' = rcvd
        PROVE  BodyStep
    <3>1. e.s = r /\ Faithful(e) /\ (e.kind = "end" => e.n = rcvd[r])
      BY <1>0, <2>1, <2>7, TakenEvent
    <3>2. e.kind = "end" => r \in ended /\ rcvd[r] = sent[r]  BY <3>1 DEF Faithful
    <3>3. result'[r] = e.kind /\ e.kind \in {"end", "reset"}  BY <1>0, <2>7 DEF Final
    <3> QED  BY <1>0, <2>1, <2>3, <2>7, <3>2, <3>3, BodyTells
  <2>8. PICK e : e = Head(Pending(chan[r]))  OBVIOUS
  <2> QED  BY <2>2, <2>4, <2>5, <2>6, <2>7, <2>8
<1>3. CASE Cancel(r)
  <2>1. /\ UNCHANGED <<sent, ended, rcvd>> /\ Reading(r) /\ result'[r] = "cancelled"
        /\ \A q \in Requests \ {r} : phase'[q] = phase[q] /\ result'[q] = result[q]
    BY <1>0, <1>3 DEF Cancel, Outcome, network
  <2> QED  BY <1>0, <2>1, BodyTells DEF Said, Reading
<1>4. CASE Close(r)
  <2>1. /\ UNCHANGED rcvd /\ phase[r] = "raised"
    BY <1>4 DEF Close, Patient, Environment
  <2>2. result[r] = "cancelled"  BY <1>0, <2>1 DEF Said
  <2>3. Flush({}, {r}) \/ UNCHANGED network  BY <1>4 DEF Close
  <2>4. UNCHANGED <<sent, ended>>  BY <2>3 DEF Flush, network
  <2>5. \E v \in {"cancelled", "error"} : Outcome(r, "closed", v)
    BY <1>4, <2>2 DEF Close
  <2>6. /\ result'[r] \in {"cancelled", "error"}
        /\ \A q \in Requests \ {r} : phase'[q] = phase[q] /\ result'[q] = result[q]
    BY <1>0, <2>5 DEF Outcome
  <2> QED  BY <1>0, <2>1, <2>2, <2>4, <2>6, BodyTells
<1>5. CASE SendEof(r)
  <2>1. Flush({}, {}) /\ UNCHANGED consumer  BY <1>5 DEF SendEof
  <2> QED  BY <2>1, BodyStutters DEF Flush, consumer
<1> QED  BY <1>1, <1>2, <1>3, <1>4, <1>5 DEF Consumer

LEMMA ServerBody ==
    ASSUME Signed, NEW r \in Requests, Server(r)
    PROVE  BodyStep
<1>1. UNCHANGED <<rcvd, phase, result>>  BY OthersWaitSteps DEF OthersWait, consumer
<1>2. CASE SendData(r)
  <2>1. /\ r \notin ended /\ sent' = [sent EXCEPT ![r] = @ + 1] /\ UNCHANGED ended
    BY <1>2 DEF SendData, Signed
  <2>2. Body!Produce(r)  BY <1>1, <2>1 DEF Body!Produce
  <2> QED  BY <2>2 DEF BodyStep, Body!Next
<1>3. CASE EndStream(r)
  <2>1. ended' = ended \cup {r} /\ UNCHANGED sent  BY <1>3 DEF EndStream
  <2>2. Body!Finish(r)  BY <1>1, <2>1 DEF Body!Finish
  <2> QED  BY <2>2 DEF BodyStep, Body!Next
<1>4. CASE Respond(r) \/ ServerReset(r) \/ ServerWindow(r)
  BY <1>1, <1>4, BodyStutters DEF Respond, ServerReset, ServerWindow
<1> QED  BY <1>2, <1>3, <1>4 DEF Server

LEMMA NextBody == Patient /\ PatientInv /\ [Next]_vars => BodyStep
<1> SUFFICES ASSUME Patient, PatientInv, [Next]_vars PROVE BodyStep  OBVIOUS
<1>1. CASE ManagerNext
  <2>1. UNCHANGED <<phase, result, rcvd, sent, ended>>
    BY <1>1, ManagerTouches DEF PatientInv, FeedInv
  <2> QED  BY <2>1, BodyStutters
<1>2. CASE ServerPing \/ GoAway \/ ServerClose \/ Abort \/ AClose \/ UNCHANGED vars
  <2>1. UNCHANGED <<phase, result, rcvd, sent, ended>>
    BY <1>2 DEF ServerPing, GoAway, ServerClose, Abort, AClose, OthersWait, vars,
               consumer, server, network
  <2> QED  BY <2>1, BodyStutters
<1> QED  BY <1>1, <1>2, TaskBody, ServerBody DEF Next, PatientInv

LEMMA InitPatient == Init => PatientInv /\ Body!Init
<1> SUFFICES ASSUME Init PROVE PatientInv /\ Body!Init  OBVIOUS
<1>1. FeedInv  BY InitPlace, InitFeed DEF FeedInv
<1>2. /\ \A r \in Requests : /\ phase[r] = "idle" /\ result[r] = "none" /\ rcvd[r] = 0
                             /\ sent[r] = 0 /\ chan[r] = Fresh
      /\ ended = {} /\ evq = <<>> /\ wire = <<>> /\ mgr = "read"
      /\ streams = {} /\ toReset = {} /\ inReset = {}
      /\ rcvd = [r \in Requests |-> 0] /\ sent = [r \in Requests |-> 0]
  BY DEF Init
<1>3. \A r \in Requests : ~Reading(r)  BY <1>2 DEF Reading
<1>4. Signed  BY <1>2, <1>3 DEF Signed, ItemsOf
<1>5. \A r \in Requests : Once(r)  BY <1>3 DEF Once
<1>6. Told
  <2>1. \A r \in Requests : Ends(r) /\ Said(r)  BY <1>2, <1>3 DEF Ends, Said, Fresh
  <2> QED  BY <1>2, <2>1 DEF Told
<1>7. Body!Init  BY <1>2 DEF Body!Init
<1> QED  BY <1>1, <1>4, <1>5, <1>6, <1>7 DEF PatientInv

\* For any requests and bounds, a server that resets, says GOAWAY, closes or
\* breaks the transport, and an aclose() at any time: where no response is given
\* up before its end, the 10 s limit does not pass and the server sends no
\* stream-level WINDOW_UPDATE, what each task sees of its response is a body that
\* comes in order, and whose end it is told only once it has all that the server
\* sent (_http2.py:118-139, 180-195, 455-462).
THEOREM ResponsesAreBodies == ASSUME Patient PROVE Spec => ImplementsResponseBody
<1>1. Init => PatientInv /\ Body!Init  BY InitPatient
<1>2. PatientInv /\ [Next]_vars => PatientInv' /\ [Body!Next]_(Body!vars)
  BY NextPatient, NextBody DEF BodyStep
<1> QED  BY <1>1, <1>2, PTL DEF Spec, ImplementsResponseBody, Body!Spec

-----------------------------------------------------------------------------
(***************************************************************************)
(* Nobody is left reading.  Whoever reads a response whose channel is open *)
(* has a step of the manager to come that ends it, or the connection has   *)
(* failed and the client's task group cancels the reader (Kept); and once  *)
(* the manager has left its loop no request begins any more (Reasons).     *)
(***************************************************************************)
\* Once manage() has ended without an exception no task waits for a response
\* that nobody will end: its channel is closed and it is not asleep.
NobodyStranded ==
    mgr = "stopped" /\ ~failed =>
        \A r \in Requests : Reading(r) => chan[r].rx # "wait" /\ ~chan[r].sopen

\* Who still has to close the channel of r's task.
Kept(r) ==
    /\ chan[r].rx = "wait" => Reading(r) /\ chan[r].sopen
    /\ Reading(r) /\ chan[r].sopen =>
         \/ Alive /\ r \in streams
         \/ mgr = "resets" /\ r \in toReset \cup inReset
         \/ ~Alive /\ failed

\* Why the manager has left its loop: no request can begin any more.
Reasons ==
    /\ \A i \in DOMAIN evq : evq[i].kind = "goaway" => conn = "closed"
    /\ mgr = "resets" => failed \/ exiting \/ conn = "closed"
    /\ mgr = "stopped" => conn = "closed"

Attended == Reasons /\ \A r \in Requests : Kept(r)

-----------------------------------------------------------------------------
LEMMA ReasonsKept ==
    ASSUME TypeInv, Reasons, conn' \in {conn, "closed"}, failed => failed', exiting => exiting',
           evq' \in {evq, <<>>} \/ (evq # <<>> /\ evq' = Tail(evq)),
           mgr' = "resets" => mgr = "resets" \/ failed' \/ exiting' \/ conn' = "closed",
           mgr' = "stopped" => mgr = "stopped" \/ conn' = "closed"
    PROVE  Reasons'
<1>1. evq \in Seq(Event)  BY DEF TypeInv, TypeOK
<1>2. \A i \in DOMAIN evq' : \E j \in DOMAIN evq : evq'[i] = evq[j]
  <2>1. CASE evq' = evq  BY <2>1
  <2>2. CASE evq' = <<>>  BY <2>2
  <2>3. CASE evq # <<>> /\ evq' = Tail(evq)
    <3>1. \A i \in 1 .. Len(Tail(evq)) : i + 1 \in 1 .. Len(evq) /\ Tail(evq)[i] = evq[i + 1]
      BY <1>1, <2>3
    <3>2. DOMAIN Tail(evq) = 1 .. Len(Tail(evq)) /\ DOMAIN evq = 1 .. Len(evq)
      BY <1>1, <2>3
    <3> QED  BY <2>3, <3>1, <3>2
  <2> QED  BY <2>1, <2>2, <2>3
<1>3. \A i \in DOMAIN evq' : evq'[i].kind = "goaway" => conn' = "closed"
  BY <1>2 DEF Reasons
<1> QED  BY <1>3 DEF Reasons

LEMMA ManagerReasons == TypeInv /\ Reasons /\ ManagerNext => Reasons'
<1> SUFFICES ASSUME TypeInv, Reasons, ManagerNext PROVE Reasons'  OBVIOUS
<1>0. /\ wire \in Seq(Event) /\ evq \in Seq(Event) /\ (mgr = "blocked" => evq # <<>>)
      /\ DOMAIN wire = 1 .. Len(wire)
  BY DEF TypeInv, TypeOK
<1>1. CASE Receive
  <2>1. \A i \in DOMAIN evq' : evq'[i].kind = "goaway" => conn' = "closed"
    <3>1. CASE Crash  BY <3>1 DEF Crash, LeaveLoop
    <3>2. CASE evq' = [i \in DOMAIN wire |-> IF Visible(wire[i]) THEN wire[i]
                                           ELSE [wire[i] EXCEPT !.kind = "ignored"]]
      <4> SUFFICES ASSUME NEW i \in DOMAIN wire, evq'[i].kind = "goaway" PROVE conn' = "closed"
        BY <3>2
      <4>1. wire[i] \in Event  BY <1>0
      <4>2. [wire[i] EXCEPT !.kind = "ignored"].kind = "ignored"  BY <4>1 DEF Event
      <4>3. wire[i].kind = "goaway"  BY <3>2, <4>2
      <4> QED  BY <1>1, <4>3 DEF Receive
    <3> QED  BY <1>1, <3>1, <3>2 DEF Receive
  <2>2. mgr' = "dispatch" \/ (mgr' = "resets" /\ failed')
    BY <1>1 DEF Receive, Crash, LeaveLoop
  <2> QED  BY <2>1, <2>2 DEF Reasons
<1>2. CASE DispatchStream \/ Resume
  <2>1. \/ UNCHANGED <<conn, evq, failed, exiting>> /\ mgr' = "blocked"
        \/ Crash /\ conn' = conn
        \/ UNCHANGED <<conn, failed, exiting>> /\ mgr' = "dispatch" /\ evq # <<>> /\ evq' = Tail(evq)
    BY <1>0, <1>2 DEF DispatchStream, Resume, Sent, SendBroken, h2
  <2>2. CASE UNCHANGED <<conn, evq, failed, exiting>> /\ mgr' = "blocked"
    BY <2>2, ReasonsKept
  <2>3. CASE Crash /\ conn' = conn
    <3>1. mgr' = "resets" /\ evq' = <<>> /\ failed' /\ exiting' = exiting
      BY <2>3 DEF Crash, LeaveLoop
    <3> QED  BY <2>3, <3>1, ReasonsKept
  <2>4. CASE UNCHANGED <<conn, failed, exiting>> /\ mgr' = "dispatch" /\ evq # <<>> /\ evq' = Tail(evq)
    BY <2>4, ReasonsKept
  <2> QED  BY <2>1, <2>2, <2>3, <2>4
<1>3. CASE ReceiveEof \/ ReceiveBroken \/ DispatchPing \/ DispatchIgnored \/ BatchDone
  <2>1. \/ LeaveLoop(FALSE) /\ conn' = "closed"
        \/ Crash /\ conn' = conn
        \/ /\ UNCHANGED <<conn, failed, exiting>> /\ mgr' \in {"read", "dispatch"}
           /\ evq' = evq \/ (evq # <<>> /\ evq' = Tail(evq))
    BY <1>3 DEF ReceiveEof, ReceiveBroken, DispatchPing, DispatchIgnored, BatchDone, h2
  <2> QED  BY <2>1, ReasonsKept DEF Crash, LeaveLoop, TypeInv, TypeOK
<1>4. CASE DispatchGoAway
  <2>1. conn = "closed" /\ conn' = conn
    <3>1. 1 \in DOMAIN evq /\ evq[1].kind = "goaway"  BY <1>0, <1>4 DEF DispatchGoAway, Current
    <3> QED  BY <1>4, <3>1 DEF Reasons, DispatchGoAway, h2
  <2> QED  BY <1>4, <2>1, ReasonsKept DEF DispatchGoAway, LeaveLoop
<1>5. CASE Cancelled
  BY <1>5, ReasonsKept DEF Cancelled, LeaveLoop, h2
<1>6. CASE CloseTransport
  <2>1. mgr' = "stopped" /\ conn' = "closed" /\ UNCHANGED <<evq, exiting>>
    BY <1>6 DEF CloseTransport
  <2>2. failed => failed'  BY <1>6 DEF CloseTransport
  <2> QED  BY <2>1, <2>2, ReasonsKept
<1>7. CASE Expire \/ \E r \in Requests : ResetSend(r) \/ ResetResume(r)
  <2>1. UNCHANGED <<conn, mgr, evq, exiting>>
    BY <1>7 DEF Expire, ResetSend, ResetResume, h2
  <2>2. failed => failed'  BY <1>7 DEF Expire, ResetSend, ResetResume
  <2> QED  BY <2>1, <2>2, ReasonsKept
<1> QED  BY <1>1, <1>2, <1>3, <1>4, <1>5, <1>6, <1>7 DEF ManagerNext

LEMMA NextReasons == TypeInv /\ Reasons /\ [Next]_vars => Reasons'
<1> SUFFICES ASSUME TypeInv, Reasons, [Next]_vars PROVE Reasons'  OBVIOUS
<1>1. ASSUME UNCHANGED <<conn, mgr, evq, failed>>, exiting => exiting' PROVE Reasons'
  BY <1>1, ReasonsKept
<1>2. CASE AClose \/ UNCHANGED vars
  BY <1>1, <1>2 DEF AClose, vars, h2, manager
<1>3. ASSUME NEW r \in Requests, Consumer(r) PROVE Reasons'
  <2>1. UNCHANGED <<conn, mgr, evq, failed, exiting>>
    BY <1>3 DEF Consumer, Reader, SendRequest, Poll, WakeUp, Cancel, Close, SendEof, h2, manager
  <2> QED  BY <1>1, <2>1
<1>4. CASE ServerPing \/ GoAway \/ ServerClose \/ Abort \/ \E r \in Requests : Server(r)
  BY <1>1, <1>4, OthersWaitSteps DEF OthersWait, h2, manager
<1> QED  BY <1>2, <1>3, <1>4, ManagerReasons DEF Next

\* r's channel is no longer anybody's to end.
LEMMA KeptOver ==
    ASSUME NEW r \in Requests, chan'[r].rx # "wait", ~chan'[r].sopen \/ ~Reading(r)'
    PROVE  Kept(r)'
BY DEF Kept

\* The one who has to end it goes on, or hands it over.
LEMMA KeptOn ==
    ASSUME NEW r \in Requests, Kept(r), phase'[r] = phase[r],
           chan'[r].sopen = chan[r].sopen, chan'[r].rx = chan[r].rx \/ chan'[r].rx # "wait",
           failed => failed', Alive \/ ~Alive',
           Alive /\ r \in streams =>
              \/ Alive' /\ r \in streams'
              \/ mgr' = "resets" /\ r \in toReset' \cup inReset'
              \/ ~Alive' /\ failed',
           mgr = "resets" /\ r \in toReset \cup inReset =>
              \/ mgr' = "resets" /\ r \in toReset' \cup inReset'
              \/ ~Alive' /\ failed'
    PROVE  Kept(r)'
<1>1. Reading(r)' <=> Reading(r)  BY DEF Reading
<1>2. mgr = "resets" => ~Alive  BY DEF Alive
<1> QED  BY <1>1, <1>2 DEF Kept

\* The loop is left: the open streams are to be reset.
LEMMA LeaveKept ==
    ASSUME NEW r \in Requests, NEW fail \in BOOLEAN, Kept(r), Alive, LeaveLoop(fail),
           phase' = phase, chan'[r].sopen = chan[r].sopen,
           chan'[r].rx = chan[r].rx \/ chan'[r].rx # "wait"
    PROVE  Kept(r)'
<1>1. /\ mgr' = "resets" /\ toReset' = streams /\ ~Alive' /\ (failed => failed')
  BY DEF LeaveLoop, Alive
<1>2. mgr # "resets"  BY DEF Alive
<1> QED  BY <1>1, <1>2, KeptOn

\* What sending, or closing the sending end, leaves a waiting receiver with.
LEMMA RxEffects ==
    ASSUME NEW c \in Channels(Event), NEW e \in Event
    PROVE  /\ Put(c, e).rx # "wait" /\ CloseSend(c).rx # "wait"
           /\ Block(c, e).rx = c.rx /\ Unblock(c).rx = c.rx
           /\ Take(c).rx = c.rx /\ CloseRecv(c).rx = "idle" /\ Wake(c).rx = "idle"
           /\ Await(c).rx = "wait"
BY DEF Put, CloseSend, Block, Unblock, Take, CloseRecv, Wake, Await, Channels

LEMMA ClosedEffects ==
    ASSUME NEW c \in Channels(Event)
    PROVE  CloseSend(c).rx # "wait" /\ ~CloseSend(c).sopen
BY DEF CloseSend, Channels

\* The manager's send to a channel has returned, the channel being c.
LEMMA SentKept ==
    ASSUME TypeInv, NEW c \in Channels(Event), Alive, evq # <<>>, Current.s \in Requests, Sent(c),
           c.sopen = chan[Current.s].sopen, c.rx = chan[Current.s].rx \/ c.rx # "wait",
           NEW r \in Requests, Kept(r)
    PROVE  Kept(r)'
<1>0. chan \in [Requests -> Channels(Event)]  BY DEF TypeInv, TypeOK
<1>1. phase' = phase /\ Current \in Event  BY CurrentType DEF Sent, consumer
<1>2. CASE Current.kind \in Final
  <2>1. chan' = [chan EXCEPT ![Current.s] = CloseSend(c)]  BY <1>2 DEF Sent
  <2>2. CASE r = Current.s
    <3>1. chan'[r].rx # "wait" /\ ~chan'[r].sopen
      BY <1>0, <1>1, <2>1, <2>2, RxEffects, EndEffects
    <3> QED  BY <3>1, KeptOver
  <2>3. CASE r # Current.s
    <3>1. chan'[r] = chan[r]  BY <1>0, <2>1, <2>3
    <3>2. CASE Crash  BY <1>1, <3>1, <3>2, LeaveKept DEF Crash
    <3>3. CASE streams' = streams \ {Current.s} /\ mgr' = "dispatch" /\ failed' = failed
      <4>1. mgr # "resets" /\ Alive'  BY <3>3 DEF Alive
      <4> QED  BY <1>1, <2>3, <3>1, <3>3, <4>1, KeptOn
    <3> QED  BY <1>2, <3>2, <3>3 DEF Sent
  <2> QED  BY <2>2, <2>3
<1>3. CASE Current.kind \notin Final
  <2>1. /\ chan' = [chan EXCEPT ![Current.s] = c] /\ mgr' = "dispatch"
        /\ UNCHANGED <<streams, failed>>
    BY <1>3 DEF Sent
  <2>2. chan'[r].sopen = chan[r].sopen /\ (chan'[r].rx = chan[r].rx \/ chan'[r].rx # "wait")
    BY <1>0, <2>1
  <2>3. mgr # "resets" /\ Alive'  BY <2>1 DEF Alive
  <2> QED  BY <1>1, <2>1, <2>2, <2>3, KeptOn
<1> QED  BY <1>2, <1>3

LEMMA BrokenKept ==
    ASSUME TypeInv, NEW c \in Channels(Event), Alive, Current.s \in Requests, SendBroken(c),
           c.sopen = chan[Current.s].sopen, c.rx = chan[Current.s].rx,
           NEW r \in Requests, Kept(r)
    PROVE  Kept(r)'
<1>0. chan \in [Requests -> Channels(Event)]  BY DEF TypeInv, TypeOK
<1>1. /\ phase' = phase /\ chan'[r].sopen = chan[r].sopen /\ chan'[r].rx = chan[r].rx
  BY <1>0 DEF SendBroken, consumer
<1>2. CASE Crash  BY <1>1, <1>2, LeaveKept DEF Crash
<1>3. CASE mgr' = "dispatch" /\ UNCHANGED <<streams, failed>>
  <2>1. mgr # "resets" /\ Alive'  BY <1>3 DEF Alive
  <2> QED  BY <1>1, <1>3, <2>1, KeptOn
<1> QED  BY <1>2, <1>3 DEF SendBroken

LEMMA DispatchKept ==
    ASSUME TypeInv, DispatchStream \/ Resume, NEW r \in Requests, Kept(r)
    PROVE  Kept(r)'
<1> DEFINE c == chan[Current.s]
<1>0. chan \in [Requests -> Channels(Event)] /\ streams \subseteq Requests /\ Alive /\ evq # <<>>
  BY DEF TypeInv, TypeOK, DispatchStream, Resume, Alive
<1>1. Current \in Event  BY <1>0, CurrentType
<1>2. CASE Crash /\ UNCHANGED <<chan, consumer>>
  BY <1>0, <1>2, LeaveKept DEF Crash, consumer
<1>3. CASE Current.s \in Requests /\ SendBroken(c)  BY <1>0, <1>3, BrokenKept
<1>4. CASE Current.s \in Requests /\ SendBroken(Unblock(c))
  <2>1. c \in Channels(Event)  BY <1>0, <1>4
  <2>2. /\ Unblock(c) \in Channels(Event) /\ Unblock(c).sopen = c.sopen
        /\ Unblock(c).rx = c.rx
    BY <1>1, <2>1, CloseType, EndEffects, RxEffects
  <2> QED  BY <1>0, <1>4, <2>2, BrokenKept
<1>5. CASE Current.s \in Requests /\ Sent(Put(c, Current))
  <2>1. /\ Put(c, Current) \in Channels(Event) /\ Put(c, Current).rx # "wait"
        /\ Put(c, Current).sopen = c.sopen
    <3>1. c \in Channels(Event)  BY <1>0, <1>5
    <3>2. Put(c, Current) \in Channels(Event)  BY <1>1, <3>1, PutType
    <3>3. Put(c, Current).rx # "wait"  BY <1>1, <3>1, RxEffects
    <3>4. Put(c, Current).sopen = c.sopen  BY <1>1, <3>1, SenderEffects
    <3> QED  BY <3>2, <3>3, <3>4
  <2> QED  BY <1>0, <1>5, <2>1, SentKept
<1>6. CASE Current.s \in Requests /\ Sent(c)  BY <1>0, <1>6, SentKept
<1>7. CASE /\ Current.s \in Requests /\ chan' = [chan EXCEPT ![Current.s] = Block(c, Current)]
           /\ mgr' = "blocked" /\ UNCHANGED <<streams, failed, consumer>>
  <2>1. c \in Channels(Event)  BY <1>0, <1>7
  <2>2. chan'[r].sopen = chan[r].sopen /\ chan'[r].rx = chan[r].rx
    <3>1. Block(c, Current).sopen = c.sopen /\ Block(c, Current).rx = c.rx
      BY <1>1, <2>1, SenderEffects, RxEffects
    <3> QED  BY <1>0, <1>7, <3>1
  <2>3. mgr # "resets" /\ Alive'  BY <1>0, <1>7 DEF Alive
  <2>4. UNCHANGED <<streams, failed, phase>>  BY <1>7 DEF consumer
  <2> QED  BY <1>0, <2>2, <2>3, <2>4, KeptOn
<1>8. CASE DispatchStream
  BY <1>0, <1>2, <1>3, <1>5, <1>7, <1>8 DEF DispatchStream
<1>9. CASE Resume
  BY <1>0, <1>4, <1>6, <1>9 DEF Resume, TypeInv
<1> QED  BY <1>8, <1>9

LEMMA ResetKept ==
    ASSUME TypeInv, Expire \/ \E q \in Requests : ResetSend(q) \/ ResetResume(q),
           NEW r \in Requests, Kept(r)
    PROVE  Kept(r)'
<1>0. /\ chan \in [Requests -> Channels(Event)] /\ mgr = "resets" /\ mgr' = "resets"
      /\ phase' = phase /\ ~Alive /\ ~Alive' /\ (failed => failed')
      /\ toReset \subseteq Requests /\ inReset \subseteq Requests
  BY DEF TypeInv, TypeOK, Expire, ResetSend, ResetResume, Alive, consumer
<1>1. Ev("reset", r, 0) \in Event  BY TypedEvent DEF StreamKinds
<1>2. ASSUME DropResets PROVE Kept(r)'
  <2>1. CASE r \in toReset \cup inReset
    <3>1. chan'[r] = CloseSend(Unblock(chan[r]))  BY <1>2, <2>1 DEF DropResets
    <3>2. Unblock(chan[r]) \in Channels(Event)  BY <1>0, CloseType
    <3>3. chan'[r].rx # "wait" /\ ~chan'[r].sopen
      BY <3>1, <3>2, ClosedEffects
    <3> QED  BY <3>3, KeptOver
  <2>2. CASE r \notin toReset \cup inReset
    <3>1. chan'[r] = chan[r]  BY <1>2, <2>2 DEF DropResets
    <3> QED  BY <1>0, <2>2, <3>1, KeptOn
  <2> QED  BY <2>1, <2>2
<1>3. ASSUME NEW q \in Requests, ResetSend(q) \/ ResetResume(q), ~DropResets
      PROVE  Kept(r)'
  <2>0. /\ \A x \in Requests \ {q} : chan'[x] = chan[x]
        /\ \A x \in Requests \ {q} : x \in toReset \cup inReset => x \in toReset' \cup inReset'
    BY <1>0, <1>3 DEF ResetSend, ResetResume
  <2>1. CASE r # q  BY <1>0, <2>0, <2>1, KeptOn
  <2>2. CASE r = q
    <3>0. chan[r] \in Channels(Event) /\ Put(chan[r], Ev("reset", r, 0)) \in Channels(Event)
      BY <1>0, <1>1, PutType
    <3>1. CASE chan'[r] \in {CloseSend(Put(chan[r], Ev("reset", r, 0))), CloseSend(chan[r])}
      <4>1. chan'[r].rx # "wait" /\ ~chan'[r].sopen
        BY <3>0, <3>1, ClosedEffects
      <4> QED  BY <4>1, KeptOver
    <3>2. CASE chan'[r] = Block(chan[r], Ev("reset", r, 0)) /\ r \in inReset'
      <4>1. chan'[r].sopen = chan[r].sopen /\ chan'[r].rx = chan[r].rx
        BY <1>1, <3>0, <3>2, SenderEffects, RxEffects
      <4> QED  BY <1>0, <3>2, <4>1, KeptOn
    <3> QED  BY <1>0, <1>3, <2>2, <3>1, <3>2 DEF ResetSend, ResetResume
  <2> QED  BY <2>1, <2>2
<1>4. CASE Expire  BY <1>2, <1>4 DEF Expire
<1> QED  BY <1>2, <1>3, <1>4

LEMMA ManagerKept ==
    ASSUME TypeInv, ManagerNext, NEW r \in Requests, Kept(r)
    PROVE  Kept(r)'
<1>1. CASE Receive
  <2>1. UNCHANGED <<chan, phase>> /\ Alive  BY <1>1 DEF Receive, consumer, Alive
  <2>2. CASE Crash  BY <2>1, <2>2, LeaveKept DEF Crash
  <2>3. CASE mgr' = "dispatch" /\ UNCHANGED <<streams, toReset, inReset, failed>>
    <3>1. Alive' /\ mgr # "resets"  BY <2>1, <2>3 DEF Alive
    <3> QED  BY <2>1, <2>3, <3>1, KeptOn
  <2> QED  BY <1>1, <2>2, <2>3 DEF Receive
<1>2. CASE ReceiveEof \/ ReceiveBroken \/ DispatchGoAway
  <2>1. UNCHANGED <<chan, phase>> /\ Alive /\ \E fail \in BOOLEAN : LeaveLoop(fail)
    BY <1>2 DEF ReceiveEof, ReceiveBroken, DispatchGoAway, Crash, consumer, Alive
  <2> QED  BY <2>1, LeaveKept
<1>3. CASE DispatchPing \/ DispatchIgnored \/ BatchDone
  <2>1. UNCHANGED <<chan, phase>> /\ Alive
    BY <1>3 DEF DispatchPing, DispatchIgnored, BatchDone, consumer, Alive
  <2>2. CASE \E fail \in BOOLEAN : LeaveLoop(fail)  BY <2>1, <2>2, LeaveKept
  <2>3. CASE mgr' \in {"read", "dispatch"} /\ UNCHANGED <<streams, failed>>
    <3>1. Alive' /\ mgr # "resets"  BY <2>1, <2>3 DEF Alive
    <3> QED  BY <2>1, <2>3, <3>1, KeptOn
  <2> QED  BY <1>3, <2>2, <2>3 DEF DispatchPing, DispatchIgnored, BatchDone, Crash
<1>4. CASE DispatchStream \/ Resume  BY <1>4, DispatchKept
<1>5. CASE Cancelled
  <2>0. /\ chan \in [Requests -> Channels(Event)] /\ (mgr = "blocked" => Current.s \in Requests)
        /\ Alive /\ LeaveLoop(FALSE) /\ phase' = phase
    BY <1>5 DEF TypeInv, TypeOK, Cancelled, Alive, consumer
  <2>1. CASE UNCHANGED chan  BY <2>0, <2>1, LeaveKept
  <2>2. CASE mgr = "blocked" /\ chan' = [chan EXCEPT ![Current.s] = Unblock(@)]
    <3>1. chan[Current.s] \in Channels(Event)  BY <2>0, <2>2
    <3>2. Unblock(chan[Current.s]).sopen = chan[Current.s].sopen  BY <3>1, EndEffects
    <3>3. Unblock(chan[Current.s]).rx = chan[Current.s].rx  BY <3>1 DEF Unblock, Channels
    <3>4. chan'[r].sopen = chan[r].sopen /\ chan'[r].rx = chan[r].rx
      BY <2>0, <2>2, <3>2, <3>3
    <3> QED  BY <2>0, <3>4, LeaveKept
  <2> QED  BY <1>5, <2>1, <2>2 DEF Cancelled
<1>6. CASE Expire \/ \E q \in Requests : ResetSend(q) \/ ResetResume(q)  BY <1>6, ResetKept
<1>7. CASE CloseTransport
  <2>1. /\ UNCHANGED <<chan, phase>> /\ mgr = "resets" /\ toReset = {} /\ inReset = {}
        /\ (failed => failed') /\ ~Alive /\ ~Alive'
    BY <1>7 DEF CloseTransport, consumer, Alive
  <2> QED  BY <2>1, KeptOn
<1> QED  BY <1>1, <1>2, <1>3, <1>4, <1>5, <1>6, <1>7 DEF ManagerNext

\* A step of a task leaves the channels of the others to whom they were left.
LEMMA OtherKept ==
    ASSUME NEW r \in Requests, Kept(r), phase'[r] = phase[r], chan'[r] = chan[r],
           UNCHANGED <<mgr, toReset, inReset, failed>>, r \in streams => r \in streams'
    PROVE  Kept(r)'
<1>1. Alive' <=> Alive  BY DEF Alive
<1> QED  BY <1>1, KeptOn DEF Alive

LEMMA ReaderKept ==
    ASSUME TypeInv, NEW q \in Requests, Reader(q), NEW r \in Requests, Kept(r)
    PROVE  Kept(r)'
<1> DEFINE c == chan[q]
<1>0. /\ chan \in [Requests -> Channels(Event)] /\ phase \in [Requests -> Phases]
      /\ UNCHANGED <<mgr, streams, toReset, inReset, failed>> /\ Reading(q)
      /\ c \in Channels(Event) /\ (Alive' <=> Alive)
  BY DEF TypeInv, TypeOK, Phases, Reader, Poll, WakeUp, manager, Alive
<1>1. Ev("reset", q, 0) \in Event  BY TypedEvent DEF StreamKinds
<1>2. ASSUME NEW e, NEW d \in Channels(Event), Handle(q, e, d) \/ EndOfChannel(q, d),
             d.sopen = c.sopen, d.rx # "wait"
      PROVE  Kept(r)'
  <2>1. \A x \in Requests \ {q} : phase'[x] = phase[x] /\ chan'[x] = chan[x]
    BY <1>0, <1>2 DEF Handle, EndOfChannel, Outcome
  <2>2. CASE r # q  BY <1>0, <2>1, <2>2, OtherKept
  <2>3. CASE r = q
    <3>1. \/ chan'[q] = d
          \/ chan'[q] = CloseRecv(d) /\ phase'[q] = "closed"
      BY <1>0, <1>2 DEF Handle, EndOfChannel, Outcome
    <3>2. chan'[q].rx # "wait" /\ chan'[q].sopen = c.sopen
      <4>1. CloseRecv(d).rx = "idle" /\ CloseRecv(d).sopen = d.sopen
        BY <1>1, <1>2, RxEffects, EndEffects
      <4> QED  BY <1>2, <3>1, <4>1
    <3>3. CASE Reading(q)' /\ c.sopen
      BY <1>0, <2>3, <3>2, <3>3 DEF Kept
    <3>4. CASE ~(Reading(q)' /\ c.sopen)  BY <2>3, <3>2, <3>4, KeptOver
    <3> QED  BY <3>3, <3>4
  <2> QED  BY <2>2, <2>3
<1>3. CASE Poll(q) /\ Pending(c) # <<>> /\ Handle(q, Head(Pending(c)), Take(c))
  <2>1. /\ Take(c) \in Channels(Event) /\ Take(c).sopen = c.sopen /\ Take(c).rx = c.rx
        /\ c.rx = "idle"
    BY <1>0, <1>1, <1>3, TakeType, ReceiverEffects, RxEffects DEF Poll
  <2> QED  BY <1>2, <1>3, <2>1
<1>4. CASE Poll(q) /\ EndOfChannel(q, c)  BY <1>0, <1>2, <1>4 DEF Poll
<1>5. CASE Poll(q) /\ c.sopen /\ chan' = [chan EXCEPT ![q] = Await(c)] /\ UNCHANGED consumer
  <2>1. CASE r # q  BY <1>0, <1>5, <2>1, OtherKept DEF consumer
  <2>2. CASE r = q
    <3>1. chan'[q].sopen /\ phase' = phase
      BY <1>0, <1>5, ReceiverEffects DEF consumer
    <3> QED  BY <1>0, <1>5, <2>2, <3>1 DEF Kept, Reading
  <2> QED  BY <2>1, <2>2
<1>6. CASE WakeUp(q) /\ \E e : Handle(q, e, Wake(c)) \/ EndOfChannel(q, Wake(c))
  <2>1. Wake(c) \in Channels(Event) /\ Wake(c).sopen = c.sopen /\ Wake(c).rx = "idle"
    BY <1>0, <1>1, WakeType, ReceiverEffects, RxEffects
  <2> QED  BY <1>2, <1>6, <2>1
<1> QED  BY <1>3, <1>4, <1>5, <1>6 DEF Reader, Poll, WakeUp

LEMMA ConsumerKept ==
    ASSUME TypeInv, Reasons, NEW q \in Requests, Consumer(q), NEW r \in Requests, Kept(r)
    PROVE  Kept(r)'
<1>0. /\ chan \in [Requests -> Channels(Event)] /\ phase \in [Requests -> Phases]
      /\ chan[q] \in Channels(Event)
      /\ mgr \in {"read", "dispatch", "blocked", "resets", "stopped"}
  BY DEF TypeInv, TypeOK, Phases
<1>1. CASE SendRequest(q)
  <2>1. /\ UNCHANGED <<chan, mgr, toReset, inReset, failed>> /\ streams' = streams \cup {q}
        /\ phase[q] = "idle" /\ conn = "open" /\ ~exiting
        /\ \A x \in Requests \ {q} : phase'[x] = phase[x]
    BY <1>0, <1>1 DEF SendRequest, available_slots, TypeInv, TypeOK
  <2>2. CASE r # q  BY <2>1, <2>2, OtherKept
  <2>3. CASE r = q
    <3>1. chan'[r].rx # "wait"  BY <2>1, <2>3 DEF Kept, Reading
    <3>2. CASE Alive  BY <2>1, <2>3, <3>1, <3>2 DEF Kept, Alive
    <3>3. CASE ~Alive
      <4>1. failed /\ ~Alive'  BY <1>0, <2>1, <3>3 DEF Reasons, Alive
      <4> QED  BY <2>1, <3>1, <4>1 DEF Kept
    <3> QED  BY <3>2, <3>3
  <2> QED  BY <2>2, <2>3
<1>2. CASE Reader(q)  BY <1>2, ReaderKept
<1>3. CASE Cancel(q)
  <2>1. /\ UNCHANGED <<mgr, streams, toReset, inReset, failed>>
        /\ \A x \in Requests \ {q} : phase'[x] = phase[x] /\ chan'[x] = chan[x]
        /\ phase'[q] \in {"failed", "raised"} /\ chan'[q] = [chan[q] EXCEPT !.rx = "idle"]
    BY <1>0, <1>3 DEF Cancel, Outcome, manager
  <2>2. CASE r # q  BY <2>1, <2>2, OtherKept
  <2>3. CASE r = q
    <3>1. chan'[q].rx # "wait" /\ ~Reading(q)'  BY <1>0, <2>1 DEF Channels, Reading
    <3> QED  BY <2>3, <3>1, KeptOver
  <2> QED  BY <2>2, <2>3
<1>4. CASE Close(q)
  <2>1. \E v : Outcome(q, "closed", v)  BY <1>4 DEF Close
  <2>2. /\ UNCHANGED <<mgr, toReset, inReset, failed>> /\ streams \ {q} \subseteq streams'
        /\ chan' \in {[chan EXCEPT ![q] = CloseRecv(chan[q])],
                      [chan EXCEPT ![q] = CloseSend(CloseRecv(chan[q]))]}
    BY <1>4 DEF Close
  <2>3. /\ \A x \in Requests \ {q} : phase'[x] = phase[x] /\ chan'[x] = chan[x]
        /\ phase'[q] = "closed"
    BY <1>0, <2>1, <2>2 DEF Outcome
  <2>4. CASE r # q
    <3>1. r \in streams => r \in streams'  BY <2>2, <2>4
    <3> QED  BY <2>2, <2>3, <2>4, <3>1, OtherKept
  <2>5. CASE r = q
    <3>1. CloseRecv(chan[q]) \in Channels(Event) /\ CloseRecv(chan[q]).rx # "wait"
      BY <1>0, CloseType DEF CloseRecv, Channels
    <3>2. CloseSend(CloseRecv(chan[q])).rx # "wait"  BY <3>1, ClosedEffects
    <3>3. chan'[q].rx # "wait" /\ ~Reading(q)'  BY <1>0, <2>2, <2>3, <3>1, <3>2 DEF Reading
    <3> QED  BY <2>5, <3>3, KeptOver
  <2> QED  BY <2>4, <2>5
<1>5. CASE SendEof(q)
  BY <1>5, OtherKept DEF SendEof, manager, consumer
<1> QED  BY <1>1, <1>2, <1>3, <1>4, <1>5 DEF Consumer

LEMMA NextAttended == TypeInv /\ Attended /\ [Next]_vars => Attended'
<1> SUFFICES ASSUME TypeInv, Attended, [Next]_vars PROVE Attended'  OBVIOUS
<1> SUFFICES ASSUME NEW r \in Requests PROVE Kept(r)'  BY NextReasons DEF Attended
<1>0. Kept(r) /\ Reasons  BY DEF Attended
<1>1. CASE ManagerNext  BY <1>0, <1>1, ManagerKept
<1>2. ASSUME NEW q \in Requests, Consumer(q) PROVE Kept(r)'  BY <1>0, <1>2, ConsumerKept
<1>3. CASE AClose \/ UNCHANGED vars
  BY <1>0, <1>3, OtherKept DEF AClose, vars, manager, consumer
<1>4. CASE ServerPing \/ GoAway \/ ServerClose \/ Abort \/ \E q \in Requests : Server(q)
  BY <1>0, <1>4, OthersWaitSteps, OtherKept DEF OthersWait, manager, consumer
<1> QED  BY <1>1, <1>2, <1>3, <1>4 DEF Next

\* For any requests, bounds and environment: when manage() has ended without an
\* exception, each task that reads a response finds its channel closed, and is
\* not asleep on it.  After an exception the client's task group cancels them
\* (_http2.py:118-139, _client.py: the pool's task group).
THEOREM NobodyIsStranded == Spec => []NobodyStranded
<1>1. Init => TypeInv /\ Attended
  <2> SUFFICES ASSUME Init PROVE Attended  BY InitType
  <2>1. evq = <<>> /\ mgr = "read" /\ \A r \in Requests : phase[r] = "idle" /\ chan[r].rx = "idle"
    BY DEF Init, Fresh
  <2> QED  BY <2>1 DEF Attended, Reasons, Kept, Reading
<1>2. TypeInv /\ Attended /\ [Next]_vars => TypeInv' /\ Attended'  BY NextType, NextAttended
<1>3. TypeInv /\ Attended => NobodyStranded
  <2> SUFFICES ASSUME Attended, mgr = "stopped", ~failed, NEW r \in Requests, Reading(r)
               PROVE  chan[r].rx # "wait" /\ ~chan[r].sopen
    BY DEF NobodyStranded
  <2>1. ~chan[r].sopen  BY DEF Attended, Kept, Alive
  <2> QED  BY <2>1 DEF Attended, Kept
<1> QED  BY <1>1, <1>2, <1>3, PTL DEF Spec

-----------------------------------------------------------------------------
(***************************************************************************)
(* Why manage() raises, where no response is given up before its end.  A   *)
(* stream leaves the manager's table with its last event only, and nothing *)
(* of it comes after (Over); so each event finds its stream in the table,  *)
(* and the channel open (Told).                                            *)
(***************************************************************************)
\* manage() raises only when the transport has failed or the server has sent
\* more after its GOAWAY.
FailsByNetworkOnly ==
    [][failed' /\ ~failed =>
          \/ srvUp # "up"
          \/ mgr = "read" /\ \E i \in 1 .. Len(wire) - 1 : wire[i].kind = "goaway"]_vars

\* Nothing of r comes after its last event.
HasLast(r, q) == \E i \in DOMAIN q : q[i].s = r /\ q[i].kind \in Final
EndsLast(r, q) ==
    \A i, j \in DOMAIN q : q[i].s = r /\ q[i].kind \in Final /\ i < j => q[j].s # r

\* A response whose last event has come is over for the server too, and a
\* stream that the running manager has dropped is one of those.
Over(r) ==
    /\ EndsLast(r, evq) /\ EndsLast(r, wire)
    /\ HasLast(r, evq) => srv[r] = "done" /\ NoneOf(r, wire)
    /\ Alive /\ r \notin streams /\ phase[r] # "idle" =>
          srv[r] = "done" /\ NoneOf(r, evq) /\ NoneOf(r, wire)

LEMMA TailOver ==
    ASSUME NEW r, NEW q \in Seq(Event), q # <<>>
    PROVE  /\ EndsLast(r, q) => EndsLast(r, Tail(q))
           /\ HasLast(r, Tail(q)) => HasLast(r, q)
           /\ EndsLast(r, q) /\ Head(q).s = r /\ Head(q).kind \in Final => NoneOf(r, Tail(q))
<1>1. /\ DOMAIN q = 1 .. Len(q) /\ DOMAIN Tail(q) = 1 .. Len(q) - 1 /\ Len(q) \in Nat
      /\ \A i \in 1 .. Len(q) - 1 : Tail(q)[i] = q[i + 1]
      /\ Head(q) = q[1] /\ 1 <= Len(q)
  <2>1. Len(q) \in Nat /\ 1 <= Len(q) /\ Len(Tail(q)) = Len(q) - 1 /\ Head(q) = q[1]  OBVIOUS
  <2> QED  BY <2>1
<1>2. \A i \in 1 .. Len(q) - 1 : i + 1 \in DOMAIN q /\ Tail(q)[i] = q[i + 1]  BY <1>1
<1>3. EndsLast(r, q) => EndsLast(r, Tail(q))
  <2> SUFFICES ASSUME EndsLast(r, q), NEW i \in 1 .. Len(q) - 1, NEW j \in 1 .. Len(q) - 1,
                      Tail(q)[i].s = r, Tail(q)[i].kind \in Final, i < j
               PROVE  Tail(q)[j].s # r
    BY <1>1 DEF EndsLast
  <2>1. i + 1 < j + 1  BY <1>1
  <2> QED  BY <1>2, <2>1 DEF EndsLast
<1>4. HasLast(r, Tail(q)) => HasLast(r, q)  BY <1>1, <1>2 DEF HasLast
<1>5. ASSUME EndsLast(r, q), Head(q).s = r, Head(q).kind \in Final PROVE NoneOf(r, Tail(q))
  <2> SUFFICES ASSUME NEW i \in 1 .. Len(q) - 1 PROVE Tail(q)[i].s # r  BY <1>1 DEF NoneOf
  <2>1. 1 < i + 1 /\ 1 \in DOMAIN q /\ q[1] = Head(q)  BY <1>1
  <2> QED  BY <1>2, <1>5, <2>1 DEF EndsLast
<1> QED  BY <1>3, <1>4, <1>5

\* No new event, and no stream dropped.
LEMMA OverKept ==
    ASSUME PlaceInv, NEW r \in Requests, Over(r),
           wire' \in {wire, <<>>}, evq' \in {evq, <<>>} \/ (evq # <<>> /\ evq' = Tail(evq)),
           srv[r] = "done" /\ phase[r] # "idle" => srv'[r] = "done",
           phase[r] = "idle" => NoneOf(r, evq),
           Alive' /\ r \notin streams' /\ phase'[r] # "idle" =>
              Alive /\ r \notin streams /\ phase[r] # "idle"
    PROVE  Over(r)'
<1>0. evq \in Seq(Event) /\ wire \in Seq(Event)  BY TypeParts DEF PlaceInv
<1>1. EndsLast(r, <<>>) /\ ~HasLast(r, <<>>) /\ NoneOf(r, <<>>)
  BY DEF EndsLast, HasLast, NoneOf
<1>2. /\ EndsLast(r, evq') /\ (HasLast(r, evq') => HasLast(r, evq))
      /\ NoneOf(r, evq) => NoneOf(r, evq')
  BY <1>0, <1>1, TailOver, NoneOfTail DEF Over
<1>3. EndsLast(r, wire') /\ (NoneOf(r, wire) => NoneOf(r, wire'))
  BY <1>1 DEF Over
<1>4. HasLast(r, evq) => phase[r] # "idle"  BY DEF HasLast, NoneOf
<1>5. ASSUME HasLast(r, evq') PROVE srv'[r] = "done" /\ NoneOf(r, wire')
  BY <1>2, <1>3, <1>4, <1>5 DEF Over
<1>6. ASSUME Alive', r \notin streams', phase'[r] # "idle"
      PROVE  srv'[r] = "done" /\ NoneOf(r, evq') /\ NoneOf(r, wire')
  BY <1>2, <1>3, <1>6 DEF Over
<1> QED  BY <1>2, <1>3, <1>5, <1>6 DEF Over

\* The batch is what was on the wire.
LEMMA ReceiveOver ==
    ASSUME PlaceInv, Feed, Receive, NEW r \in Requests, Over(r)
    PROVE  Over(r)'
<1>0. /\ wire \in Seq(Event) /\ wire' = <<>> /\ evq = <<>> /\ srv' = srv /\ phase' = phase
      /\ Alive /\ (Alive' => streams' = streams)
  BY ReceiveBatch DEF Receive, consumer, Alive, Crash, LeaveLoop
<1>1. EndsLast(r, <<>>) /\ ~HasLast(r, <<>>) /\ NoneOf(r, <<>>)
  BY DEF EndsLast, HasLast, NoneOf
<1>2. CASE ~Alive' /\ evq' = <<>>
  BY <1>0, <1>1, <1>2 DEF Over
<1>3. CASE /\ mgr' = "dispatch" /\ evq' \in Seq(Event) /\ Len(evq') = Len(wire)
           /\ \A i \in 1 .. Len(wire) :
                 /\ evq'[i].s = wire[i].s
                 /\ evq'[i] = wire[i] \/ evq'[i].kind = "ignored"
  <2>1. DOMAIN evq' = 1 .. Len(wire) /\ DOMAIN wire = 1 .. Len(wire)  BY <1>0, <1>3
  <2>2. \A i \in DOMAIN wire : evq'[i].s = wire[i].s /\ (evq'[i].kind \in Final => evq'[i] = wire[i])
    BY <1>3, <2>1 DEF Final
  <2>3. EndsLast(r, evq')  BY <2>1, <2>2 DEF Over, EndsLast
  <2>4. HasLast(r, evq') => srv'[r] = "done"
    <3>1. HasLast(r, evq') => \E i \in DOMAIN wire : wire[i].s = r /\ wire[i].kind \in Final
      BY <2>1, <2>2 DEF HasLast
    <3>2. Quiet(r)  BY DEF Feed
    <3> QED  BY <1>0, <3>1, <3>2 DEF Quiet
  <2>5. NoneOf(r, wire) => NoneOf(r, evq')  BY <2>1, <2>2 DEF NoneOf
  <2>6. Alive' /\ r \notin streams' /\ phase'[r] # "idle" => srv'[r] = "done" /\ NoneOf(r, evq')
    BY <1>0, <2>5 DEF Over
  <2> QED  BY <1>0, <1>1, <2>3, <2>4, <2>6 DEF Over
<1> QED  BY <1>2, <1>3, ReceiveBatch

\* The server adds a frame to the wire, on a stream that it has not ended.
LEMMA PutOver ==
    ASSUME PlaceInv, Feed, NEW r \in Requests, Over(r), OthersWait, NEW e \in Event,
           wire' = Append(wire, e), e.s = r => srv[r] \in {"open", "body"},
           e.s # r => srv'[r] = srv[r]
    PROVE  Over(r)'
<1>0. wire \in Seq(Event) /\ UNCHANGED <<evq, mgr, streams, phase>>
  BY TypeParts DEF PlaceInv, OthersWait, manager, consumer
<1>1. (Alive' <=> Alive) /\ Quiet(r)  BY <1>0 DEF Alive, Feed
<1>2. /\ DOMAIN wire = 1 .. Len(wire) /\ Len(wire) \in Nat
      /\ DOMAIN Append(wire, e) = 1 .. Len(wire) + 1
      /\ Append(wire, e)[Len(wire) + 1] = e
      /\ \A i \in 1 .. Len(wire) : Append(wire, e)[i] = wire[i]
  BY <1>0
<1>3. EndsLast(r, wire')
  <2> SUFFICES ASSUME NEW i \in 1 .. Len(wire) + 1, NEW j \in 1 .. Len(wire) + 1,
                      wire'[i].s = r, wire'[i].kind \in Final, i < j
               PROVE  wire'[j].s # r
    BY <1>2 DEF EndsLast
  <2>1. i \in 1 .. Len(wire) /\ wire'[i] = wire[i]  BY <1>2
  <2>2. CASE j \in 1 .. Len(wire)
    <3>1. wire'[j] = wire[j]  BY <1>2, <2>2
    <3> QED  BY <1>2, <2>1, <2>2, <3>1 DEF Over, EndsLast
  <2>3. CASE j = Len(wire) + 1
    <3>1. srv[r] = "done"  BY <1>1, <1>2, <2>1 DEF Quiet
    <3> QED  BY <1>2, <2>3, <3>1
  <2> QED  BY <1>2, <2>2, <2>3
<1>4. ASSUME srv[r] = "done", NoneOf(r, wire) PROVE srv'[r] = "done" /\ NoneOf(r, wire')
  <2>1. e.s # r  BY <1>4
  <2> QED  BY <1>0, <1>4, <2>1, NoneOfAppend
<1> QED  BY <1>0, <1>1, <1>3, <1>4 DEF Over

LEMMA SentOver ==
    ASSUME PlaceInv, Feed, NEW c, Sent(c), NEW r \in Requests, Over(r), Alive
    PROVE  Over(r)'
<1>0. evq \in Seq(Event) /\ evq # <<>> /\ UNCHANGED <<wire, srv, phase>>
  BY TypeParts DEF PlaceInv, Sent, consumer, server, network
<1>1. Unused(r)  BY DEF Feed
<1>2. CASE Crash
  <2>1. evq' = <<>> /\ ~Alive'  BY <1>2 DEF Crash, LeaveLoop, Alive
  <2> QED  BY <1>0, <1>1, <2>1, OverKept DEF Unused
<1>3. CASE evq' = Tail(evq) /\ (r \in streams => r \in streams')
  BY <1>0, <1>1, <1>3, OverKept DEF Unused
<1>4. CASE Current.s = r /\ Current.kind \in Final /\ evq' = Tail(evq)
  <2>1. /\ 1 \in DOMAIN evq /\ evq[1] = Current  BY <1>0 DEF Current
  <2>2. HasLast(r, evq)  BY <1>4, <2>1 DEF HasLast
  <2>3. srv[r] = "done" /\ NoneOf(r, wire)  BY <2>2 DEF Over
  <2>4. NoneOf(r, evq') /\ EndsLast(r, evq')
    BY <1>0, <1>4, TailOver DEF Over, Current
  <2> QED  BY <1>0, <2>3, <2>4 DEF Over
<1>5. \/ Crash
      \/ evq' = Tail(evq) /\ streams' = streams
      \/ evq' = Tail(evq) /\ streams' = streams \ {Current.s} /\ Current.kind \in Final
  BY DEF Sent
<1> QED  BY <1>2, <1>3, <1>4, <1>5

LEMMA ManagerOver ==
    ASSUME PlaceInv, Feed, ManagerNext, NEW r \in Requests, Over(r)
    PROVE  Over(r)'
<1>0. /\ UNCHANGED phase /\ srv'[r] \in {srv[r], "done"}
      /\ ~Receive => /\ wire' = wire
                     /\ evq' \in {evq, <<>>} \/ (evq # <<>> /\ evq' = Tail(evq))
      /\ Unused(r)
  BY ManagerTouches DEF Feed
<1>1. CASE Receive  BY <1>1, ReceiveOver
<1>2. CASE \E c : Sent(c) /\ (DispatchStream \/ Resume)
  BY <1>2, SentOver DEF DispatchStream, Resume, Alive
<1>3. CASE ~Receive /\ (Alive' => Alive /\ streams' = streams)
  BY <1>0, <1>3, OverKept DEF Unused
<1>4. CASE ~Alive \/ \E fail : LeaveLoop(fail)
  <2>1. ~Alive'
    BY <1>4 DEF ManagerNext, LeaveLoop, Alive, Receive, ReceiveEof, ReceiveBroken, DispatchStream,
       Resume, DispatchPing, DispatchGoAway, DispatchIgnored, BatchDone, Cancelled, ResetSend,
       ResetResume, Expire, CloseTransport
  <2> QED  BY <1>1, <1>3, <2>1
<1>5. CASE DispatchStream \/ Resume
  <2>1. \/ \E c : Sent(c)
        \/ \E fail : LeaveLoop(fail)
        \/ mgr' \in {"dispatch", "blocked"} /\ streams' = streams
    BY <1>5 DEF DispatchStream, Resume, SendBroken, Crash
  <2>2. Alive  BY <1>5 DEF DispatchStream, Resume, Alive
  <2> QED  BY <1>1, <1>2, <1>3, <1>4, <1>5, <2>1, <2>2
<1>6. CASE ReceiveEof \/ ReceiveBroken \/ DispatchPing \/ DispatchGoAway \/ DispatchIgnored
           \/ BatchDone \/ Cancelled
  <2>1. \/ \E fail : LeaveLoop(fail)
        \/ streams' = streams
    BY <1>6 DEF ReceiveEof, ReceiveBroken, DispatchPing, DispatchGoAway, DispatchIgnored,
       BatchDone, Cancelled, Crash
  <2>2. Alive
    BY <1>6 DEF ReceiveEof, ReceiveBroken, DispatchPing, DispatchGoAway, DispatchIgnored,
       BatchDone, Cancelled, Alive
  <2> QED  BY <1>1, <1>3, <1>4, <2>1, <2>2
<1>7. CASE Expire \/ CloseTransport \/ \E q \in Requests : ResetSend(q) \/ ResetResume(q)
  <2>1. ~Alive  BY <1>7 DEF Expire, CloseTransport, ResetSend, ResetResume, Alive
  <2> QED  BY <1>4, <2>1
<1> QED  BY <1>1, <1>5, <1>6, <1>7 DEF ManagerNext

LEMMA ConsumerOver ==
    ASSUME Patient, FeedInv, Signed, Told, NEW q \in Requests, Once(q), Consumer(q),
           NEW r \in Requests, Over(r)
    PROVE  Over(r)'
<1>0. /\ PlaceInv /\ Unused(r) /\ srv \in [Requests -> {"none", "open", "body", "done"}]
      /\ phase \in [Requests -> Phases]
  BY TypeParts DEF FeedInv, Feed, PlaceInv
<1>1. /\ UNCHANGED <<wire, evq, mgr>> /\ (Alive' <=> Alive)
  BY DEF Consumer, SendRequest, Reader, Poll, WakeUp, Cancel, Close, SendEof, Flush, h2,
         manager, server, network, Alive
<1>2. ASSUME srv'[r] \in {srv[r], "done"}, r \in streams => r \in streams' \/ ~Alive,
             phase[r] = "idle" => phase'[r] = "idle"
      PROVE  Over(r)'
  BY <1>0, <1>1, <1>2, OverKept DEF Unused
<1>3. CASE SendRequest(q)
  <2>1. /\ streams' = streams \cup {q} /\ phase[q] = "idle"
        /\ \A o \in Requests \ {q} : phase'[o] = phase[o]
        /\ r # q => srv'[r] \in {srv[r], "done"}
    BY <1>0, <1>3 DEF SendRequest, Flush
  <2>2. CASE r = q
    <3>1. NoneOf(r, evq) /\ ~HasLast(r, evq)  BY <1>0, <2>1, <2>2 DEF Unused, HasLast, NoneOf
    <3>2. r \in streams'  BY <2>1, <2>2
    <3>3. EndsLast(r, evq') /\ EndsLast(r, wire') /\ ~HasLast(r, evq')
      BY <1>1, <3>1 DEF Over
    <3> QED  BY <3>2, <3>3 DEF Over
  <2>3. CASE r # q  BY <1>2, <2>1, <2>3
  <2> QED  BY <2>2, <2>3
<1>4. CASE Reader(q)
  <2>1. UNCHANGED <<manager, server>> /\ Reading(q) /\ \A o \in Requests \ {q} : phase'[o] = phase[o]
    BY <1>4, ReaderDoes
  <2>2. phase[r] = "idle" => phase'[r] = "idle"  BY <2>1 DEF Reading
  <2>3. UNCHANGED <<srv, streams>>  BY <2>1 DEF manager, server, network
  <2> QED  BY <1>2, <2>2, <2>3
<1>5. CASE Cancel(q)
  <2>1. /\ UNCHANGED <<srv, streams>> /\ phase[q] # "idle"
        /\ \A o \in Requests \ {q} : phase'[o] = phase[o]
    BY <1>0, <1>5 DEF Cancel, manager, network, Reading, Outcome
  <2> QED  BY <1>2, <2>1
<1>6. CASE Close(q)
  <2>1. mgr = "stopped" /\ phase[q] # "idle"
    BY <1>6 DEF Close, Patient, Environment, Told, Said
  <2>2. \E v : Outcome(q, "closed", v)  BY <1>6 DEF Close
  <2>3. \A o \in Requests \ {q} : phase'[o] = phase[o]  BY <1>0, <2>2 DEF Outcome
  <2>4. srv'[r] \in {srv[r], "done"}
    BY <1>6 DEF Close, Flush, network
  <2> QED  BY <1>2, <2>1, <2>3, <2>4 DEF Alive
<1>7. CASE SendEof(q)
  <2>1. UNCHANGED <<streams, phase>> /\ srv'[r] \in {srv[r], "done"}
    BY <1>7 DEF SendEof, manager, consumer, Flush
  <2> QED  BY <1>2, <2>1
<1> QED  BY <1>3, <1>4, <1>5, <1>6, <1>7 DEF Consumer

LEMMA ServerOver ==
    ASSUME PlaceInv, Feed, NEW r \in Requests, Over(r),
           \/ ServerPing \/ GoAway \/ ServerClose \/ Abort \/ AClose \/ UNCHANGED vars
           \/ \E q \in Requests : Server(q)
    PROVE  Over(r)'
<1>0. /\ srv \in [Requests -> {"none", "open", "body", "done"}] /\ Unused(r)
      /\ sent \in [Requests -> Nat]
  BY TypeParts DEF PlaceInv, Feed
<1>1. CASE ServerClose \/ Abort \/ AClose \/ UNCHANGED vars
  <2>1. UNCHANGED <<evq, srv, phase, mgr, streams>> /\ wire' \in {wire, <<>>}
    BY <1>1, OthersWaitSteps
       DEF ServerClose, Abort, AClose, OthersWait, h2, manager, consumer, server, network, vars
  <2> QED  BY <1>0, <2>1, OverKept DEF Unused, Alive
<1>2. CASE ServerPing \/ GoAway
  <2>1. PICK kind \in {"ping", "goaway"} : Transmit(Ev(kind, Zero, 0))
    BY <1>2 DEF ServerPing, GoAway
  <2> DEFINE e == Ev(kind, Zero, 0)
  <2>2. e \in Event /\ e.s = Zero /\ Zero # r  BY TypedEvent, HTTP2Assumption DEF Ev
  <2>3. wire' = Append(wire, e) /\ srv' = srv /\ OthersWait
    BY <1>2, <2>1, OthersWaitSteps DEF ServerPing, GoAway, Transmit
  <2> HIDE DEF e
  <2> QED  BY <2>2, <2>3, PutOver
<1>3. ASSUME NEW q \in Requests, Server(q) PROVE Over(r)'
  <2>1. PICK kind \in StreamKinds, n \in Nat :
           /\ wire' = Append(wire, Ev(kind, q, n)) /\ srv[q] \in {"open", "body"}
           /\ \A o \in Requests \ {q} : srv'[o] = srv[o]
    BY <1>0, <1>3 DEF Server, Respond, SendData, EndStream, ServerReset, ServerWindow, Transmit,
                      StreamKinds
  <2> DEFINE e == Ev(kind, q, n)
  <2>2. e \in Event /\ e.s = q  BY TypedEvent DEF Ev
  <2>3. OthersWait  BY <1>3, OthersWaitSteps
  <2> HIDE DEF e
  <2>4. wire' = Append(wire, e)  BY <2>1 DEF e
  <2> QED  BY <2>1, <2>2, <2>3, <2>4, PutOver
<1> QED  BY <1>1, <1>2, <1>3

\* Frames of streams name a request.
Named(q) == \A i \in DOMAIN q : q[i].kind \in StreamKinds => q[i].s \in Requests

LEMMA NamedEffects ==
    ASSUME NEW q \in Seq(Event), Named(q)
    PROVE  /\ q # <<>> => Named(Tail(q))
           /\ \A e \in Event : (e.kind \in StreamKinds => e.s \in Requests) => Named(Append(q, e))
<1>1. Len(q) \in Nat /\ DOMAIN q = 1 .. Len(q)  OBVIOUS
<1>2. ASSUME q # <<>> PROVE Named(Tail(q))
  <2>1. DOMAIN Tail(q) = 1 .. Len(q) - 1 /\ \A i \in 1 .. Len(q) - 1 : Tail(q)[i] = q[i + 1]
    BY <1>1, <1>2
  <2>2. \A i \in 1 .. Len(q) - 1 : i + 1 \in DOMAIN q  BY <1>1
  <2> QED  BY <2>1, <2>2 DEF Named
<1>3. ASSUME NEW e \in Event, e.kind \in StreamKinds => e.s \in Requests
      PROVE  Named(Append(q, e))
  <2>1. /\ DOMAIN Append(q, e) = 1 .. Len(q) + 1 /\ Append(q, e)[Len(q) + 1] = e
        /\ \A i \in 1 .. Len(q) : Append(q, e)[i] = q[i]
    BY <1>1
  <2>2. \A i \in 1 .. Len(q) + 1 : i = Len(q) + 1 \/ i \in DOMAIN q  BY <1>1
  <2> QED  BY <1>1, <1>3, <2>1, <2>2 DEF Named
<1> QED  BY <1>2, <1>3

LEMMA NextNamed ==
    PlaceInv /\ Named(evq) /\ Named(wire) /\ [Next]_vars => Named(evq') /\ Named(wire')
<1> SUFFICES ASSUME PlaceInv, Named(evq), Named(wire), [Next]_vars
             PROVE  Named(evq') /\ Named(wire')
  OBVIOUS
<1>0. evq \in Seq(Event) /\ wire \in Seq(Event) /\ Named(<<>>) /\ sent \in [Requests -> Nat]
  BY TypeParts DEF PlaceInv, Named
<1>1. ASSUME wire' \in {wire, <<>>}, evq' \in {evq, <<>>} \/ (evq # <<>> /\ evq' = Tail(evq))
      PROVE  Named(evq') /\ Named(wire')
  BY <1>0, <1>1, NamedEffects
<1>2. ASSUME evq' = evq, NEW e \in Event, wire' = Append(wire, e),
             e.kind \in StreamKinds => e.s \in Requests
      PROVE  Named(evq') /\ Named(wire')
  BY <1>0, <1>2, NamedEffects
<1>3. CASE ManagerNext
  <2>1. CASE ~Receive  BY <1>1, <1>3, <2>1, ManagerTouches
  <2>2. CASE Receive
    <3>1. wire' = <<>>  BY <2>2 DEF Receive
    <3>2. CASE evq' = <<>>  BY <1>0, <3>1, <3>2
    <3>3. CASE /\ evq' \in Seq(Event) /\ Len(evq') = Len(wire)
               /\ \A i \in 1 .. Len(wire) :
                     evq'[i] = wire[i] \/ evq'[i].kind = "ignored"
      <4>1. DOMAIN evq' = 1 .. Len(wire) /\ DOMAIN wire = 1 .. Len(wire)  BY <1>0, <3>3
      <4> QED  BY <1>0, <3>1, <3>3, <4>1 DEF Named, StreamKinds
    <3> QED  BY <2>2, <3>2, <3>3, ReceiveBatch
  <2> QED  BY <2>1, <2>2
<1>4. ASSUME NEW r \in Requests, Consumer(r) PROVE Named(evq') /\ Named(wire')
  <2>1. UNCHANGED <<wire, evq>>
    BY <1>4 DEF Consumer, SendRequest, Reader, Poll, WakeUp, Cancel, Close, SendEof, Flush,
                manager, server, network
  <2> QED  BY <1>1, <2>1
<1>5. CASE ServerClose \/ Abort \/ AClose \/ UNCHANGED vars
  <2>1. evq' = evq /\ wire' \in {wire, <<>>}
    BY <1>5, OthersWaitSteps
       DEF ServerClose, Abort, AClose, OthersWait, manager, network, server, vars
  <2> QED  BY <1>1, <2>1
<1>6. CASE ServerPing \/ GoAway
  <2>1. PICK kind \in {"ping", "goaway"} : Transmit(Ev(kind, Zero, 0))
    BY <1>6 DEF ServerPing, GoAway
  <2>2. Ev(kind, Zero, 0) \in Event /\ Ev(kind, Zero, 0).kind \notin StreamKinds
    BY TypedEvent DEF Ev, StreamKinds
  <2>3. evq' = evq  BY <1>6, OthersWaitSteps DEF OthersWait, manager
  <2> QED  BY <1>2, <2>1, <2>2, <2>3 DEF Transmit
<1>7. ASSUME NEW r \in Requests, Server(r) PROVE Named(evq') /\ Named(wire')
  <2>1. PICK kind \in StreamKinds, n \in Nat : wire' = Append(wire, Ev(kind, r, n))
    BY <1>0, <1>7 DEF Server, Respond, SendData, EndStream, ServerReset, ServerWindow, Transmit,
                      StreamKinds
  <2>2. Ev(kind, r, n) \in Event /\ Ev(kind, r, n).s = r  BY TypedEvent DEF Ev
  <2>3. evq' = evq  BY <1>7, OthersWaitSteps DEF OthersWait, manager
  <2> QED  BY <1>2, <2>1, <2>2, <2>3
<1> QED  BY <1>3, <1>4, <1>5, <1>6, <1>7 DEF Next

LEMMA NextOver ==
    Patient /\ PatientInv /\ (\A r \in Requests : Over(r)) /\ [Next]_vars
       => \A r \in Requests : Over(r)'
<1> SUFFICES ASSUME Patient, PatientInv, \A r \in Requests : Over(r), [Next]_vars,
                    NEW r \in Requests
             PROVE  Over(r)'
  OBVIOUS
<1>1. FeedInv /\ PlaceInv /\ Feed /\ Over(r) /\ Signed /\ Told /\ \A q \in Requests : Once(q)
  BY DEF PatientInv, FeedInv
<1>2. CASE ManagerNext  BY <1>1, <1>2, ManagerOver
<1>3. ASSUME NEW q \in Requests, Consumer(q) PROVE Over(r)'  BY <1>1, <1>3, ConsumerOver
<1>4. CASE \/ ServerPing \/ GoAway \/ ServerClose \/ Abort \/ AClose \/ UNCHANGED vars
           \/ \E q \in Requests : Server(q)
  BY <1>1, <1>4, ServerOver
<1> QED  BY <1>2, <1>3, <1>4 DEF Next

\* The stream of the manager's next event is one it knows.
LEMMA NoKeyError ==
    ASSUME FeedInv, Named(evq), \A r \in Requests : Over(r), mgr = "dispatch", evq # <<>>,
           Current.kind \in StreamKinds
    PROVE  Current.s \in streams
<1>1. evq \in Seq(Event) /\ Current \in Event /\ 1 \in DOMAIN evq /\ evq[1] = Current
  BY TypeParts, CurrentType DEF FeedInv, PlaceInv, Current
<1>2. PICK r \in Requests : r = Current.s
  BY <1>1 DEF Named
<1>3. ~NoneOf(r, evq)  BY <1>1, <1>2 DEF NoneOf
<1>4. phase[r] # "idle"  BY <1>3 DEF FeedInv, Feed, Unused
<1> QED  BY <1>2, <1>3, <1>4 DEF Over, Alive

\* No send of the manager or of its children finds the receiver gone, or a
\* stream missing from its table.
LEMMA NothingRaised ==
    ASSUME PatientInv, Named(evq), \A r \in Requests : Over(r),
           DispatchStream \/ Resume \/ \E r \in Requests : ResetSend(r) \/ ResetResume(r)
    PROVE  failed' = failed
<1>0. PlaceInv /\ FeedInv /\ Told /\ streams \subseteq Requests
  BY TypeParts DEF PatientInv, FeedInv, PlaceInv
<1>1. CASE DispatchStream
  <2>1. Current.s \in streams /\ mgr = "dispatch"
    BY <1>0, <1>1, NoKeyError DEF DispatchStream
  <2>2. chan[Current.s].ropen  BY <1>0, <2>1 DEF Told, Ends, Taken
  <2>3. ~Sent(Put(chan[Current.s], Current)) \/ failed' = failed  BY <2>1 DEF Sent
  <2> QED  BY <1>1, <2>1, <2>2, <2>3 DEF DispatchStream
<1>2. CASE Resume
  <2>1. Current.s \in streams /\ mgr = "blocked"  BY <1>0, <1>2 DEF Resume, Told
  <2>2. chan[Current.s].snd # <<>> => chan[Current.s].ropen
    BY <1>0, <2>1 DEF Told, Ends, Taken
  <2>3. ~Sent(chan[Current.s]) \/ failed' = failed  BY <2>1 DEF Sent
  <2> QED  BY <1>2, <2>2, <2>3 DEF Resume
<1>3. ASSUME NEW r \in Requests, ResetSend(r) \/ ResetResume(r) PROVE failed' = failed
  <2>1. mgr = "resets" /\ ~Taken(r) /\ Ends(r)
    BY <1>0, <1>3 DEF ResetSend, ResetResume, Told, Taken
  <2>2. r \in toReset => chan[r].ropen  BY <2>1 DEF Ends
  <2>3. r \in inReset /\ ~chan[r].ropen => chan[r].snd = <<>>  BY <2>1 DEF Ends
  <2> QED  BY <1>3, <2>2, <2>3 DEF ResetSend, ResetResume
<1> QED  BY <1>1, <1>2, <1>3

\* For any requests and bounds, with the same environment as ResponsesAreBodies:
\* manage() raises only when the transport has failed it or the server has sent
\* more after its GOAWAY (_http2.py:118-200); the run early_close shows
\* what becomes of it when a response is closed before its end.
THEOREM ManagerFailsByNetworkOnly == ASSUME Patient PROVE Spec => FailsByNetworkOnly
<1> DEFINE Inv == PatientInv /\ Named(evq) /\ Named(wire) /\ \A r \in Requests : Over(r)
<1>1. Init => Inv
  <2> SUFFICES ASSUME Init PROVE Named(evq) /\ Named(wire) /\ \A r \in Requests : Over(r)
    BY InitPatient
  <2>1. evq = <<>> /\ wire = <<>> /\ \A r \in Requests : phase[r] = "idle"  BY DEF Init
  <2> QED  BY <2>1 DEF Over, EndsLast, HasLast, Named
<1>2. Inv /\ [Next]_vars => Inv'  BY NextPatient, NextOver, NextNamed DEF PatientInv, FeedInv
<1>3. Inv /\ [Next]_vars
        => [failed' /\ ~failed =>
               \/ srvUp # "up"
               \/ mgr = "read" /\ \E i \in 1 .. Len(wire) - 1 : wire[i].kind = "goaway"]_vars
  <2> SUFFICES ASSUME Inv, Next, failed', ~failed, srvUp = "up"
               PROVE  mgr = "read" /\ \E i \in 1 .. Len(wire) - 1 : wire[i].kind = "goaway"
    OBVIOUS
  <2>1. CASE Receive
    <3>1. Crash  BY <2>1 DEF Receive
    <3>2. mgr = "read" /\ wire \in Seq(Event)
      BY <2>1, TypeParts DEF Receive, PatientInv, FeedInv, PlaceInv
    <3>3. mgr' # "dispatch"  BY <3>1 DEF Crash, LeaveLoop
    <3>4. \E i \in DOMAIN wire : wire[i].kind = "goaway" /\ i < Len(wire)
      BY <2>1, <3>3 DEF Receive
    <3>5. DOMAIN wire = 1 .. Len(wire) /\ Len(wire) \in Nat  BY <3>2
    <3> QED  BY <3>2, <3>4, <3>5
  <2>2. ~(DispatchStream \/ Resume \/ \E r \in Requests : ResetSend(r) \/ ResetResume(r))
    BY NothingRaised
  <2>3. ~Expire  BY DEF Expire, Patient
  <2>4. ~(ReceiveEof \/ ReceiveBroken \/ DispatchGoAway \/ DispatchIgnored \/ BatchDone \/ Cancelled)
    BY DEF ReceiveEof, ReceiveBroken, DispatchGoAway, DispatchIgnored, BatchDone, Cancelled,
           LeaveLoop
  <2>5. ~(DispatchPing \/ CloseTransport)  BY DEF DispatchPing, CloseTransport, FlushSucceeds
  <2>6. ~ManagerNext \/ Receive  BY <2>2, <2>3, <2>4, <2>5 DEF ManagerNext
  <2>7. ASSUME NEW r \in Requests, Consumer(r) PROVE FALSE
    BY <2>7 DEF Consumer, SendRequest, Reader, Poll, WakeUp, Cancel, Close, SendEof, manager
  <2>8. ~AClose  BY DEF AClose
  <2>9. ~(ServerPing \/ GoAway \/ ServerClose \/ Abort \/ \E r \in Requests : Server(r))
    BY OthersWaitSteps DEF OthersWait, manager
  <2> QED  BY <2>1, <2>6, <2>7, <2>8, <2>9 DEF Next
<1> QED  BY <1>1, <1>2, <1>3, PTL DEF Spec, FailsByNetworkOnly
-----------------------------------------------------------------------------

(***************************************************************************)
(* How a response ends, in any environment: other tasks may be cancelled   *)
(* and close theirs, aclose() be called, the server and the transport do   *)
(* anything.                                                               *)
(***************************************************************************)
\* What a task was told of the end of its response is so.  StreamEnded says that
\* the server ended the stream and that all of it was read; a channel that ends
\* without a last event means that manage() failed, or its 10 s limit may pass.
EndsExplained ==
    \A r \in Requests :
        /\ result[r] = "end" => r \in ended /\ rcvd[r] = sent[r]
        /\ result[r] = "eos" => failed \/ "expire" \in Env

\* A task that still reads has not been told the end.
Untold(r) ==
    /\ phase[r] \in {"idle", "head", "open"} => result[r] = "none"
    /\ result[r] = "end" => r \in ended /\ rcvd[r] = sent[r]

LEMMA OtherUntold ==
    ASSUME NEW r \in Requests, Untold(r), result'[r] = result[r], rcvd'[r] = rcvd[r],
           phase'[r] = phase[r], r \in ended => r \in ended' /\ sent'[r] = sent[r]
    PROVE  Untold(r)'
BY DEF Untold

LEMMA ToldUntold ==
    ASSUME NEW r \in Requests, phase'[r] \notin {"idle", "head", "open"}, result'[r] # "end"
    PROVE  Untold(r)'
BY DEF Untold

LEMMA ConsumerUntold ==
    ASSUME FeedInv, Signed, NEW q \in Requests, Consumer(q), NEW r \in Requests, Untold(r)
    PROVE  Untold(r)'
<1>0. /\ PlaceInv /\ SilentInv /\ phase \in [Requests -> Phases]
      /\ result \in [Requests -> Results] /\ chan[q] \in Channels(Event)
      /\ Pending(chan[q]) \in Seq(Event)
  BY TypeParts, FedParts DEF FeedInv, PlaceInv
<1>1. CASE SendRequest(q)
  <2>1. /\ UNCHANGED <<rcvd, sent, ended>>
        /\ \A x \in Requests \ {q} : phase'[x] = phase[x] /\ result'[x] = result[x]
        /\ \/ phase'[q] = "head" /\ result'[q] = "none"
           \/ phase'[q] = "failed" /\ result'[q] = "error"
    BY <1>0, <1>1 DEF SendRequest, Flush
  <2>2. CASE r # q  BY <2>1, <2>2, OtherUntold
  <2>3. CASE r = q  BY <2>1, <2>3 DEF Untold
  <2> QED  BY <2>2, <2>3
<1>2. CASE Reader(q)
  <2>1. UNCHANGED <<sent, ended>> /\ Reading(q)
    BY <1>0, <1>2, ReaderSteps DEF server, network
  <2>2. PICK d \in Channels(Event) :
          \/ TookFirst(chan[q], d) /\ Handle(q, Head(Pending(chan[q])), d)
          \/ EndOfChannel(q, d)
          \/ UNCHANGED consumer
    BY <1>0, <1>2, ReaderSteps
  <2>3. CASE TookFirst(chan[q], d) /\ Handle(q, Head(Pending(chan[q])), d)
    <3>1. PICK e : e = Head(Pending(chan[q]))  OBVIOUS
    <3>2. /\ e \in Event /\ e.s = q /\ Faithful(e) /\ (e.kind = "end" => e.n = rcvd[q])
      <4>1. Pending(chan[q]) # <<>>  BY <2>3 DEF TookFirst
      <4> QED  BY <2>1, <3>1, <4>1, RightEvent
    <3>3. /\ \A x \in Requests \ {q} : /\ phase'[x] = phase[x] /\ rcvd'[x] = rcvd[x]
                                       /\ result'[x] = result[x]
          /\ \/ phase'[q] = "open" /\ result' = [result EXCEPT ![q] = "none"]
             \/ phase'[q] = "failed" /\ \E v \in {"reset", "error"} : result' = [result EXCEPT ![q] = v]
             \/ phase' = phase /\ result' = result
             \/ /\ phase'[q] = "closed" /\ result' = [result EXCEPT ![q] = e.kind] /\ rcvd' = rcvd
             \/ phase'[q] = "raised" /\ result' = [result EXCEPT ![q] = "error"]
      BY <1>0, <2>3, <3>1, <3>2, HandleCases
    <3>4. CASE r # q  BY <2>1, <3>3, <3>4, OtherUntold
    <3>5. CASE r = q
      <4>1. CASE phase'[q] = "open" /\ result' = [result EXCEPT ![q] = "none"]
        <5>1. result'[q] = "none"  BY <1>0, <4>1
        <5> QED  BY <3>5, <5>1 DEF Untold
      <4>2. CASE phase'[q] = "failed" /\ \E v \in {"reset", "error"} : result' = [result EXCEPT ![q] = v]
        <5>1. result'[q] \in {"reset", "error"}  BY <1>0, <4>2
        <5> QED  BY <3>5, <4>2, <5>1, ToldUntold
      <4>3. CASE phase' = phase /\ result' = result
        <5>1. result[q] = "none"  BY <2>1, <3>5 DEF Untold, Reading
        <5> QED  BY <3>5, <4>3, <5>1 DEF Untold
      <4>4. CASE phase'[q] = "closed" /\ result' = [result EXCEPT ![q] = e.kind] /\ rcvd' = rcvd
        <5>1. result'[q] = e.kind  BY <1>0, <4>4
        <5>2. e.kind = "end" => q \in ended /\ sent[q] = rcvd[q]  BY <3>2 DEF Faithful
        <5> QED  BY <2>1, <3>5, <4>4, <5>1, <5>2 DEF Untold
      <4>5. CASE phase'[q] = "raised" /\ result' = [result EXCEPT ![q] = "error"]
        <5>1. result'[q] = "error"  BY <1>0, <4>5
        <5> QED  BY <3>5, <4>5, <5>1, ToldUntold
      <4> QED  BY <3>3, <4>1, <4>2, <4>3, <4>4, <4>5
    <3> QED  BY <3>4, <3>5
  <2>4. CASE EndOfChannel(q, d)
    <3>1. /\ rcvd' = rcvd /\ phase'[q] \in {"failed", "raised"} /\ result'[q] = "eos"
          /\ \A x \in Requests \ {q} : phase'[x] = phase[x] /\ result'[x] = result[x]
      BY <1>0, <2>4 DEF EndOfChannel, Outcome
    <3> QED  BY <2>1, <3>1, OtherUntold, ToldUntold
  <2>5. CASE UNCHANGED consumer  BY <2>1, <2>5, OtherUntold DEF consumer
  <2> QED  BY <2>2, <2>3, <2>4, <2>5
<1>3. CASE Cancel(q)
  <2>1. /\ UNCHANGED <<sent, ended, rcvd>> /\ result'[q] = "cancelled"
        /\ phase'[q] \in {"failed", "raised"}
        /\ \A x \in Requests \ {q} : phase'[x] = phase[x] /\ result'[x] = result[x]
    BY <1>0, <1>3 DEF Cancel, Outcome, network
  <2> QED  BY <2>1, OtherUntold, ToldUntold
<1>4. CASE Close(q)
  <2>1. \E v \in {"closed", "error", result[q]} : Outcome(q, "closed", v)
    <3>1. \E ok \in BOOLEAN : IF ok THEN Outcome(q, "closed", IF result[q] = "none" THEN "closed" ELSE result[q])
                             ELSE Outcome(q, "closed", "error")
      BY <1>4 DEF Close, FlushSucceeds
    <3> QED  BY <3>1
  <2>2. /\ phase'[q] = "closed" /\ (result'[q] = "end" => result[q] = "end")
        /\ \A x \in Requests \ {q} : phase'[x] = phase[x] /\ result'[x] = result[x]
    BY <1>0, <2>1 DEF Outcome
  <2>3. Flush({}, {q}) \/ UNCHANGED network  BY <1>4 DEF Close
  <2>4. UNCHANGED <<sent, ended, rcvd>>  BY <1>4, <2>3 DEF Flush, network, Close
  <2>5. CASE r # q  BY <2>2, <2>4, <2>5, OtherUntold
  <2>6. CASE r = q  BY <2>2, <2>4, <2>6 DEF Untold
  <2> QED  BY <2>5, <2>6
<1>5. CASE SendEof(q)
  <2>1. Flush({}, {}) /\ UNCHANGED consumer  BY <1>5 DEF SendEof
  <2> QED  BY <2>1, OtherUntold DEF Flush, consumer
<1> QED  BY <1>1, <1>2, <1>3, <1>4, <1>5 DEF Consumer

LEMMA NextUntold ==
    ASSUME FeedInv, Signed, [Next]_vars, NEW r \in Requests, Untold(r)
    PROVE  Untold(r)'
<1>0. /\ sent \in [Requests -> Nat] /\ PlaceInv /\ \A q \in ended : srv[q] = "done"
  BY TypeParts DEF FeedInv, PlaceInv, Signed
<1>1. CASE ManagerNext  BY <1>0, <1>1, ManagerTouches, OtherUntold
<1>2. CASE \E q \in Requests : Consumer(q)  BY <1>2, ConsumerUntold
<1>3. CASE AClose \/ ServerPing \/ GoAway \/ ServerClose \/ Abort \/ UNCHANGED vars
  BY <1>3, OtherUntold
     DEF AClose, ServerPing, GoAway, ServerClose, Abort, OthersWait, vars, consumer, server, network
<1>4. ASSUME NEW q \in Requests, Server(q) PROVE Untold(r)'
  <2>1. UNCHANGED consumer  BY <1>4, OthersWaitSteps DEF OthersWait
  <2>2. r \in ended => r \in ended' /\ sent'[r] = sent[r]
    BY <1>0, <1>4 DEF Server, Respond, SendData, EndStream, ServerReset, ServerWindow
  <2> QED  BY <2>1, <2>2, OtherUntold DEF consumer
<1> QED  BY <1>1, <1>2, <1>3, <1>4 DEF Next

\* A receiver that was woken finds an item, or the channel at its end.
Handed(c) == c.rx = "woken" => c.buf # <<>> \/ ~c.sopen

\* After the manager's loop, too, a channel that has been closed holds a last
\* event, as does one whose reader has pulled the last event of a blocked child.
Sealed(r) ==
    /\ Reading(r) /\ ~chan[r].sopen => HasFinal(chan[r].buf)
    /\ Reading(r) /\ r \in inReset /\ chan[r].snd = <<>> => HasFinal(chan[r].buf)

Explained(r) ==
    failed \/ "expire" \in Env \/ (Sealed(r) /\ result[r] # "eos")

\* While the loop runs that is NoSilentEnd, and there are no children yet.
LEMMA SealedInLoop ==
    ASSUME PlaceInv, Alive, NEW r \in Requests
    PROVE  Sealed(r)
<1>1. mgr # "resets" /\ inReset = {}
  BY DEF Alive, PlaceInv, InPlace, Stations
<1> QED  BY <1>1 DEF Sealed, PlaceInv, SilentInv, Silent, NoSilentEnd

LEMMA SealedKept ==
    ASSUME NEW r \in Requests, Sealed(r), Reading(r)' => Reading(r),
           chan'[r].buf = chan[r].buf, chan'[r].sopen = chan[r].sopen,
           r \in inReset' /\ chan'[r].snd = <<>> => r \in inReset /\ chan[r].snd = <<>>
    PROVE  Sealed(r)'
BY DEF Sealed, HasFinal

\* The children give each channel its last event.
LEMMA ResetSealed ==
    ASSUME PlaceInv, NEW q \in Requests, ResetSend(q) \/ ResetResume(q), ~failed',
           NEW r \in Requests, Sealed(r)
    PROVE  Sealed(r)'
<1> DEFINE c == chan[q]
           x == Ev("reset", q, 0)
<1>0. /\ chan \in [Requests -> Channels(Event)] /\ phase' = phase
      /\ c \in Channels(Event) /\ c.buf \in Seq(Event) /\ c.snd \in Seq(Event)
      /\ x \in Event /\ x.kind \in Final /\ ~failed
  BY TypeParts, ChannelFields, TypedEvent
     DEF PlaceInv, ResetSend, ResetResume, consumer, StreamKinds, Final, Ev
<1>1. CASE r # q
  <2>1. chan'[r] = chan[r] /\ (r \in inReset' => r \in inReset)
    BY <1>0, <1>1 DEF ResetSend, ResetResume
  <2> QED  BY <1>0, <2>1, SealedKept DEF Reading
<1>2. CASE r = q /\ chan' = [chan EXCEPT ![q] = CloseSend(Put(c, x))]
  <2>1. Put(c, x) \in Channels(Event) /\ Put(c, x).buf = Append(c.buf, x)
    BY <1>0, PutType, SenderEffects
  <2>2. chan'[r].buf = Append(c.buf, x)  BY <1>0, <1>2, <2>1, EndEffects
  <2>3. HasFinal(chan'[r].buf)  BY <1>0, <2>2, FinalAppend
  <2> QED  BY <2>3 DEF Sealed, HasFinal
<1>3. CASE r = q /\ chan' = [chan EXCEPT ![q] = Block(c, x)]
  <2>1. chan'[r].buf = c.buf /\ chan'[r].sopen = c.sopen /\ chan'[r].snd = <<x>>
    BY <1>0, <1>3, SenderEffects
  <2>2. chan'[r].snd # <<>>  BY <2>1
  <2> QED  BY <1>0, <1>3, <2>1, <2>2, SealedKept DEF Reading
<1>4. CASE r = q /\ ResetResume(q) /\ c.snd = <<>> /\ chan' = [chan EXCEPT ![q] = CloseSend(@)]
  <2>1. chan'[r].buf = c.buf  BY <1>0, <1>4, EndEffects
  <2>2. Reading(r) => HasFinal(c.buf)  BY <1>4 DEF Sealed, ResetResume
  <2> QED  BY <1>0, <1>4, <2>1, <2>2 DEF Sealed, Reading, HasFinal
<1> QED  BY <1>0, <1>1, <1>2, <1>3, <1>4 DEF ResetSend, ResetResume

\* The loop is left: what its channels hold stays in them.
LEMMA ManagerSealed ==
    ASSUME PlaceInv, PlaceInv', ManagerNext, ~failed', "expire" \notin Env,
           NEW r \in Requests, Sealed(r)
    PROVE  Sealed(r)'
<1>0. /\ chan \in [Requests -> Channels(Event)] /\ phase' = phase
      /\ (mgr = "blocked" => Current.s \in Requests)
  BY TypeParts, ManagerTouches DEF PlaceInv, SilentInv, TypeInv
<1>1. CASE Alive'  BY <1>1, SealedInLoop, PTL
<1>2. CASE ~Alive'
  <2>1. CASE \E q \in Requests : ResetSend(q) \/ ResetResume(q)  BY <2>1, ResetSealed
  <2>2. CASE CloseTransport
    BY <1>0, <2>2, SealedKept DEF CloseTransport, Reading
  <2>3. CASE UNCHANGED chan /\ inReset' = {}
    BY <1>0, <2>3, SealedKept DEF Reading
  <2>4. CASE Cancelled
    <3>1. inReset' = {}  BY <2>4 DEF Cancelled, LeaveLoop
    <3>2. CASE mgr = "blocked" /\ chan' = [chan EXCEPT ![Current.s] = Unblock(@)]
      <4>0. PICK s \in Requests : s = Current.s /\ chan[s] \in Channels(Event)
        BY <1>0, <3>2
      <4>1. chan' = [chan EXCEPT ![s] = Unblock(chan[s])]  BY <3>2, <4>0
      <4>2. Unblock(chan[s]).buf = chan[s].buf /\ Unblock(chan[s]).sopen = chan[s].sopen
        BY <4>0, EndEffects
      <4>3. chan'[r].buf = chan[r].buf /\ chan'[r].sopen = chan[r].sopen
        BY <1>0, <4>1, <4>2
      <4> QED  BY <1>0, <3>1, <4>3, SealedKept DEF Reading
    <3> QED  BY <2>3, <2>4, <3>1, <3>2 DEF Cancelled
  <2>5. CASE Receive \/ ReceiveEof \/ ReceiveBroken \/ DispatchPing \/ DispatchGoAway \/ BatchDone
    <3>1. UNCHANGED chan
      BY <2>5 DEF Receive, ReceiveEof, ReceiveBroken, DispatchPing, DispatchGoAway, BatchDone
    <3>2. \/ mgr' \in {"read", "dispatch"} \/ inReset' = {}
      BY <2>5 DEF Receive, ReceiveEof, ReceiveBroken, DispatchPing, DispatchGoAway, BatchDone,
                  Crash, LeaveLoop, Alive
    <3> QED  BY <1>2, <2>3, <3>1, <3>2 DEF Alive
  <2>6. CASE DispatchStream \/ Resume \/ DispatchIgnored
    <3>1. mgr' \in {"dispatch", "blocked"} \/ failed'
      BY <2>6 DEF DispatchStream, Resume, DispatchIgnored, Sent, SendBroken, Crash, LeaveLoop
    <3> QED  BY <1>2, <3>1 DEF Alive
  <2>7. ~Expire  BY DEF Expire
  <2> QED  BY <2>1, <2>2, <2>4, <2>5, <2>6, <2>7 DEF ManagerNext
<1> QED  BY <1>1, <1>2

\* A task that takes an event other than the last leaves the last one there.
LEMMA ReaderExplained ==
    ASSUME PlaceInv, NEW q \in Requests, Reader(q), Handed(chan[q]), Sealed(q), result[q] # "eos"
    PROVE  Sealed(q)' /\ result'[q] # "eos"
<1> DEFINE c == chan[q]
<1>0. /\ chan \in [Requests -> Channels(Event)] /\ SilentInv /\ InPlace
      /\ phase \in [Requests -> Phases] /\ result \in [Requests -> Results]
      /\ c \in Channels(Event) /\ c.buf \in Seq(Event) /\ c.snd \in Seq(Event)
      /\ Pending(c) \in Seq(Event)
  BY TypeParts, FedParts, ChannelFields DEF PlaceInv
<1>1. /\ UNCHANGED <<mgr, evq, toReset, inReset>> /\ Reading(q)
  BY <1>0, ReaderSteps DEF manager
<1>2. PICK d \in Channels(Event) :
        \/ TookFirst(c, d) /\ Handle(q, Head(Pending(c)), d)
        \/ EndOfChannel(q, d)
           /\ (c.rx = "woken" => c.buf = <<>>)
           /\ (c.rx # "woken" => c.buf = <<>> /\ ~c.sopen)
        \/ Same(c, d) /\ chan' = [chan EXCEPT ![q] = d] /\ UNCHANGED consumer
  BY <1>0, ReaderSteps
<1>3. CASE TookFirst(c, d) /\ Handle(q, Head(Pending(c)), d)
  <2>1. PICK e : e = Head(Pending(c)) /\ e \in Event
    BY <1>0, <1>3 DEF TookFirst
  <2>2. result'[q] # "eos"
    BY <1>0, <1>3, <2>1, HandleCases DEF Final
  <2>3. Reading(q)' => chan'[q] = d /\ e.kind \notin Final
    BY <1>0, <1>3, <2>1, HandleEffects DEF SilentInv, Reading
  <2>4. ASSUME e.kind \notin Final,
               HasFinal(c.buf) \/ (HasFinal(Pending(c)) /\ d.buf = Tail(Pending(c)))
        PROVE  HasFinal(d.buf)
    <3>1. CASE c.buf # <<>> /\ e = Head(c.buf) /\ d.buf = Tail(c.buf) /\ HasFinal(c.buf)
      BY <1>0, <2>4, <3>1, FinalRest
    <3>2. CASE d.buf = Tail(Pending(c)) /\ HasFinal(Pending(c))
      BY <1>0, <2>1, <2>4, <3>2, FinalRest
    <3>3. HasFinal(c.buf) => HasFinal(Pending(c))  BY <1>0, FinalConcat DEF Pending
    <3> QED  BY <1>3, <2>1, <2>4, <3>1, <3>2, <3>3 DEF TookFirst
  <2>5. ASSUME q \in inReset, d.snd = <<>>
        PROVE  HasFinal(c.buf) \/ (HasFinal(Pending(c)) /\ d.buf = Tail(Pending(c)))
    <3>1. CASE c.snd = <<>>  BY <1>1, <2>5, <3>1 DEF Sealed
    <3>2. CASE c.snd # <<>>
      <4>1. mgr # "blocked"  BY <1>0, <2>5 DEF InPlace, Stations
      <4>2. c.snd = <<Ev("reset", q, 0)>>  BY <1>0, <3>2, <4>1 DEF InPlace, Slot
      <4>3. HasFinal(Pending(c))
        BY <1>0, <4>2, TypedEvent, FinalLast DEF Pending, StreamKinds, Final, Ev
      <4> QED  BY <1>3, <2>5, <3>2, <4>3 DEF TookFirst
    <3> QED  BY <3>1, <3>2
  <2>6. d.sopen = c.sopen  BY <1>3 DEF TookFirst
  <2>7. Sealed(q)'
    <3> SUFFICES ASSUME Reading(q)', ~d.sopen \/ (q \in inReset /\ d.snd = <<>>)
                 PROVE  HasFinal(d.buf)
      BY <1>1, <2>3 DEF Sealed, HasFinal
    <3>1. ~c.sopen => HasFinal(c.buf)  BY <1>1 DEF Sealed
    <3> QED  BY <2>3, <2>4, <2>5, <2>6, <3>1
  <2> QED  BY <2>2, <2>7
<1>4. CASE c.buf = <<>> /\ (c.rx # "woken" => ~c.sopen)
  <2>1. ~c.sopen  BY <1>4 DEF Handed
  <2>2. ~HasFinal(<<>>)  BY DEF HasFinal
  <2> QED  BY <1>1, <1>4, <2>1, <2>2 DEF Sealed
<1>5. CASE Same(c, d) /\ chan' = [chan EXCEPT ![q] = d] /\ UNCHANGED consumer
  <2>1. chan'[q] = d /\ UNCHANGED <<phase, result>>  BY <1>0, <1>5 DEF consumer
  <2> QED  BY <1>1, <1>5, <2>1, SealedKept DEF Same, Reading
<1> QED  BY <1>2, <1>3, <1>4, <1>5

LEMMA ConsumerExplained ==
    ASSUME PlaceInv, Reasons, NEW q \in Requests, Consumer(q),
           NEW r \in Requests, Handed(chan[r]), Explained(r)
    PROVE  Explained(r)'
<1>0. /\ chan \in [Requests -> Channels(Event)] /\ phase \in [Requests -> Phases] /\ SilentInv
      /\ result \in [Requests -> Results]
      /\ mgr \in {"read", "dispatch", "blocked", "resets", "stopped"}
  BY TypeParts DEF PlaceInv, SilentInv, TypeInv, TypeOK
<1>1. UNCHANGED <<failed, inReset, mgr>>
  BY DEF Consumer, Reader, SendRequest, Poll, WakeUp, Cancel, Close, SendEof, manager
<1>2. SUFFICES ASSUME ~failed, "expire" \notin Env PROVE Sealed(r)' /\ result'[r] # "eos"
  BY <1>1 DEF Explained
<1>3. Sealed(r) /\ result[r] # "eos"  BY <1>2 DEF Explained
<1>4. ASSUME r # q PROVE Sealed(r)' /\ result'[r] # "eos"
  <2>1. /\ chan'[r] = chan[r] /\ phase'[r] = phase[r] /\ result'[r] = result[r]
    <3>1. CASE Reader(q)
      <4>1. PICK e, d : Handle(q, e, d) \/ EndOfChannel(q, d)
                        \/ (chan' = [chan EXCEPT ![q] = d] /\ UNCHANGED consumer)
        BY <3>1 DEF Reader, Poll, WakeUp
      <4> QED  BY <1>0, <1>4, <4>1 DEF Handle, EndOfChannel, Outcome, consumer
    <3>2. CASE SendRequest(q)  BY <1>0, <1>4, <3>2 DEF SendRequest
    <3>3. CASE Cancel(q)  BY <1>0, <1>4, <3>3 DEF Cancel, Outcome
    <3>4. CASE Close(q)
      <4>1. \E ok \in BOOLEAN : IF ok THEN Outcome(q, "closed", IF result[q] = "none" THEN "closed" ELSE result[q])
                                ELSE Outcome(q, "closed", "error")
        BY <3>4 DEF Close, FlushSucceeds
      <4>2. phase'[r] = phase[r] /\ result'[r] = result[r]  BY <1>0, <1>4, <4>1 DEF Outcome
      <4> QED  BY <1>0, <1>4, <3>4, <4>2 DEF Close
    <3>5. CASE SendEof(q)  BY <3>5 DEF SendEof, consumer
    <3> QED  BY <3>1, <3>2, <3>3, <3>4, <3>5 DEF Consumer
  <2> QED  BY <1>1, <1>3, <2>1, SealedKept DEF Reading
<1>5. ASSUME r = q PROVE Sealed(q)' /\ result'[q] # "eos"
  <2>1. CASE Reader(q)  BY <1>3, <1>5, <2>1, ReaderExplained
  <2>2. CASE SendRequest(q)
    <3>1. /\ chan' = chan /\ phase[q] = "idle" /\ result'[q] \in {"none", "error"}
          /\ conn = "open" /\ ~exiting
      BY <1>0, <2>2 DEF SendRequest, available_slots, PlaceInv, SilentInv, TypeInv, TypeOK
    <3>2. Alive  BY <1>0, <1>2, <3>1 DEF Reasons, Alive
    <3>3. inReset = {} /\ chan[q].sopen
      BY <1>0, <3>1, <3>2 DEF Alive, PlaceInv, InPlace, Stations, SilentInv, Silent, Begun
    <3> QED  BY <1>1, <3>1, <3>3 DEF Sealed
  <2>3. CASE Cancel(q)
    <3>1. phase'[q] \in {"failed", "raised"} /\ result'[q] = "cancelled"
      BY <1>0, <2>3 DEF Cancel, Outcome
    <3> QED  BY <3>1 DEF Sealed, Reading
  <2>4. CASE Close(q)
    <3>1. \E ok \in BOOLEAN : IF ok THEN Outcome(q, "closed", IF result[q] = "none" THEN "closed" ELSE result[q])
                              ELSE Outcome(q, "closed", "error")
      BY <2>4 DEF Close, FlushSucceeds
    <3>2. phase'[q] = "closed" /\ result'[q] \in {"closed", "error", result[q]}
      BY <1>0, <3>1 DEF Outcome
    <3> QED  BY <1>3, <1>5, <3>2 DEF Sealed, Reading
  <2>5. CASE SendEof(q)
    <3>1. UNCHANGED <<chan, consumer>>  BY <2>5 DEF SendEof
    <3> QED  BY <1>1, <1>3, <1>5, <3>1, SealedKept DEF consumer, Reading
  <2> QED  BY <2>1, <2>2, <2>3, <2>4, <2>5 DEF Consumer
<1> QED  BY <1>4, <1>5

LEMMA NextExplained ==
    ASSUME PlaceInv, PlaceInv', Reasons, [Next]_vars,
           NEW r \in Requests, Handed(chan[r]), Explained(r)
    PROVE  Explained(r)'
<1>1. CASE ManagerNext
  <2>1. result' = result /\ (failed => failed')
    <3>1. result' = result  BY <1>1, ManagerTouches DEF PlaceInv
    <3>2. failed => failed'
      BY <1>1 DEF ManagerNext, Receive, ReceiveEof, ReceiveBroken, DispatchStream, Resume, Sent,
         SendBroken, DispatchPing, DispatchGoAway, DispatchIgnored, BatchDone, Cancelled, ResetSend,
         ResetResume, Expire, CloseTransport, Crash, LeaveLoop
    <3> QED  BY <3>1, <3>2
  <2>2. CASE failed' \/ "expire" \in Env  BY <2>2 DEF Explained
  <2>3. CASE ~failed' /\ "expire" \notin Env
    BY <1>1, <2>1, <2>3, ManagerSealed DEF Explained
  <2> QED  BY <2>2, <2>3
<1>2. CASE \E q \in Requests : Consumer(q)  BY <1>2, ConsumerExplained
<1>3. CASE \/ AClose \/ ServerPing \/ GoAway \/ ServerClose \/ Abort \/ UNCHANGED vars
           \/ \E q \in Requests : Server(q)
  <2>1. UNCHANGED <<chan, phase, result, failed, inReset>>
    BY <1>3, OthersWaitSteps DEF AClose, OthersWait, vars, manager, consumer
  <2> QED  BY <2>1, SealedKept DEF Explained, Reading
<1> QED  BY <1>1, <1>2, <1>3 DEF Next

LEMMA HandedEffects ==
    ASSUME NEW c \in Channels(Event), NEW e \in Event, Handed(c)
    PROVE  /\ Handed(Put(c, e)) /\ Handed(Block(c, e)) /\ Handed(Unblock(c))
           /\ Handed(CloseSend(c))
<1>1. Append(c.buf, e) # <<>>
  <2>1. c.buf \in Seq(Event)  BY ChannelFields
  <2> SUFFICES ASSUME NEW b, b = c.buf, Append(b, e) = <<>> PROVE FALSE  OBVIOUS
  <2>2. b \in Seq(Event)  BY <2>1
  <2>3. Len(Append(b, e)) = Len(b) + 1 /\ Len(b) \in Nat  BY <2>2
  <2>4. Len(Append(b, e)) = 0  OBVIOUS
  <2> QED  BY <2>3, <2>4
<1>2. Handed(Put(c, e))
  <2>1. Put(c, e).buf = Append(c.buf, e)  BY SenderEffects
  <2> QED  BY <1>1, <2>1 DEF Handed
<1>3. Handed(Block(c, e)) /\ Handed(Unblock(c)) /\ Handed(CloseSend(c))
  BY DEF Handed, Block, Unblock, CloseSend, Channels
<1> QED  BY <1>2, <1>3

\* What a consumer does with its channel does not leave it woken.
LEMMA RestEffects ==
    ASSUME NEW c \in Channels(Event)
    PROVE  /\ CloseRecv(c).rx = "idle" /\ CloseSend(CloseRecv(c)).rx = "idle"
           /\ [c EXCEPT !.rx = "idle"].rx = "idle" /\ Await(c).rx = "wait"
           /\ Wake(c).rx = "idle" /\ CloseRecv(Wake(c)).rx = "idle"
           /\ CloseRecv(Take(c)).rx = "idle" /\ Take(c).rx = c.rx
<1>1. /\ CloseRecv(c).rx = "idle" /\ CloseSend(CloseRecv(c)).rx = "idle"
      /\ [c EXCEPT !.rx = "idle"].rx = "idle" /\ Await(c).rx = "wait"
  BY DEF CloseRecv, CloseSend, Await, Channels
<1>2. Wake(c).rx = "idle" /\ CloseRecv(Wake(c)).rx = "idle"  BY DEF CloseRecv, Wake, Channels
<1>3. CloseRecv(Take(c)).rx = "idle" /\ Take(c).rx = c.rx  BY DEF CloseRecv, Take, Channels
<1> QED  BY <1>1, <1>2, <1>3

LEMMA ManagerWoken ==
    ASSUME TypeInv, ManagerNext, NEW r \in Requests, Handed(chan[r])
    PROVE  Handed(chan'[r])
<1> DEFINE c == chan[r]
           x == Ev("reset", r, 0)
<1>0. /\ chan \in [Requests -> Channels(Event)] /\ c \in Channels(Event) /\ x \in Event
      /\ (mgr = "blocked" => evq # <<>>)
  BY TypedEvent DEF TypeInv, TypeOK, StreamKinds
<1>1. CASE chan' = chan  BY <1>1
<1>2. ASSUME chan'[r] \in {c, CloseSend(c), Unblock(c), CloseSend(Unblock(c)), Block(c, x),
                           CloseSend(Put(c, x))}
      PROVE  Handed(chan'[r])
  <2>1. Unblock(c) \in Channels(Event) /\ Put(c, x) \in Channels(Event)
    BY <1>0, CloseType, PutType
  <2>2. /\ Handed(Unblock(c)) /\ Handed(Block(c, x)) /\ Handed(Put(c, x)) /\ Handed(CloseSend(c))
    BY <1>0, HandedEffects
  <2>3. Handed(CloseSend(Unblock(c))) /\ Handed(CloseSend(Put(c, x)))
    BY <1>0, <2>1, <2>2, HandedEffects
  <2> QED  BY <1>2, <2>2, <2>3
<1>3. CASE DispatchStream \/ Resume
  <2>1. Current \in Event /\ evq # <<>>
    BY <1>0, <1>3, CurrentType DEF DispatchStream, Resume
  <2>2. /\ chan'[r] \in {c, CloseSend(c), Unblock(c), Block(c, Current), Put(c, Current),
                         CloseSend(Put(c, Current))}
    BY <1>0, <1>3 DEF DispatchStream, Resume, Sent, SendBroken
  <2>3. /\ Handed(Unblock(c)) /\ Handed(Block(c, Current)) /\ Handed(Put(c, Current))
        /\ Handed(CloseSend(c)) /\ Put(c, Current) \in Channels(Event)
    BY <1>0, <2>1, HandedEffects, PutType
  <2>4. Handed(CloseSend(Put(c, Current)))  BY <1>0, <2>3, HandedEffects
  <2> QED  BY <2>2, <2>3, <2>4
<1>4. CASE Cancelled
  <2>1. chan'[r] \in {c, Unblock(c)}  BY <1>0, <1>4 DEF Cancelled
  <2> QED  BY <1>2, <2>1
<1>5. CASE Expire \/ \E q \in Requests : ResetSend(q) \/ ResetResume(q)
  <2>1. chan'[r] \in {c, CloseSend(c), CloseSend(Unblock(c)), Block(c, x), CloseSend(Put(c, x))}
    <3>1. CASE DropResets  BY <3>1 DEF DropResets
    <3>2. ASSUME NEW q \in Requests, ResetSend(q) \/ ResetResume(q), ~DropResets
          PROVE  chan'[r] \in {c, CloseSend(c), Block(c, x), CloseSend(Put(c, x))}
      <4>1. CASE q = r  BY <1>0, <3>2, <4>1 DEF ResetSend, ResetResume
      <4>2. CASE q # r  BY <1>0, <3>2, <4>2 DEF ResetSend, ResetResume
      <4> QED  BY <4>1, <4>2
    <3>3. CASE Expire  BY <3>1, <3>3 DEF Expire
    <3> QED  BY <1>5, <3>1, <3>2, <3>3
  <2> QED  BY <1>2, <2>1
<1>6. CASE Receive \/ ReceiveEof \/ ReceiveBroken \/ DispatchPing \/ DispatchGoAway
           \/ DispatchIgnored \/ BatchDone \/ CloseTransport
  BY <1>1, <1>6 DEF Receive, ReceiveEof, ReceiveBroken, DispatchPing, DispatchGoAway,
     DispatchIgnored, BatchDone, CloseTransport
<1> QED  BY <1>3, <1>4, <1>5, <1>6 DEF ManagerNext

LEMMA NextWoken ==
    ASSUME TypeInv, [Next]_vars, NEW r \in Requests, Handed(chan[r])
    PROVE  Handed(chan'[r])
<1>1. CASE ManagerNext  BY <1>1, ManagerWoken
<1>2. ASSUME NEW q \in Requests, Consumer(q) PROVE Handed(chan'[r])
  <2> DEFINE c == chan[q]
             NotWoken(d) == d.rx # "woken"
  <2>0. chan \in [Requests -> Channels(Event)] /\ c \in Channels(Event)
    BY DEF TypeInv, TypeOK
  <2>1. /\ NotWoken(CloseRecv(c)) /\ NotWoken(CloseSend(CloseRecv(c)))
        /\ NotWoken([c EXCEPT !.rx = "idle"])
        /\ NotWoken(Wake(c)) /\ NotWoken(CloseRecv(Wake(c))) /\ NotWoken(CloseRecv(Take(c)))
        /\ NotWoken(Await(c))
    BY <2>0, RestEffects
  <2>2. c.rx = "idle" => NotWoken(c) /\ NotWoken(Take(c))  BY <2>0, RestEffects
  <2> HIDE DEF NotWoken
  <2>3. chan' = chan \/ \E d : NotWoken(d) /\ chan' = [chan EXCEPT ![q] = d]
    <3>1. CASE SendRequest(q) \/ SendEof(q)  BY <3>1 DEF SendRequest, SendEof
    <3>2. CASE Cancel(q)
      <4>1. chan' = [chan EXCEPT ![q] = [c EXCEPT !.rx = "idle"]]  BY <3>2 DEF Cancel
      <4> QED  BY <2>1, <4>1
    <3>3. CASE Close(q)
      <4>1. \/ chan' = [chan EXCEPT ![q] = CloseRecv(c)]
            \/ chan' = [chan EXCEPT ![q] = CloseSend(CloseRecv(c))]
        BY <3>3 DEF Close
      <4> QED  BY <2>1, <4>1
    <3>4. CASE Poll(q)
      <4>1. \/ chan' = [chan EXCEPT ![q] = Take(c)]
            \/ chan' = [chan EXCEPT ![q] = CloseRecv(Take(c))]
            \/ chan' = [chan EXCEPT ![q] = c]
            \/ chan' = [chan EXCEPT ![q] = Await(c)]
        BY <3>4 DEF Poll, Handle, EndOfChannel
      <4>2. c.rx = "idle"  BY <3>4 DEF Poll
      <4> QED  BY <2>1, <2>2, <4>1, <4>2
    <3>5. CASE WakeUp(q)
      <4>1. \/ chan' = [chan EXCEPT ![q] = Wake(c)]
            \/ chan' = [chan EXCEPT ![q] = CloseRecv(Wake(c))]
        BY <3>5 DEF WakeUp, Handle, EndOfChannel
      <4> QED  BY <2>1, <4>1
    <3> QED  BY <1>2, <3>1, <3>2, <3>3, <3>4, <3>5 DEF Consumer, Reader
  <2>4. chan'[r] = chan[r] \/ NotWoken(chan'[r])  BY <2>0, <2>3
  <2> QED  BY <2>4 DEF NotWoken, Handed
<1>3. CASE \/ AClose \/ ServerPing \/ GoAway \/ ServerClose \/ Abort \/ UNCHANGED vars
           \/ \E q \in Requests : Server(q)
  BY <1>3, OthersWaitSteps DEF AClose, OthersWait, vars, consumer
<1> QED  BY <1>1, <1>2, <1>3 DEF Next

\* For any requests and bounds, and whatever the server, the transport, aclose()
\* and the tasks of other requests do: a response that ended with StreamEnded was
\* read in full; one whose channel just ended, which receive() reports in the
\* same way, is due to a manage() that raised or to the 10 s limit
\* (_http2.py:118-139, 455-462).
THEOREM EndsHaveReasons == Spec => []EndsExplained
<1> DEFINE Inv == /\ FeedInv /\ Signed /\ Reasons
                  /\ \A r \in Requests : Untold(r) /\ Handed(chan[r]) /\ Explained(r)
<1>1. Init => Inv
  <2> SUFFICES ASSUME Init PROVE Inv  OBVIOUS
  <2>1. FeedInv /\ Signed  BY InitPatient DEF PatientInv
  <2>2. /\ evq = <<>> /\ mgr = "read"
        /\ \A r \in Requests : /\ phase[r] = "idle" /\ result[r] = "none" /\ chan[r] = Fresh
    BY DEF Init
  <2>3. \A r \in Requests : Untold(r) /\ Handed(chan[r]) /\ Explained(r)
    BY <2>2 DEF Untold, Handed, Explained, Sealed, Reading, Fresh
  <2>4. Reasons  BY <2>2 DEF Reasons
  <2> QED  BY <2>1, <2>3, <2>4
<1>2. Inv /\ [Next]_vars => Inv'
  <2> SUFFICES ASSUME Inv, [Next]_vars PROVE Inv'  OBVIOUS
  <2>1. PlaceInv /\ SilentInv /\ TypeInv  BY DEF FeedInv, PlaceInv, SilentInv
  <2>2. FeedInv' /\ PlaceInv'
    BY <2>1, NextPlace, NextType, NextSilent, NextFeed DEF FeedInv, PlaceInv, SilentInv
  <2>3. Signed' /\ Reasons'  BY <2>1, NextSigned, NextReasons
  <2>4. ASSUME NEW r \in Requests PROVE Untold(r)' /\ Handed(chan'[r]) /\ Explained(r)'
    BY <2>1, <2>2, NextUntold, NextWoken, NextExplained
  <2> QED  BY <2>2, <2>3, <2>4
<1>3. Inv => EndsExplained
  BY DEF EndsExplained, Untold, Explained
<1> HIDE DEF Inv
<1> QED  BY <1>1, <1>2, <1>3, PTL DEF Spec
=============================================================================
