--------------------------- MODULE HTTP2UploadProofs ---------------------------
(***************************************************************************)
(* Proofs about HTTP2Upload, for any uploads, sizes and windows, whatever  *)
(* the server, the clients' tasks and the environment do.                  *)
(***************************************************************************)
EXTENDS HTTP2Upload, QueueProofs

-----------------------------------------------------------------------------
(* Amounts *)

\* The least of three integers is one of them and at most each.
LEMMA LeastOfThree ==
    ASSUME NEW a \in Int, NEW b \in Int, NEW c \in Int
    PROVE  /\ Least({a, b, c}) \in {a, b, c}
           /\ Least({a, b, c}) <= a /\ Least({a, b, c}) <= b /\ Least({a, b, c}) <= c
<1> DEFINE S == {a, b, c}
<1>1. \E n \in S : \A m \in S : n <= m
  <2>1. CASE a <= b /\ a <= c  BY <2>1
  <2>2. CASE b <= a /\ b <= c  BY <2>2
  <2>3. CASE c <= a /\ c <= b  BY <2>3
  <2> QED  BY <2>1, <2>2, <2>3
<1>2. Least(S) \in S /\ \A m \in S : Least(S) <= m  BY <1>1 DEF Least
<1> QED  BY <1>2

\* chunk_size is at most the chunk and at most the windows; it is negative only
\* when the stream's window is.
LEMMA ChunkSizeBounds ==
    ASSUME TypeOK, NEW u \in Uploads
    PROVE  /\ ChunkSize(u) \in Int /\ Local(u) \in Int
           /\ ChunkSize(u) <= chunk[u] /\ ChunkSize(u) <= Local(u)
           /\ Local(u) <= conn /\ (win[u] >= 0 => ChunkSize(u) >= 0)
<1>1. /\ conn \in Nat /\ win[u] \in Int /\ FrameMax \in Nat /\ ReadMax \in Nat
      /\ chunk[u] \in 0 .. ReadMax
  BY HTTP2UploadAssumption DEF TypeOK, HTTP2UploadAssumption
<1>2. Local(u) \in {conn, win[u]} /\ Local(u) <= conn
  BY <1>1 DEF Local
<1>3. Local(u) \in Int /\ chunk[u] \in Int /\ FrameMax \in Int  BY <1>1, <1>2
<1>4. /\ ChunkSize(u) \in {Local(u), FrameMax, chunk[u]}
      /\ ChunkSize(u) <= Local(u) /\ ChunkSize(u) <= chunk[u]
  BY <1>3, LeastOfThree DEF ChunkSize
<1> QED  BY <1>1, <1>2, <1>3, <1>4

\* Counting the frames of one sort that have arrived.
LEMMA CountedType ==
    ASSUME TypeOK, NEW S \in SUBSET (DOMAIN wire)
    PROVE  Cardinality(S) \in Nat
<1>1. DOMAIN wire = 1 .. Len(wire) /\ Len(wire) \in Nat  BY DEF TypeOK
<1>2. IsFiniteSet(DOMAIN wire)  BY <1>1, FS_Interval
<1>3. IsFiniteSet(S)  BY <1>2, FS_Subset
<1> QED  BY <1>3, FS_CardinalityType

LEMMA GrantedType ==
    ASSUME TypeOK
    PROVE  (\A s : Granted(s) \in Nat) /\ Lowerings \in Nat
<1>1. \A s : {i \in DOMAIN wire : wire[i] = F("credit", s)} \in SUBSET (DOMAIN wire)
  OBVIOUS
<1>2. {i \in DOMAIN wire : wire[i].kind = "settings"} \in SUBSET (DOMAIN wire)
  OBVIOUS
<1>3. \A s : Granted(s) \in Nat  BY <1>1, CountedType DEF Granted
<1>4. Lowerings \in Nat  BY <1>2, CountedType DEF Lowerings
<1> QED  BY <1>3, <1>4

\* Without a grant, or without lowered settings, in the batch there is nothing
\* to count.
LEMMA NothingCounted ==
    ASSUME TypeOK
    PROVE  /\ \A s : Granted(s) # 0 => \E i \in DOMAIN wire : wire[i] = F("credit", s)
           /\ Lowerings # 0 => \E i \in DOMAIN wire : wire[i].kind = "settings"
<1>1. ASSUME NEW s, ~\E i \in DOMAIN wire : wire[i] = F("credit", s)
      PROVE  Granted(s) = 0
  <2>1. {i \in DOMAIN wire : wire[i] = F("credit", s)} = {}  BY <1>1
  <2> QED  BY <2>1, FS_EmptySet DEF Granted
<1>2. ASSUME ~\E i \in DOMAIN wire : wire[i].kind = "settings"
      PROVE  Lowerings = 0
  <2>1. {i \in DOMAIN wire : wire[i].kind = "settings"} = {}  BY <1>2
  <2> QED  BY <2>1, FS_EmptySet DEF Lowerings
<1> QED  BY <1>1, <1>2

-----------------------------------------------------------------------------
(* Type correctness.  A blocked manager has a current event of an upload.   *)

TypeInv ==
    /\ TypeOK
    /\ mgr = "blocked" => evq # <<>> /\ Current.s \in Uploads

Phases == {"idle", "head"} \cup Sending \cup Over

LEMMA FrameType ==
    ASSUME NEW kind \in {"credit", "head", "end", "reset", "settings"},
           NEW s \in Uploads \cup {Zero}
    PROVE  F(kind, s) \in Frame
BY DEF F, Frame

LEMMA GotoType ==
    ASSUME TypeOK, NEW u \in Uploads, NEW p \in Phases, Goto(u, p)
    PROVE  phase' \in [Uploads -> Phases]
BY DEF TypeOK, Goto, Phases

LEMMA CurrentType ==
    ASSUME TypeOK, evq # <<>>
    PROVE  Current \in Frame /\ Tail(evq) \in Seq(Frame)
           /\ Current.s \in Uploads \cup {Zero}
<1>1. evq \in Seq(Frame)  BY DEF TypeOK
<1>2. Head(evq) \in Frame /\ Tail(evq) \in Seq(Frame)  BY <1>1
<1> QED  BY <1>2 DEF Current, Frame

\* What a task that runs in its turn leaves to others.
OwnTurn == UNCHANGED <<gone, manager, answer, wire, lowered>>

LEMMA OwnTurnType ==
    ASSUME TypeInv, OwnTurn,
           conn' \in Nat, win' \in [Uploads -> Int], event' \in Uploads \cup {Zero},
           chan' \in [Uploads -> Channels(Frame)], phase' \in [Uploads -> Phases],
           unread' \in [Uploads -> Nat], chunk' \in [Uploads -> 0 .. ReadMax],
           got' \in [Uploads -> Nat], ended' \subseteq Uploads,
           owed' \in Nat, sowed' \in [Uploads -> Nat], budget' \in Nat
    PROVE  TypeInv'
BY DEF TypeInv, TypeOK, OwnTurn, manager, Current, Phases

LEMMA SendType ==
    ASSUME TypeInv, NEW u \in Uploads, OwnTurn, Send(u), UNCHANGED budget
    PROVE  TypeInv'
<1> DEFINE n == ChunkSize(u)
<1>1. UNCHANGED <<event, chan, unread, ended>>  BY DEF Send
<1>2. CASE /\ Goto(u, IF Closed(u) THEN "failed" ELSE "refused")
           /\ UNCHANGED <<conn, win, chunk, got, owed, sowed>>
  <2>1. phase' \in [Uploads -> Phases]
    BY <1>2, GotoType DEF TypeInv, Phases, Over
  <2> QED  BY <1>1, <1>2, <2>1, OwnTurnType DEF TypeInv, TypeOK
<1>3. CASE /\ ~(n < 0) /\ ~(n > Local(u)) /\ Advance(u, n)
           /\ conn'  = conn - n
           /\ win'   = [win EXCEPT ![u] = @ - n]
           /\ got'   = [got EXCEPT ![u] = @ + n]
           /\ owed'  = owed + n
           /\ sowed' = [sowed EXCEPT ![u] = @ + n]
  <2>1. /\ conn \in Nat /\ win \in [Uploads -> Int] /\ got \in [Uploads -> Nat]
        /\ owed \in Nat /\ sowed \in [Uploads -> Nat]
        /\ chunk \in [Uploads -> 0 .. ReadMax] /\ ReadMax \in Nat
    BY HTTP2UploadAssumption DEF TypeInv, TypeOK, HTTP2UploadAssumption
  <2>2. n \in Int /\ n >= 0 /\ n <= chunk[u] /\ n <= conn
    <3>1. n \in Int /\ Local(u) \in Int /\ n <= chunk[u] /\ n <= Local(u) /\ Local(u) <= conn
      BY ChunkSizeBounds DEF TypeInv
    <3> HIDE DEF n
    <3> QED  BY <1>3, <2>1, <3>1
  <2> HIDE DEF n
  <2>3. phase' \in [Uploads -> Phases]
    BY <1>3, GotoType DEF TypeInv, Advance, Phases, Sending
  <2>4. chunk' \in [Uploads -> 0 .. ReadMax]
    <3>1. chunk' = [chunk EXCEPT ![u] = @ - n]  BY <1>3 DEF Advance
    <3>2. chunk[u] - n \in 0 .. ReadMax  BY <2>1, <2>2
    <3> QED  BY <2>1, <3>1, <3>2
  <2>5. conn' \in Nat /\ win' \in [Uploads -> Int] /\ got' \in [Uploads -> Nat]
        /\ owed' \in Nat /\ sowed' \in [Uploads -> Nat]
    BY <1>3, <2>1, <2>2
  <2> QED  BY <1>1, <2>3, <2>4, <2>5, OwnTurnType DEF TypeInv, TypeOK
<1> QED  BY <1>2, <1>3 DEF Send

LEMMA RespondType ==
    ASSUME TypeInv, NEW u \in Uploads, OwnTurn, Respond(u), UNCHANGED budget
    PROVE  TypeInv'
<1> DEFINE c == chan[u]
<1>1. c \in Channels(Frame) /\ c.rx \in {"idle", "wait", "woken"}
  BY ChannelFields DEF TypeInv, TypeOK
<1>2. UNCHANGED <<conn, win, event, body, owed, sowed>>  BY DEF Respond
<1>3. ASSUME NEW s, NEW d \in Channels(Frame), Begin(u, s, d) PROVE TypeInv'
  <2>1. phase' \in [Uploads -> Phases]
    BY <1>3, GotoType DEF Begin, TypeInv, Phases, Over
  <2>2. chan' \in [Uploads -> Channels(Frame)]  BY <1>3 DEF Begin, TypeInv, TypeOK
  <2> QED  BY <1>2, <2>1, <2>2, OwnTurnType DEF TypeInv, TypeOK, body
<1>4. CASE chan' = [chan EXCEPT ![u] = Await(c)] /\ UNCHANGED phase
  <2>1. Await(c) \in Channels(Frame)  BY <1>1, CloseType
  <2>2. chan' \in [Uploads -> Channels(Frame)]  BY <1>4, <2>1 DEF TypeInv, TypeOK
  <2> QED  BY <1>2, <1>4, <2>2, OwnTurnType DEF TypeInv, TypeOK, body, Phases
<1>5. CASE c.rx = "woken" /\ Begin(u, c.buf, Wake(c))
  BY <1>1, <1>3, <1>5, WakeType
<1>6. CASE Pending(c) # <<>> /\ Begin(u, Pending(c), Take(c))
  BY <1>1, <1>3, <1>6, TakeType
<1>7. CASE Begin(u, <<>>, c)  BY <1>1, <1>3, <1>7
<1> QED  BY <1>4, <1>5, <1>6, <1>7 DEF Respond

LEMMA TaskType ==
    ASSUME TypeInv, NEW u \in Uploads, OwnTurn, Start(u) \/ Proceed(u) \/ Cancel(u)
    PROVE  TypeInv'
<1>1. CASE Start(u)
  <2>1. phase' \in [Uploads -> Phases]
    BY <1>1, GotoType DEF Start, TypeInv, Phases, Over, Sending
  <2> QED  BY <1>1, <2>1, OwnTurnType DEF Start, TypeInv, TypeOK, body
<1>2. CASE Read(u) /\ UNCHANGED budget
  <2>1. phase' \in [Uploads -> Phases]
    BY <1>2, GotoType DEF Read, TypeInv, Phases, Sending
  <2>2. PICK n \in Available(u) : /\ unread' = [unread EXCEPT ![u] = @ - n]
                                  /\ chunk'  = [chunk EXCEPT ![u] = n]
    BY <1>2 DEF Read
  <2>3. n \in 0 .. ReadMax /\ n <= unread[u] /\ unread[u] \in Nat
    BY HTTP2UploadAssumption DEF Available, TypeInv, TypeOK, HTTP2UploadAssumption
  <2>4. unread' \in [Uploads -> Nat] /\ chunk' \in [Uploads -> 0 .. ReadMax]
    BY <2>2, <2>3 DEF TypeInv, TypeOK
  <2> QED  BY <1>2, <2>1, <2>4, OwnTurnType DEF Read, TypeInv, TypeOK
<1>3. CASE EndBody(u) /\ UNCHANGED budget
  <2>1. phase' \in [Uploads -> Phases]
    BY <1>3, GotoType DEF EndBody, TypeInv, Phases, Over
  <2>2. ended' \subseteq Uploads  BY <1>3 DEF EndBody, TypeInv, TypeOK
  <2> QED  BY <1>3, <2>1, <2>2, OwnTurnType DEF EndBody, TypeInv, TypeOK
<1>4. CASE Wait(u) /\ UNCHANGED budget
  <2>1. phase' \in [Uploads -> Phases]
    BY <1>4, GotoType DEF Wait, TypeInv, Phases, Sending
  <2> QED  BY <1>4, <2>1, OwnTurnType DEF Wait, TypeInv, TypeOK, body
<1>5. CASE Drain(u) /\ UNCHANGED budget
  <2>1. Take(chan[u]) \in Channels(Frame)
    BY <1>5, TakeType DEF Drain, TypeInv, TypeOK
  <2>2. chan' \in [Uploads -> Channels(Frame)]  BY <1>5, <2>1 DEF Drain, TypeInv, TypeOK
  <2> QED  BY <1>5, <2>2, OwnTurnType DEF Drain, TypeInv, TypeOK, body, Phases
<1>6. CASE Cancel(u)
  <2>1. phase' \in [Uploads -> Phases]
    BY <1>6, GotoType DEF Cancel, TypeInv, Phases, Over
  <2>2. chan' \in [Uploads -> Channels(Frame)]
    BY <1>6, CloseType DEF Cancel, TypeInv, TypeOK
  <2>3. budget' \in Nat
    <3>1. budget \in Nat /\ budget > 0 /\ budget' = budget - 1
      BY <1>6 DEF Cancel, Environment, TypeInv, TypeOK
    <3> QED  BY <3>1
  <2> QED  BY <1>6, <2>1, <2>2, <2>3, OwnTurnType DEF Cancel, TypeInv, TypeOK, body
<1> QED  BY <1>1, <1>2, <1>3, <1>4, <1>5, <1>6, SendType, RespondType DEF Proceed

LEMMA ReceiveType == TypeInv /\ Receive => TypeInv'
<1> SUFFICES ASSUME TypeInv, Receive PROVE TypeInv'  OBVIOUS
<1>1. /\ \A s : Granted(s) \in Nat
      /\ Lowerings \in Nat
  BY GrantedType DEF TypeInv
<1>2. conn' \in Nat /\ win' \in [Uploads -> Int]
  <2>1. /\ conn \in Nat /\ \A u \in Uploads : win[u] \in Int
        /\ conn' = conn + Granted(Zero)
        /\ win' = [u \in Uploads |-> win[u] + Granted(u) - Lowerings]
    BY DEF Receive, TypeInv, TypeOK
  <2>2. \A u \in Uploads : win[u] + Granted(u) - Lowerings \in Int  BY <1>1, <2>1
  <2> QED  BY <1>1, <2>1, <2>2
<1>3. gone' \subseteq Uploads /\ wire' \in Seq(Frame) /\ evq' \in Seq(Frame)
      /\ mgr' = "dispatch"
  BY DEF Receive, Resets, TypeInv, TypeOK
<1> QED  BY <1>2, <1>3 DEF Receive, TypeInv, TypeOK, body

LEMMA PassedType ==
    ASSUME NEW c \in Channels(Frame) PROVE Passed(c) \in Channels(Frame)
BY CloseType DEF Passed

LEMMA DispatchType ==
    ASSUME TypeInv, DispatchConnection \/ DispatchStream \/ Resume \/ BatchDone
    PROVE  TypeInv'
<1>1. CASE DispatchConnection
  <2>1. phase' \in [Uploads -> Phases]
    BY <1>1 DEF DispatchConnection, Wakes, TypeInv, TypeOK, Phases, Sending
  <2> QED  BY <1>1, <2>1, CurrentType
           DEF DispatchConnection, Next1, TypeInv, TypeOK, h2, body, peer, Phases
<1>2. CASE DispatchStream
  <2>1. /\ Current \in Frame /\ chan[Current.s] \in Channels(Frame)
        /\ Tail(evq) \in Seq(Frame) /\ evq # <<>> /\ Current.s \in Uploads
    BY <1>2, CurrentType DEF DispatchStream, TypeInv, TypeOK
  <2>2. /\ Passed(Put(chan[Current.s], Current)) \in Channels(Frame)
        /\ Block(chan[Current.s], Current) \in Channels(Frame)
    BY <2>1, PutType, PassedType
  <2>3. chan' \in [Uploads -> Channels(Frame)]
    BY <1>2, <2>2 DEF DispatchStream, TypeInv, TypeOK
  <2>4. \/ mgr' = "dispatch" /\ evq' = Tail(evq)
        \/ mgr' = "blocked" /\ evq' = evq
    BY <1>2 DEF DispatchStream, Next1
  <2> QED  BY <1>2, <2>1, <2>3, <2>4
           DEF DispatchStream, TypeInv, TypeOK, h2, body, peer, Current
<1>3. CASE Resume
  <2>1. /\ chan[Current.s] \in Channels(Frame) /\ Tail(evq) \in Seq(Frame)
    BY <1>3, CurrentType DEF Resume, TypeInv, TypeOK
  <2>2. chan' \in [Uploads -> Channels(Frame)]
    BY <1>3, <2>1, PassedType DEF Resume, TypeInv, TypeOK
  <2> QED  BY <1>3, <2>1, <2>2 DEF Resume, Next1, TypeInv, TypeOK, h2, body, peer
<1>4. CASE BatchDone
  BY <1>4 DEF BatchDone, TypeInv, TypeOK, h2, body, peer
<1> QED  BY <1>1, <1>2, <1>3, <1>4

LEMMA StopType == TypeInv /\ Stop => TypeInv'
<1> SUFFICES ASSUME TypeInv, Stop PROVE TypeInv'  OBVIOUS
<1>1. ASSUME NEW u \in Uploads PROVE Closing[u] \in Channels(Frame)
  <2> DEFINE c == Unblock(chan[u])
  <2>1. c \in Channels(Frame)  BY CloseType DEF TypeInv, TypeOK
  <2>2. Put(c, F("reset", u)) \in Channels(Frame)  BY <2>1, FrameType, PutType
  <2>3. CloseSend(c) \in Channels(Frame) /\ CloseSend(Put(c, F("reset", u))) \in Channels(Frame)
    BY <2>1, <2>2, CloseType
  <2> QED  BY <2>1, <2>3 DEF Closing
<1>2. chan' \in [Uploads -> Channels(Frame)]  BY <1>1 DEF Stop, Closing
<1> QED  BY <1>2 DEF Stop, Environment, TypeInv, TypeOK, h2, body, peer

LEMMA ServerType ==
    ASSUME TypeInv, UNCHANGED <<h2, event, manager, chan, phase, body>>,
           \/ GrantConnection \/ Lower
           \/ \E u \in Uploads : GrantStream(u) \/ Answer(u) \/ Finish(u)
    PROVE  TypeInv'
<1>1. ASSUME NEW kind \in {"credit", "head", "end", "reset", "settings"},
             NEW s \in Uploads \cup {Zero}, Says(kind, s)
      PROVE  wire' \in Seq(Frame)
  BY <1>1, FrameType DEF Says, TypeInv, TypeOK
<1>2. budget' \in Nat
  BY DEF GrantConnection, Lower, GrantStream, Answer, Finish, Environment, TypeInv, TypeOK
<1>3. wire' \in Seq(Frame)
  BY <1>1 DEF GrantConnection, Lower, GrantStream, Answer, Finish
<1>4. /\ owed' \in Nat /\ sowed' \in [Uploads -> Nat] /\ lowered' \in BOOLEAN
      /\ answer' \in [Uploads -> {"none", "head", "end"}]
  <2>1. CASE GrantConnection
    BY <2>1 DEF GrantConnection, TypeInv, TypeOK
  <2>2. CASE Lower
    BY <2>2 DEF Lower, TypeInv, TypeOK
  <2>3. ASSUME NEW u \in Uploads, GrantStream(u)
        PROVE  owed' \in Nat /\ sowed' \in [Uploads -> Nat] /\ UNCHANGED <<lowered, answer>>
    BY <2>3 DEF GrantStream, TypeInv, TypeOK
  <2>4. ASSUME NEW u \in Uploads, Answer(u) \/ Finish(u)
        PROVE  /\ answer' \in [Uploads -> {"none", "head", "end"}]
               /\ UNCHANGED <<owed, sowed, lowered>>
    BY <2>4 DEF Answer, Finish, TypeInv, TypeOK
  <2> QED  BY <2>1, <2>2, <2>3, <2>4 DEF TypeInv, TypeOK
<1>5. UNCHANGED <<conn, win, gone, event, mgr, evq, chan, phase, unread, chunk, got, ended>>
  BY DEF h2, manager, body
<1>6. mgr' = "blocked" => evq' # <<>> /\ Current'.s \in Uploads
  BY <1>5 DEF TypeInv, Current
<1> QED  BY <1>2, <1>3, <1>4, <1>5, <1>6 DEF TypeInv, TypeOK

LEMMA InitType == Init => TypeInv
<1> SUFFICES ASSUME Init PROVE TypeInv  OBVIOUS
<1>1. chan \in [Uploads -> Channels(Frame)]  BY FreshType DEF Init
<1>2. unread \in [Uploads -> Nat] /\ chunk \in [Uploads -> 0 .. ReadMax]
      /\ conn \in Nat /\ win \in [Uploads -> Int] /\ budget \in Nat
  BY HTTP2UploadAssumption DEF Init, HTTP2UploadAssumption
<1>3. /\ phase \in [Uploads -> {"idle", "head"} \cup Sending \cup Over]
      /\ got \in [Uploads -> Nat] /\ sowed \in [Uploads -> Nat]
      /\ answer \in [Uploads -> {"none", "head", "end"}]
      /\ evq \in Seq(Frame) /\ wire \in Seq(Frame)
  BY DEF Init
<1> QED  BY <1>1, <1>2, <1>3 DEF Init, TypeInv, TypeOK

LEMMA NextType == TypeInv /\ [Next]_vars => TypeInv'
<1> SUFFICES ASSUME TypeInv, [Next]_vars PROVE TypeInv'  OBVIOUS
<1>1. CASE Manager  BY <1>1, ReceiveType, DispatchType DEF Manager
<1>2. CASE Stop  BY <1>2, StopType
<1>3. CASE Serves(GrantConnection \/ Lower)  BY <1>3, ServerType DEF Serves
<1>4. ASSUME NEW u \in Uploads, Serves(GrantStream(u) \/ Answer(u) \/ Finish(u))
      PROVE  TypeInv'
  BY <1>4, ServerType DEF Serves
<1>5. ASSUME NEW u \in Uploads, InTurn(Start(u) \/ Proceed(u) \/ Cancel(u))
      PROVE  TypeInv'
  BY <1>5, TaskType DEF InTurn, OwnTurn
<1>6. CASE UNCHANGED vars
  BY <1>6 DEF vars, h2, manager, body, peer, TypeInv, TypeOK, Current
<1> QED  BY <1>1, <1>2, <1>3, <1>4, <1>5, <1>6 DEF Next

\* Windows, amounts, channels and queues keep their types, for any sizes and
\* windows; the connection's window never becomes negative.
THEOREM TypeCorrect == Spec => []TypeOK
<1>1. Init => TypeInv  BY InitType
<1>2. TypeInv /\ [Next]_vars => TypeInv'  BY NextType
<1>3. TypeInv => TypeOK  BY DEF TypeInv
<1> QED  BY <1>1, <1>2, <1>3, PTL DEF Spec

-----------------------------------------------------------------------------
(* The body arrives whole.  At any time the server has what was neither read *)
(* nor is left in the chunk.                                                 *)

Whole == \A u \in Uploads :
    /\ got[u] + chunk[u] + unread[u] = Size[u]
    /\ phase[u] \in {"idle", "read"} => chunk[u] = 0
    /\ u \in ended => /\ phase[u] \notin {"idle"} \cup Sending
                      /\ unread[u] = 0 /\ chunk[u] = 0

\* A step that leaves the bodies alone, and lets no task begin, read again or
\* send again, except one that waited.
LEMMA WholeElsewhere ==
    ASSUME Whole, UNCHANGED body,
           \A u \in Uploads : \/ phase'[u] = phase[u]
                              \/ phase'[u] \in {"head"} \cup Over
                              \/ phase[u] = "wait" /\ phase'[u] = "send"
                              \/ phase[u] = "send" /\ phase'[u] = "wait"
                              \/ phase[u] = "idle" /\ phase'[u] = "read"
    PROVE  Whole'
<1> SUFFICES ASSUME NEW u \in Uploads
             PROVE  /\ got'[u] + chunk'[u] + unread'[u] = Size[u]
                    /\ phase'[u] \in {"idle", "read"} => chunk'[u] = 0
                    /\ u \in ended' => /\ phase'[u] \notin {"idle"} \cup Sending
                                       /\ unread'[u] = 0 /\ chunk'[u] = 0
  BY DEF Whole
<1>1. UNCHANGED <<unread, chunk, got, ended>>  BY DEF body
<1> QED  BY <1>1 DEF Whole, Sending, Over

\* What a step of u's own task has to keep.
LEMMA WholeTask ==
    ASSUME TypeInv, Whole, NEW u \in Uploads,
           \A v \in Uploads \ {u} :
               /\ got'[v] = got[v] /\ chunk'[v] = chunk[v] /\ unread'[v] = unread[v]
               /\ phase'[v] = phase[v] /\ (v \in ended' <=> v \in ended),
           got'[u] + chunk'[u] + unread'[u] = got[u] + chunk[u] + unread[u],
           phase'[u] \in {"idle", "read"} => chunk'[u] = 0,
           u \in ended' => /\ phase'[u] \notin {"idle"} \cup Sending
                           /\ unread'[u] = 0 /\ chunk'[u] = 0
    PROVE  Whole'
<1> SUFFICES ASSUME NEW v \in Uploads
             PROVE  /\ got'[v] + chunk'[v] + unread'[v] = Size[v]
                    /\ phase'[v] \in {"idle", "read"} => chunk'[v] = 0
                    /\ v \in ended' => /\ phase'[v] \notin {"idle"} \cup Sending
                                       /\ unread'[v] = 0 /\ chunk'[v] = 0
  BY DEF Whole
<1>1. CASE v = u  BY <1>1 DEF Whole
<1>2. CASE v # u  BY <1>2 DEF Whole
<1> QED  BY <1>1, <1>2

LEMMA ReadWhole == ASSUME TypeInv, Whole, NEW u \in Uploads, Read(u) PROVE Whole'
<1>1. PICK n \in Available(u) : /\ unread' = [unread EXCEPT ![u] = @ - n]
                                /\ chunk'  = [chunk EXCEPT ![u] = n]
  BY DEF Read
<1>2. /\ unread \in [Uploads -> Nat] /\ chunk \in [Uploads -> 0 .. ReadMax]
      /\ got \in [Uploads -> Nat] /\ phase \in [Uploads -> Phases]
  BY DEF TypeInv, TypeOK, Phases
<1>3. n \in Nat /\ n <= unread[u]
  BY HTTP2UploadAssumption DEF Available, HTTP2UploadAssumption
<1>4. /\ phase[u] = "read" /\ phase' = [phase EXCEPT ![u] = "send"]
      /\ UNCHANGED <<got, ended>>
  BY DEF Read, Goto
<1>5. chunk[u] = 0 /\ u \notin ended  BY <1>4 DEF Whole, Sending
<1>6. got'[u] + chunk'[u] + unread'[u] = got[u] + chunk[u] + unread[u]
  BY <1>1, <1>2, <1>3, <1>4, <1>5
<1> QED  BY <1>1, <1>2, <1>4, <1>5, <1>6, WholeTask

LEMMA EndBodyWhole == ASSUME TypeInv, Whole, NEW u \in Uploads, EndBody(u) PROVE Whole'
<1>1. /\ phase \in [Uploads -> Phases] /\ phase[u] = "read" /\ unread[u] = 0
      /\ UNCHANGED <<unread, chunk, got>>
      /\ phase' = [phase EXCEPT ![u] = IF Closed(u) THEN "failed" ELSE "head"]
      /\ ended' = IF Closed(u) THEN ended ELSE ended \cup {u}
  BY DEF EndBody, TypeInv, TypeOK, Phases, Goto
<1>2. chunk[u] = 0  BY <1>1 DEF Whole
<1> QED  BY <1>1, <1>2, WholeTask DEF Sending

LEMMA SendWhole == ASSUME TypeInv, Whole, NEW u \in Uploads, Send(u) PROVE Whole'
<1> DEFINE n == ChunkSize(u)
<1>1. phase \in [Uploads -> Phases] /\ phase[u] = "send" /\ UNCHANGED <<unread, ended>>
  BY DEF Send, TypeInv, TypeOK, Phases
<1>2. CASE /\ Goto(u, IF Closed(u) THEN "failed" ELSE "refused")
           /\ UNCHANGED <<conn, win, chunk, got, owed, sowed>>
  <2>1. phase'[u] \in Over /\ \A v \in Uploads \ {u} : phase'[v] = phase[v]
    BY <1>1, <1>2 DEF Goto, Over
  <2> QED  BY <1>1, <1>2, <2>1, WholeElsewhere DEF body
<1>3. CASE Advance(u, n) /\ got' = [got EXCEPT ![u] = @ + n]
  <2>1. /\ n \in Int /\ chunk[u] \in Int /\ got[u] \in Int /\ unread[u] \in Int
        /\ chunk \in [Uploads -> 0 .. ReadMax] /\ got \in [Uploads -> Nat]
    BY ChunkSizeBounds DEF TypeInv, TypeOK
  <2> HIDE DEF n
  <2>2. /\ chunk' = [chunk EXCEPT ![u] = @ - n]
        /\ phase' = [phase EXCEPT ![u] = IF n = chunk[u] THEN "read" ELSE "send"]
    BY <1>3 DEF Advance, Goto
  <2>3. got'[u] + chunk'[u] + unread'[u] = got[u] + chunk[u] + unread[u]
    BY <1>1, <1>3, <2>1, <2>2
  <2>4. phase'[u] \in {"idle", "read"} => chunk'[u] = 0
    BY <1>1, <2>1, <2>2
  <2>5. u \notin ended'  BY <1>1 DEF Whole, Sending
  <2> QED  BY <1>1, <1>3, <2>1, <2>2, <2>3, <2>4, <2>5, WholeTask
<1> QED  BY <1>2, <1>3 DEF Send

LEMMA NextWhole == TypeInv /\ Whole /\ [Next]_vars => Whole'
<1> SUFFICES ASSUME TypeInv, Whole, [Next]_vars PROVE Whole'  OBVIOUS
<1>1. phase \in [Uploads -> Phases]  BY DEF TypeInv, TypeOK, Phases
<1>2. CASE Manager \/ Stop
  <2>1. UNCHANGED body
    BY <1>2 DEF Manager, Receive, DispatchConnection, DispatchStream, Resume, BatchDone, Stop
  <2>2. \A u \in Uploads : phase'[u] = phase[u] \/ (phase[u] = "wait" /\ phase'[u] = "send")
    BY <1>1, <1>2
       DEF Manager, Receive, DispatchConnection, DispatchStream, Resume, BatchDone, Stop, Wakes
  <2> QED  BY <2>1, <2>2, WholeElsewhere
<1>3. CASE UNCHANGED <<phase, body>>  BY <1>3, WholeElsewhere
<1>4. ASSUME NEW u \in Uploads, Start(u) \/ Wait(u) \/ Respond(u) \/ Drain(u) \/ Cancel(u)
      PROVE  Whole'
  <2>1. UNCHANGED body  BY <1>4 DEF Start, Wait, Respond, Drain, Cancel
  <2>2. \A v \in Uploads :
           \/ phase'[v] = phase[v]
           \/ phase'[v] \in {"head"} \cup Over
           \/ phase[v] = "send" /\ phase'[v] = "wait"
           \/ phase[v] = "idle" /\ phase'[v] = "read"
    BY <1>1, <1>4 DEF Start, Wait, Respond, Begin, Drain, Cancel, Goto, Over
  <2> QED  BY <2>1, <2>2, WholeElsewhere
<1>5. ASSUME NEW u \in Uploads, InTurn(Start(u) \/ Proceed(u) \/ Cancel(u)) PROVE Whole'
  BY <1>4, <1>5, ReadWhole, EndBodyWhole, SendWhole DEF InTurn, Proceed
<1> QED  BY <1>2, <1>3, <1>5 DEF Next, Serves, vars

\* For any sizes, windows and interleaving: END_STREAM is only sent after the
\* whole body (_http2.py:219-235, 295-306).
THEOREM UploadsComplete == Spec => []CompleteUpload
<1>1. Init => TypeInv /\ Whole
  <2> SUFFICES ASSUME Init PROVE Whole  BY InitType
  <2> QED  BY HTTP2UploadAssumption DEF Init, Whole, HTTP2UploadAssumption
<1>2. (TypeInv /\ Whole) /\ [Next]_vars => (TypeInv /\ Whole)'
  BY NextType, NextWhole
<1>3. TypeInv /\ Whole => CompleteUpload
  BY HTTP2UploadAssumption DEF TypeInv, TypeOK, Whole, CompleteUpload, HTTP2UploadAssumption
<1> QED  BY <1>1, <1>2, <1>3, PTL DEF Spec

-----------------------------------------------------------------------------
(* Unless the server has lowered the windows, none is negative and no       *)
(* lowered settings are under way, so that no chunk_size is negative.       *)

Unlowered ==
    ~lowered => /\ \A u \in Uploads : win[u] >= 0 /\ phase[u] # "refused"
                /\ \A i \in DOMAIN wire : wire[i].kind # "settings"

LEMMA SendUnlowered ==
    ASSUME TypeInv, Unlowered, NEW u \in Uploads, OwnTurn, Send(u)
    PROVE  Unlowered'
<1> DEFINE n == ChunkSize(u)
<1> SUFFICES ASSUME ~lowered PROVE Unlowered'  BY DEF OwnTurn, Unlowered
<1>1. /\ phase \in [Uploads -> Phases] /\ win \in [Uploads -> Int]
      /\ UNCHANGED <<wire, lowered>>
  BY DEF TypeInv, TypeOK, Phases, OwnTurn
<1>2. \A v \in Uploads : win[v] >= 0 /\ phase[v] # "refused"  BY DEF Unlowered
<1>3. n \in Int /\ n >= 0 /\ Local(u) \in Int /\ n <= Local(u)
  BY <1>2, ChunkSizeBounds DEF TypeInv
<1>4. n <= win[u]  BY <1>1, <1>3 DEF Local, TypeInv, TypeOK
<1> HIDE DEF n
<1>5. ~(n < 0) /\ ~(n > Local(u))  BY <1>3
<1>6. CASE Closed(u)
  <2>1. Goto(u, "failed") /\ UNCHANGED win  BY <1>6 DEF Send
  <2> QED  BY <1>1, <1>2, <2>1 DEF Goto, Unlowered
<1>7. CASE ~Closed(u)
  <2>1. Advance(u, n) /\ win' = [win EXCEPT ![u] = @ - n]
    BY <1>5, <1>7 DEF Send, n
  <2>2. \A v \in Uploads : phase'[v] # "refused"
    BY <1>1, <1>2, <2>1 DEF Advance, Goto
  <2>3. \A v \in Uploads : win'[v] >= 0
    BY <1>1, <1>2, <1>3, <1>4, <2>1
  <2> QED  BY <1>1, <2>2, <2>3 DEF Unlowered
<1> QED  BY <1>6, <1>7

LEMMA ReceiveUnlowered == TypeInv /\ Unlowered /\ Receive => Unlowered'
<1> SUFFICES ASSUME TypeInv, Unlowered, Receive, ~lowered PROVE Unlowered'
  BY DEF Receive, Unlowered
<1>1. /\ \A u \in Uploads : Granted(u) \in Nat
      /\ Lowerings = 0
  BY GrantedType, NothingCounted DEF TypeInv, Unlowered
<1>2. /\ \A u \in Uploads : win[u] \in Int /\ win[u] >= 0
      /\ win' = [u \in Uploads |-> win[u] + Granted(u) - Lowerings]
      /\ UNCHANGED <<phase, lowered>> /\ wire' = <<>>
  BY DEF Receive, TypeInv, TypeOK, Unlowered
<1>3. \A u \in Uploads : win'[u] >= 0  BY <1>1, <1>2
<1> QED  BY <1>2, <1>3 DEF Unlowered

\* A step that changes no window and refuses nobody.
LEMMA UnloweredElsewhere ==
    ASSUME TypeInv, Unlowered, UNCHANGED <<win, lowered>>,
           \A u \in Uploads : phase'[u] = "refused" => phase[u] = "refused",
           \/ wire' = wire
           \/ \E kind \in {"credit", "head", "end", "reset"}, s \in Uploads \cup {Zero} :
                 Says(kind, s)
    PROVE  Unlowered'
<1>1. CASE wire' = wire  BY <1>1 DEF Unlowered
<1>2. ASSUME NEW kind \in {"credit", "head", "end", "reset"},
             NEW s \in Uploads \cup {Zero}, Says(kind, s)
      PROVE  Unlowered'
  <2>1. wire \in Seq(Frame) /\ wire' = Append(wire, F(kind, s))
    BY <1>2 DEF TypeInv, TypeOK, Says
  <2>2. F(kind, s).kind # "settings"  BY DEF F
  <2>3. ASSUME NEW i \in DOMAIN wire', ~lowered PROVE wire'[i].kind # "settings"
    <3>1. CASE i \in DOMAIN wire
      <4>1. wire'[i] = wire[i]  BY <2>1, <3>1
      <4> QED  BY <2>3, <3>1, <4>1 DEF Unlowered
    <3>2. CASE i \notin DOMAIN wire
      <4>1. wire'[i] = F(kind, s)  BY <2>1, <2>3, <3>2
      <4> QED  BY <2>2, <4>1
    <3> QED  BY <3>1, <3>2
  <2> QED  BY <2>3 DEF Unlowered
<1> QED  BY <1>1, <1>2

LEMMA TaskUnlowered ==
    ASSUME TypeInv, Unlowered, NEW u \in Uploads, OwnTurn,
           Start(u) \/ Proceed(u) \/ Cancel(u)
    PROVE  Unlowered'
<1>1. CASE Send(u)  BY <1>1, SendUnlowered
<1>2. CASE Start(u) \/ Read(u) \/ EndBody(u) \/ Wait(u) \/ Respond(u) \/ Drain(u) \/ Cancel(u)
  <2>1. UNCHANGED win
    BY <1>2 DEF Start, Read, EndBody, Wait, Respond, Drain, Cancel
  <2>2. \A v \in Uploads : phase'[v] = "refused" => phase[v] = "refused"
    BY <1>2 DEF Start, Read, EndBody, Wait, Respond, Begin, Drain, Cancel, Goto,
                TypeInv, TypeOK
  <2> QED  BY <2>1, <2>2, UnloweredElsewhere DEF OwnTurn
<1> QED  BY <1>1, <1>2 DEF Proceed

LEMMA NextUnlowered == TypeInv /\ Unlowered /\ [Next]_vars => Unlowered'
<1> SUFFICES ASSUME TypeInv, Unlowered, [Next]_vars PROVE Unlowered'  OBVIOUS
<1>1. CASE DispatchConnection \/ DispatchStream \/ Resume \/ BatchDone \/ Stop
  <2>1. UNCHANGED <<win, lowered, wire>>
    BY <1>1 DEF DispatchConnection, DispatchStream, Resume, BatchDone, Stop, h2, peer
  <2>2. \A u \in Uploads : phase'[u] = "refused" => phase[u] = "refused"
    BY <1>1 DEF DispatchConnection, DispatchStream, Resume, BatchDone, Stop, Wakes,
                TypeInv, TypeOK
  <2> QED  BY <2>1, <2>2, UnloweredElsewhere
<1>2. CASE Lower  BY <1>2 DEF Lower, Unlowered
<1>3. ASSUME GrantConnection \/ \E u \in Uploads : GrantStream(u) \/ Answer(u) \/ Finish(u),
             UNCHANGED <<h2, phase>>
      PROVE  Unlowered'
  <2>1. \E kind \in {"credit", "head", "end", "reset"}, s \in Uploads \cup {Zero} :
           Says(kind, s)
    BY <1>3 DEF GrantConnection, GrantStream, Answer, Finish
  <2>2. UNCHANGED lowered  BY <1>3 DEF GrantConnection, GrantStream, Answer, Finish
  <2> QED  BY <1>3, <2>1, <2>2, UnloweredElsewhere DEF h2
<1>4. CASE UNCHANGED vars  BY <1>4, UnloweredElsewhere DEF vars, h2, peer
<1>5. CASE Manager \/ Stop  BY <1>1, <1>5, ReceiveUnlowered DEF Manager
<1>6. CASE Serves(GrantConnection \/ Lower)  BY <1>2, <1>3, <1>6 DEF Serves
<1>7. ASSUME NEW u \in Uploads, Serves(GrantStream(u) \/ Answer(u) \/ Finish(u))
      PROVE  Unlowered'
  BY <1>3, <1>7 DEF Serves
<1>8. ASSUME NEW u \in Uploads, InTurn(Start(u) \/ Proceed(u) \/ Cancel(u))
      PROVE  Unlowered'
  BY <1>8, TaskUnlowered DEF InTurn, OwnTurn
<1> QED  BY <1>4, <1>5, <1>6, <1>7, <1>8 DEF Next

\* For any windows and any number of uploads that share them: h2 refuses no
\* chunk of send_stream_data() unless the server has lowered the windows
\* (_http2.py:212-235).
THEOREM RefusedAfterLowering == Spec => []OnlyLoweringRefuses
<1>1. Init => TypeInv /\ Unlowered
  <2> SUFFICES ASSUME Init PROVE Unlowered  BY InitType
  <2> QED  BY HTTP2UploadAssumption DEF Init, Unlowered, HTTP2UploadAssumption
<1>2. (TypeInv /\ Unlowered) /\ [Next]_vars => (TypeInv /\ Unlowered)'
  BY NextType, NextUnlowered
<1>3. TypeInv /\ Unlowered => OnlyLoweringRefuses
  BY DEF TypeInv, TypeOK, Unlowered, OnlyLoweringRefuses
<1> QED  BY <1>1, <1>2, <1>3, PTL DEF Spec

-----------------------------------------------------------------------------
(* Wake-ups.  The connection's window only grows when a batch is received    *)
(* that holds the credit, and the credit stays in the batch until it wakes   *)
(* the upload whose event it finds.                                          *)

Wakeful ==
    /\ mgr = "read" => evq = <<>>
    /\ NoLostWakeup

\* A step that lets nobody wait, leaves the credits that are to come, and opens
\* the connection's window no further.
LEMMA WakefulElsewhere ==
    ASSUME TypeInv, Wakeful, UNCHANGED <<event, evq, mgr>>,
           conn' = conn \/ (conn > 0 /\ conn' \in Nat),
           \A u \in Uploads : phase'[u] = "wait" => phase[u] = "wait"
    PROVE  Wakeful'
BY DEF Wakeful, NoLostWakeup, CreditComing, F

LEMMA TaskWakeful ==
    ASSUME TypeInv, Wakeful, TypeInv', NEW u \in Uploads, OwnTurn,
           Start(u) \/ Proceed(u) \/ Cancel(u)
    PROVE  Wakeful'
<1>1. /\ phase \in [Uploads -> Phases] /\ conn \in Nat /\ conn' \in Nat
      /\ UNCHANGED <<mgr, evq>>
  BY DEF TypeInv, TypeOK, Phases, OwnTurn, manager
<1>2. CASE Wait(u)
  <2>1. /\ conn = 0 /\ conn' = conn /\ event' = u
        /\ phase' = [phase EXCEPT ![u] = "wait"]
    BY <1>2 DEF Wait, Goto
  <2> QED  BY <1>1, <2>1 DEF Wakeful, NoLostWakeup
<1>3. CASE Start(u) \/ Read(u) \/ EndBody(u) \/ Send(u) \/ Respond(u) \/ Drain(u) \/ Cancel(u)
  <2>1. UNCHANGED event
    BY <1>3 DEF Start, Read, EndBody, Send, Respond, Drain, Cancel
  <2>2. conn' = conn \/ conn > 0
    BY <1>3 DEF Start, Read, EndBody, Send, Respond, Drain, Cancel
  <2>3. \A v \in Uploads : phase'[v] = "wait" => phase[v] = "wait"
    BY <1>1, <1>3 DEF Start, Read, EndBody, Send, Advance, Respond, Begin, Drain, Cancel, Goto
  <2> QED  BY <1>1, <2>1, <2>2, <2>3, WakefulElsewhere
<1> QED  BY <1>2, <1>3 DEF Proceed

LEMMA ReceiveWakeful == TypeInv /\ Wakeful /\ Receive => Wakeful'
<1> SUFFICES ASSUME TypeInv, Wakeful, Receive PROVE Wakeful'  OBVIOUS
<1>1. /\ conn \in Nat /\ Granted(Zero) \in Nat /\ conn' = conn + Granted(Zero)
      /\ UNCHANGED <<event, phase>> /\ mgr = "read" /\ mgr' = "dispatch"
      /\ evq = <<>> /\ evq' = wire
  BY GrantedType DEF TypeInv, TypeOK, Receive, Wakeful
<1>2. CASE Granted(Zero) = 0
  <2>1. ~CreditComing  BY <1>1 DEF CreditComing
  <2>2. conn' = conn  BY <1>1, <1>2
  <2> QED  BY <1>1, <2>1, <2>2 DEF Wakeful, NoLostWakeup
<1>3. CASE Granted(Zero) # 0
  <2>1. \E i \in DOMAIN wire : wire[i] = F("credit", Zero)
    BY <1>3, NothingCounted DEF TypeInv
  <2>2. CreditComing'  BY <1>1, <2>1 DEF CreditComing, F
  <2> QED  BY <1>1, <2>2 DEF Wakeful, NoLostWakeup
<1> QED  BY <1>2, <1>3

\* A credit that is not the current event is still to come in the next state.
LEMMA CreditInTail ==
    ASSUME TypeOK, evq # <<>>, CreditComing, Current # F("credit", Zero),
           evq' = Tail(evq)
    PROVE  CreditComing'
<1>1. evq \in Seq(Frame)  BY DEF TypeOK
<1>2. PICK i \in DOMAIN evq : evq[i] = F("credit", Zero)  BY DEF CreditComing
<1>3. i # 1  BY <1>1, <1>2 DEF Current
<1>4. i - 1 \in DOMAIN evq' /\ evq'[i - 1] = evq[i]  BY <1>1, <1>2, <1>3
<1> QED  BY <1>2, <1>4 DEF CreditComing, F

LEMMA DispatchWakeful ==
    ASSUME TypeInv, Wakeful, DispatchConnection \/ DispatchStream \/ Resume \/ BatchDone
    PROVE  Wakeful'
<1>0. phase \in [Uploads -> Phases] /\ UNCHANGED <<conn, event>>
  BY DEF TypeInv, TypeOK, Phases, DispatchConnection, DispatchStream, Resume, BatchDone, h2
<1>1. CASE DispatchConnection
  <2>1. mgr = "dispatch" /\ evq # <<>> /\ evq' = Tail(evq) /\ mgr' = "dispatch"
    BY <1>1 DEF DispatchConnection, Next1
  <2>2. CASE Current = F("credit", Zero)
    <3>1. IF conn > 0 THEN Wakes ELSE UNCHANGED phase
      BY <1>1, <2>2 DEF DispatchConnection, F
    <3> QED  BY <1>0, <2>1, <3>1 DEF Wakes, Wakeful, NoLostWakeup
  <2>3. CASE Current # F("credit", Zero)
    <3>1. CreditComing => CreditComing'  BY <2>1, <2>3, CreditInTail DEF TypeInv
    <3>2. \A v \in Uploads : phase'[v] = "wait" => phase[v] = "wait"
      BY <1>0, <1>1 DEF DispatchConnection, Wakes
    <3> QED  BY <1>0, <2>1, <3>1, <3>2 DEF Wakeful, NoLostWakeup
  <2> QED  BY <2>2, <2>3
<1>2. CASE DispatchStream \/ Resume
  <2>1. UNCHANGED phase  BY <1>2 DEF DispatchStream, Resume
  <2>2. evq # <<>> /\ Current.s \in Uploads
    BY <1>2 DEF DispatchStream, Resume, TypeInv
  <2>3. Current # F("credit", Zero)  BY <2>2, HTTP2UploadAssumption DEF F, HTTP2UploadAssumption
  <2>4. \/ evq' = evq /\ mgr' = "blocked"
        \/ evq' = Tail(evq) /\ mgr' = "dispatch"
    BY <1>2 DEF DispatchStream, Resume, Next1
  <2>5. CreditComing => CreditComing'
    <3>1. CASE evq' = evq  BY <3>1 DEF CreditComing, F
    <3>2. CASE evq' = Tail(evq)  BY <2>2, <2>3, <3>2, CreditInTail DEF TypeInv
    <3> QED  BY <2>4, <3>1, <3>2
  <2>6. mgr # "stopped"  BY <1>2 DEF DispatchStream, Resume
  <2> QED  BY <1>0, <2>1, <2>4, <2>5, <2>6 DEF Wakeful, NoLostWakeup
<1>3. CASE BatchDone
  BY <1>0, <1>3 DEF BatchDone, Wakeful, NoLostWakeup, CreditComing, F
<1> QED  BY <1>1, <1>2, <1>3

LEMMA NextWakeful == TypeInv /\ Wakeful /\ [Next]_vars => Wakeful'
<1> SUFFICES ASSUME TypeInv, Wakeful, [Next]_vars PROVE Wakeful'  OBVIOUS
<1>1. CASE Manager  BY <1>1, ReceiveWakeful, DispatchWakeful DEF Manager
<1>2. CASE Stop  BY <1>2 DEF Stop, Wakeful, NoLostWakeup
<1>3. ASSUME UNCHANGED <<h2, event, manager, phase>> PROVE Wakeful'
  BY <1>3, WakefulElsewhere DEF h2, manager
<1>4. CASE Serves(GrantConnection \/ Lower)  BY <1>3, <1>4 DEF Serves
<1>5. ASSUME NEW u \in Uploads, Serves(GrantStream(u) \/ Answer(u) \/ Finish(u))
      PROVE  Wakeful'
  BY <1>3, <1>5 DEF Serves
<1>6. ASSUME NEW u \in Uploads, InTurn(Start(u) \/ Proceed(u) \/ Cancel(u))
      PROVE  Wakeful'
  BY <1>6, TaskWakeful, NextType DEF InTurn, OwnTurn
<1>7. CASE UNCHANGED vars  BY <1>3, <1>7 DEF vars
<1> QED  BY <1>1, <1>2, <1>4, <1>5, <1>6, <1>7 DEF Next

\* However uploads replace each other's event: one that waits while the
\* connection has a window will be woken, or its event was replaced, or the
\* manager has ended (_http2.py:196-221).
THEOREM WakeupsKept == Spec => []NoLostWakeup
<1>1. Init => TypeInv /\ Wakeful
  BY InitType DEF Init, Wakeful, NoLostWakeup
<1>2. (TypeInv /\ Wakeful) /\ [Next]_vars => (TypeInv /\ Wakeful)'
  BY NextType, NextWakeful
<1>3. TypeInv /\ Wakeful => NoLostWakeup  BY DEF Wakeful
<1> QED  BY <1>1, <1>2, <1>3, PTL DEF Spec
=============================================================================
