--------------------------------- MODULE Pool --------------------------------
(***************************************************************************)
(* ConnectionPool, HTTPRequest, the client's choice of a pool and its exit *)
(* (_client.py:88-177, 241-251, 269-285), for requests to one host: tasks  *)
(* that acquire a connection for one request each, and give it back.  A    *)
(* connection is seen as the pool sees it, through available_slots, closed *)
(* and aclose(): "h11" and "h2" ones differ in how many requests they      *)
(* carry and in how they end; HTTP11 and HTTP2 model their insides.        *)
(* Acquiring a connection that exists and sending the request on it is one *)
(* step, as there is no await between them.  A pool, and a connection, is  *)
(* named after the request it was created for.                             *)
(***************************************************************************)
EXTENDS Integers, Sequences, FiniteSets

CONSTANTS Requests,
          None,        \* not a connection, not a pool
          Kinds,       \* what ALPN may select, of {"h11", "h2"}
          MaxStreams,  \* remote_settings.max_concurrent_streams at first
          Env,         \* which of EnvKinds may happen
          MaxEnv       \* bound: how many of them, in one behaviour

EnvKinds == {"refuse",     \* connect() fails
             "drop",       \* an h2 connection ends: EOF or GOAWAY
             "fail",       \* a request over h11 fails, or was a tunnel: h11 stays busy
             "settings",   \* the server lowers MAX_CONCURRENT_STREAMS to 1
             "exit"}       \* the client's context is left

ASSUME PoolAssumption ==
    /\ IsFiniteSet(Requests) /\ None \notin Requests
    /\ Kinds \subseteq {"h11", "h2"}
    /\ MaxStreams \in Nat \ {0} /\ MaxEnv \in Nat
    /\ Env \subseteq EnvKinds

VARIABLES
    current,      \* the pool in HTTPClient._connection_pools
    pool,         \* the pool each request was given
    connections,  \* each pool's _connections, a deque
    kind,         \* the kind of each connection that was opened
    state,        \* "up", "busy" (up, and no use any more), "closed", or "lost": up,
                  \* but its manager could not be started
    limit,        \* the streams an h2 connection may have
    phase,        \* where each request's task is
    on,           \* the connection it holds
    exit,         \* the client's exit: "no", "begun", "closing" (its pool has been
                  \* closed), "done" (the client's task group has ended)
    last,         \* the pool that the exit closes
    closing,      \* connections whose aclose() the exit still has to run
    raised,       \* one of those raised, and ended the client's task group
    budget        \* environment events that may still happen

pools == <<current, pool, connections>>
opened == <<kind, state, limit>>
ending == <<exit, last, closing, raised>>
vars == <<pools, opened, phase, on, ending, budget>>

TypeOK ==
    /\ current \in Requests \cup {None}
    /\ pool \in [Requests -> Requests \cup {None}]
    /\ connections \in [Requests -> Seq(Requests)]
    /\ kind \in [Requests -> {"none", "h11", "h2"}]
    /\ state \in [Requests -> {"none", "up", "busy", "closed", "lost"}]
    /\ limit \in [Requests -> Nat]
    /\ phase \in [Requests -> {"idle", "prepared", "connecting", "starting", "using",
                               "leaving", "left", "failed"}]
    /\ on \in [Requests -> Requests \cup {None}]
    /\ exit \in {"no", "begun", "closing", "done"}
    /\ last \in Requests \cup {None}
    /\ closing \subseteq Requests
    /\ raised \in BOOLEAN
    /\ budget \in Nat
    /\ \A r \in Requests : phase[r] \in {"starting", "using", "leaving"} =>
         on[r] \in Requests /\ kind[on[r]] # "none"

Init ==
    /\ current = None /\ pool = [r \in Requests |-> None]
    /\ connections = [p \in Requests |-> <<>>]
    /\ kind = [c \in Requests |-> "none"] /\ state = [c \in Requests |-> "none"]
    /\ limit = [c \in Requests |-> MaxStreams]
    /\ phase = [r \in Requests |-> "idle"] /\ on = [r \in Requests |-> None]
    /\ exit = "no" /\ last = None /\ closing = {} /\ raised = FALSE
    /\ budget = MaxEnv

Environment(k) == k \in Env /\ budget > 0 /\ budget' = budget - 1

-----------------------------------------------------------------------------
(* A connection, as the pool sees it *)

Users(c) == {r \in Requests : phase[r] = "using" /\ on[r] = c}
closed(c) == state[c] = "closed"

SlotsIfUp(c) == IF state[c] = "up" THEN 1 ELSE 0                    \* mutant

Capacity(c) == IF kind[c] = "h11" THEN 1 ELSE limit[c]

\* The slots of an h2 connection are a difference: they can be negative.
available_slots(c) ==
    IF state[c] # "up" THEN 0 ELSE Capacity(c) - Cardinality(Users(c))

Listed(p) == {connections[p][i] : i \in DOMAIN connections[p]}

-----------------------------------------------------------------------------
(* HTTPClient._prepare_request, and ConnectionPool.acquire *)

\* ConnectionPool has a __len__, so a pool without connections is false, and is
\* replaced as if it were missing.  Neither this nor acquire() asks whether the
\* client has been left.
Prepare(r) ==
    /\ phase[r] = "idle"
    /\ current' = IF current # None /\ connections[current] # <<>> THEN current ELSE r
    /\ pool' = [pool EXCEPT ![r] = current']
    /\ phase' = [phase EXCEPT ![r] = "prepared"]
    /\ UNCHANGED <<connections, opened, on, ending, budget>>

UseUnnamed(r, c) == /\ phase' = [phase EXCEPT ![r] = "using"]       \* mutant
                    /\ UNCHANGED on

Use(r, c) == /\ phase' = [phase EXCEPT ![r] = "using"]
             /\ on' = [on EXCEPT ![r] = c]

\* The first connection whose available_slots is true (any number but 0).
AcquirePooled(r) ==
    LET mine == connections[pool[r]]
    IN  /\ phase[r] = "prepared"
        /\ \E i \in DOMAIN mine :
             /\ available_slots(mine[i]) # 0
             /\ \A j \in 1..(i - 1) : available_slots(mine[j]) = 0
             /\ Use(r, mine[i])
        /\ UNCHANGED <<pools, opened, ending, budget>>

\* There is none: connect() is awaited.
AcquireNew(r) ==
    /\ phase[r] = "prepared"
    /\ \A c \in Listed(pool[r]) : available_slots(c) = 0
    /\ phase' = [phase EXCEPT ![r] = "connecting"]
    /\ UNCHANGED <<pools, opened, on, ending, budget>>

ConnectFails(r) ==
    /\ phase[r] = "connecting" /\ Environment("refuse")
    /\ phase' = [phase EXCEPT ![r] = "failed"]
    /\ UNCHANGED <<pools, opened, on, ending>>

Forgets(r, c) == Use(r, c) /\ UNCHANGED connections                 \* mutant

\* The end of acquire(), for a connection that was opened for r.
Add(r, c) ==
    IF available_slots(c) # 0
    THEN Use(r, c) /\ connections' = [connections EXCEPT ![pool[r]] = <<c>> \o @]
    ELSE /\ phase' = [phase EXCEPT ![r] = "failed"]     \* AssertionError
         /\ UNCHANGED <<on, connections>>

\* connect() returns; an h2 connection's manager is started and awaited, which
\* a task group that has ended refuses with a RuntimeError.
Connected(r) ==
    /\ phase[r] = "connecting"
    /\ \/ /\ "h11" \in Kinds
          /\ kind' = [kind EXCEPT ![r] = "h11"]
          /\ state' = [state EXCEPT ![r] = "up"]
          /\ Use(r, r)
          /\ connections' = [connections EXCEPT ![pool[r]] = <<r>> \o @]
       \/ /\ "h2" \in Kinds
          /\ kind' = [kind EXCEPT ![r] = "h2"]
          /\ state' = [state EXCEPT ![r] = IF exit = "done" THEN "lost" ELSE "up"]
          /\ phase' = [phase EXCEPT ![r] = IF exit = "done" THEN "failed" ELSE "starting"]
          /\ on' = [on EXCEPT ![r] = r]
          /\ UNCHANGED connections
    /\ UNCHANGED <<current, pool, limit, ending, budget>>

Started(r) ==
    /\ phase[r] = "starting"
    /\ Add(r, on[r])
    /\ UNCHANGED <<current, pool, opened, ending, budget>>

-----------------------------------------------------------------------------
(* The end of a request.  The response over h11 is complete and h11 idle    *)
(* again; or it was given up and h11 closed; or request() raised and h11 is *)
(* neither.  An h2 stream's end does not change its connection.             *)

FinishReusable(r) ==
    /\ phase[r] = "using" /\ kind[on[r]] = "h11" /\ state[on[r]] = "up"
    /\ phase' = [phase EXCEPT ![r] = "left"]
    /\ UNCHANGED <<pools, opened, on, ending, budget>>

FinishClosed(r) ==
    /\ phase[r] = "using"
    /\ state' = IF kind[on[r]] = "h11" THEN [state EXCEPT ![on[r]] = "closed"] ELSE state
    /\ phase' = [phase EXCEPT ![r] = "leaving"]
    /\ UNCHANGED <<pools, kind, limit, on, ending, budget>>

FinishBusy(r) ==
    /\ phase[r] = "using" /\ kind[on[r]] = "h11" /\ state[on[r]] = "up"
    /\ Environment("fail")
    /\ state' = [state EXCEPT ![on[r]] = "busy"]
    /\ phase' = [phase EXCEPT ![r] = "failed"]
    /\ UNCHANGED <<pools, kind, limit, on, ending>>

\* deque.remove() takes out the first that is equal to c.
IsFirst(q, i, c) == q[i] = c /\ \A j \in 1 .. i - 1 : q[j] # c
Without(q, c) ==
    IF \A i \in DOMAIN q : q[i] # c THEN q
    ELSE LET i == CHOOSE k \in DOMAIN q : IsFirst(q, k, c)
         IN  SubSeq(q, 1, i - 1) \o SubSeq(q, i + 1, Len(q))

RemovesAnyway(r) ==                                                 \* mutant
    /\ phase[r] = "leaving"
    /\ connections' = [connections EXCEPT ![pool[r]] = Without(@, on[r])]
    /\ phase' = [phase EXCEPT ![r] = "left"]
    /\ UNCHANGED <<current, pool, opened, on, ending, budget>>

\* The finally clause of acquire().  deque.remove() raises ValueError if another
\* leaver, or ConnectionPool.aclose(), was first.
Leave(r) ==
    /\ phase[r] = "leaving"
    /\ IF closed(on[r])
       THEN /\ connections' = [connections EXCEPT ![pool[r]] = Without(@, on[r])]
            /\ phase' = [phase EXCEPT ![r] = IF on[r] \in Listed(pool[r])
                                             THEN "left" ELSE "failed"]
       ELSE /\ phase' = [phase EXCEPT ![r] = "left"]
            /\ UNCHANGED connections
    /\ UNCHANGED <<current, pool, opened, on, ending, budget>>

-----------------------------------------------------------------------------
(* The server, and the client's exit *)

Drop(c) ==
    /\ state[c] = "up" /\ kind[c] = "h2" /\ Environment("drop")
    /\ state' = [state EXCEPT ![c] = "closed"]
    /\ UNCHANGED <<pools, kind, limit, phase, on, ending>>

Settings(c) ==
    /\ state[c] = "up" /\ kind[c] = "h2" /\ limit[c] > 1 /\ Environment("settings")
    /\ limit' = [limit EXCEPT ![c] = 1]
    /\ UNCHANGED <<pools, kind, state, phase, on, ending>>

\* HTTPClient.__asynccontextmanager__ starts aclose() of the pool it knows, and
\* forgets the pool, whatever the requests still do.
Exit ==
    /\ exit = "no" /\ Environment("exit")
    /\ exit' = "begun"
    /\ last' = current /\ current' = None
    /\ UNCHANGED <<pool, connections, opened, phase, on, closing, raised>>

ClosePoolClearsFirst ==                                             \* mutant
    /\ exit = "begun"
    /\ exit' = "closing" /\ closing' = {}
    /\ connections' = IF last = None THEN connections
                      ELSE [connections EXCEPT ![last] = <<>>]
    /\ UNCHANGED <<current, pool, last, opened, phase, on, raised, budget>>

\* ConnectionPool.aclose: a task is started for every connection of the deque,
\* which is then cleared.  What is put there later stays.
ClosePool ==
    /\ exit = "begun"
    /\ exit' = "closing"
    /\ IF last = None THEN UNCHANGED <<closing, connections>>
       ELSE /\ closing' = Listed(last)
            /\ connections' = [connections EXCEPT ![last] = <<>>]
    /\ UNCHANGED <<current, pool, last, opened, phase, on, raised, budget>>

\* One of those tasks runs aclose(); on a busy h11 connection it may raise, and
\* cancels those that have not begun.
CloseConnection(c) ==
    /\ c \in closing
    /\ \/ /\ state' = [state EXCEPT ![c] = "closed"]
          /\ closing' = closing \ {c}
          /\ UNCHANGED raised
       \/ /\ kind[c] = "h11" /\ (state[c] = "busy" \/ Users(c) # {})
          /\ raised' = TRUE /\ closing' = {}
          /\ UNCHANGED state
    /\ UNCHANGED <<pools, kind, limit, phase, on, exit, last, budget>>

\* An exception in the client's task group cancels the managers in it, which
\* close their transports.
Cancelled(c) ==
    /\ raised /\ kind[c] = "h2" /\ state[c] = "up"
    /\ state' = [state EXCEPT ![c] = "closed"]
    /\ UNCHANGED <<pools, kind, limit, phase, on, ending, budget>>

\* The client's task group waits for all of them, wherever their connections are.
GroupEnds ==
    /\ exit = "closing" /\ closing = {}
    /\ \A c \in Requests : ~(kind[c] = "h2" /\ state[c] = "up")
    /\ exit' = "done"
    /\ UNCHANGED <<pools, opened, phase, on, last, closing, raised, budget>>
-----------------------------------------------------------------------------
Acquire(r) == \/ Prepare(r) \/ AcquirePooled(r) \/ AcquireNew(r)
              \/ ConnectFails(r) \/ Connected(r) \/ Started(r)
Release(r) == FinishReusable(r) \/ FinishClosed(r) \/ FinishBusy(r) \/ Leave(r)

Next ==
    \/ \E r \in Requests : Acquire(r) \/ Release(r)
    \/ \E c \in Requests : Drop(c) \/ Settings(c) \/ CloseConnection(c) \/ Cancelled(c)
    \/ Exit \/ ClosePool \/ GroupEnds

Spec == Init /\ [][Next]_vars

Fairness == /\ WF_vars(ClosePool) /\ WF_vars(GroupEnds)
            /\ \A c \in Requests : WF_vars(CloseConnection(c)) /\ WF_vars(Cancelled(c))
            /\ \A r \in Requests : WF_vars(Connected(r)) /\ WF_vars(Started(r)) /\ WF_vars(Leave(r))

FairSpec == Spec /\ Fairness
-----------------------------------------------------------------------------
(* Properties *)

\* No connection carries more requests than it has slots for, though tasks find
\* slots, open connections and send requests in any order, and the slots of a
\* closed or busy connection are gone (_client.py:104-121).  A server that lowers
\* its limit while requests are running is the exception: the slots become
\* negative, which is true, and the connection is lent without bound.
WithinSlots ==
    \A c \in Requests : kind[c] = "h11" \/ limit[c] = MaxStreams =>
        Cardinality(Users(c)) <= Capacity(c)

\* Every connection that is up is in the deque of the pool it was opened for, or
\* is about to be put there, or is being closed, or was left by an exit that
\* raised (_client.py:121, 126-134), or was opened for a manager that nobody could
\* start any more (114-116).
Tracked ==
    \A c \in Requests : state[c] \notin {"none", "closed"} =>
        \/ c \in closing \/ \E p \in Requests : c \in Listed(p)
        \/ \E r \in Requests : phase[r] = "starting" /\ on[r] = c
        \/ raised
        \/ exit = "done" /\ state[c] = "lost"

\* A connection is in one deque, once, and a request that holds one finds it there
\* when it leaves, unless the exit has closed its pool, or another request left
\* it first because it was closed (_client.py:125-127).
HeldInPool ==
    /\ \A p, q \in Requests : \A i \in DOMAIN connections[p], j \in DOMAIN connections[q] :
         connections[p][i] = connections[q][j] => p = q /\ i = j
    /\ \A r \in Requests : phase[r] \in {"using", "leaving"} =>
         \/ on[r] \in Listed(pool[r]) \/ closed(on[r])
         \/ exit \in {"closing", "done"} /\ pool[r] = last

\* The client's exit closes every connection that its pool has when it begins,
\* whatever the requests still do, or an aclose() has raised (_client.py:244-251).
\* And it returns, unless a manager runs that it will not close: in a pool that
\* was replaced while it was empty (281), or started when the pool was closed.
OnlyClosing == \A c \in Requests : kind[c] = "h2" /\ state[c] = "up" => c \in closing
ExitCompletes ==
    /\ \A p, c \in Requests :
         exit = "begun" /\ p = last /\ c \in Listed(p) ~> raised \/ state[c] = "closed"
    /\ exit = "closing" /\ (raised \/ OnlyClosing) ~>
         exit = "done" \/ ~(raised \/ OnlyClosing)
=============================================================================
