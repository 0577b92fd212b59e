------------------------------ MODULE PoolProofs ------------------------------
(***************************************************************************)
(* Proofs about Pool, for any number of requests and any mix of            *)
(* connections and events.                                                 *)
(***************************************************************************)
EXTENDS Pool, QueueProofs

-----------------------------------------------------------------------------
(* The deques *)

Once(q)    == \A i, j \in DOMAIN q : q[i] = q[j] => i = j

\* What remove() leaves.
LEMMA WithoutEffects ==
    ASSUME NEW S, NEW q \in Seq(S), NEW c
    PROVE  /\ Without(q, c) \in Seq(S)
           /\ ItemsOf(Without(q, c)) \subseteq ItemsOf(q)
           /\ \A d \in ItemsOf(q) : d # c => d \in ItemsOf(Without(q, c))
           /\ Once(q) => Once(Without(q, c))
<1>1. CASE \A i \in DOMAIN q : q[i] # c
  BY <1>1 DEF Without
<1>2. CASE \E i \in DOMAIN q : q[i] = c
  <2> DEFINE k == CHOOSE n \in DOMAIN q : IsFirst(q, n, c)
             a == SubSeq(q, 1, k - 1)
             b == SubSeq(q, k + 1, Len(q))
             w == a \o b
  <2>1. Without(q, c) = w  BY <1>2 DEF Without
  <2>2. Len(q) \in Nat /\ DOMAIN q = 1 .. Len(q)  OBVIOUS
  <2>3. \E n \in DOMAIN q : IsFirst(q, n, c)
    <3>1. {i \in DOMAIN q : q[i] = c} \in SUBSET Nat /\ {i \in DOMAIN q : q[i] = c} # {}
      BY <1>2, <2>2
    <3>2. PICK n \in {i \in DOMAIN q : q[i] = c} :
             \A m \in {i \in DOMAIN q : q[i] = c} : n <= m
      BY <3>1, LeastNumber
    <3>3. \A j \in 1 .. n - 1 : j \in DOMAIN q /\ ~(n <= j)  BY <2>2, <3>2
    <3>4. \A j \in 1 .. n - 1 : q[j] # c  BY <3>2, <3>3
    <3> QED  BY <3>2, <3>4 DEF IsFirst
  <2>4. k \in 1 .. Len(q) /\ q[k] = c  BY <2>2, <2>3 DEF IsFirst
  <2> HIDE DEF k
  <2>5. /\ a \in Seq(S) /\ Len(a) = k - 1 /\ \A i \in 1 .. k - 1 : a[i] = q[i]
        /\ b \in Seq(S) /\ Len(b) = Len(q) - k
        /\ \A i \in 1 .. Len(q) - k : b[i] = q[k + i]
    <3>1. /\ a \in Seq(S) /\ Len(a) = k - 1 /\ \A i \in 1 .. k - 1 : a[i] = q[i]
      BY <2>2, <2>4, SubSeqProperties
    <3>2. /\ b \in Seq(S) /\ Len(b) = Len(q) - k
          /\ \A i \in 1 .. Len(q) - k : b[i] = q[k + i]
      <4>1. \A i \in k + 1 .. Len(q) : q[i] \in S  BY <2>2, <2>4
      <4>2. /\ b \in Seq(S) /\ Len(b) = IF k + 1 <= Len(q) THEN Len(q) - (k + 1) + 1 ELSE 0
            /\ \A i \in 1 .. Len(q) - (k + 1) + 1 : b[i] = q[k + 1 + i - 1]
        BY <2>2, <2>4, <4>1, SubSeqProperties
      <4>3. Len(b) = Len(q) - k
        <5> HIDE DEF b
        <5>1. k \in Int /\ k <= Len(q) /\ Len(q) \in Int  BY <2>2, <2>4
        <5> QED  BY <4>2, <5>1
      <4>4. \A i \in 1 .. Len(q) - k : b[i] = q[k + i]
        <5>1. \A i \in 1 .. Len(q) - k :
                 i \in 1 .. Len(q) - (k + 1) + 1 /\ k + 1 + i - 1 = k + i
          BY <2>2, <2>4
        <5> HIDE DEF b
        <5> QED  BY <4>2, <5>1
      <4> QED  BY <4>2, <4>3, <4>4
    <3> QED  BY <3>1, <3>2
  <2> HIDE DEF a, b
  <2>6. /\ w \in Seq(S) /\ Len(w) = Len(q) - 1
        /\ \A i \in 1 .. Len(q) - 1 : w[i] = IF i < k THEN q[i] ELSE q[i + 1]
    <3>1. /\ w \in Seq(S) /\ Len(w) = Len(a) + Len(b)
          /\ \A i \in 1 .. Len(a) + Len(b) :
                w[i] = IF i <= Len(a) THEN a[i] ELSE b[i - Len(a)]
      BY <2>5, ConcatProperties
    <3> HIDE DEF w
    <3>2. Len(w) = Len(q) - 1  BY <2>2, <2>4, <2>5, <3>1
    <3>3. ASSUME NEW i \in 1 .. Len(q) - 1
          PROVE  w[i] = IF i < k THEN q[i] ELSE q[i + 1]
      <4>1. w[i] = IF i <= Len(a) THEN a[i] ELSE b[i - Len(a)]
        BY <2>2, <2>4, <2>5, <3>1
      <4>2. CASE i < k  BY <2>2, <2>4, <2>5, <4>1, <4>2
      <4>3. CASE ~(i < k)
        <5>1. /\ ~(i <= Len(a)) /\ i - Len(a) \in 1 .. Len(q) - k
              /\ k + (i - Len(a)) = i + 1
          BY <2>2, <2>4, <2>5, <4>3
        <5> QED  BY <2>5, <4>1, <4>3, <5>1
      <4> QED  BY <4>2, <4>3
    <3> QED  BY <3>1, <3>2, <3>3
  <2> HIDE DEF w
  <2>7. DOMAIN w = 1 .. Len(q) - 1  BY <2>6
  <2>8. ItemsOf(w) \subseteq ItemsOf(q)
    <3> SUFFICES ASSUME NEW i \in DOMAIN w PROVE w[i] \in ItemsOf(q)  BY DEF ItemsOf
    <3>1. i \in DOMAIN q /\ i + 1 \in DOMAIN q  BY <2>2, <2>7
    <3> QED  BY <2>6, <2>7, <3>1 DEF ItemsOf
  <2>9. \A d \in ItemsOf(q) : d # c => d \in ItemsOf(w)
    <3> SUFFICES ASSUME NEW i \in DOMAIN q, q[i] # c PROVE q[i] \in ItemsOf(w)
      BY DEF ItemsOf
    <3>1. CASE i < k
      <4>1. i \in DOMAIN w /\ w[i] = q[i]  BY <2>2, <2>4, <2>6, <2>7, <3>1
      <4> QED  BY <4>1 DEF ItemsOf
    <3>2. CASE ~(i < k)
      <4>1. i # k  BY <2>4
      <4>2. i - 1 \in DOMAIN w /\ ~(i - 1 < k) /\ (i - 1) + 1 = i
        BY <2>2, <2>4, <2>7, <3>2, <4>1
      <4>3. w[i - 1] = q[i]  BY <2>6, <2>7, <4>2
      <4> QED  BY <4>2, <4>3 DEF ItemsOf
    <3> QED  BY <3>1, <3>2
  <2>10. Once(q) => Once(w)
    <3> SUFFICES ASSUME Once(q), NEW i \in DOMAIN w, NEW j \in DOMAIN w, w[i] = w[j]
                 PROVE  i = j
      BY DEF Once
    <3> DEFINE at(n) == IF n < k THEN n ELSE n + 1
    <3>1. at(i) \in DOMAIN q /\ at(j) \in DOMAIN q /\ q[at(i)] = q[at(j)]
      BY <2>2, <2>4, <2>6, <2>7
    <3>2. at(i) = at(j)  BY <3>1 DEF Once
    <3> QED  BY <2>4, <2>7, <3>2
  <2> QED  BY <2>1, <2>6, <2>8, <2>9, <2>10
<1> QED  BY <1>1, <1>2

\* What appendleft() makes.
LEMMA ConsEffects ==
    ASSUME NEW S, NEW q \in Seq(S), NEW c \in S
    PROVE  /\ <<c>> \o q \in Seq(S)
           /\ ItemsOf(<<c>> \o q) = {c} \cup ItemsOf(q)
           /\ c \notin ItemsOf(q) /\ Once(q) => Once(<<c>> \o q)
<1>1. /\ <<c>> \o q \in Seq(S) /\ Len(q) \in Nat /\ DOMAIN q = 1 .. Len(q)
      /\ DOMAIN (<<c>> \o q) = 1 .. Len(q) + 1 /\ (<<c>> \o q)[1] = c
      /\ \A i \in 2 .. Len(q) + 1 : (<<c>> \o q)[i] = q[i - 1]
  OBVIOUS
<1>2. ItemsOf(<<c>> \o q) = {c} \cup ItemsOf(q)
  <2>1. ASSUME NEW i \in DOMAIN (<<c>> \o q) PROVE (<<c>> \o q)[i] \in {c} \cup ItemsOf(q)
    <3>1. CASE i = 1  BY <1>1, <3>1
    <3>2. CASE i # 1
      <4>1. i - 1 \in DOMAIN q /\ (<<c>> \o q)[i] = q[i - 1]  BY <1>1, <3>2
      <4> QED  BY <4>1 DEF ItemsOf
    <3> QED  BY <3>1, <3>2
  <2>2. ASSUME NEW i \in DOMAIN q PROVE q[i] \in ItemsOf(<<c>> \o q)
    <3>1. i + 1 \in 2 .. Len(q) + 1 /\ (i + 1) - 1 = i  BY <1>1
    <3>2. i + 1 \in DOMAIN (<<c>> \o q) /\ (<<c>> \o q)[i + 1] = q[i]  BY <1>1, <3>1
    <3> QED  BY <3>2 DEF ItemsOf
  <2>3. c \in ItemsOf(<<c>> \o q)
    <3>1. 1 \in DOMAIN (<<c>> \o q) /\ (<<c>> \o q)[1] = c  BY <1>1
    <3> QED  BY <3>1 DEF ItemsOf
  <2> QED  BY <2>1, <2>2, <2>3 DEF ItemsOf
<1>3. ASSUME c \notin ItemsOf(q), Once(q) PROVE Once(<<c>> \o q)
  <2> SUFFICES ASSUME NEW i \in DOMAIN (<<c>> \o q), NEW j \in DOMAIN (<<c>> \o q),
                      (<<c>> \o q)[i] = (<<c>> \o q)[j]
               PROVE  i = j
    BY DEF Once
  <2>1. \A n \in DOMAIN (<<c>> \o q) : n # 1 =>
           n - 1 \in DOMAIN q /\ (<<c>> \o q)[n] = q[n - 1] /\ q[n - 1] \in ItemsOf(q)
    BY <1>1 DEF ItemsOf
  <2>2. CASE i = 1 \/ j = 1  BY <1>1, <1>3, <2>1, <2>2
  <2>3. CASE i # 1 /\ j # 1
    <3>1. i - 1 = j - 1  BY <1>3, <2>1, <2>3 DEF Once
    <3> QED  BY <1>1, <3>1
  <2> QED  BY <2>2, <2>3
<1> QED  BY <1>1, <1>2, <1>3

-----------------------------------------------------------------------------
(* Type correctness.  Connections are named after requests: one is opened    *)
(* once, put into its request's deque, once, and used from there.            *)

Phases  == {"idle", "prepared", "connecting", "starting", "using", "leaving", "left",
            "failed"}
States  == {"none", "up", "busy", "closed", "lost"}
Before  == {"idle", "prepared", "connecting"}
Early   == Before \cup {"starting"}
Holding == {"starting", "using", "leaving"}

Opened == \A c \in Requests :
    /\ phase[c] \in Before => kind[c] = "none"
    /\ kind[c] = "none" <=> state[c] = "none"
    /\ state[c] = "busy" => kind[c] = "h11"
    /\ limit[c] \in {1, MaxStreams}
    /\ c \in closing => kind[c] # "none"

Owned == \A r \in Requests :
    /\ phase[r] # "idle" => pool[r] \in Requests
    /\ phase[r] = "starting" => on[r] = r
    /\ phase[r] \in {"using", "leaving"} => phase[on[r]] \notin Early

Deques == \A p \in Requests :
    /\ Once(connections[p])
    /\ \A c \in ItemsOf(connections[p]) :
         c \in Requests /\ pool[c] = p /\ phase[c] \notin Early /\ kind[c] # "none"

Base == TypeOK /\ Opened /\ Owned /\ Deques

LEMMA ListedIsItems == \A p : Listed(p) = ItemsOf(connections[p])
BY DEF Listed, ItemsOf

\* The parts that a request's own step leaves alone.
LEMMA OwnStep ==
    ASSUME Base, NEW r \in Requests, NEW p \in Phases,
           phase' = [phase EXCEPT ![r] = p],
           on' \in [Requests -> Requests \cup {None}],
           \A q \in Requests \ {r} : on'[q] = on[q],
           pool' \in [Requests -> Requests \cup {None}],
           \A q \in Requests \ {r} : pool'[q] = pool[q],
           kind' \in [Requests -> {"none", "h11", "h2"}],
           state' \in [Requests -> States],
           \A c \in Requests : kind'[c] = kind[c] \/ kind[c] = "none",
           \A c \in Requests :
              /\ phase'[c] \in Before => kind'[c] = "none"
              /\ kind'[c] = "none" <=> state'[c] = "none"
              /\ state'[c] = "busy" => kind'[c] = "h11",
           p \in Holding => on'[r] \in Requests /\ kind'[on'[r]] # "none",
           p # "idle" => pool'[r] \in Requests,
           p = "starting" => on'[r] = r,
           p \in {"using", "leaving"} => phase'[on'[r]] \notin Early,
           p \in Early => phase[r] \in Early,
           connections' \in [Requests -> Seq(Requests)],
           Deques',
           current' \in Requests \cup {None}, budget' \in Nat,
           UNCHANGED <<limit, ending>>
    PROVE  Base'
<1>1. /\ phase \in [Requests -> Phases] /\ on \in [Requests -> Requests \cup {None}]
      /\ \A q \in Requests : phase[q] \in Holding => on[q] \in Requests /\ kind[on[q]] # "none"
  BY DEF Base, TypeOK, Phases, Holding
<1>2. phase' \in [Requests -> Phases]  BY <1>1
<1>3. ASSUME NEW q \in Requests, phase'[q] \in Holding
      PROVE  on'[q] \in Requests /\ kind'[on'[q]] # "none"
  <2>1. CASE q = r  BY <1>1, <1>3, <2>1
  <2>2. CASE q # r
    <3>1. phase'[q] = phase[q] /\ on'[q] = on[q]  BY <1>1, <2>2
    <3>2. on[q] \in Requests /\ kind[on[q]] # "none"  BY <1>1, <1>3, <3>1
    <3> QED  BY <3>1, <3>2
  <2> QED  BY <2>1, <2>2
<1>4. TypeOK'
  BY <1>2, <1>3 DEF Base, TypeOK, Phases, States, Holding, ending
<1>5. Opened'
  <2> SUFFICES ASSUME NEW c \in Requests
               PROVE  /\ limit'[c] \in {1, MaxStreams}
                      /\ c \in closing' => kind'[c] # "none"
    BY DEF Opened
  <2> QED  BY DEF Base, Opened, ending
<1>6. Owned'
  <2> SUFFICES ASSUME NEW q \in Requests
               PROVE  /\ phase'[q] # "idle" => pool'[q] \in Requests
                      /\ phase'[q] = "starting" => on'[q] = q
                      /\ phase'[q] \in {"using", "leaving"} => phase'[on'[q]] \notin Early
    BY DEF Owned
  <2>1. CASE q = r  BY <1>1, <2>1
  <2>2. CASE q # r
    <3>1. phase'[q] = phase[q] /\ on'[q] = on[q] /\ pool'[q] = pool[q]  BY <1>1, <2>2
    <3>2. phase[q] \in {"using", "leaving"} =>
            on[q] \in Requests /\ phase[on[q]] \notin Early
      BY <1>1 DEF Base, Owned, Holding
    <3> QED  BY <1>1, <2>2, <3>1, <3>2 DEF Base, Owned
  <2> QED  BY <2>1, <2>2
<1> QED  BY <1>4, <1>5, <1>6 DEF Base

\* Deques that are not touched, by a step that begins no request anew.
LEMMA SameDeques ==
    ASSUME Base, UNCHANGED connections,
           \A c \in Requests : /\ phase'[c] \in Early => phase[c] \in Early
                               /\ phase[c] \notin Early => pool'[c] = pool[c]
                               /\ kind[c] # "none" => kind'[c] # "none"
    PROVE  Deques'
BY DEF Base, Deques, Once, ItemsOf

LEMMA BaseFacts ==
    ASSUME Base
    PROVE  /\ phase \in [Requests -> Phases] /\ on \in [Requests -> Requests \cup {None}]
           /\ pool \in [Requests -> Requests \cup {None}]
           /\ connections \in [Requests -> Seq(Requests)]
           /\ kind \in [Requests -> {"none", "h11", "h2"}]
           /\ state \in [Requests -> States]
           /\ None \notin Requests
BY PoolAssumption DEF Base, TypeOK, Phases, States, PoolAssumption

LEMMA PrepareBase == ASSUME Base, NEW r \in Requests, Prepare(r) PROVE Base'
<1>1. /\ current' \in Requests /\ pool' = [pool EXCEPT ![r] = current']
      /\ phase[r] = "idle" /\ phase' = [phase EXCEPT ![r] = "prepared"]
      /\ UNCHANGED <<connections, opened, on, ending, budget>>
  BY BaseFacts DEF Prepare, Base, TypeOK
<1>2. Deques'  BY <1>1, BaseFacts, SameDeques DEF Early, Before, opened
<1>3. \A c \in Requests : phase'[c] \in Before => phase[c] \in Before
  BY <1>1, BaseFacts DEF Before
<1>4. \A c \in Requests :
         /\ phase'[c] \in Before => kind'[c] = "none"
         /\ kind'[c] = "none" <=> state'[c] = "none"
         /\ state'[c] = "busy" => kind'[c] = "h11"
  BY <1>1, <1>3 DEF Base, Opened, opened
<1> QED  BY <1>1, <1>2, <1>4, BaseFacts, OwnStep
         DEF Phases, Early, Before, Holding, opened, Base, TypeOK

\* A connection of the request's pool is taken.
LEMMA PooledBase == ASSUME Base, NEW r \in Requests, AcquirePooled(r) PROVE Base'
<1>1. PICK c : /\ c \in ItemsOf(connections[pool[r]]) /\ Use(r, c)
               /\ phase[r] = "prepared" /\ UNCHANGED <<pools, opened, ending, budget>>
  BY DEF AcquirePooled, ItemsOf
<1>2. /\ pool[r] \in Requests /\ c \in Requests /\ kind[c] # "none" /\ phase[c] \notin Early
  BY <1>1 DEF Base, Owned, Deques
<1>3. /\ phase' = [phase EXCEPT ![r] = "using"] /\ on' = [on EXCEPT ![r] = c] /\ c # r
      /\ UNCHANGED <<current, pool, connections, kind, state, limit>>
  BY <1>1, <1>2 DEF Use, Early, Before, pools, opened
<1>4. Deques'  BY <1>3, BaseFacts, SameDeques DEF Early, Before
<1>5. phase'[on'[r]] \notin Early  BY <1>2, <1>3, BaseFacts
<1>6. \A d \in Requests :
         /\ phase'[d] \in Before => kind'[d] = "none"
         /\ kind'[d] = "none" <=> state'[d] = "none"
         /\ state'[d] = "busy" => kind'[d] = "h11"
  BY <1>3, BaseFacts DEF Base, Opened, Before
<1>7. /\ "using" \in Phases /\ "using" \notin Early
      /\ on' \in [Requests -> Requests \cup {None}]
      /\ \A q \in Requests \ {r} : on'[q] = on[q] /\ pool'[q] = pool[q]
      /\ on'[r] \in Requests /\ kind'[on'[r]] # "none" /\ pool'[r] \in Requests
  BY <1>2, <1>3, BaseFacts DEF Phases, Early, Before
<1>8. /\ pool' \in [Requests -> Requests \cup {None}]
      /\ kind' \in [Requests -> {"none", "h11", "h2"}]
      /\ state' \in [Requests -> States]
      /\ connections' \in [Requests -> Seq(Requests)]
      /\ \A d \in Requests : kind'[d] = kind[d]
      /\ current' \in Requests \cup {None} /\ budget' \in Nat
      /\ UNCHANGED <<limit, ending>>
  BY <1>1, <1>3, BaseFacts DEF Base, TypeOK
<1> QED  BY <1>3, <1>4, <1>5, <1>6, <1>7, <1>8, OwnStep
         DEF Phases, Early, Before, Holding, Base, TypeOK

\* A request goes on without a new connection, or stops.
LEMMA GoBase ==
    ASSUME Base, NEW r \in Requests, NEW p \in {"connecting", "leaving", "left", "failed"},
           phase' = [phase EXCEPT ![r] = p],
           p = "connecting" => phase[r] = "prepared",
           p # "connecting" => phase[r] # "idle",
           p = "leaving" => phase[r] = "using",
           state' \in [Requests -> States],
           \A c \in Requests : /\ kind[c] = "none" <=> state'[c] = "none"
                               /\ state'[c] = "busy" => kind[c] = "h11",
           connections' \in [Requests -> Seq(Requests)], Deques',
           UNCHANGED <<current, pool, kind, limit, on, ending>>, budget' \in Nat
    PROVE  Base'
<1>1. p = "leaving" => phase'[on'[r]] \notin Early
  BY BaseFacts DEF Base, Owned, Early, Before
<1>2. p = "leaving" => on'[r] \in Requests /\ kind'[on'[r]] # "none"
  BY DEF Base, TypeOK
<1>3. \A d \in Requests :
         /\ phase'[d] \in Before => kind'[d] = "none"
         /\ kind'[d] = "none" <=> state'[d] = "none"
         /\ state'[d] = "busy" => kind'[d] = "h11"
  BY BaseFacts DEF Base, Opened, Before
<1>4. pool'[r] \in Requests  BY DEF Base, Owned
<1>5. p \in Phases /\ (p \in Early => phase[r] \in Early)  BY DEF Phases, Early, Before
<1> QED  BY <1>1, <1>2, <1>3, <1>4, <1>5, BaseFacts, OwnStep
         DEF Phases, Early, Before, Holding, Base, TypeOK

\* The connection that was opened for r is put into its deque.
LEMMA AddedDeques ==
    ASSUME Base, NEW r \in Requests, phase[r] \in {"connecting", "starting"},
           connections' = [connections EXCEPT ![pool[r]] = <<r>> \o @],
           phase' = [phase EXCEPT ![r] = "using"],
           UNCHANGED pool, kind'[r] # "none",
           \A c \in Requests : kind[c] # "none" => kind'[c] # "none"
    PROVE  /\ Deques' /\ connections' \in [Requests -> Seq(Requests)]
           /\ \A p \in Requests :
                /\ p = pool[r] => ItemsOf(connections'[p]) = {r} \cup ItemsOf(connections[p])
                /\ p # pool[r] => connections'[p] = connections[p]
<1>1. pool[r] \in Requests /\ connections[pool[r]] \in Seq(Requests)
  BY BaseFacts DEF Base, Owned
<1>2. r \notin ItemsOf(connections[pool[r]]) /\ Once(connections[pool[r]])
  BY <1>1 DEF Base, Deques, Early, Before
<1>3. /\ <<r>> \o connections[pool[r]] \in Seq(Requests)
      /\ ItemsOf(<<r>> \o connections[pool[r]]) = {r} \cup ItemsOf(connections[pool[r]])
      /\ Once(<<r>> \o connections[pool[r]])
  BY <1>1, <1>2, ConsEffects
<1>4. /\ connections'[pool[r]] = <<r>> \o connections[pool[r]]
      /\ \A p \in Requests \ {pool[r]} : connections'[p] = connections[p]
      /\ connections' \in [Requests -> Seq(Requests)]
  BY <1>1, <1>3, BaseFacts
<1>5. ASSUME NEW p \in Requests
      PROVE  /\ Once(connections'[p])
             /\ p = pool[r] => ItemsOf(connections'[p]) = {r} \cup ItemsOf(connections[p])
             /\ p # pool[r] => connections'[p] = connections[p]
  <2>1. CASE p = pool[r]  BY <1>3, <1>4, <2>1
  <2>2. CASE p # pool[r]
    <3>1. connections'[p] = connections[p]  BY <1>4, <2>2
    <3> QED  BY <2>2, <3>1 DEF Base, Deques
  <2> QED  BY <2>1, <2>2
<1>6. Deques'
  <2> SUFFICES ASSUME NEW p \in Requests, NEW c \in ItemsOf(connections'[p])
               PROVE  c \in Requests /\ pool'[c] = p /\ phase'[c] \notin Early /\ kind'[c] # "none"
    BY <1>5 DEF Deques, Once, ItemsOf
  <2>1. CASE c \in ItemsOf(connections[p])
    <3>1. c \in Requests /\ pool[c] = p /\ phase[c] \notin Early /\ kind[c] # "none"
      BY <2>1 DEF Base, Deques
    <3> QED  BY <3>1, BaseFacts DEF Early, Before
  <2>2. CASE c \notin ItemsOf(connections[p])
    <3>1. c = r /\ p = pool[r]  BY <1>5, <2>2
    <3> QED  BY <3>1, BaseFacts DEF Early, Before
  <2> QED  BY <2>1, <2>2
<1> QED  BY <1>4, <1>5, <1>6

\* connect() has returned: the kind of connection, its state, and the task's phase.
ConnectedTo(r, k, s, p) ==
    /\ phase[r] = "connecting"
    /\ kind' = [kind EXCEPT ![r] = k] /\ state' = [state EXCEPT ![r] = s]
    /\ phase' = [phase EXCEPT ![r] = p] /\ on' = [on EXCEPT ![r] = r]
    /\ \/ k = "h11" /\ s = "up" /\ p = "using"
          /\ connections' = [connections EXCEPT ![pool[r]] = <<r>> \o @]
       \/ k = "h2" /\ s = "up" /\ p = "starting" /\ UNCHANGED connections
       \/ k = "h2" /\ s = "lost" /\ p = "failed" /\ exit = "done" /\ UNCHANGED connections
    /\ UNCHANGED <<current, pool, limit, ending, budget>>

LEMMA ConnectedAs ==
    ASSUME NEW r \in Requests, Connected(r)
    PROVE  \E k \in {"h11", "h2"}, s \in {"up", "lost"}, p \in {"starting", "failed", "using"} :
              ConnectedTo(r, k, s, p)
<1>1. \/ ConnectedTo(r, "h11", "up", "using")
      \/ ConnectedTo(r, "h2", "up", "starting")
      \/ ConnectedTo(r, "h2", "lost", "failed")
  BY DEF Connected, ConnectedTo, Use
<1> QED  BY <1>1

LEMMA ConnectedBase == ASSUME Base, NEW r \in Requests, Connected(r) PROVE Base'
<1>1. PICK k \in {"h11", "h2"}, s \in {"up", "lost"}, p \in {"starting", "failed", "using"} :
        ConnectedTo(r, k, s, p)
  BY ConnectedAs
<1>2. /\ phase[r] = "connecting" /\ UNCHANGED <<current, pool, limit, ending, budget>>
      /\ kind[r] = "none" /\ kind' = [kind EXCEPT ![r] = k]
      /\ state' = [state EXCEPT ![r] = s] /\ phase' = [phase EXCEPT ![r] = p]
      /\ on' = [on EXCEPT ![r] = r]
  BY <1>1 DEF ConnectedTo, Base, Opened, Before
<1>3. /\ kind' \in [Requests -> {"none", "h11", "h2"}]
      /\ state' \in [Requests -> States]
      /\ kind'[r] # "none" /\ state'[r] \in {"up", "lost"}
      /\ \A c \in Requests : kind'[c] = kind[c] \/ kind[c] = "none"
      /\ \A c \in Requests : kind[c] # "none" => kind'[c] # "none"
      /\ \A c \in Requests \ {r} : kind'[c] = kind[c] /\ state'[c] = state[c]
  BY <1>2, BaseFacts DEF States
<1>4. ASSUME Deques', connections' \in [Requests -> Seq(Requests)],
             p = "starting" \/ phase'[r] \notin Early
      PROVE  Base'
  <2>1. pool[r] \in Requests  BY <1>2 DEF Base, Owned
  <2>2. \A c \in Requests :
           /\ phase'[c] \in Before => kind'[c] = "none"
           /\ kind'[c] = "none" <=> state'[c] = "none"
           /\ state'[c] = "busy" => kind'[c] = "h11"
    <3> SUFFICES ASSUME NEW c \in Requests
                 PROVE  /\ phase'[c] \in Before => kind'[c] = "none"
                        /\ kind'[c] = "none" <=> state'[c] = "none"
                        /\ state'[c] = "busy" => kind'[c] = "h11"
      OBVIOUS
    <3>1. CASE c = r  BY <1>2, <1>3, <3>1, BaseFacts DEF Before
    <3>2. CASE c # r
      <4>1. kind'[c] = kind[c] /\ state'[c] = state[c] /\ phase'[c] = phase[c]
        BY <1>2, <1>3, <3>2, BaseFacts
      <4> QED  BY <4>1 DEF Base, Opened
    <3> QED  BY <3>1, <3>2
  <2>3. on'[r] = r /\ on' \in [Requests -> Requests \cup {None}]
        /\ \A q \in Requests \ {r} : on'[q] = on[q]
    BY <1>2, BaseFacts
  <2>4. p \in Phases /\ p # "idle" /\ phase[r] \in Early  BY <1>2 DEF Phases, Early, Before
  <2>5. /\ p \in Holding => on'[r] \in Requests /\ kind'[on'[r]] # "none"
        /\ p # "idle" => pool'[r] \in Requests
        /\ p = "starting" => on'[r] = r
        /\ p \in {"using", "leaving"} => phase'[on'[r]] \notin Early
        /\ pool' \in [Requests -> Requests \cup {None}]
        /\ \A q \in Requests \ {r} : pool'[q] = pool[q]
    BY <1>2, <1>3, <1>4, <2>1, <2>3, BaseFacts
  <2>6. current' \in Requests \cup {None} /\ budget' \in Nat
    BY <1>2 DEF Base, TypeOK
  <2> QED  BY <1>2, <1>3, <1>4, <2>2, <2>3, <2>4, <2>5, <2>6, OwnStep
<1>5. CASE UNCHANGED connections /\ p # "using"
  <2>1. Deques'  BY <1>2, <1>3, <1>5, BaseFacts, SameDeques DEF Early, Before
  <2>2. p = "starting" \/ phase'[r] \notin Early  BY <1>2, <1>5, BaseFacts DEF Early, Before
  <2> QED  BY <1>4, <1>5, <2>1, <2>2, BaseFacts
<1>6. CASE p = "using" /\ connections' = [connections EXCEPT ![pool[r]] = <<r>> \o @]
  <2>1. Deques' /\ connections' \in [Requests -> Seq(Requests)]
    BY <1>2, <1>3, <1>6, AddedDeques
  <2> QED  BY <1>2, <1>4, <1>6, <2>1, BaseFacts DEF Early, Before
<1> QED  BY <1>1, <1>5, <1>6 DEF ConnectedTo

\* The manager of an h2 connection has started.
LEMMA StartedBase == ASSUME Base, NEW r \in Requests, Started(r) PROVE Base'
<1>1. /\ phase[r] = "starting" /\ on[r] = r /\ kind[r] # "none" /\ pool[r] \in Requests
      /\ Add(r, r) /\ UNCHANGED <<current, pool, kind, state, limit, ending, budget>>
  BY DEF Started, Base, Owned, TypeOK, opened
<1>2. CASE Use(r, r) /\ connections' = [connections EXCEPT ![pool[r]] = <<r>> \o @]
  <2>1. Deques' /\ connections' \in [Requests -> Seq(Requests)]
    BY <1>1, <1>2, AddedDeques DEF Use
  <2>2. /\ phase' = [phase EXCEPT ![r] = "using"] /\ on'[r] = r
        /\ on' \in [Requests -> Requests \cup {None}]
        /\ \A q \in Requests \ {r} : on'[q] = on[q]
        /\ phase'[r] \notin Early
    BY <1>2, BaseFacts DEF Use, Early, Before
  <2>3. \A c \in Requests :
           /\ phase'[c] \in Before => kind'[c] = "none"
           /\ kind'[c] = "none" <=> state'[c] = "none"
           /\ state'[c] = "busy" => kind'[c] = "h11"
    BY <1>1, <2>2, BaseFacts DEF Base, Opened, Before
  <2>4. /\ "using" \in Phases /\ phase[r] \in Early
        /\ current' \in Requests \cup {None} /\ budget' \in Nat
        /\ \A q \in Requests \ {r} : pool'[q] = pool[q]
        /\ pool'[r] \in Requests /\ kind'[on'[r]] # "none" /\ phase'[on'[r]] \notin Early
    BY <1>1, <2>2, BaseFacts DEF Phases, Early, Before, Base, TypeOK
  <2>5. /\ on'[r] \in Requests /\ pool' \in [Requests -> Requests \cup {None}]
        /\ kind' \in [Requests -> {"none", "h11", "h2"}]
        /\ state' \in [Requests -> States]
        /\ \A c \in Requests : kind'[c] = kind[c]
        /\ "using" \notin Early /\ UNCHANGED <<limit, ending>>
    BY <1>1, <2>2, BaseFacts DEF Early, Before
  <2>6. /\ "using" \in Phases /\ "using" \notin Early
        /\ phase' = [phase EXCEPT ![r] = "using"]
        /\ on' \in [Requests -> Requests \cup {None}]
        /\ \A q \in Requests \ {r} : on'[q] = on[q] /\ pool'[q] = pool[q]
        /\ on'[r] \in Requests /\ kind'[on'[r]] # "none" /\ pool'[r] \in Requests
        /\ phase'[on'[r]] \notin Early
    BY <2>2, <2>4, <2>5
  <2>7. /\ pool' \in [Requests -> Requests \cup {None}]
        /\ kind' \in [Requests -> {"none", "h11", "h2"}]
        /\ state' \in [Requests -> States]
        /\ \A c \in Requests : kind'[c] = kind[c]
        /\ current' \in Requests \cup {None} /\ budget' \in Nat
        /\ UNCHANGED <<limit, ending>>
    BY <2>4, <2>5
  <2> DEFINE p == "using"
  <2>8. /\ p \in Phases /\ p \notin Early /\ p # "starting"
        /\ phase' = [phase EXCEPT ![r] = p]
    BY <2>6
  <2> HIDE DEF p
  <2>9. /\ \A q \in Requests \ {r} : on'[q] = on[q]
        /\ \A q \in Requests \ {r} : pool'[q] = pool[q]
        /\ \A c \in Requests : kind'[c] = kind[c] \/ kind[c] = "none"
    BY <2>6, <2>7
  <2> QED  BY <2>1, <2>3, <2>6, <2>7, <2>8, <2>9, OwnStep, Zenon
<1>3. CASE phase' = [phase EXCEPT ![r] = "failed"] /\ UNCHANGED <<on, connections>>
  <2>1. Deques'  BY <1>1, <1>3, BaseFacts, SameDeques DEF Early, Before
  <2> QED  BY <1>1, <1>3, <2>1, BaseFacts, GoBase DEF Base, Opened, TypeOK
<1> QED  BY <1>1, <1>2, <1>3 DEF Add

\* acquire() goes on, or a request ends.
LEMMA StopBase ==
    ASSUME Base, NEW r \in Requests,
           \/ AcquireNew(r) \/ ConnectFails(r)
           \/ FinishReusable(r) \/ FinishClosed(r) \/ FinishBusy(r)
    PROVE  Base'
<1>1. /\ UNCHANGED <<current, pool, connections, kind, limit, on, ending>>
      /\ budget' \in Nat
  BY DEF AcquireNew, ConnectFails, FinishReusable, FinishClosed, FinishBusy, Environment,
         pools, opened, Base, TypeOK
<1>2. PICK p \in {"connecting", "leaving", "left", "failed"} :
        /\ phase' = [phase EXCEPT ![r] = p]
        /\ p = "connecting" => phase[r] = "prepared"
        /\ p # "connecting" => phase[r] \in {"connecting", "using"}
        /\ p = "leaving" => phase[r] = "using"
  BY DEF AcquireNew, ConnectFails, FinishReusable, FinishClosed, FinishBusy
<1>3. \/ UNCHANGED state
      \/ on[r] \in Requests /\ kind[on[r]] = "h11"
         /\ state' \in {[state EXCEPT ![on[r]] = "closed"], [state EXCEPT ![on[r]] = "busy"]}
  BY DEF AcquireNew, ConnectFails, FinishReusable, FinishClosed, FinishBusy,
         opened, Base, TypeOK
<1>4. /\ state' \in [Requests -> States]
      /\ \A c \in Requests : /\ kind[c] = "none" <=> state'[c] = "none"
                             /\ state'[c] = "busy" => kind[c] = "h11"
  BY <1>3, BaseFacts DEF Base, Opened, States
<1>5. Deques'  BY <1>1, <1>2, BaseFacts, SameDeques DEF Early, Before
<1> QED  BY <1>1, <1>2, <1>4, <1>5, BaseFacts, GoBase

\* The finally clause of acquire(): at most on[r] is gone from its deque.
LEMMA RemovedDeques ==
    ASSUME Base, NEW r \in Requests, NEW c, pool[r] \in Requests,
           connections' = [connections EXCEPT ![pool[r]] = Without(@, c)]
    PROVE  /\ connections' \in [Requests -> Seq(Requests)]
           /\ \A p \in Requests :
                /\ ItemsOf(connections'[p]) \subseteq ItemsOf(connections[p])
                /\ \A d \in ItemsOf(connections[p]) : d # c => d \in ItemsOf(connections'[p])
                /\ Once(connections'[p])
<1>1. connections[pool[r]] \in Seq(Requests) /\ Once(connections[pool[r]])
  BY BaseFacts DEF Base, Deques
<1>2. /\ Without(connections[pool[r]], c) \in Seq(Requests)
      /\ ItemsOf(Without(connections[pool[r]], c)) \subseteq ItemsOf(connections[pool[r]])
      /\ \A d \in ItemsOf(connections[pool[r]]) :
            d # c => d \in ItemsOf(Without(connections[pool[r]], c))
      /\ Once(Without(connections[pool[r]], c))
  BY <1>1, WithoutEffects
<1>3. /\ connections'[pool[r]] = Without(connections[pool[r]], c)
      /\ \A p \in Requests \ {pool[r]} : connections'[p] = connections[p]
      /\ connections' \in [Requests -> Seq(Requests)]
  BY <1>2, BaseFacts
<1>4. ASSUME NEW p \in Requests
      PROVE  /\ ItemsOf(connections'[p]) \subseteq ItemsOf(connections[p])
             /\ \A d \in ItemsOf(connections[p]) : d # c => d \in ItemsOf(connections'[p])
             /\ Once(connections'[p])
  <2>1. CASE p = pool[r]  BY <1>2, <1>3, <2>1
  <2>2. CASE p # pool[r]
    <3>1. connections'[p] = connections[p]  BY <1>3, <2>2
    <3> QED  BY <3>1 DEF Base, Deques
  <2> QED  BY <2>1, <2>2
<1> QED  BY <1>3, <1>4

LEMMA LeaveBase == ASSUME Base, NEW r \in Requests, Leave(r) PROVE Base'
<1>1. /\ phase[r] = "leaving" /\ pool[r] \in Requests
      /\ UNCHANGED <<current, pool, kind, state, limit, on, ending, budget>>
  BY DEF Leave, opened, Base, Owned
<1>2. PICK p \in {"left", "failed"} : phase' = [phase EXCEPT ![r] = p]
  BY DEF Leave
<1>3. Deques' /\ connections' \in [Requests -> Seq(Requests)]
  <2>1. CASE UNCHANGED connections
    BY <1>1, <1>2, <2>1, BaseFacts, SameDeques DEF Early, Before
  <2>2. CASE connections' = [connections EXCEPT ![pool[r]] = Without(@, on[r])]
    <3>1. /\ connections' \in [Requests -> Seq(Requests)]
          /\ \A p2 \in Requests : /\ ItemsOf(connections'[p2]) \subseteq ItemsOf(connections[p2])
                                  /\ Once(connections'[p2])
      BY <1>1, <2>2, RemovedDeques
    <3>2. \A c \in Requests : phase'[c] \in Early => phase[c] \in Early
      BY <1>2, BaseFacts DEF Early, Before
    <3>3. Deques'  BY <1>1, <3>1, <3>2 DEF Base, Deques, Once
    <3> QED  BY <3>1, <3>3
  <2> QED  BY <2>1, <2>2 DEF Leave
<1>4. budget' \in Nat  BY <1>1 DEF Base, TypeOK
<1>5. \A c \in Requests : /\ kind[c] = "none" <=> state'[c] = "none"
                          /\ state'[c] = "busy" => kind[c] = "h11"
  BY <1>1 DEF Base, Opened
<1> QED  BY <1>1, <1>2, <1>3, <1>4, <1>5, BaseFacts, GoBase

\* A step of a connection or of the client's exit.
LEMMA OutsideBase ==
    ASSUME Base, UNCHANGED <<pool, kind, phase, on>>,
           current' \in Requests \cup {None}, last' \in Requests \cup {None},
           \/ UNCHANGED connections
           \/ last \in Requests /\ connections' = [connections EXCEPT ![last] = <<>>],
           \/ UNCHANGED state
           \/ \E c \in Requests : kind[c] # "none" /\ state' = [state EXCEPT ![c] = "closed"],
           \/ UNCHANGED limit
           \/ \E c \in Requests : limit' = [limit EXCEPT ![c] = 1],
           exit' \in {"no", "begun", "closing", "done"}, raised' \in BOOLEAN, budget' \in Nat,
           \A c \in closing' : c \in Requests /\ kind[c] # "none"
    PROVE  Base'
<1>1. /\ connections' \in [Requests -> Seq(Requests)]
      /\ \A p \in Requests : connections'[p] = connections[p] \/ connections'[p] = <<>>
  <2>1. <<>> \in Seq(Requests)  OBVIOUS
  <2>2. CASE UNCHANGED connections  BY <2>2, BaseFacts
  <2>3. CASE last \in Requests /\ connections' = [connections EXCEPT ![last] = <<>>]
    BY <2>1, <2>3, BaseFacts
  <2> QED  BY <2>2, <2>3
<1>2. /\ state' \in [Requests -> States]
      /\ \A c \in Requests : state'[c] = state[c] \/ (state'[c] = "closed" /\ kind[c] # "none")
  <2>0. state \in [Requests -> States]  BY BaseFacts
  <2>1. CASE UNCHANGED state  BY <2>0, <2>1
  <2>2. ASSUME NEW c \in Requests, kind[c] # "none", state' = [state EXCEPT ![c] = "closed"]
        PROVE  /\ state' \in [Requests -> States]
               /\ \A d \in Requests :
                     state'[d] = state[d] \/ (state'[d] = "closed" /\ kind[d] # "none")
    BY <2>0, <2>2 DEF States
  <2> QED  BY <2>1, <2>2
<1>3. /\ limit' \in [Requests -> Nat]
      /\ \A c \in Requests : limit'[c] = limit[c] \/ limit'[c] = 1
  <2>1. limit \in [Requests -> Nat]  BY DEF Base, TypeOK
  <2> QED  BY <2>1
<1>4. TypeOK'  BY <1>1, <1>2, <1>3 DEF Base, TypeOK, States
<1>5. Opened'
  <2> SUFFICES ASSUME NEW c \in Requests
               PROVE  /\ phase'[c] \in Before => kind'[c] = "none"
                      /\ kind'[c] = "none" <=> state'[c] = "none"
                      /\ state'[c] = "busy" => kind'[c] = "h11"
                      /\ limit'[c] \in {1, MaxStreams}
                      /\ c \in closing' => kind'[c] # "none"
    BY DEF Opened
  <2>1. limit'[c] \in {1, MaxStreams}  BY <1>3 DEF Base, Opened
  <2> QED  BY <1>2, <2>1 DEF Base, Opened
<1>6. Owned'  BY DEF Base, Owned
<1>7. Deques'
  <2> SUFFICES ASSUME NEW p \in Requests
               PROVE  /\ Once(connections'[p])
                      /\ \A c \in ItemsOf(connections'[p]) :
                            c \in Requests /\ pool'[c] = p /\ phase'[c] \notin Early
                            /\ kind'[c] # "none"
    BY DEF Deques
  <2>1. CASE connections'[p] = connections[p]  BY <2>1 DEF Base, Deques
  <2>2. CASE connections'[p] = <<>>  BY <2>2 DEF Once, ItemsOf
  <2> QED  BY <1>1, <2>1, <2>2
<1> QED  BY <1>4, <1>5, <1>6, <1>7 DEF Base

LEMMA EndingBase ==
    ASSUME Base,
           \/ Exit \/ ClosePool \/ GroupEnds
           \/ \E c \in Requests : Drop(c) \/ Settings(c) \/ CloseConnection(c) \/ Cancelled(c)
    PROVE  Base'
<1>0. /\ exit \in {"no", "begun", "closing", "done"} /\ raised \in BOOLEAN /\ budget \in Nat
      /\ current \in Requests \cup {None} /\ last \in Requests \cup {None}
      /\ \A c \in closing : c \in Requests /\ kind[c] # "none"
  BY DEF Base, TypeOK, Opened
<1>1. CASE Exit
  <2>1. /\ UNCHANGED <<pool, connections, opened, phase, on, closing, raised>>
        /\ exit' = "begun" /\ last' = current /\ current' = None /\ budget' \in Nat
    BY <1>0, <1>1 DEF Exit, Environment
  <2> QED  BY <1>0, <2>1, OutsideBase DEF opened
<1>2. CASE ClosePool
  <2>1. /\ UNCHANGED <<current, pool, last, kind, state, limit, phase, on, raised, budget>>
        /\ exit' = "closing"
    BY <1>2 DEF ClosePool, opened
  <2>2. CASE last = None
    <3>1. UNCHANGED <<closing, connections>>  BY <1>2, <2>2 DEF ClosePool
    <3> QED  BY <1>0, <2>1, <3>1, OutsideBase
  <2>3. CASE last # None
    <3>1. last \in Requests /\ closing' = ItemsOf(connections[last])
          /\ connections' = [connections EXCEPT ![last] = <<>>]
      BY <1>0, <1>2, <2>3, ListedIsItems DEF ClosePool
    <3>2. \A c \in closing' : c \in Requests /\ kind[c] # "none"
      BY <3>1 DEF Base, Deques
    <3> QED  BY <1>0, <2>1, <3>1, <3>2, OutsideBase
  <2> QED  BY <2>2, <2>3
<1>3. ASSUME NEW c \in Requests, Drop(c) \/ Cancelled(c) PROVE Base'
  <2>1. /\ state' = [state EXCEPT ![c] = "closed"] /\ kind[c] = "h2"
        /\ UNCHANGED <<current, pool, connections, kind, limit, phase, on, ending>>
        /\ budget' \in Nat
    BY <1>0, <1>3 DEF Drop, Cancelled, Environment, pools
  <2> QED  BY <1>0, <2>1, OutsideBase DEF ending
<1>4. ASSUME NEW c \in Requests, Settings(c) PROVE Base'
  <2>1. /\ limit' = [limit EXCEPT ![c] = 1]
        /\ UNCHANGED <<current, pool, connections, kind, state, phase, on, ending>>
        /\ budget' \in Nat
    BY <1>0, <1>4 DEF Settings, Environment, pools
  <2> QED  BY <1>0, <2>1, OutsideBase DEF ending
<1>5. ASSUME NEW c \in Requests, CloseConnection(c) PROVE Base'
  <2>1. /\ UNCHANGED <<current, pool, last, connections, kind, limit, phase, on, exit, budget>>
        /\ closing' \subseteq closing /\ raised' \in BOOLEAN
        /\ UNCHANGED state \/ state' = [state EXCEPT ![c] = "closed"]
        /\ kind[c] # "none"
    BY <1>0, <1>5 DEF CloseConnection, pools
  <2> QED  BY <1>0, <2>1, OutsideBase
<1>6. CASE GroupEnds
  <2>1. UNCHANGED <<pools, opened, phase, on, last, closing, raised, budget>> /\ exit' = "done"
    BY <1>6 DEF GroupEnds
  <2> QED  BY <1>0, <2>1, OutsideBase DEF pools, opened
<1> QED  BY <1>1, <1>2, <1>3, <1>4, <1>5, <1>6

LEMMA InitBase == Init => Base
<1> SUFFICES ASSUME Init PROVE Base  OBVIOUS
<1>1. TypeOK
  <2>1. MaxStreams \in Nat /\ MaxEnv \in Nat  BY PoolAssumption DEF PoolAssumption
  <2>2. <<>> \in Seq(Requests)  OBVIOUS
  <2>3. /\ connections \in [Requests -> Seq(Requests)]
        /\ limit \in [Requests -> Nat]
    BY <2>1, <2>2 DEF Init
  <2>4. \A r \in Requests : phase[r] = "idle"  BY DEF Init
  <2> QED  BY <2>1, <2>3, <2>4 DEF Init, TypeOK
<1>2. Opened /\ Owned  BY DEF Init, Opened, Owned, Before
<1>3. Deques  BY DEF Init, Deques, Once, ItemsOf
<1> QED  BY <1>1, <1>2, <1>3 DEF Base

LEMMA NextBase == Base /\ [Next]_vars => Base'
<1> SUFFICES ASSUME Base, [Next]_vars PROVE Base'  OBVIOUS
<1>1. ASSUME NEW r \in Requests, Acquire(r) PROVE Base'
  BY <1>1, PrepareBase, PooledBase, ConnectedBase, StartedBase, StopBase DEF Acquire
<1>2. ASSUME NEW r \in Requests, Release(r) PROVE Base'
  BY <1>2, StopBase, LeaveBase DEF Release
<1>3. CASE UNCHANGED vars
  BY <1>3 DEF vars, pools, opened, ending, Base, TypeOK, Opened, Owned, Deques
<1> QED  BY <1>1, <1>2, <1>3, EndingBase DEF Next

\* The pools, the deques, the connections and what each request holds keep their
\* types; a request that is using a connection holds one that was opened.
THEOREM TypeCorrect == Spec => []TypeOK
<1>1. Init => Base  BY InitBase
<1>2. Base /\ [Next]_vars => Base'  BY NextBase
<1>3. Base => TypeOK  BY DEF Base
<1> QED  BY <1>1, <1>2, <1>3, PTL DEF Spec

-----------------------------------------------------------------------------
(* Where connections are.  The steps of a request have this in common: only  *)
(* its own connection comes up, and only closed ones leave their deques.     *)

Alive(c) == state[c] \in {"up", "busy"}

Follows(r) ==
    /\ \A q \in Requests \ {r} : /\ phase'[q] = phase[q] /\ on'[q] = on[q]
                                 /\ pool'[q] = pool[q] /\ kind'[q] = kind[q]
    /\ \A c \in Requests : closed(c) => closed(c)'
    /\ \A c \in Requests \ {r} : Alive(c)' => Alive(c)
    /\ \A p \in Requests : \A c \in ItemsOf(connections[p]) :
          c \in ItemsOf(connections'[p]) \/ closed(c)'
    /\ phase'[r] = "starting" => kind'[r] = "h2" /\ on'[r] = r
    /\ phase'[r] \in {"using", "leaving"} =>
          \/ on'[r] \in ItemsOf(connections'[pool'[r]])
          \/ phase[r] = "using" /\ on'[r] = on[r] /\ pool'[r] = pool[r]
    /\ Alive(r)' => \/ phase'[r] = "starting"
                    \/ r \in ItemsOf(connections'[pool'[r]])
                    \/ Alive(r) /\ phase[r] # "starting"
    /\ UNCHANGED ending

\* The manager of every connection that is being started speaks HTTP/2.
Managed == \A r \in Requests : phase[r] = "starting" => kind[r] = "h2"

LEMMA Unused ==
    ASSUME Base, NEW c \in Requests, phase[c] \in Early
    PROVE  Users(c) = {} /\ Cardinality(Users(c)) = 0
<1>1. \A r \in Requests : ~(phase[r] = "using" /\ on[r] = c)  BY DEF Base, Owned
<1>2. Users(c) = {}  BY <1>1 DEF Users
<1> QED  BY <1>2, FS_EmptySet

LEMMA NotYetUp ==
    ASSUME Base, NEW r \in Requests, phase[r] \in Before
    PROVE  kind[r] = "none" /\ state[r] = "none" /\ ~Alive(r) /\ ~closed(r)
BY DEF Base, Opened, Alive, closed

\* A step that opens nothing.
LEMMA FollowsQuietly ==
    ASSUME Base, NEW r \in Requests,
           \A q \in Requests \ {r} : /\ phase'[q] = phase[q] /\ on'[q] = on[q]
                                     /\ pool'[q] = pool[q],
           phase'[r] # "starting", UNCHANGED <<kind, ending>>,
           \A c \in Requests : (closed(c) => closed(c)') /\ (Alive(c)' => Alive(c)),
           \A p \in Requests : \A c \in ItemsOf(connections[p]) :
              c \in ItemsOf(connections'[p]) \/ closed(c)',
           phase'[r] \in {"using", "leaving"} =>
              \/ on'[r] \in ItemsOf(connections'[pool'[r]])
              \/ phase[r] = "using" /\ on'[r] = on[r] /\ pool'[r] = pool[r],
           phase[r] # "starting"
    PROVE  Follows(r)
BY DEF Follows

\* The deque that r's connection is put into.
LEMMA FollowsAdded ==
    ASSUME Base, NEW r \in Requests, phase[r] \in {"connecting", "starting"}, Use(r, r),
           connections' = [connections EXCEPT ![pool[r]] = <<r>> \o @],
           UNCHANGED <<pool, ending>>, kind'[r] # "none",
           \A c \in Requests : kind[c] # "none" => kind'[c] # "none",
           \A c \in Requests \ {r} : state'[c] = state[c] /\ kind'[c] = kind[c],
           closed(r) => closed(r)'
    PROVE  Follows(r)
<1>1. /\ phase' = [phase EXCEPT ![r] = "using"] /\ on' = [on EXCEPT ![r] = r]
      /\ pool[r] \in Requests
  BY DEF Use, Base, Owned
<1>2. \A p \in Requests :
         /\ p = pool[r] => ItemsOf(connections'[p]) = {r} \cup ItemsOf(connections[p])
         /\ p # pool[r] => connections'[p] = connections[p]
  BY <1>1, AddedDeques
<1>3. /\ phase'[r] = "using" /\ on'[r] = r
      /\ \A q \in Requests \ {r} : phase'[q] = phase[q] /\ on'[q] = on[q]
  BY <1>1, BaseFacts
<1>4. r \in ItemsOf(connections'[pool'[r]])  BY <1>1, <1>2
<1>5. \A p \in Requests : \A c \in ItemsOf(connections[p]) : c \in ItemsOf(connections'[p])
  BY <1>2
<1>6. \A c \in Requests \ {r} : (Alive(c)' => Alive(c)) /\ (closed(c) => closed(c)')
  BY DEF Alive, closed
<1> QED  BY <1>3, <1>4, <1>5, <1>6 DEF Follows

LEMMA ConnectedFollows == ASSUME Base, NEW r \in Requests, Connected(r) PROVE Follows(r)
<1>1. PICK k \in {"h11", "h2"}, s \in {"up", "lost"}, p \in {"starting", "failed", "using"} :
        ConnectedTo(r, k, s, p)
  BY ConnectedAs
<1>2. /\ phase[r] = "connecting" /\ UNCHANGED <<pool, ending>> /\ ~closed(r)
      /\ kind' = [kind EXCEPT ![r] = k] /\ state' = [state EXCEPT ![r] = s]
      /\ phase' = [phase EXCEPT ![r] = p] /\ on' = [on EXCEPT ![r] = r]
  BY <1>1, NotYetUp DEF ConnectedTo, Before
<1>3. /\ kind'[r] = k /\ state'[r] = s /\ phase'[r] = p /\ on'[r] = r
      /\ \A c \in Requests \ {r} : kind'[c] = kind[c] /\ state'[c] = state[c]
      /\ \A q \in Requests \ {r} : phase'[q] = phase[q] /\ on'[q] = on[q]
  BY <1>2, BaseFacts
<1>4. CASE UNCHANGED connections /\ k = "h2" /\ p # "using" /\ (s = "up" => p = "starting")
  <2>1. \A c \in Requests \ {r} : (Alive(c)' => Alive(c)) /\ (closed(c) => closed(c)')
    BY <1>3 DEF Alive, closed
  <2>2. Alive(r)' => phase'[r] = "starting"  BY <1>3, <1>4 DEF Alive
  <2> QED  BY <1>2, <1>3, <1>4, <2>1, <2>2 DEF Follows
<1>5. CASE p = "using" /\ connections' = [connections EXCEPT ![pool[r]] = <<r>> \o @]
  <2>1. \A c \in Requests : kind[c] # "none" => kind'[c] # "none"  BY <1>3
  <2>2. Use(r, r)  BY <1>2, <1>5 DEF Use
  <2> QED  BY <1>2, <1>3, <1>5, <2>1, <2>2, FollowsAdded
<1> QED  BY <1>1, <1>4, <1>5 DEF ConnectedTo

\* A connection whose manager has just been started has all its slots, if it is
\* still up: the assertion at the end of acquire() fails for a closed one only.
LEMMA StartedSlots ==
    ASSUME Base, Managed, NEW r \in Requests, phase[r] = "starting", Alive(r)
    PROVE  available_slots(r) # 0
<1>1. kind[r] = "h2" /\ state[r] = "up"  BY DEF Managed, Alive, Base, Opened
<1>2. limit[r] \in Nat \ {0}
  <2>1. MaxStreams \in Nat \ {0}  BY PoolAssumption DEF PoolAssumption
  <2>2. limit[r] \in {1, MaxStreams}  BY DEF Base, Opened
  <2> QED  BY <2>1, <2>2
<1>3. Cardinality(Users(r)) = 0  BY Unused DEF Early
<1>4. available_slots(r) = limit[r] - 0  BY <1>1, <1>3 DEF available_slots, Capacity
<1> QED  BY <1>2, <1>4

LEMMA StartedFollows ==
    ASSUME Base, Managed, NEW r \in Requests, Started(r) PROVE Follows(r)
<1>1. /\ phase[r] = "starting" /\ on[r] = r /\ kind[r] # "none" /\ pool[r] \in Requests
      /\ Add(r, r) /\ UNCHANGED <<current, pool, kind, state, limit, ending, budget>>
  BY DEF Started, Base, Owned, TypeOK, opened
<1>2. \A c \in Requests : (Alive(c)' <=> Alive(c)) /\ (closed(c)' <=> closed(c))
  BY <1>1 DEF Alive, closed
<1>3. CASE available_slots(r) # 0
  <2>1. Use(r, r) /\ connections' = [connections EXCEPT ![pool[r]] = <<r>> \o @]
    BY <1>1, <1>3 DEF Add
  <2> QED  BY <1>1, <1>2, <2>1, FollowsAdded
<1>4. CASE available_slots(r) = 0
  <2>1. phase' = [phase EXCEPT ![r] = "failed"] /\ UNCHANGED <<on, connections>>
    BY <1>1, <1>4 DEF Add
  <2>2. /\ phase'[r] = "failed"
        /\ \A q \in Requests \ {r} : phase'[q] = phase[q]
    BY <2>1, BaseFacts
  <2>3. ~Alive(r)  BY <1>1, <1>4, StartedSlots
  <2> QED  BY <1>1, <1>2, <2>1, <2>2, <2>3 DEF Follows
<1> QED  BY <1>3, <1>4

LEMMA PrepareFollows == ASSUME Base, NEW r \in Requests, Prepare(r) PROVE Follows(r)
<1>1. /\ pool' = [pool EXCEPT ![r] = current'] /\ phase[r] = "idle"
      /\ phase' = [phase EXCEPT ![r] = "prepared"]
      /\ UNCHANGED <<connections, kind, state, on, ending>>
  BY DEF Prepare, opened
<1>2. /\ phase'[r] = "prepared"
      /\ \A q \in Requests \ {r} : phase'[q] = phase[q] /\ pool'[q] = pool[q]
  BY <1>1, BaseFacts
<1>3. \A c \in Requests : (closed(c) => closed(c)') /\ (Alive(c)' => Alive(c))
  BY <1>1 DEF Alive, closed
<1> QED  BY <1>1, <1>2, <1>3, FollowsQuietly

LEMMA PooledFollows == ASSUME Base, NEW r \in Requests, AcquirePooled(r) PROVE Follows(r)
<1>1. PICK c : /\ c \in ItemsOf(connections[pool[r]]) /\ Use(r, c)
               /\ phase[r] = "prepared" /\ UNCHANGED <<pools, opened, ending, budget>>
  BY DEF AcquirePooled, ItemsOf
<1>2. c \in Requests  BY <1>1 DEF Base, Owned, Deques
<1>3. /\ phase'[r] = "using" /\ on'[r] = c
      /\ \A q \in Requests \ {r} : phase'[q] = phase[q] /\ on'[q] = on[q]
      /\ UNCHANGED <<pool, connections, kind, state>>
  BY <1>1, <1>2, BaseFacts DEF Use, pools, opened
<1>4. \A d \in Requests : (closed(d) => closed(d)') /\ (Alive(d)' => Alive(d))
  BY <1>3 DEF Alive, closed
<1> QED  BY <1>1, <1>3, <1>4, FollowsQuietly

LEMMA StopFollows ==
    ASSUME Base, NEW r \in Requests,
           \/ AcquireNew(r) \/ ConnectFails(r)
           \/ FinishReusable(r) \/ FinishClosed(r) \/ FinishBusy(r)
    PROVE  Follows(r)
<1>1. UNCHANGED <<pool, connections, kind, on, ending>>
  BY DEF AcquireNew, ConnectFails, FinishReusable, FinishClosed, FinishBusy, pools, opened
<1>2. PICK p \in {"connecting", "leaving", "left", "failed"} :
        /\ phase' = [phase EXCEPT ![r] = p]
        /\ p = "leaving" => phase[r] = "using"
        /\ phase[r] # "starting"
  BY DEF AcquireNew, ConnectFails, FinishReusable, FinishClosed, FinishBusy
<1>3. phase'[r] = p /\ \A q \in Requests \ {r} : phase'[q] = phase[q]
  BY <1>2, BaseFacts
<1>4. \A c \in Requests : (closed(c) => closed(c)') /\ (Alive(c)' => Alive(c))
  <2>1. CASE UNCHANGED state  BY <2>1 DEF Alive, closed
  <2>2. CASE FinishClosed(r) /\ state' # state
    <3>1. state' = [state EXCEPT ![on[r]] = "closed"]  BY <2>2 DEF FinishClosed
    <3> QED  BY <3>1, BaseFacts DEF Alive, closed
  <2>3. CASE FinishBusy(r)
    <3>1. state' = [state EXCEPT ![on[r]] = "busy"] /\ state[on[r]] = "up"
      BY <2>3 DEF FinishBusy
    <3> QED  BY <3>1, BaseFacts DEF Alive, closed
  <2> QED  BY <2>1, <2>2, <2>3 DEF AcquireNew, ConnectFails, FinishReusable, opened
<1> QED  BY <1>1, <1>2, <1>3, <1>4, FollowsQuietly

LEMMA LeaveFollows == ASSUME Base, NEW r \in Requests, Leave(r) PROVE Follows(r)
<1>1. /\ phase[r] = "leaving" /\ pool[r] \in Requests
      /\ UNCHANGED <<pool, kind, state, on, ending>>
  BY DEF Leave, opened, Base, Owned
<1>2. PICK p \in {"left", "failed"} : phase' = [phase EXCEPT ![r] = p]
  BY DEF Leave
<1>3. phase'[r] = p /\ \A q \in Requests \ {r} : phase'[q] = phase[q]
  BY <1>2, BaseFacts
<1>4. \A c \in Requests : (closed(c) => closed(c)') /\ (Alive(c)' => Alive(c))
  BY <1>1 DEF Alive, closed
<1>5. \A q \in Requests : \A c \in ItemsOf(connections[q]) :
         c \in ItemsOf(connections'[q]) \/ closed(c)'
  <2>1. CASE UNCHANGED connections  BY <2>1
  <2>2. CASE closed(on[r]) /\ connections' = [connections EXCEPT ![pool[r]] = Without(@, on[r])]
    <3>1. \A q \in Requests : \A c \in ItemsOf(connections[q]) :
             c # on[r] => c \in ItemsOf(connections'[q])
      BY <1>1, <2>2, RemovedDeques
    <3>2. state'[on[r]] = "closed"  BY <1>1, <2>2 DEF closed
    <3> QED  BY <3>1, <3>2 DEF closed
  <2> QED  BY <2>1, <2>2 DEF Leave
<1> QED  BY <1>1, <1>3, <1>4, <1>5, FollowsQuietly

LEMMA RequestFollows ==
    ASSUME Base, Managed, NEW r \in Requests, Acquire(r) \/ Release(r)
    PROVE  Follows(r)
<1>1. CASE Acquire(r)
  BY <1>1, PrepareFollows, PooledFollows, StopFollows, ConnectedFollows, StartedFollows
     DEF Acquire
<1>2. CASE Release(r)  BY <1>2, StopFollows, LeaveFollows DEF Release
<1> QED  BY <1>1, <1>2

\* Every connection that is up is where somebody will close it, or find it; until
\* the exit closes a pool, what a request holds is in its deque.
Known ==
    \A c \in Requests : Alive(c) =>
        \/ c \in closing \/ \E p \in Requests : c \in ItemsOf(connections[p])
        \/ phase[c] = "starting" \/ raised

Held ==
    /\ exit \in {"no", "begun"} => closing = {}
    /\ \A r \in Requests : phase[r] \in {"using", "leaving"} =>
          \/ on[r] \in ItemsOf(connections[pool[r]]) \/ closed(on[r])
          \/ exit \in {"closing", "done"} /\ pool[r] = last

Placed == Base /\ Managed /\ Known /\ Held

LEMMA FollowsPlaced ==
    ASSUME Placed, Base', NEW r \in Requests, Follows(r)
    PROVE  Placed'
<1>1. Managed'
  <2> SUFFICES ASSUME NEW q \in Requests, phase'[q] = "starting" PROVE kind'[q] = "h2"
    BY DEF Managed
  <2>1. CASE q = r  BY <2>1 DEF Follows
  <2>2. CASE q # r  BY <2>2 DEF Follows, Placed, Managed
  <2> QED  BY <2>1, <2>2
<1>2. Known'
  <2> SUFFICES ASSUME NEW c \in Requests, Alive(c)'
               PROVE  \/ c \in closing' \/ \E p \in Requests : c \in ItemsOf(connections'[p])
                      \/ phase'[c] = "starting" \/ raised'
    BY DEF Known
  <2>1. ASSUME Alive(c), phase[c] # "starting" \/ c # r
        PROVE  \/ c \in closing' \/ \E p \in Requests : c \in ItemsOf(connections'[p])
               \/ phase'[c] = "starting" \/ raised'
    <3>1. \/ c \in closing \/ \E p \in Requests : c \in ItemsOf(connections[p])
          \/ phase[c] = "starting" \/ raised
      BY <2>1 DEF Placed, Known
    <3>2. closing' = closing /\ raised' = raised /\ ~closed(c)'
      BY DEF Follows, ending, Alive, closed
    <3>3. phase[c] = "starting" => phase'[c] = "starting"  BY <2>1 DEF Follows
    <3>4. \A p \in Requests : c \in ItemsOf(connections[p]) => c \in ItemsOf(connections'[p])
      BY <3>2 DEF Follows
    <3> QED  BY <3>1, <3>2, <3>3, <3>4
  <2>2. CASE c = r
    <3>1. CASE phase'[r] = "starting"  BY <2>2, <3>1
    <3>2. CASE r \in ItemsOf(connections'[pool'[r]]) /\ phase'[r] # "starting"
      <4>1. pool'[r] \in Requests
        <5>1. CASE phase'[r] = "idle"
          <6>1. state'[r] = "none"  BY <5>1 DEF Base, Opened, Before
          <6> QED  BY <2>2, <6>1 DEF Alive
        <5>2. CASE phase'[r] # "idle"  BY <5>2 DEF Base, Owned
        <5> QED  BY <5>1, <5>2
      <4> QED  BY <2>2, <3>2, <4>1
    <3>3. CASE Alive(r) /\ phase[r] # "starting"  BY <2>1, <2>2, <3>3
    <3> QED  BY <2>2, <3>1, <3>2, <3>3 DEF Follows
  <2>3. CASE c # r  BY <2>1, <2>3 DEF Follows
  <2> QED  BY <2>2, <2>3
<1>3. Held'
  <2>0. UNCHANGED <<exit, last, closing>>  BY DEF Follows, ending
  <2> SUFFICES ASSUME NEW q \in Requests, phase'[q] \in {"using", "leaving"}
               PROVE  \/ on'[q] \in ItemsOf(connections'[pool'[q]]) \/ closed(on[q])'
                      \/ exit \in {"closing", "done"} /\ pool'[q] = last
    BY <2>0 DEF Held, Placed
  <2>1. ASSUME phase[q] \in {"using", "leaving"}, on'[q] = on[q], pool'[q] = pool[q]
        PROVE  \/ on'[q] \in ItemsOf(connections'[pool'[q]]) \/ closed(on[q])'
               \/ exit \in {"closing", "done"} /\ pool'[q] = last
    <3>1. on[q] \in Requests /\ pool[q] \in Requests
      BY <2>1 DEF Placed, Base, TypeOK, Owned
    <3>2. CASE closed(on[q])
      <4>1. state'[on[q]] = "closed"  BY <3>1, <3>2 DEF Follows, closed
      <4> QED  BY <2>1, <4>1 DEF closed
    <3>3. CASE on[q] \in ItemsOf(connections[pool[q]])
      <4>1. on[q] \in ItemsOf(connections'[pool[q]]) \/ state'[on[q]] = "closed"
        BY <3>1, <3>3 DEF Follows, closed
      <4> QED  BY <2>1, <4>1 DEF closed
    <3> QED  BY <2>1, <3>2, <3>3 DEF Placed, Held
  <2>2. CASE q # r  BY <2>1, <2>2 DEF Follows
  <2>3. CASE q = r
    <3>1. \/ on'[r] \in ItemsOf(connections'[pool'[r]])
          \/ phase[r] = "using" /\ on'[r] = on[r] /\ pool'[r] = pool[r]
      BY <2>3 DEF Follows
    <3> QED  BY <2>1, <2>3, <3>1
  <2> QED  BY <2>2, <2>3
<1> QED  BY <1>1, <1>2, <1>3 DEF Placed

\* What the server does, and CloseConnection, take no connection out of a deque.
LEMMA OutsidePlaced ==
    ASSUME Placed, Base', UNCHANGED <<pool, connections, kind, phase, on>>,
           exit' \in {"no", "begun"} => exit \in {"no", "begun"} /\ UNCHANGED closing,
           exit \in {"closing", "done"} => exit' \in {"closing", "done"} /\ UNCHANGED last,
           \A c \in Requests : (closed(c) => closed(c)') /\ (Alive(c)' => Alive(c)),
           raised => raised',
           \A c \in Requests : c \in closing /\ Alive(c)' => c \in closing' \/ raised'
    PROVE  Placed'
<1>1. Managed'  BY DEF Placed, Managed
<1>2. Known'  BY DEF Placed, Known
<1>3. Held'
  <2> SUFFICES ASSUME NEW r \in Requests, phase[r] \in {"using", "leaving"}
               PROVE  \/ on[r] \in ItemsOf(connections[pool[r]]) \/ state'[on[r]] = "closed"
                      \/ exit' \in {"closing", "done"} /\ pool[r] = last'
    BY DEF Held, Placed, closed
  <2>1. on[r] \in Requests  BY DEF Placed, Base, TypeOK
  <2>2. \/ on[r] \in ItemsOf(connections[pool[r]]) \/ closed(on[r])
        \/ exit \in {"closing", "done"} /\ pool[r] = last
    BY DEF Placed, Held
  <2> QED  BY <2>1, <2>2 DEF closed
<1> QED  BY <1>1, <1>2, <1>3 DEF Placed

LEMMA EndingPlaced ==
    ASSUME Placed, Base',
           \/ Exit \/ ClosePool \/ GroupEnds
           \/ \E c \in Requests : Drop(c) \/ Settings(c) \/ CloseConnection(c) \/ Cancelled(c)
    PROVE  Placed'
<1>0. Base /\ state \in [Requests -> States]
  BY BaseFacts DEF Placed
<1>1. CASE Exit
  <2>1. /\ UNCHANGED <<pool, connections, kind, state, phase, on, closing, raised>>
        /\ exit = "no" /\ exit' = "begun"
    BY <1>1 DEF Exit, opened
  <2> QED  BY <2>1, OutsidePlaced DEF Alive, closed
<1>2. CASE ClosePool
  <2>1. /\ UNCHANGED <<current, pool, last, kind, state, phase, on, raised>>
        /\ exit = "begun" /\ exit' = "closing"
    BY <1>2 DEF ClosePool, opened
  <2>2. Managed'  BY <2>1 DEF Placed, Managed
  <2>3. \A c \in Requests : Alive(c)' <=> Alive(c)  BY <2>1 DEF Alive
  <2>4. CASE last = None
    <3>1. UNCHANGED <<closing, connections>>  BY <1>2, <2>4 DEF ClosePool
    <3>2. Known'  BY <2>1, <2>3, <3>1 DEF Placed, Known
    <3>3. Held'  BY <2>1, <3>1 DEF Placed, Held, closed
    <3> QED  BY <2>2, <3>2, <3>3 DEF Placed
  <2>5. CASE last # None
    <3>1. /\ last \in Requests /\ closing' = ItemsOf(connections[last])
          /\ connections' = [connections EXCEPT ![last] = <<>>]
      BY <1>0, <1>2, <2>5, ListedIsItems DEF ClosePool, Base, TypeOK
    <3>2. closing = {}  BY <2>1 DEF Placed, Held
    <3>3. \A p \in Requests \ {last} : connections'[p] = connections[p]
      BY <1>0, <3>1, BaseFacts
    <3>4. Known'
      <4> SUFFICES ASSUME NEW c \in Requests, Alive(c)
                   PROVE  \/ c \in closing' \/ \E p \in Requests : c \in ItemsOf(connections'[p])
                          \/ phase[c] = "starting" \/ raised
        BY <2>1, <2>3 DEF Known
      <4>1. \/ \E p \in Requests : c \in ItemsOf(connections[p])
            \/ phase[c] = "starting" \/ raised
        BY <3>2 DEF Placed, Known
      <4> QED  BY <3>1, <3>3, <4>1
    <3>5. Held'
      <4> SUFFICES ASSUME NEW r \in Requests, phase[r] \in {"using", "leaving"}, pool[r] # last
                   PROVE  on[r] \in ItemsOf(connections'[pool[r]]) \/ closed(on[r])
        BY <2>1 DEF Held, closed
      <4>1. pool[r] \in Requests  BY <1>0 DEF Base, Owned
      <4>2. on[r] \in ItemsOf(connections[pool[r]]) \/ closed(on[r])  BY <2>1 DEF Placed, Held
      <4> QED  BY <3>3, <4>1, <4>2
    <3> QED  BY <2>2, <3>4, <3>5 DEF Placed
  <2> QED  BY <2>4, <2>5
<1>3. ASSUME NEW c \in Requests, Drop(c) \/ Cancelled(c) PROVE Placed'
  <2>1. /\ state' = [state EXCEPT ![c] = "closed"]
        /\ UNCHANGED <<pool, connections, kind, phase, on, exit, last, closing, raised>>
    BY <1>3 DEF Drop, Cancelled, pools, ending
  <2>2. \A d \in Requests : (closed(d) => closed(d)') /\ (Alive(d)' => Alive(d))
    BY <1>0, <2>1 DEF Alive, closed
  <2> QED  BY <2>1, <2>2, OutsidePlaced
<1>4. ASSUME NEW c \in Requests, Settings(c) PROVE Placed'
  <2>1. UNCHANGED <<pool, connections, kind, state, phase, on, exit, last, closing, raised>>
    BY <1>4 DEF Settings, pools, ending
  <2> QED  BY <2>1, OutsidePlaced DEF Alive, closed
<1>5. ASSUME NEW c \in Requests, CloseConnection(c) PROVE Placed'
  <2>1. /\ c \in closing
        /\ UNCHANGED <<pool, connections, kind, phase, on, exit, last>>
    BY <1>5 DEF CloseConnection, pools
  <2>2. exit' \notin {"no", "begun"}  BY <2>1 DEF Placed, Held
  <2>3. CASE state' = [state EXCEPT ![c] = "closed"] /\ closing' = closing \ {c} /\ UNCHANGED raised
    <3>1. \A d \in Requests : (closed(d) => closed(d)') /\ (Alive(d)' => Alive(d))
      BY <1>0, <2>3 DEF Alive, closed
    <3>2. ~Alive(c)'  BY <1>0, <2>3 DEF Alive
    <3>3. \A d \in Requests : d \in closing /\ Alive(d)' => d \in closing' \/ raised'
      BY <2>3, <3>2
    <3> QED  BY <2>1, <2>2, <2>3, <3>1, <3>3, OutsidePlaced
  <2>4. CASE raised' = TRUE /\ closing' = {} /\ UNCHANGED state
    <3>1. \A d \in Requests : (closed(d) => closed(d)') /\ (Alive(d)' => Alive(d))
      BY <2>4 DEF Alive, closed
    <3> QED  BY <2>1, <2>2, <2>4, <3>1, OutsidePlaced
  <2> QED  BY <1>5, <2>3, <2>4 DEF CloseConnection
<1>6. CASE GroupEnds
  <2>1. /\ UNCHANGED <<pool, connections, kind, state, phase, on, last, closing, raised>>
        /\ exit = "closing" /\ exit' = "done"
    BY <1>6 DEF GroupEnds, pools, opened
  <2> QED  BY <2>1, OutsidePlaced DEF Alive, closed
<1> QED  BY <1>1, <1>2, <1>3, <1>4, <1>5, <1>6

LEMMA PlacedInvariant == Spec => []Placed
<1>1. Init => Placed
  <2> SUFFICES ASSUME Init PROVE Placed  OBVIOUS
  <2>1. Base  BY InitBase
  <2>2. Managed /\ Known /\ Held  BY DEF Init, Managed, Known, Held, Alive
  <2> QED  BY <2>1, <2>2 DEF Placed
<1>2. Placed /\ [Next]_vars => Placed'
  <2> SUFFICES ASSUME Placed, [Next]_vars PROVE Placed'  OBVIOUS
  <2>1. Base'  BY NextBase DEF Placed
  <2>2. ASSUME NEW r \in Requests, Acquire(r) \/ Release(r) PROVE Placed'
    <3>1. Follows(r)  BY <2>2, RequestFollows DEF Placed
    <3> QED  BY <2>1, <3>1, FollowsPlaced
  <2>3. CASE UNCHANGED vars
    <3>1. UNCHANGED <<pool, connections, kind, state, phase, on, exit, last, closing, raised>>
      BY <2>3 DEF vars, pools, opened, ending
    <3> QED  BY <2>1, <3>1, OutsidePlaced DEF Alive, closed
  <2> QED  BY <2>1, <2>2, <2>3, EndingPlaced DEF Next
<1> QED  BY <1>1, <1>2, PTL DEF Spec

\* A manager cannot be started once the client's task group has ended, and only then.
NotLost == \A c \in Requests : state[c] = "lost" => exit = "done"

LEMMA NotLostStep == Base /\ NotLost /\ [Next]_vars => NotLost'
<1> SUFFICES ASSUME Base, NotLost, [Next]_vars, NEW c \in Requests, state'[c] = "lost"
             PROVE  exit' = "done"
  BY DEF NotLost
<1>0. state \in [Requests -> States]  BY BaseFacts
<1>1. exit = "done" => exit' = "done"
  BY DEF Next, Acquire, Release, Prepare, AcquirePooled, AcquireNew, ConnectFails, Connected,
     Started, FinishReusable, FinishClosed, FinishBusy, Leave, Drop, Settings, CloseConnection,
     Cancelled, Exit, ClosePool, GroupEnds, vars, ending
<1>2. CASE state[c] = "lost"  BY <1>1, <1>2 DEF NotLost
<1>3. CASE UNCHANGED state  BY <1>1, <1>3 DEF NotLost
<1>4. ASSUME NEW d, NEW s \in {"closed", "busy"}, state' = [state EXCEPT ![d] = s]
      PROVE  exit' = "done"
  <2>1. state[c] = "lost"  BY <1>0, <1>4
  <2> QED  BY <1>2, <2>1
<1>5. ASSUME NEW r \in Requests, Acquire(r) PROVE exit' = "done"
  <2>1. CASE Connected(r)
    <3>1. PICK k \in {"h11", "h2"}, s \in {"up", "lost"}, p \in {"starting", "failed", "using"} :
            ConnectedTo(r, k, s, p)
      BY <2>1, ConnectedAs
    <3>2. state' = [state EXCEPT ![r] = s] /\ (s = "lost" => exit = "done")
      BY <3>1 DEF ConnectedTo
    <3>3. state[c] = "lost" \/ s = "lost"  BY <1>0, <3>2
    <3> QED  BY <1>1, <1>2, <3>2, <3>3
  <2>2. CASE ~Connected(r)
    BY <1>3, <1>5, <2>2 DEF Acquire, Prepare, AcquirePooled, AcquireNew, ConnectFails, Started,
       opened
  <2> QED  BY <2>1, <2>2
<1>6. ASSUME NEW r \in Requests, Release(r) PROVE exit' = "done"
  BY <1>3, <1>4, <1>6 DEF Release, FinishReusable, FinishClosed, FinishBusy, Leave, opened
<1>7. ASSUME NEW d \in Requests, Drop(d) \/ Settings(d) \/ CloseConnection(d) \/ Cancelled(d)
      PROVE  exit' = "done"
  BY <1>3, <1>4, <1>7 DEF Drop, Settings, CloseConnection, Cancelled
<1>8. CASE Exit \/ ClosePool \/ GroupEnds \/ UNCHANGED vars
  BY <1>3, <1>8 DEF Exit, ClosePool, GroupEnds, vars, opened
<1> QED  BY <1>5, <1>6, <1>7, <1>8 DEF Next

LEMMA NotLostInvariant == Spec => []NotLost
<1>1. Init => NotLost  BY DEF Init, NotLost
<1>2. Placed /\ NotLost /\ [Next]_vars => NotLost'  BY NotLostStep DEF Placed
<1> QED  BY <1>1, <1>2, PlacedInvariant, PTL DEF Spec

\* A connection that is up is never lost: it is in a deque, or being started, or
\* being closed, or the exit that was to close it raised, or it was opened after
\* the exit and its manager could not be started.
THEOREM UpIsTracked == Spec => []Tracked
<1>1. Placed /\ NotLost => Tracked
  <2> SUFFICES ASSUME Placed, NotLost, NEW c \in Requests, state[c] \notin {"none", "closed"},
                      ~(exit = "done" /\ state[c] = "lost")
               PROVE  \/ c \in closing \/ \E p \in Requests : c \in Listed(p)
                      \/ \E r \in Requests : phase[r] = "starting" /\ on[r] = c
                      \/ raised
    BY DEF Tracked
  <2>0. Alive(c)  BY BaseFacts DEF Placed, NotLost, Alive, States
  <2>1. phase[c] = "starting" => on[c] = c  BY DEF Placed, Base, Owned
  <2> QED  BY <2>0, <2>1, ListedIsItems DEF Placed, Known
<1> QED  BY <1>1, PlacedInvariant, NotLostInvariant, PTL

\* A connection is in one deque, once; a request that holds one finds it there, as
\* long as the exit has not closed its pool and no other request has left it closed.
THEOREM HoldersFindIt == Spec => []HeldInPool
<1>1. Placed => HeldInPool
  <2> SUFFICES ASSUME Placed PROVE HeldInPool  OBVIOUS
  <2>1. ASSUME NEW p \in Requests, NEW q \in Requests,
               NEW i \in DOMAIN connections[p], NEW j \in DOMAIN connections[q],
               connections[p][i] = connections[q][j]
        PROVE  p = q /\ i = j
    <3>1. connections[p][i] \in ItemsOf(connections[p]) /\ connections[q][j] \in ItemsOf(connections[q])
      BY DEF ItemsOf
    <3>2. p = q  BY <2>1, <3>1 DEF Placed, Base, Deques
    <3> QED  BY <2>1, <3>2 DEF Placed, Base, Deques, Once
  <2>2. \A r \in Requests : phase[r] \in {"using", "leaving"} =>
          \/ on[r] \in Listed(pool[r]) \/ closed(on[r])
          \/ exit \in {"closing", "done"} /\ pool[r] = last
    BY ListedIsItems DEF Placed, Held
  <2> QED  BY <2>1, <2>2 DEF HeldInPool
<1> QED  BY <1>1, PlacedInvariant, PTL

-----------------------------------------------------------------------------
(* Slots.  The only step that gives a connection another user is its         *)
(* request's own, which saw a slot in it, or had just opened it.             *)

Fits(c) == Cardinality(Users(c)) <= Capacity(c)

LEMMA UsersFinite ==
    ASSUME NEW c
    PROVE  IsFiniteSet(Users(c)) /\ Cardinality(Users(c)) \in Nat
<1>1. IsFiniteSet(Requests) /\ Users(c) \subseteq Requests
  BY PoolAssumption DEF PoolAssumption, Users
<1> QED  BY <1>1, FS_Subset, FS_CardinalityType

LEMMA CapacityType ==
    ASSUME Base, NEW c \in Requests
    PROVE  Capacity(c) \in Nat \ {0}
<1>1. MaxStreams \in Nat \ {0}  BY PoolAssumption DEF PoolAssumption
<1>2. limit[c] \in {1, MaxStreams}  BY DEF Base, Opened
<1> QED  BY <1>1, <1>2 DEF Capacity

\* A connection that gets no user still fits.
LEMMA FewerUsers ==
    ASSUME Base, NEW c \in Requests, Fits(c), Users(c)' \subseteq Users(c),
           Capacity(c)' = Capacity(c)
    PROVE  Fits(c)'
<1>1. Cardinality(Users(c)') <= Cardinality(Users(c))  BY UsersFinite, FS_Subset
<1>2. Cardinality(Users(c)') \in Nat
  <2>1. IsFiniteSet(Users(c)')  BY UsersFinite, FS_Subset
  <2> QED  BY <2>1, FS_CardinalityType
<1>3. Cardinality(Users(c)) \in Nat /\ Capacity(c) \in Nat  BY UsersFinite, CapacityType
<1> QED  BY <1>1, <1>2, <1>3 DEF Fits

\* One that had a slot left, or a first user, does.
LEMMA OneMoreUser ==
    ASSUME Base, NEW c \in Requests, NEW r \in Requests, Cardinality(Users(c)) < Capacity(c)',
           Users(c)' \subseteq Users(c) \cup {r}, Capacity(c)' \in Nat
    PROVE  Fits(c)'
<1>1. /\ IsFiniteSet(Users(c)) /\ Cardinality(Users(c)) \in Nat
      /\ IsFiniteSet(Users(c) \cup {r})
      /\ Cardinality(Users(c) \cup {r}) <= Cardinality(Users(c)) + 1
  <2>1. IsFiniteSet(Users(c)) /\ Cardinality(Users(c)) \in Nat  BY UsersFinite
  <2>2. /\ IsFiniteSet(Users(c) \cup {r})
        /\ \/ Cardinality(Users(c) \cup {r}) = Cardinality(Users(c))
           \/ Cardinality(Users(c) \cup {r}) = Cardinality(Users(c)) + 1
    BY <2>1, FS_AddElement, Zenon
  <2> QED  BY <2>1, <2>2
<1>2. /\ IsFiniteSet(Users(c)')
      /\ Cardinality(Users(c)') <= Cardinality(Users(c) \cup {r})
  BY <1>1, FS_Subset
<1>3. Cardinality(Users(c)') \in Nat /\ Cardinality(Users(c) \cup {r}) \in Nat
  BY <1>1, <1>2, FS_CardinalityType
<1> QED  BY <1>1, <1>2, <1>3 DEF Fits

\* The users that the steps of a request leave.
LEMMA UsersOfOthers ==
    ASSUME NEW r \in Requests, NEW c \in Requests,
           \A q \in Requests \ {r} : phase'[q] = phase[q] /\ on'[q] = on[q]
    PROVE  /\ Users(c)' \subseteq Users(c) \cup {r}
           /\ (~(phase'[r] = "using" /\ on'[r] = c)) => Users(c)' \subseteq Users(c)
BY DEF Users

\* A request whose connection is the one opened for it.
LEMMA FirstUser ==
    ASSUME Base, WithinSlots, Base', NEW r \in Requests, NEW c \in Requests,
           phase[r] \in {"connecting", "starting"},
           \A q \in Requests \ {r} : phase'[q] = phase[q] /\ on'[q] = on[q],
           \A q \in Requests \ {r} : kind'[q] = kind[q],
           UNCHANGED limit, phase'[r] = "using" => on'[r] = r,
           kind'[c] = "h11" \/ limit'[c] = MaxStreams
    PROVE  Fits(c)'
<1>1. CASE c = r
  <2>1. Cardinality(Users(r)) = 0  BY Unused DEF Early, Before
  <2>2. Capacity(r)' \in Nat \ {0}
    <3>1. MaxStreams \in Nat \ {0}  BY PoolAssumption DEF PoolAssumption
    <3>2. limit'[r] \in {1, MaxStreams}  BY DEF Base, Opened
    <3> QED  BY <3>1, <3>2 DEF Capacity
  <2>3. Users(r)' \subseteq Users(r) \cup {r}  BY UsersOfOthers
  <2>4. Cardinality(Users(r)) < Capacity(r)'  BY <2>1, <2>2
  <2> QED  BY <1>1, <2>2, <2>3, <2>4, OneMoreUser
<1>2. CASE c # r
  <2>1. Capacity(c)' = Capacity(c)  BY <1>2 DEF Capacity
  <2>2. Fits(c)  BY <1>2 DEF WithinSlots, Fits
  <2>3. Users(c)' \subseteq Users(c)  BY <1>2, UsersOfOthers
  <2> QED  BY <2>1, <2>2, <2>3, FewerUsers
<1> QED  BY <1>1, <1>2

LEMMA SlotsStep == Base /\ Base' /\ WithinSlots /\ [Next]_vars => WithinSlots'
<1> SUFFICES ASSUME Base, Base', WithinSlots, [Next]_vars, NEW c \in Requests,
                    kind'[c] = "h11" \/ limit'[c] = MaxStreams
             PROVE  Fits(c)'
  BY DEF WithinSlots, Fits
<1>1. ASSUME NEW r \in Requests, UNCHANGED <<kind, limit>>,
             \A q \in Requests \ {r} : phase'[q] = phase[q] /\ on'[q] = on[q],
             phase'[r] # "using"
      PROVE  Fits(c)'
  <2>1. Fits(c) /\ Capacity(c)' = Capacity(c)  BY <1>1 DEF WithinSlots, Fits, Capacity
  <2>2. Users(c)' \subseteq Users(c)  BY <1>1, UsersOfOthers
  <2> QED  BY <2>1, <2>2, FewerUsers
<1>2. ASSUME NEW r \in Requests,
             \/ Prepare(r) \/ AcquireNew(r) \/ ConnectFails(r)
             \/ FinishReusable(r) \/ FinishClosed(r) \/ FinishBusy(r) \/ Leave(r)
      PROVE  Fits(c)'
  <2>1. PICK p \in Phases \ {"using"} : phase' = [phase EXCEPT ![r] = p]
    BY <1>2 DEF Prepare, AcquireNew, ConnectFails, FinishReusable, FinishClosed, FinishBusy,
                Leave, Phases
  <2>2. UNCHANGED <<kind, limit, on>>
    BY <1>2 DEF Prepare, AcquireNew, ConnectFails, FinishReusable, FinishClosed, FinishBusy,
                Leave, opened
  <2>3. /\ \A q \in Requests \ {r} : phase'[q] = phase[q] /\ on'[q] = on[q]
        /\ phase'[r] # "using"
    BY <2>1, <2>2, BaseFacts
  <2> QED  BY <1>1, <2>2, <2>3
<1>3. ASSUME NEW r \in Requests, AcquirePooled(r) PROVE Fits(c)'
  <2>1. PICK d : /\ d \in ItemsOf(connections[pool[r]]) /\ available_slots(d) # 0 /\ Use(r, d)
                 /\ phase[r] = "prepared" /\ UNCHANGED <<pools, opened, ending, budget>>
    BY <1>3 DEF AcquirePooled, ItemsOf
  <2>2. d \in Requests  BY <2>1 DEF Base, Owned, Deques
  <2>3. /\ UNCHANGED <<kind, limit>> /\ on'[r] = d
        /\ \A q \in Requests \ {r} : phase'[q] = phase[q] /\ on'[q] = on[q]
    BY <2>1, <2>2, BaseFacts DEF Use, opened
  <2>4. Fits(c) /\ Capacity(c)' = Capacity(c)  BY <2>3 DEF WithinSlots, Fits, Capacity
  <2>5. CASE c = d
    <3>1. Capacity(c) - Cardinality(Users(c)) # 0  BY <2>1, <2>5 DEF available_slots
    <3>2. Cardinality(Users(c)) \in Nat /\ Capacity(c) \in Nat  BY UsersFinite, CapacityType
    <3>3. Cardinality(Users(c)) < Capacity(c)'  BY <2>4, <3>1, <3>2 DEF Fits
    <3>4. Users(c)' \subseteq Users(c) \cup {r}  BY <2>3, UsersOfOthers
    <3> QED  BY <2>4, <3>2, <3>3, <3>4, OneMoreUser
  <2>6. CASE c # d
    <3>1. Users(c)' \subseteq Users(c)  BY <2>3, <2>6, UsersOfOthers
    <3> QED  BY <2>4, <3>1, FewerUsers
  <2> QED  BY <2>5, <2>6
<1>4. ASSUME NEW r \in Requests, Connected(r) PROVE Fits(c)'
  <2>0. PICK k \in {"h11", "h2"}, s \in {"up", "lost"}, p \in {"starting", "failed", "using"} :
          ConnectedTo(r, k, s, p)
    BY <1>4, ConnectedAs
  <2>1. /\ phase[r] = "connecting" /\ UNCHANGED limit
        /\ kind' = [kind EXCEPT ![r] = k]
        /\ phase' = [phase EXCEPT ![r] = p] /\ on' = [on EXCEPT ![r] = r]
    BY <2>0 DEF ConnectedTo
  <2>2. /\ \A q \in Requests \ {r} : phase'[q] = phase[q] /\ on'[q] = on[q]
        /\ \A q \in Requests \ {r} : kind'[q] = kind[q]
        /\ on'[r] = r
    BY <2>1, BaseFacts
  <2> QED  BY <2>1, <2>2, FirstUser
<1>5. ASSUME NEW r \in Requests, Started(r) PROVE Fits(c)'
  <2>1. phase[r] = "starting" /\ on[r] = r /\ UNCHANGED <<kind, limit>>
    BY <1>5 DEF Started, opened, Base, Owned
  <2>2. \/ Use(r, r)
        \/ phase' = [phase EXCEPT ![r] = "failed"] /\ UNCHANGED on
    BY <1>5, <2>1 DEF Started, Add
  <2>3. /\ \A q \in Requests \ {r} : phase'[q] = phase[q] /\ on'[q] = on[q]
        /\ on'[r] = r
    BY <2>1, <2>2, BaseFacts DEF Use
  <2> QED  BY <2>1, <2>3, FirstUser
<1>6. ASSUME UNCHANGED <<kind, limit, phase, on>> PROVE Fits(c)'
  <2>1. Fits(c) /\ Capacity(c)' = Capacity(c) /\ Users(c)' = Users(c)
    BY <1>6 DEF WithinSlots, Fits, Capacity, Users
  <2> QED  BY <2>1, FewerUsers
<1>7. ASSUME NEW d \in Requests, Settings(d) PROVE Fits(c)'
  <2>1. /\ limit' = [limit EXCEPT ![d] = 1] /\ limit[d] > 1 /\ kind[d] = "h2"
        /\ UNCHANGED <<kind, phase, on>>
    BY <1>7 DEF Settings
  <2>2. limit \in [Requests -> Nat] /\ limit[d] \in {1, MaxStreams}
    BY DEF Base, TypeOK, Opened
  <2>3. c # d
    <3>1. limit'[d] = 1 /\ MaxStreams # 1  BY <2>1, <2>2
    <3> QED  BY <2>1, <3>1
  <2>4. limit'[c] = limit[c] /\ Users(c)' = Users(c)  BY <2>1, <2>2, <2>3 DEF Users
  <2>5. Fits(c) /\ Capacity(c)' = Capacity(c)
    BY <2>1, <2>4 DEF WithinSlots, Fits, Capacity
  <2> QED  BY <2>4, <2>5, FewerUsers
<1>8. ASSUME NEW d \in Requests, Drop(d) \/ CloseConnection(d) \/ Cancelled(d) PROVE Fits(c)'
  BY <1>6, <1>8 DEF Drop, CloseConnection, Cancelled
<1>9. CASE Exit \/ ClosePool \/ GroupEnds
  BY <1>6, <1>9 DEF Exit, ClosePool, GroupEnds, opened
<1>10. CASE UNCHANGED vars  BY <1>6, <1>10 DEF vars, opened
<1> QED  BY <1>2, <1>3, <1>4, <1>5, <1>7, <1>8, <1>9, <1>10 DEF Next, Acquire, Release

\* No connection carries more requests than it has slots for, unless the server
\* lowered its limit while requests were running.
THEOREM SlotsRespected == Spec => []WithinSlots
<1>1. Init => Base /\ WithinSlots
  <2> SUFFICES ASSUME Init PROVE WithinSlots  BY InitBase
  <2>1. Base  BY InitBase
  <2>2. ASSUME NEW c \in Requests PROVE Cardinality(Users(c)) <= Capacity(c)
    <3>1. Cardinality(Users(c)) = 0  BY <2>1, Unused DEF Init, Early, Before
    <3>2. Capacity(c) \in Nat  BY <2>1, CapacityType
    <3> QED  BY <3>1, <3>2
  <2> QED  BY <2>2 DEF WithinSlots
<1>2. Base /\ WithinSlots /\ [Next]_vars => (Base /\ WithinSlots)'
  BY NextBase, SlotsStep
<1> QED  BY <1>1, <1>2, PTL DEF Spec

-----------------------------------------------------------------------------
(* The exit.  Requests go on during it, and after it; what it closes is what *)
(* the deque of its pool held when it was cleared.                           *)

\* A connection of the pool that the exit closes is open, and the exit will not
\* close it.
Left(c) ==
    /\ exit \in {"closing", "done"} /\ pool[c] = last
    /\ state[c] \notin {"none", "closed"} /\ c \notin closing

LeavesLateOnly ==
    \A c \in Requests :
        Left(c)' => Left(c) \/ phase[c] \in {"connecting", "starting"} \/ raised'

\* A request's step opens no connection but one that it was opening.
LEMMA RequestLeaves ==
    ASSUME Placed, NEW r \in Requests, Acquire(r) \/ Release(r), NEW c \in Requests,
           Left(c)', phase[c] \notin {"connecting", "starting"}
    PROVE  Left(c)
<1>1. Follows(r)  BY RequestFollows DEF Placed
<1>2. UNCHANGED <<exit, last, closing>>  BY <1>1 DEF Follows, ending
<1>3. kind'[c] = kind[c] /\ (kind[c] = "none" => state'[c] = "none")
  <2>1. CASE c # r
    <3>1. kind'[c] = kind[c]  BY <1>1, <2>1 DEF Follows
    <3>2. Base'  BY NextBase DEF Placed, Next
    <3> QED  BY <3>1, <3>2 DEF Base, Opened
  <2>2. CASE c = r
    <3>1. ~Connected(r) /\ ~Started(r)  BY <2>2 DEF Connected, Started
    <3>2. UNCHANGED kind
      BY <3>1 DEF Acquire, Release, Prepare, AcquirePooled, AcquireNew, ConnectFails,
         FinishReusable, FinishClosed, FinishBusy, Leave, opened
    <3>3. Base'  BY NextBase DEF Placed, Next
    <3> QED  BY <3>2, <3>3 DEF Base, Opened
  <2> QED  BY <2>1, <2>2
<1>4. kind[c] # "none" /\ state[c] # "none"  BY <1>3 DEF Left, Placed, Base, Opened
<1>5. pool'[c] = pool[c]
  <2>1. CASE c # r  BY <1>1, <2>1 DEF Follows
  <2>2. CASE c = r
    <3>1. phase[r] # "idle"  BY <1>4, <2>2 DEF Placed, Base, Opened, Before
    <3>2. UNCHANGED pool
      BY <3>1 DEF Acquire, Release, Prepare, AcquirePooled, AcquireNew, ConnectFails, Connected,
         Started, FinishReusable, FinishClosed, FinishBusy, Leave, pools
    <3> QED  BY <3>2
  <2> QED  BY <2>1, <2>2
<1>6. state[c] # "closed"  BY <1>1 DEF Follows, closed, Left
<1> QED  BY <1>2, <1>4, <1>5, <1>6 DEF Left

\* aclose() takes every connection of its pool that is up and not being started.
LEMMA ClosePoolLeaves ==
    ASSUME Placed, NotLost, ClosePool, ~raised', NEW c \in Requests, Left(c)'
    PROVE  phase[c] = "starting"
<1>1. /\ UNCHANGED <<pool, last, state, phase, raised>> /\ exit = "begun"
      /\ state[c] \notin {"none", "closed"} /\ pool[c] = last /\ c \notin closing'
  BY DEF ClosePool, opened, Left
<1>2. Alive(c)  BY <1>1, BaseFacts DEF Placed, NotLost, Alive, States
<1>3. pool[c] \in Requests
  <2>1. phase[c] # "idle"  BY <1>1 DEF Placed, Base, Opened, Before
  <2> QED  BY <2>1 DEF Placed, Base, Owned
<1>4. last # None /\ closing' = ItemsOf(connections[last])
  BY <1>1, <1>3, BaseFacts, ListedIsItems DEF ClosePool, Placed
<1>5. closing = {}  BY <1>1 DEF Placed, Held
<1>6. \A p \in Requests : c \in ItemsOf(connections[p]) => p = last
  BY <1>1 DEF Placed, Base, Deques
<1> QED  BY <1>1, <1>2, <1>4, <1>5, <1>6 DEF Placed, Known

LEMMA OutsideLeaves ==
    ASSUME Placed,
           \/ Exit \/ GroupEnds \/ UNCHANGED vars
           \/ \E d \in Requests : Drop(d) \/ Settings(d) \/ CloseConnection(d) \/ Cancelled(d),
           ~raised', NEW c \in Requests, Left(c)'
    PROVE  Left(c)
<1>0. state \in [Requests -> States]  BY BaseFacts DEF Placed
<1>1. CASE Exit  BY <1>1 DEF Exit, Left
<1>2. CASE GroupEnds  BY <1>2 DEF GroupEnds, Left, pools, opened
<1>3. CASE UNCHANGED vars  BY <1>3 DEF vars, pools, opened, ending, Left
<1>4. ASSUME NEW d \in Requests, Drop(d) \/ Settings(d) \/ Cancelled(d) PROVE Left(c)
  <2>1. UNCHANGED <<pool, exit, last, closing>>
    BY <1>4 DEF Drop, Settings, Cancelled, pools, ending
  <2>2. UNCHANGED state \/ state' = [state EXCEPT ![d] = "closed"]
    BY <1>4 DEF Drop, Settings, Cancelled
  <2>3. state'[c] # "closed" => state[c] = state'[c]  BY <1>0, <2>2
  <2> QED  BY <2>1, <2>3 DEF Left
<1>5. ASSUME NEW d \in Requests, CloseConnection(d) PROVE Left(c)
  <2>1. /\ UNCHANGED <<pool, exit, last>>
        /\ state' = [state EXCEPT ![d] = "closed"] /\ closing' = closing \ {d}
    BY <1>5 DEF CloseConnection, pools
  <2>2. state[c] = state'[c] /\ c # d  BY <1>0, <2>1 DEF Left
  <2> QED  BY <2>1, <2>2 DEF Left
<1> QED  BY <1>1, <1>2, <1>3, <1>4, <1>5

\* Of the pool that the client's exit closes, whatever the requests do meanwhile,
\* only those connections stay open that were being opened when it was closed, or
\* later, unless an aclose() raised (_client.py:110-121, 126-134, 244-251).
THEOREM ExitLeavesLateOnly == Spec => [][LeavesLateOnly]_vars
<1>1. Placed /\ NotLost /\ [Next]_vars => LeavesLateOnly
  BY RequestLeaves, ClosePoolLeaves, OutsideLeaves DEF Next, LeavesLateOnly
<1> QED  BY <1>1, PlacedInvariant, NotLostInvariant, PTL DEF Spec
=============================================================================
