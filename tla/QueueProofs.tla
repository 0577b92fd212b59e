----------------------------- MODULE QueueProofs -----------------------------
(***************************************************************************)
(* Lemmas about queues, for any set of items: the operations of            *)
(* MemoryStream return channels, and counting the items of one sort in a   *)
(* sequence adds up.                                                       *)
(***************************************************************************)
EXTENDS MemoryStream, FiniteSetTheorems, FunctionTheorems, SequenceTheorems, TLAPS

\* The fields of a channel.
LEMMA ChannelFields ==
    ASSUME NEW Item, NEW c \in Channels(Item)
    PROVE  /\ c = [buf |-> c.buf, snd |-> c.snd, rx |-> c.rx,
                   sopen |-> c.sopen, ropen |-> c.ropen]
           /\ c.buf \in Seq(Item) /\ c.snd \in Seq(Item)
           /\ c.rx \in {"idle", "wait", "woken"}
           /\ c.sopen \in BOOLEAN /\ c.ropen \in BOOLEAN
BY DEF Channels

\* A new channel is one (its two queues are empty).
LEMMA FreshType == ASSUME NEW Item PROVE Fresh \in Channels(Item)
BY DEF Fresh, Channels

\* Sending to a channel, whether the item is accepted or the sender blocks.
LEMMA PutType ==
    ASSUME NEW Item, NEW c \in Channels(Item), NEW e \in Item
    PROVE  Put(c, e) \in Channels(Item) /\ Block(c, e) \in Channels(Item)
<1>1. Append(c.buf, e) \in Seq(Item) /\ <<e>> \in Seq(Item)  BY ChannelFields
<1>2. Put(c, e) \in Channels(Item)  BY <1>1, ChannelFields DEF Put, Channels
<1>3. Block(c, e) \in Channels(Item)  BY <1>1, ChannelFields DEF Block, Channels
<1> QED  BY <1>2, <1>3

\* Closing either end, and waiting.
LEMMA CloseType ==
    ASSUME NEW Item, NEW c \in Channels(Item)
    PROVE  /\ Unblock(c) \in Channels(Item) /\ Await(c) \in Channels(Item)
           /\ CloseSend(c) \in Channels(Item) /\ CloseRecv(c) \in Channels(Item)
           /\ [c EXCEPT !.rx = "idle"] \in Channels(Item)
<1>1. <<>> \in Seq(Item)  OBVIOUS
<1> QED  BY <1>1 DEF Unblock, Await, CloseSend, CloseRecv, Channels

\* Receiving from a channel that has something, without waiting.
LEMMA TakeType ==
    ASSUME NEW Item, NEW c \in Channels(Item), Pending(c) # <<>>
    PROVE  Take(c) \in Channels(Item) /\ Head(Pending(c)) \in Item
<1>1. Pending(c) \in Seq(Item)  BY ChannelFields DEF Pending
<1>2. Tail(Pending(c)) \in Seq(Item) /\ Head(Pending(c)) \in Item  BY <1>1
<1>3. <<>> \in Seq(Item)  OBVIOUS
<1>4. Take(c) \in Channels(Item)  BY <1>2, <1>3 DEF Take, Channels
<1> QED  BY <1>2, <1>4

\* Receiving after a wait.
LEMMA WakeType ==
    ASSUME NEW Item, NEW c \in Channels(Item)
    PROVE  Wake(c) \in Channels(Item)
<1>1. c.buf # <<>> => Tail(c.buf) \in Seq(Item)  BY ChannelFields
<1> QED  BY <1>1 DEF Wake, Channels

\* What each operation does to the fields it may change.
LEMMA SenderEffects ==
    ASSUME NEW Item, NEW c \in Channels(Item), NEW e \in Item
    PROVE  /\ Put(c, e).buf = Append(c.buf, e) /\ Put(c, e).snd = c.snd
           /\ Put(c, e).sopen = c.sopen /\ Put(c, e).ropen = c.ropen
           /\ Block(c, e).buf = c.buf /\ Block(c, e).snd = <<e>>
           /\ Block(c, e).sopen = c.sopen /\ Block(c, e).ropen = c.ropen
BY DEF Put, Block, Channels

LEMMA EndEffects ==
    ASSUME NEW Item, NEW c \in Channels(Item)
    PROVE  /\ Unblock(c).buf = c.buf /\ Unblock(c).snd = <<>>
           /\ Unblock(c).sopen = c.sopen /\ Unblock(c).ropen = c.ropen
           /\ CloseSend(c).buf = c.buf /\ CloseSend(c).snd = c.snd
           /\ CloseSend(c).sopen = FALSE /\ CloseSend(c).ropen = c.ropen
           /\ CloseRecv(c).snd = c.snd /\ CloseRecv(c).sopen = c.sopen
           /\ CloseRecv(c).ropen = FALSE /\ CloseRecv(c).buf = <<>>
BY DEF Unblock, CloseSend, CloseRecv, Channels

LEMMA ReceiverEffects ==
    ASSUME NEW Item, NEW c \in Channels(Item)
    PROVE  /\ Take(c).buf = Tail(Pending(c)) /\ Take(c).snd = <<>>
           /\ Take(c).sopen = c.sopen /\ Take(c).ropen = c.ropen
           /\ Await(c).buf = c.buf /\ Await(c).snd = c.snd
           /\ Await(c).sopen = c.sopen /\ Await(c).ropen = c.ropen
           /\ c.buf # <<>> => Wake(c).buf = Tail(c.buf)
           /\ Wake(c).snd = c.snd
           /\ Wake(c).sopen = c.sopen /\ Wake(c).ropen = c.ropen
BY DEF Take, Await, Wake, Channels

-----------------------------------------------------------------------------
(* Counting the items of a queue that are of some sort A.                    *)

Sort(s, A)  == {i \in DOMAIN s : s[i] \in A}
Count(s, A) == Cardinality(Sort(s, A))

LEMMA CountType ==
    ASSUME NEW Item, NEW s \in Seq(Item), NEW A
    PROVE  IsFiniteSet(Sort(s, A)) /\ Count(s, A) \in Nat
<1>1. DOMAIN s = 1 .. Len(s) /\ Len(s) \in Nat  OBVIOUS
<1>2. IsFiniteSet(1 .. Len(s))  BY <1>1, FS_Interval
<1>3. Sort(s, A) \in SUBSET (1 .. Len(s))  BY <1>1 DEF Sort
<1>4. IsFiniteSet(Sort(s, A))  BY <1>2, <1>3, FS_Subset
<1> QED  BY <1>4, FS_CardinalityType DEF Count

\* A queue with none of them, for example an empty one.
LEMMA CountNone ==
    ASSUME NEW s, NEW A, \A i \in DOMAIN s : s[i] \notin A
    PROVE  Count(s, A) = 0
<1>1. Sort(s, A) = {}  BY DEF Sort
<1> QED  BY <1>1, FS_EmptySet DEF Count

LEMMA CountOne ==
    ASSUME NEW e, NEW A
    PROVE  Count(<<e>>, A) = IF e \in A THEN 1 ELSE 0
<1>1. Sort(<<e>>, A) = IF e \in A THEN {} \cup {1} ELSE {}
  <2>1. DOMAIN <<e>> = {1} /\ <<e>>[1] = e  OBVIOUS
  <2> QED  BY <2>1 DEF Sort
<1>2. IsFiniteSet({}) /\ Cardinality({}) = 0 /\ Cardinality({} \cup {1}) = 1
  <2>1. IsFiniteSet({}) /\ Cardinality({}) = 0  BY FS_EmptySet
  <2>2. Cardinality({} \cup {1}) = Cardinality({}) + 1  BY <2>1, FS_AddElement
  <2> QED  BY <2>1, <2>2
<1> QED  BY <1>1, <1>2 DEF Count

\* Of two queues after each other: the places in the second are moved.
LEMMA CountConcat ==
    ASSUME NEW Item, NEW s \in Seq(Item), NEW t \in Seq(Item), NEW A
    PROVE  Count(s \o t, A) = Count(s, A) + Count(t, A)
<1> DEFINE moved == {i + Len(s) : i \in Sort(t, A)}
           f == [i \in Sort(t, A) |-> i + Len(s)]
<1>1. /\ Len(s) \in Nat /\ Len(t) \in Nat
      /\ DOMAIN s = 1 .. Len(s) /\ DOMAIN t = 1 .. Len(t)
      /\ DOMAIN (s \o t) = 1 .. Len(s) + Len(t)
      /\ \A i \in 1 .. Len(s) + Len(t) :
            (s \o t)[i] = IF i <= Len(s) THEN s[i] ELSE t[i - Len(s)]
  OBVIOUS
<1>2. Sort(s \o t, A) = Sort(s, A) \cup moved
  <2>1. ASSUME NEW i \in Sort(s \o t, A) PROVE i \in Sort(s, A) \cup moved
    <3>1. CASE i <= Len(s)  BY <1>1, <2>1, <3>1 DEF Sort
    <3>2. CASE ~(i <= Len(s))
      <4>1. i - Len(s) \in Sort(t, A) /\ i = (i - Len(s)) + Len(s)
        BY <1>1, <2>1, <3>2 DEF Sort
      <4> QED  BY <4>1
    <3> QED  BY <3>1, <3>2
  <2>2. ASSUME NEW i \in Sort(s, A) PROVE i \in Sort(s \o t, A)
    BY <1>1, <2>2 DEF Sort
  <2>3. ASSUME NEW i \in Sort(t, A) PROVE i + Len(s) \in Sort(s \o t, A)
    <3>1. i \in 1 .. Len(t) /\ t[i] \in A  BY <1>1, <2>3 DEF Sort
    <3>2. /\ i + Len(s) \in 1 .. Len(s) + Len(t) /\ ~(i + Len(s) <= Len(s))
          /\ (i + Len(s)) - Len(s) = i
      BY <1>1, <3>1
    <3> QED  BY <1>1, <3>1, <3>2 DEF Sort
  <2> QED  BY <2>1, <2>2, <2>3
<1>3. Sort(s, A) \cap moved = {}
  BY <1>1 DEF Sort
<1>4. IsFiniteSet(Sort(s, A)) /\ IsFiniteSet(Sort(t, A))  BY CountType
<1>5. IsFiniteSet(moved) /\ Cardinality(moved) = Cardinality(Sort(t, A))
  <2>1. \A i \in Sort(t, A) : i \in Int  BY <1>1 DEF Sort
  <2>2. f \in [Sort(t, A) -> moved] /\ \A a, b \in Sort(t, A) : f[a] = f[b] => a = b
    BY <1>1, <2>1
  <2>3. \A j \in moved : \E i \in Sort(t, A) : f[i] = j  OBVIOUS
  <2>4. f \in Bijection(Sort(t, A), moved)
    <3> HIDE DEF f, moved
    <3> QED  BY <2>2, <2>3, Fun_IsBij
  <2>5. ExistsBijection(Sort(t, A), moved)  BY <2>4 DEF ExistsBijection
  <2> QED  BY <1>4, <2>5, FS_Bijection
<1>6. /\ Cardinality(Sort(s, A) \cup moved)
           = Cardinality(Sort(s, A)) + Cardinality(moved) - Cardinality({})
      /\ Cardinality({}) = 0
  <2> HIDE DEF moved
  <2> QED  BY <1>3, <1>4, <1>5, FS_Union, FS_EmptySet
<1>7. Cardinality(Sort(s, A)) \in Nat /\ Cardinality(Sort(t, A)) \in Nat
  BY CountType DEF Count
<1> QED  BY <1>2, <1>5, <1>6, <1>7 DEF Count

\* Queueing an item, taking the first, and splitting the queue.
LEMMA CountAppend ==
    ASSUME NEW Item, NEW s \in Seq(Item), NEW e \in Item, NEW A
    PROVE  Count(Append(s, e), A) = Count(s, A) + IF e \in A THEN 1 ELSE 0
<1>1. Append(s, e) = s \o <<e>> /\ <<e>> \in Seq(Item)  BY AppendIsConcat
<1>2. Count(s \o <<e>>, A) = Count(s, A) + Count(<<e>>, A)  BY <1>1, CountConcat
<1> QED  BY <1>1, <1>2, CountOne

LEMMA CountTail ==
    ASSUME NEW Item, NEW s \in Seq(Item), s # <<>>, NEW A
    PROVE  Count(Tail(s), A) = Count(s, A) - IF Head(s) \in A THEN 1 ELSE 0
<1> DEFINE h == <<Head(s)>>
           t == Tail(s)
<1>1. t \in Seq(Item) /\ h \in Seq(Item)  OBVIOUS
<1>2. s = h \o t  BY <1>1
<1>3. Count(t, A) \in Nat  BY <1>1, CountType
<1>4. Count(h, A) = IF Head(s) \in A THEN 1 ELSE 0  BY CountOne
<1> HIDE DEF h, t
<1>5. Count(h \o t, A) = Count(h, A) + Count(t, A)  BY <1>1, CountConcat
<1>6. Count(t, A) = Count(s, A) - IF Head(s) \in A THEN 1 ELSE 0
  BY <1>2, <1>3, <1>4, <1>5
<1> QED  BY <1>6 DEF t

LEMMA CountSplit ==
    ASSUME NEW Item, NEW s \in Seq(Item), NEW n \in 0 .. Len(s), NEW A
    PROVE  /\ SubSeq(s, 1, n) \in Seq(Item) /\ SubSeq(s, n + 1, Len(s)) \in Seq(Item)
           /\ s = SubSeq(s, 1, n) \o SubSeq(s, n + 1, Len(s))
           /\ Count(s, A) = Count(SubSeq(s, 1, n), A) + Count(SubSeq(s, n + 1, Len(s)), A)
<1> DEFINE a == SubSeq(s, 1, n)
           b == SubSeq(s, n + 1, Len(s))
<1>1. a \in Seq(Item) /\ b \in Seq(Item)  BY SubSeqProperties
<1>2. s = a \o b
  <2>1. /\ Len(s) \in Nat /\ 1 \in 1 .. Len(s) + 1
        /\ n \in 1 - 1 .. Len(s) /\ Len(s) \in n .. Len(s)
    OBVIOUS
  <2>2. SubSeq(s, 1, n) \o SubSeq(s, n + 1, Len(s)) = SubSeq(s, 1, Len(s))
    BY <2>1, ConcatAdjacentSubSeq
  <2> QED  BY <2>2, SubSeqFull
<1> HIDE DEF a, b
<1>3. Count(a \o b, A) = Count(a, A) + Count(b, A)  BY <1>1, CountConcat
<1>4. /\ a \in Seq(Item) /\ b \in Seq(Item) /\ s = a \o b
      /\ Count(s, A) = Count(a, A) + Count(b, A)
  BY <1>1, <1>2, <1>3
<1> QED  BY <1>4 DEF a, b

-----------------------------------------------------------------------------
(* Least numbers: what is in a queue is there at a first place.              *)

LEMMA LeastNumber ==
    ASSUME NEW T \in SUBSET Nat, T # {}
    PROVE  \E n \in T : \A m \in T : n <= m
<1> DEFINE R == OpToRel(<, Nat)
<1>1. IsWellFoundedOn(R, Nat)  BY NatLessThanWellFounded
<1>2. \A x, y \in Nat : <<y, x>> \in R <=> y < x  BY DEF OpToRel
<1> HIDE DEF R
<1>3. PICK n \in T : \A m \in T : ~(<<m, n>> \in R)  BY <1>1, WFMin
<1>4. \A m \in T : ~(m < n)  BY <1>2, <1>3
<1> QED  BY <1>4

\* What is in a queue.
ItemsOf(q) == {q[i] : i \in DOMAIN q}

LEMMA ItemsKept ==
    ASSUME NEW Item, NEW s \in Seq(Item), NEW t \in Seq(Item), NEW e \in Item
    PROVE  /\ ItemsOf(<<>>) = {} /\ ItemsOf(s) \subseteq Item
           /\ ItemsOf(Append(s, e)) = ItemsOf(s) \cup {e}
           /\ s # <<>> => Head(s) \in ItemsOf(s) /\ ItemsOf(Tail(s)) \subseteq ItemsOf(s)
           /\ ItemsOf(s) \subseteq ItemsOf(s \o t)
<1>1. ItemsOf(<<>>) = {} /\ ItemsOf(s) \subseteq Item  BY DEF ItemsOf
<1>2. ItemsOf(Append(s, e)) = ItemsOf(s) \cup {e}
  <2>1. /\ DOMAIN s = 1 .. Len(s) /\ Len(s) \in Nat
        /\ DOMAIN Append(s, e) = 1 .. Len(s) + 1
        /\ \A i \in 1 .. Len(s) : Append(s, e)[i] = s[i]
        /\ Append(s, e)[Len(s) + 1] = e
    OBVIOUS
  <2>2. 1 .. Len(s) + 1 = 1 .. Len(s) \cup {Len(s) + 1}  BY <2>1
  <2> QED  BY <2>1, <2>2 DEF ItemsOf
<1>3. s # <<>> => Head(s) \in ItemsOf(s) /\ ItemsOf(Tail(s)) \subseteq ItemsOf(s)
  <2> SUFFICES ASSUME s # <<>>
               PROVE  Head(s) \in ItemsOf(s) /\ ItemsOf(Tail(s)) \subseteq ItemsOf(s)
    OBVIOUS
  <2>1. /\ Len(s) \in Nat /\ Len(s) > 0 /\ DOMAIN s = 1 .. Len(s) /\ Head(s) = s[1]
        /\ DOMAIN Tail(s) = 1 .. Len(s) - 1
        /\ \A i \in 1 .. Len(s) - 1 : Tail(s)[i] = s[i + 1]
    OBVIOUS
  <2> QED  BY <2>1 DEF ItemsOf
<1>4. ItemsOf(s) \subseteq ItemsOf(s \o t)
  <2>1. /\ DOMAIN s = 1 .. Len(s) /\ Len(s) \in Nat /\ Len(t) \in Nat
        /\ DOMAIN (s \o t) = 1 .. Len(s) + Len(t)
        /\ \A i \in 1 .. Len(s) : (s \o t)[i] = s[i]
    OBVIOUS
  <2>2. \A i \in 1 .. Len(s) : i \in 1 .. Len(s) + Len(t)  BY <2>1
  <2> QED  BY <2>1, <2>2 DEF ItemsOf
<1> QED  BY <1>1, <1>2, <1>3, <1>4

\* What is pending begins with what is buffered.
LEMMA PendingParts ==
    ASSUME NEW Item, NEW c \in Channels(Item), c.buf # <<>>
    PROVE  /\ Pending(c) # <<>> /\ Head(Pending(c)) = Head(c.buf)
           /\ Tail(Pending(c)) = Tail(c.buf) \o c.snd
<1>1. c.buf \in Seq(Item) /\ c.snd \in Seq(Item)  BY ChannelFields
<1>2. ASSUME NEW s \in Seq(Item), NEW t \in Seq(Item), s # <<>>
      PROVE  s \o t # <<>> /\ Head(s \o t) = Head(s) /\ Tail(s \o t) = Tail(s) \o t
  <2>1. /\ Len(s) \in Nat /\ Len(t) \in Nat /\ Len(s) > 0
        /\ s \o t \in Seq(Item) /\ Len(s \o t) = Len(s) + Len(t)
        /\ \A i \in 1 .. Len(s) + Len(t) :
              (s \o t)[i] = IF i <= Len(s) THEN s[i] ELSE t[i - Len(s)]
    BY <1>2
  <2>2. s \o t # <<>> /\ Head(s \o t) = Head(s)  BY <1>2, <2>1
  <2>3. /\ Tail(s) \in Seq(Item) /\ Len(Tail(s)) = Len(s) - 1
        /\ \A i \in 1 .. Len(s) - 1 : Tail(s)[i] = s[i + 1]
    BY <1>2, <2>1
  <2>4. /\ Tail(s \o t) \in Seq(Item) /\ Len(Tail(s \o t)) = Len(s) + Len(t) - 1
        /\ \A i \in 1 .. Len(s) + Len(t) - 1 : Tail(s \o t)[i] = (s \o t)[i + 1]
    BY <2>1, <2>2
  <2>5. /\ Tail(s) \o t \in Seq(Item) /\ Len(Tail(s) \o t) = Len(s) + Len(t) - 1
        /\ \A i \in 1 .. Len(s) + Len(t) - 1 :
              (Tail(s) \o t)[i] = IF i <= Len(s) - 1 THEN Tail(s)[i] ELSE t[i - (Len(s) - 1)]
    BY <2>1, <2>3
  <2>6. \A i \in 1 .. Len(s) + Len(t) - 1 : Tail(s \o t)[i] = (Tail(s) \o t)[i]
    <3> SUFFICES ASSUME NEW i \in 1 .. Len(s) + Len(t) - 1
                 PROVE  Tail(s \o t)[i] = (Tail(s) \o t)[i]
      OBVIOUS
    <3>1. CASE i <= Len(s) - 1  BY <2>1, <2>3, <2>4, <2>5, <3>1
    <3>2. CASE ~(i <= Len(s) - 1)
      <4>1. i + 1 - Len(s) = i - (Len(s) - 1) /\ ~(i + 1 <= Len(s))
            /\ i + 1 \in 1 .. Len(s) + Len(t)
        BY <2>1, <3>2
      <4> QED  BY <2>1, <2>4, <2>5, <3>2, <4>1
    <3> QED  BY <3>1, <3>2
  <2>7. Tail(s \o t) = Tail(s) \o t
    <3>1. /\ DOMAIN Tail(s \o t) = 1 .. Len(s) + Len(t) - 1
          /\ DOMAIN (Tail(s) \o t) = 1 .. Len(s) + Len(t) - 1
      BY <2>4, <2>5
    <3> QED  BY <2>4, <2>5, <2>6, <3>1, SeqEqual
  <2> QED  BY <2>2, <2>7
<1> QED  BY <1>1, <1>2 DEF Pending
-----------------------------------------------------------------------------
(* Numbering: the items of sort B in q carry their number among those of     *)
(* sort A, of which n came before q.                                         *)

Numbered(q, A, B, n) ==
    \A i \in DOMAIN q : q[i] \in B => q[i].n = n + Count(SubSeq(q, 1, i), A)

LEMMA NumberedNone ==
    ASSUME NEW q, NEW A, NEW B, NEW n, \A i \in DOMAIN q : q[i] \notin B
    PROVE  Numbered(q, A, B, n)
BY DEF Numbered

LEMMA NumberedOne ==
    ASSUME NEW Item, NEW e \in Item, NEW A, NEW B, NEW n
    PROVE  Numbered(<<e>>, A, B, n) <=> (e \in B => e.n = n + IF e \in A THEN 1 ELSE 0)
<1>1. <<e>> \in Seq(Item) /\ Len(<<e>>) = 1 /\ DOMAIN <<e>> = {1} /\ <<e>>[1] = e  OBVIOUS
<1>2. SubSeq(<<e>>, 1, 1) = <<e>>  BY <1>1, SubSeqFull
<1>3. Numbered(<<e>>, A, B, n) <=> (e \in B => e.n = n + Count(<<e>>, A))
  BY <1>1, <1>2 DEF Numbered
<1> QED  BY <1>3, CountOne

\* Two queues after each other are numbered through.
LEMMA NumberedConcat ==
    ASSUME NEW Item, NEW s \in Seq(Item), NEW t \in Seq(Item), NEW A, NEW B, NEW n \in Nat
    PROVE  Numbered(s \o t, A, B, n)
             <=> Numbered(s, A, B, n) /\ Numbered(t, A, B, n + Count(s, A))
<1>1. /\ Len(s) \in Nat /\ Len(t) \in Nat
      /\ DOMAIN s = 1 .. Len(s) /\ DOMAIN t = 1 .. Len(t)
      /\ DOMAIN (s \o t) = 1 .. Len(s) + Len(t)
      /\ \A i \in 1 .. Len(s) + Len(t) :
            (s \o t)[i] = IF i <= Len(s) THEN s[i] ELSE t[i - Len(s)]
  OBVIOUS
<1>2. ASSUME NEW i \in 1 .. Len(s)
      PROVE  (s \o t)[i] = s[i] /\ SubSeq(s \o t, 1, i) = SubSeq(s, 1, i)
  <2>1. /\ SubSeq(s \o t, 1, i) = [j \in 1 .. i |-> (s \o t)[j]]
        /\ SubSeq(s, 1, i) = [j \in 1 .. i |-> s[j]]
    BY <1>1
  <2> QED  BY <1>1, <2>1
<1>3. ASSUME NEW i \in 1 .. Len(t)
      PROVE  /\ (s \o t)[i + Len(s)] = t[i]
             /\ Count(SubSeq(s \o t, 1, i + Len(s)), A) = Count(s, A) + Count(SubSeq(t, 1, i), A)
             /\ Count(SubSeq(t, 1, i), A) \in Nat
  <2>1. (s \o t)[i + Len(s)] = t[i]  BY <1>1
  <2>2. SubSeq(t, 1, i) \in Seq(Item)  BY SubSeqProperties
  <2>3. SubSeq(s \o t, 1, i + Len(s)) = s \o SubSeq(t, 1, i)
    BY <1>1
  <2>4. Count(s \o SubSeq(t, 1, i), A) = Count(s, A) + Count(SubSeq(t, 1, i), A)
    BY <2>2, CountConcat
  <2>5. Count(SubSeq(t, 1, i), A) \in Nat  BY <2>2, CountType
  <2> QED  BY <2>1, <2>3, <2>4, <2>5
<1>4. Count(s, A) \in Nat  BY CountType
<1>5. ASSUME Numbered(s \o t, A, B, n)
      PROVE  Numbered(s, A, B, n) /\ Numbered(t, A, B, n + Count(s, A))
  <2>1. ASSUME NEW i \in DOMAIN s, s[i] \in B
        PROVE  s[i].n = n + Count(SubSeq(s, 1, i), A)
    <3>1. i \in 1 .. Len(s) /\ i \in DOMAIN (s \o t)  BY <1>1
    <3> QED  BY <1>2, <1>5, <2>1, <3>1 DEF Numbered
  <2>2. ASSUME NEW i \in DOMAIN t, t[i] \in B
        PROVE  t[i].n = (n + Count(s, A)) + Count(SubSeq(t, 1, i), A)
    <3>1. i + Len(s) \in DOMAIN (s \o t) /\ i \in 1 .. Len(t)  BY <1>1
    <3>2. t[i].n = n + Count(SubSeq(s \o t, 1, i + Len(s)), A)
      BY <1>3, <1>5, <2>2, <3>1 DEF Numbered
    <3> QED  BY <1>3, <1>4, <3>1, <3>2
  <2> QED  BY <2>1, <2>2 DEF Numbered
<1>6. ASSUME Numbered(s, A, B, n), Numbered(t, A, B, n + Count(s, A))
      PROVE  Numbered(s \o t, A, B, n)
  <2> SUFFICES ASSUME NEW i \in 1 .. Len(s) + Len(t), (s \o t)[i] \in B
               PROVE  (s \o t)[i].n = n + Count(SubSeq(s \o t, 1, i), A)
    BY <1>1 DEF Numbered
  <2>1. CASE i <= Len(s)
    <3>1. i \in 1 .. Len(s)  BY <1>1, <2>1
    <3> QED  BY <1>1, <1>2, <1>6, <3>1 DEF Numbered
  <2>2. CASE ~(i <= Len(s))
    <3>1. PICK k \in 1 .. Len(t) : i = k + Len(s)
      <4>1. i - Len(s) \in 1 .. Len(t) /\ i = (i - Len(s)) + Len(s)  BY <1>1, <2>2
      <4> QED  BY <4>1
    <3>2. t[k].n = (n + Count(s, A)) + Count(SubSeq(t, 1, k), A)
      BY <1>1, <1>3, <1>6, <3>1 DEF Numbered
    <3> QED  BY <1>3, <1>4, <3>1, <3>2
  <2> QED  BY <2>1, <2>2
<1> QED  BY <1>5, <1>6

\* Queueing an item, and taking the first.
LEMMA NumberedAppend ==
    ASSUME NEW Item, NEW s \in Seq(Item), NEW e \in Item, NEW A, NEW B, NEW n \in Nat
    PROVE  Numbered(Append(s, e), A, B, n)
             <=> /\ Numbered(s, A, B, n)
                 /\ e \in B => e.n = (n + Count(s, A)) + IF e \in A THEN 1 ELSE 0
<1>1. Append(s, e) = s \o <<e>> /\ <<e>> \in Seq(Item)  BY AppendIsConcat
<1>2. Numbered(s \o <<e>>, A, B, n)
        <=> Numbered(s, A, B, n) /\ Numbered(<<e>>, A, B, n + Count(s, A))
  BY <1>1, NumberedConcat
<1> QED  BY <1>1, <1>2, NumberedOne

LEMMA NumberedTail ==
    ASSUME NEW Item, NEW s \in Seq(Item), s # <<>>, NEW A, NEW B, NEW n \in Nat,
           Numbered(s, A, B, n)
    PROVE  /\ Head(s) \in B => Head(s).n = n + IF Head(s) \in A THEN 1 ELSE 0
           /\ Numbered(Tail(s), A, B, n + IF Head(s) \in A THEN 1 ELSE 0)
<1>1. Tail(s) \in Seq(Item) /\ <<Head(s)>> \in Seq(Item) /\ Head(s) \in Item  OBVIOUS
<1>2. s = <<Head(s)>> \o Tail(s)  BY <1>1
<1>3. /\ Numbered(<<Head(s)>>, A, B, n)
      /\ Numbered(Tail(s), A, B, n + Count(<<Head(s)>>, A))
  BY <1>1, <1>2, NumberedConcat
<1> QED  BY <1>1, <1>3, NumberedOne, CountOne

\* A queue whose items of these sorts are, place by place, those of another.
LEMMA NumberedAlike ==
    ASSUME NEW Item, NEW s \in Seq(Item), NEW t \in Seq(Item), NEW A, NEW B, NEW n \in Nat,
           Len(s) = Len(t),
           \A i \in 1 .. Len(s) : s[i] = t[i] \/ (s[i] \notin A \cup B /\ t[i] \notin A \cup B),
           Numbered(s, A, B, n)
    PROVE  Numbered(t, A, B, n) /\ Count(t, A) = Count(s, A)
<1>1. /\ Len(s) \in Nat /\ DOMAIN s = 1 .. Len(s) /\ DOMAIN t = 1 .. Len(s)  OBVIOUS
<1>2. Sort(s, A) = Sort(t, A)  BY <1>1 DEF Sort
<1>3. ASSUME NEW i \in 1 .. Len(s)
      PROVE  Count(SubSeq(s, 1, i), A) = Count(SubSeq(t, 1, i), A)
  <2>1. /\ SubSeq(s, 1, i) = [j \in 1 .. i |-> s[j]]
        /\ SubSeq(t, 1, i) = [j \in 1 .. i |-> t[j]]
    BY <1>1
  <2>2. Sort(SubSeq(s, 1, i), A) = Sort(SubSeq(t, 1, i), A)  BY <1>1, <2>1 DEF Sort
  <2> QED  BY <2>2 DEF Count
<1>4. Numbered(t, A, B, n)
  <2> SUFFICES ASSUME NEW i \in 1 .. Len(s), t[i] \in B
               PROVE  t[i].n = n + Count(SubSeq(t, 1, i), A)
    BY <1>1 DEF Numbered
  <2>1. s[i] = t[i]  OBVIOUS
  <2>2. s[i].n = n + Count(SubSeq(s, 1, i), A)  BY <1>1, <2>1 DEF Numbered
  <2> QED  BY <1>3, <2>1, <2>2
<1> QED  BY <1>2, <1>4 DEF Count

-----------------------------------------------------------------------------
(* A line of three queues: p, then b, then w, numbered through.              *)

Line(A, B, p, b, w, n) ==
    /\ Numbered(p, A, B, n)
    /\ Numbered(b, A, B, n + Count(p, A))
    /\ Numbered(w, A, B, n + Count(p, A) + Count(b, A))

Total(A, p, b, w, n) == n + Count(p, A) + Count(b, A) + Count(w, A)

LEMMA LineCounts ==
    ASSUME NEW Item, NEW p \in Seq(Item), NEW b \in Seq(Item), NEW w \in Seq(Item),
           NEW A, NEW n \in Nat
    PROVE  /\ Count(p, A) \in Nat /\ Count(b, A) \in Nat /\ Count(w, A) \in Nat
           /\ Total(A, p, b, w, n) \in Nat
BY CountType DEF Total

\* The first of b is put after p, or is dropped because it does not matter.
LEMMA LineMove ==
    ASSUME NEW Item, NEW p \in Seq(Item), NEW b \in Seq(Item), NEW w \in Seq(Item),
           NEW A, NEW B, NEW n \in Nat, b # <<>>, Line(A, B, p, b, w, n)
    PROVE  /\ Line(A, B, Append(p, Head(b)), Tail(b), w, n)
           /\ Total(A, Append(p, Head(b)), Tail(b), w, n) = Total(A, p, b, w, n)
           /\ Head(b) \notin A \cup B =>
                /\ Line(A, B, p, Tail(b), w, n)
                /\ Total(A, p, Tail(b), w, n) = Total(A, p, b, w, n)
<1> DEFINE k == IF Head(b) \in A THEN 1 ELSE 0
<1>1. /\ Count(p, A) \in Nat /\ Count(b, A) \in Nat /\ Count(w, A) \in Nat
      /\ Tail(b) \in Seq(Item) /\ Head(b) \in Item
  <2>1. Tail(b) \in Seq(Item) /\ Head(b) \in Item  OBVIOUS
  <2> QED  BY <2>1, CountType
<1>2. Count(Append(p, Head(b)), A) = Count(p, A) + k  BY <1>1, CountAppend
<1>3. Count(Tail(b), A) = Count(b, A) - k  BY CountTail
<1>4. /\ Numbered(Tail(b), A, B, n + Count(p, A) + k)
      /\ Head(b) \in B => Head(b).n = n + Count(p, A) + k
  BY <1>1, NumberedTail DEF Line
<1>5. Numbered(Append(p, Head(b)), A, B, n)  BY <1>1, <1>4, NumberedAppend DEF Line
<1>6. k \in {0, 1} /\ (Head(b) \notin A => k = 0)  OBVIOUS
<1> HIDE DEF k
<1>7. /\ n + Count(Append(p, Head(b)), A) = n + Count(p, A) + k
      /\ n + Count(Append(p, Head(b)), A) + Count(Tail(b), A) = n + Count(p, A) + Count(b, A)
  BY <1>1, <1>2, <1>3, <1>6
<1>8. Line(A, B, Append(p, Head(b)), Tail(b), w, n)
  BY <1>4, <1>5, <1>7 DEF Line
<1>9. Total(A, Append(p, Head(b)), Tail(b), w, n) = Total(A, p, b, w, n)
  BY <1>7 DEF Total
<1>10. ASSUME Head(b) \notin A \cup B
       PROVE  /\ Line(A, B, p, Tail(b), w, n)
              /\ Total(A, p, Tail(b), w, n) = Total(A, p, b, w, n)
  <2>1. k = 0  BY <1>6, <1>10
  <2>2. Count(Tail(b), A) = Count(b, A) /\ n + Count(p, A) + k = n + Count(p, A)
    BY <1>1, <1>3, <2>1
  <2> QED  BY <1>4, <2>2 DEF Line, Total
<1> QED  BY <1>8, <1>9, <1>10

\* The first of p is taken.
LEMMA LineTake ==
    ASSUME NEW Item, NEW p \in Seq(Item), NEW b \in Seq(Item), NEW w \in Seq(Item),
           NEW A, NEW B, NEW n \in Nat, p # <<>>, Line(A, B, p, b, w, n),
           NEW m, m = n + IF Head(p) \in A THEN 1 ELSE 0
    PROVE  /\ Line(A, B, Tail(p), b, w, m)
           /\ Total(A, Tail(p), b, w, m) = Total(A, p, b, w, n)
           /\ Head(p) \in B => Head(p).n = m
<1> DEFINE k == IF Head(p) \in A THEN 1 ELSE 0
<1>1. /\ Count(p, A) \in Nat /\ Count(b, A) \in Nat /\ Count(w, A) \in Nat
      /\ Tail(p) \in Seq(Item) /\ Head(p) \in Item
  BY CountType
<1>2. Count(Tail(p), A) = Count(p, A) - k  BY CountTail
<1>3. Numbered(Tail(p), A, B, m) /\ (Head(p) \in B => Head(p).n = m)
  BY NumberedTail DEF Line
<1>4. k \in {0, 1} /\ m = n + k  OBVIOUS
<1> HIDE DEF k
<1>5. m + Count(Tail(p), A) = n + Count(p, A)  BY <1>1, <1>2, <1>4
<1> QED  BY <1>3, <1>5 DEF Line, Total

\* An item is put at the end.
LEMMA LinePut ==
    ASSUME NEW Item, NEW p \in Seq(Item), NEW b \in Seq(Item), NEW w \in Seq(Item),
           NEW e \in Item, NEW A, NEW B, NEW n \in Nat, Line(A, B, p, b, w, n),
           e \in B => e.n = Total(A, p, b, w, n) + IF e \in A THEN 1 ELSE 0
    PROVE  /\ Line(A, B, p, b, Append(w, e), n)
           /\ Total(A, p, b, Append(w, e), n)
                = Total(A, p, b, w, n) + IF e \in A THEN 1 ELSE 0
<1>1. /\ Count(p, A) \in Nat /\ Count(b, A) \in Nat /\ Count(w, A) \in Nat
  BY LineCounts
<1>2. Count(Append(w, e), A) = Count(w, A) + IF e \in A THEN 1 ELSE 0  BY CountAppend
<1>3. n + Count(p, A) + Count(b, A) \in Nat  BY <1>1
<1>4. Numbered(Append(w, e), A, B, n + Count(p, A) + Count(b, A))
  BY <1>3, NumberedAppend DEF Line, Total
<1> QED  BY <1>1, <1>2, <1>4 DEF Line, Total

\* All of w arrives in the empty b.
LEMMA LineArrive ==
    ASSUME NEW Item, NEW p \in Seq(Item), NEW w \in Seq(Item), NEW t \in Seq(Item),
           NEW A, NEW B, NEW n \in Nat, Line(A, B, p, <<>>, w, n), Len(w) = Len(t),
           \A i \in 1 .. Len(w) : w[i] = t[i] \/ (w[i] \notin A \cup B /\ t[i] \notin A \cup B)
    PROVE  /\ Line(A, B, p, t, <<>>, n)
           /\ Total(A, p, t, <<>>, n) = Total(A, p, <<>>, w, n)
<1>1. Count(p, A) \in Nat /\ Count(w, A) \in Nat /\ <<>> \in Seq(Item)  BY CountType
<1>2. \A i \in DOMAIN <<>> : <<>>[i] \notin A \cup B  OBVIOUS
<1>3. Count(<<>>, A) = 0  BY <1>2, CountNone
<1>4. \A m : Numbered(<<>>, A, B, m)  BY <1>2, NumberedNone
<1>5. Numbered(w, A, B, n + Count(p, A))  BY <1>1, <1>3 DEF Line
<1>6. n + Count(p, A) \in Nat  BY <1>1
<1>7. Numbered(t, A, B, n + Count(p, A)) /\ Count(t, A) = Count(w, A)
  BY <1>5, <1>6, NumberedAlike
<1> QED  BY <1>1, <1>3, <1>4, <1>7 DEF Line, Total

\* The whole line, as one queue.
LEMMA LineThrough ==
    ASSUME NEW Item, NEW p \in Seq(Item), NEW b \in Seq(Item), NEW w \in Seq(Item),
           NEW A, NEW B, NEW n \in Nat, Line(A, B, p, b, w, n)
    PROVE  /\ Numbered(p \o b \o w, A, B, n)
           /\ Count(p \o b \o w, A) = Count(p, A) + Count(b, A) + Count(w, A)
<1>1. /\ Count(p, A) \in Nat /\ Count(b, A) \in Nat /\ Count(w, A) \in Nat
  BY LineCounts
<1>2. p \o b \in Seq(Item)  OBVIOUS
<1>3. Count(p \o b, A) = Count(p, A) + Count(b, A)  BY CountConcat
<1>4. Numbered(p \o b, A, B, n)  BY NumberedConcat DEF Line
<1>5. Numbered(w, A, B, n + Count(p \o b, A))  BY <1>1, <1>3 DEF Line
<1>6. Numbered((p \o b) \o w, A, B, n)  BY <1>2, <1>4, <1>5, NumberedConcat
<1>7. Count((p \o b) \o w, A) = Count(p \o b, A) + Count(w, A)  BY <1>2, CountConcat
<1> QED  BY <1>3, <1>6, <1>7

\* A queue that ends early, or has something put to it that does not matter, is
\* numbered as far as it goes.
LEMMA NumberedPart ==
    ASSUME NEW Item, NEW s \in Seq(Item), NEW t \in Seq(Item), NEW A, NEW B, NEW n \in Nat,
           Numbered(s \o t, A, B, n)
    PROVE  Numbered(s, A, B, n)
BY NumberedConcat
=============================================================================
