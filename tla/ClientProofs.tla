----------------------------- MODULE ClientProofs -----------------------------
(***************************************************************************)
(* Proofs about Client, for any requests, cookies and URLs, whatever       *)
(* headers the requests bring: whose headers, cookies and lengths a        *)
(* request can be sent with.                                               *)
(***************************************************************************)
EXTENDS Client, TLAPS

-----------------------------------------------------------------------------
(* The operations on headers *)

\* setdefault() and assignment add one mark at most.
LEMMA FieldEffects ==
    ASSUME NEW h, NEW f, NEW r
    PROVE  /\ \A m \in SetDefault(h, f, r) : m \in h \/ m = Mark(f, r)
           /\ \A m \in Assign(h, f, r) : m \in h \/ m = Mark(f, r)
           /\ \A m \in Assign(h, f, r) : m.field = f => m = Mark(f, r)
BY DEF SetDefault, Assign

LEMMA MarkType ==
    ASSUME NEW f \in Fields \cup Cookies, NEW o \in Owners
    PROVE  Mark(f, o) \in Marks /\ Mark(f, o).field = f /\ Mark(f, o).by = o
BY DEF Mark, Marks

\* The cookies that a request to u gets: a secure one is not valid for a URL without
\* a scheme.
Lends(c, u) == Covers(c, u) /\ ~Jar[c].secure

\* Preparing a request adds its own fields, and the cookies that are valid.
LEMMA PrepareEffects ==
    ASSUME NEW hdrs \in OwnHeaders, NEW r \in Requests, NEW u \in Urls,
           NEW m \in _prepare_request(hdrs, r, u)
    PROVE  \/ m \in heap[Config]
           \/ \E f \in hdrs : m = Mark(f, r)
           \/ \E c \in Cookies : m = Mark(c, r) /\ Lends(c, u)
<1>1. SUFFICES ASSUME NEW c \in Cookies, is_valid_for(c, relative(u))
               PROVE  Lends(c, u)
  BY DEF _prepare_request, AddCookies
<1>2. /\ relative(u).path = u.path /\ relative(u).scheme = None
  BY ClientAssumption DEF relative, ClientAssumption
<1> QED  BY <1>1, <1>2, ClientAssumption DEF is_valid_for, Lends, Covers, ClientAssumption

\* What request() and connect_sse() add, and what is added when it is sent.
LEMMA DecoratedEffects ==
    ASSUME NEW h, NEW k \in Kinds, NEW r \in Requests, NEW m \in Decorated(h, k, r)
    PROVE  /\ m \in h \/ \E f \in {"content-type", "content-length", "accept"} :
                            m = Mark(f, r) /\ (f = "content-length" => k = "sized")
           /\ k = "sized" /\ m.field = "content-length" => m = Mark("content-length", r)
<1>1. CASE k = "sized"
  BY <1>1, FieldEffects DEF Decorated, AddSized
<1>2. CASE k = "sse"
  BY <1>2, FieldEffects DEF Decorated
<1>3. CASE k \notin {"sized", "sse"}
  BY <1>3 DEF Decorated
<1> QED  BY <1>1, <1>2, <1>3

LEMMA CompletedEffects ==
    ASSUME NEW h, NEW r \in Requests, NEW m \in Completed(h, r)
    PROVE  m \in h \/ \E f \in {"upgrade", "transfer-encoding", "host"} : m = Mark(f, r)
<1> DEFINE g == IF kind[r] = "ws" THEN Assign(h, "upgrade", r) ELSE h
           chunked == kind[r] \in {"sized", "stream"} /\ ~Has(g, "content-length")
           t == IF chunked THEN Assign(g, "transfer-encoding", r) ELSE g
<1>1. \A n \in g : n \in h \/ n = Mark("upgrade", r)  BY FieldEffects
<1>2. \A n \in t : n \in g \/ n = Mark("transfer-encoding", r)
  <2> HIDE DEF g
  <2> QED  BY FieldEffects
<1>3. m \in t \/ m = Mark("host", r)
  <2>1. Completed(h, r) = SetDefault(t, "host", r)  BY DEF Completed
  <2> HIDE DEF t
  <2> QED  BY <2>1, FieldEffects
<1> HIDE DEF g, t
<1> QED  BY <1>1, <1>2, <1>3

-----------------------------------------------------------------------------
(* Type correctness *)

LEMMA HeaderTypes ==
    ASSUME TypeOK, NEW r \in Requests
    PROVE  /\ \A hdrs \in OwnHeaders, u \in Urls, k \in Kinds :
                Decorated(_prepare_request(hdrs, r, u), k, r) \subseteq Marks
           /\ \A o \in Owners : Completed(heap[o], r) \subseteq Marks
<1>1. \A o \in Owners : heap[o] \subseteq Marks  BY DEF TypeOK
<1>2. r \in Owners /\ Config \in Owners  BY DEF Owners
<1>3. \A f \in Fields \cup Cookies : Mark(f, r) \in Marks  BY <1>2, MarkType
<1>4. ASSUME NEW hdrs \in OwnHeaders, NEW u \in Urls, NEW k \in Kinds,
             NEW m \in Decorated(_prepare_request(hdrs, r, u), k, r)
      PROVE  m \in Marks
  <2>1. hdrs \subseteq Fields  BY ClientAssumption DEF ClientAssumption
  <2>2. CASE m \in _prepare_request(hdrs, r, u)
    BY <1>1, <1>2, <1>3, <2>1, <2>2, PrepareEffects
  <2>3. CASE \E f \in {"content-type", "content-length", "accept"} : m = Mark(f, r)
    BY <1>3, <2>3 DEF Fields
  <2> QED  BY <2>2, <2>3, DecoratedEffects
<1>5. ASSUME NEW o \in Owners, NEW m \in Completed(heap[o], r)  PROVE  m \in Marks
  <2>1. CASE \E f \in {"upgrade", "transfer-encoding", "host"} : m = Mark(f, r)
    BY <1>3, <2>1 DEF Fields
  <2> QED  BY <1>1, <2>1, CompletedEffects
<1> QED  BY <1>4, <1>5

LEMMA InitType == Init => TypeOK
<1> SUFFICES ASSUME Init PROVE TypeOK  OBVIOUS
<1>1. Mark("user-agent", Config) \in Marks  BY MarkType DEF Owners, Fields
<1>2. heap \in [Owners -> SUBSET Marks]  BY <1>1 DEF Init
<1> QED  BY <1>2, ClientAssumption DEF Init, TypeOK, Owners, ClientAssumption

LEMMA NextType == TypeOK /\ [Next]_vars => TypeOK'
<1> SUFFICES ASSUME TypeOK, [Next]_vars PROVE TypeOK'  OBVIOUS
<1>1. ASSUME NEW r \in Requests, Send(r) PROVE TypeOK'
  <2>1. obj[r] \in Owners  BY DEF TypeOK
  <2>2. Completed(heap[obj[r]], r) \in SUBSET Marks  BY <2>1, HeaderTypes
  <2>3. heap' \in [Owners -> SUBSET Marks] /\ sent' \in [Requests -> SUBSET Marks]
    BY <1>1, <2>2 DEF TypeOK, Send
  <2>4. sends' \in [Requests -> 0 .. MaxSends]
    BY <1>1, ClientAssumption DEF TypeOK, Send, ClientAssumption
  <2>5. misframed' \subseteq Requests /\ left' \subseteq Requests
    BY <1>1 DEF TypeOK, Send, ReadOnce
  <2> QED  BY <1>1, <2>3, <2>4, <2>5 DEF TypeOK, Send
<1>2. ASSUME NEW r \in Requests, NEW k \in Kinds, NEW hdrs \in OwnHeaders,
             NEW u \in Urls, Make(r, k, hdrs, u)
      PROVE  TypeOK'
  <2>1. ObjectOf(hdrs, r) \in Owners  BY DEF ObjectOf, Owners
  <2>2. Decorated(_prepare_request(hdrs, r, u), k, r) \in SUBSET Marks
    BY HeaderTypes
  <2>3. heap' \in [Owners -> SUBSET Marks] /\ obj' \in [Requests -> Owners]
    BY <1>2, <2>1, <2>2 DEF TypeOK, Make
  <2>4. kind' \in [Requests -> Kinds \cup {"none"}] /\ own' \in [Requests -> OwnHeaders \cup {{}}]
    BY <1>2 DEF TypeOK, Make
  <2>5. /\ url' \in [Requests -> Urls \cup {None}]
        /\ \A q \in Requests : kind'[q] # "none" => url'[q] \in Urls
    BY <1>2 DEF TypeOK, Make
  <2> QED  BY <1>2, <2>3, <2>4, <2>5 DEF TypeOK, Make
<1>3. CASE UNCHANGED vars  BY <1>3 DEF TypeOK, vars
<1> QED  BY <1>1, <1>2, <1>3 DEF Next

\* Every header object and every request that was sent holds marks of known
\* owners, however requests are made and sent (_client.py:253-345).
THEOREM TypeCorrect == Spec => []TypeOK
<1>1. Init => TypeOK  BY InitType
<1>2. TypeOK /\ [Next]_vars => TypeOK'  BY NextType
<1> QED  BY <1>1, <1>2, PTL DEF Spec

-----------------------------------------------------------------------------
(* Whose headers a request is sent with *)

\* A request's own object is new when the request has headers, and is the
\* client's if not.
Objects == \A r \in Requests : kind[r] # "none" => obj[r] = ObjectOf(own[r], r)

\* Marks in an object are the client's configuration's, the owner's, or those of
\* a request without headers of its own; a cookie covers the path of whoever put
\* it there, and is not a secure one.
MayHold(m, o) ==
    /\ m.by = Config \/ (m.by \in Requests /\ kind[m.by] # "none" /\ (m.by = o \/ Headerless(m.by)))
    /\ m.field \in Cookies => m.by \in Requests /\ Lends(m.field, url[m.by])

Holdings ==
    /\ \A o \in Owners : \A m \in heap[o] : MayHold(m, o)
    /\ \A r \in Requests : \A m \in sent[r] : MayHold(m, r)

MarksInv == TypeOK /\ Objects /\ Holdings

\* What one may hold, one may hold for ever.
LEMMA StillHolds ==
    ASSUME MarksInv, NEW o, NEW m, MayHold(m, o),
           \A q \in Requests : kind[q] # "none" =>
               kind'[q] = kind[q] /\ own'[q] = own[q] /\ url'[q] = url[q]
    PROVE  MayHold(m, o)'
BY ClientAssumption DEF MayHold, Headerless, Lends, Covers, ClientAssumption

\* A mark of the request itself, with a field or a cookie that it gets.
LEMMA OwnMarks ==
    ASSUME NEW r \in Requests, kind'[r] # "none"
    PROVE  /\ \A f \in Fields : MayHold(Mark(f, r), r)'
           /\ \A c \in Cookies : Lends(c, url'[r]) => MayHold(Mark(c, r), r)'
           /\ own'[r] = {} => /\ \A f \in Fields : MayHold(Mark(f, r), Config)'
                              /\ \A c \in Cookies : Lends(c, url'[r]) =>
                                    MayHold(Mark(c, r), Config)'
<1>1. \A f : Mark(f, r).field = f /\ Mark(f, r).by = r  BY DEF Mark
<1>2. \A f \in Fields : f \notin Cookies  BY ClientAssumption DEF ClientAssumption
<1>3. own'[r] = {} => Headerless(r)'  BY DEF Headerless
<1>4. \A c : Lends(c, url'[r]) => Lends(c, url[r])'  BY DEF Lends, Covers
<1> HIDE DEF Mark
<1> QED  BY <1>1, <1>2, <1>3, <1>4 DEF MayHold

LEMMA SendMarks == ASSUME MarksInv, NEW r \in Requests, Send(r)
                   PROVE  Objects' /\ Holdings'
<1> DEFINE h == Completed(heap[obj[r]], r)
<1>1. /\ heap \in [Owners -> SUBSET Marks] /\ sent \in [Requests -> SUBSET Marks]
      /\ obj[r] \in Owners /\ kind[r] # "none"
      /\ UNCHANGED <<obj, kind, own, url>>
      /\ heap' = [heap EXCEPT ![obj[r]] = h] /\ sent' = [sent EXCEPT ![r] = h]
  BY DEF MarksInv, TypeOK, Send
<1>2. Objects'  BY <1>1 DEF MarksInv, Objects, ObjectOf
<1>3. obj[r] = IF own[r] = {} THEN Config ELSE r
  BY <1>1 DEF MarksInv, Objects, ObjectOf
<1>4. ASSUME NEW m \in h PROVE MayHold(m, obj[r])' /\ MayHold(m, r)'
  <2>1. CASE m \in heap[obj[r]]
    <3>1. MayHold(m, obj[r])  BY <1>1, <2>1 DEF MarksInv, Holdings
    <3>2. MayHold(m, r)  BY <1>3, <3>1, ClientAssumption DEF MayHold, Headerless, ClientAssumption
    <3> QED  BY <1>1, <3>1, <3>2, StillHolds
  <2>2. CASE \E f \in {"upgrade", "transfer-encoding", "host"} : m = Mark(f, r)
    BY <1>1, <1>3, <2>2, OwnMarks DEF Fields
  <2> QED  BY <1>4, <2>1, <2>2, CompletedEffects
<1>5. \A o \in Owners : \A m : MayHold(m, o) => MayHold(m, o)'  BY <1>1, StillHolds
<1>6. \A q \in Requests : \A m : MayHold(m, q) => MayHold(m, q)'  BY <1>1, StillHolds
<1>7. ASSUME NEW o \in Owners, NEW m \in heap'[o] PROVE MayHold(m, o)'
  BY <1>1, <1>4, <1>5, <1>7 DEF MarksInv, Holdings
<1>8. ASSUME NEW q \in Requests, NEW m \in sent'[q] PROVE MayHold(m, q)'
  BY <1>1, <1>4, <1>6, <1>8 DEF MarksInv, Holdings
<1> QED  BY <1>2, <1>7, <1>8 DEF Holdings

LEMMA MakeMarks ==
    ASSUME MarksInv, NEW r \in Requests, NEW k \in Kinds, NEW hdrs \in OwnHeaders,
           NEW u \in Urls, Make(r, k, hdrs, u)
    PROVE  Objects' /\ Holdings'
<1> DEFINE o == ObjectOf(hdrs, r)
           h == Decorated(_prepare_request(hdrs, r, u), k, r)
<1>1. /\ heap' = [heap EXCEPT ![o] = h] /\ obj' = [obj EXCEPT ![r] = o]
      /\ kind' = [kind EXCEPT ![r] = k] /\ own' = [own EXCEPT ![r] = hdrs]
      /\ url' = [url EXCEPT ![r] = u] /\ kind[r] = "none" /\ UNCHANGED sent
  BY DEF Make
<1>2. /\ o \in Owners /\ Config \in Owners /\ hdrs \subseteq Fields
      /\ kind'[r] = k /\ k # "none" /\ own'[r] = hdrs /\ url'[r] = u /\ obj'[r] = o
      /\ \A q \in Requests \ {r} : /\ kind'[q] = kind[q] /\ own'[q] = own[q]
                                   /\ url'[q] = url[q] /\ obj'[q] = obj[q]
      /\ heap'[o] = h /\ \A p \in Owners \ {o} : heap'[p] = heap[p]
  BY <1>1, ClientAssumption
     DEF MarksInv, TypeOK, ObjectOf, Owners, Kinds, ClientAssumption
<1>3. Objects'
  <2> SUFFICES ASSUME NEW q \in Requests, kind'[q] # "none"
               PROVE  obj'[q] = ObjectOf(own'[q], q)
    BY DEF Objects, ObjectOf
  <2> QED  BY <1>2 DEF MarksInv, Objects
<1>4. \A p, m : MayHold(m, p) => MayHold(m, p)'
  <2>1. \A q \in Requests : kind[q] # "none" =>
           kind'[q] = kind[q] /\ own'[q] = own[q] /\ url'[q] = url[q]
    BY <1>1, <1>2
  <2> QED  BY <2>1, StillHolds
<1>5. ASSUME NEW m \in h PROVE MayHold(m, o)'
  <2>1. CASE m \in heap[Config]
    <3>1. MayHold(m, Config)  BY <1>2, <2>1 DEF MarksInv, Holdings
    <3>2. MayHold(m, o)  BY <3>1, ClientAssumption DEF MayHold, ClientAssumption
    <3> QED  BY <1>4, <3>2
  <2>2. CASE \E f \in Fields : m = Mark(f, r)
    BY <1>2, <2>2, OwnMarks DEF ObjectOf
  <2>3. CASE \E c \in Cookies : m = Mark(c, r) /\ Lends(c, u)
    BY <1>2, <2>3, OwnMarks DEF ObjectOf
  <2>4. CASE m \in _prepare_request(hdrs, r, u)
    BY <1>2, <2>1, <2>2, <2>3, <2>4, PrepareEffects
  <2>5. CASE \E f \in {"content-type", "content-length", "accept"} : m = Mark(f, r)
    BY <2>2, <2>5 DEF Fields
  <2> QED  BY <1>5, <2>4, <2>5, DecoratedEffects
<1>6. ASSUME NEW p \in Owners, NEW m \in heap'[p] PROVE MayHold(m, p)'
  BY <1>2, <1>4, <1>5, <1>6 DEF MarksInv, Holdings
<1>7. ASSUME NEW q \in Requests, NEW m \in sent'[q] PROVE MayHold(m, q)'
  BY <1>1, <1>4, <1>7 DEF MarksInv, Holdings
<1> QED  BY <1>3, <1>6, <1>7 DEF Holdings

LEMMA InitMarks == Init => MarksInv
<1> SUFFICES ASSUME Init PROVE Objects /\ Holdings
  BY InitType DEF MarksInv
<1>1. Objects  BY DEF Init, Objects
<1>2. \A o \in Owners : \A m : m \in heap[o] => o = Config /\ m = Mark("user-agent", Config)
  BY DEF Init
<1>3. MayHold(Mark("user-agent", Config), Config)
  BY ClientAssumption DEF MayHold, Mark, Fields, ClientAssumption
<1> QED  BY <1>1, <1>2, <1>3 DEF Init, Holdings

LEMMA NextMarks == MarksInv /\ [Next]_vars => MarksInv'
<1> SUFFICES ASSUME MarksInv, [Next]_vars PROVE Objects' /\ Holdings'
  BY NextType DEF MarksInv
<1>1. CASE UNCHANGED vars
  BY <1>1 DEF vars, MarksInv, Objects, Holdings, MayHold, Headerless, Lends, Covers,
         ObjectOf
<1> QED  BY <1>1, SendMarks, MakeMarks DEF Next

LEMMA MarksInvariant == Spec => []MarksInv
<1> QED  BY InitMarks, NextMarks, PTL DEF Spec

\* Whatever requests are made and sent, in any order and number: headers of a
\* request that had some reach no other (_client.py:293).
THEOREM HeadersStayApart == Spec => []OnlyHeaderlessLeak
<1>1. MarksInv => OnlyHeaderlessLeak
  BY DEF MarksInv, Holdings, MayHold, OnlyHeaderlessLeak
<1> QED  BY <1>1, MarksInvariant, PTL

\* However the objects are shared, no secure cookie is sent over http, and one with a
\* path is sent outside of it only after a request without headers of its own was
\* prepared for a URL inside (_client.py:287-307, _cookies.py:19-30).
THEOREM CookiesInScope == Spec => []CookieScope
<1>1. MarksInv => CookieScope
  <2> SUFFICES ASSUME MarksInv, NEW r \in Requests, NEW c \in Cookies, Has(sent[r], c)
               PROVE  /\ ~Jar[c].secure
                      /\ \/ Covers(c, url[r])
                         \/ \E q \in Requests \ {r} : Headerless(q) /\ Covers(c, url[q])
    BY DEF CookieScope
  <2>1. PICK m \in sent[r] : m.field = c  BY DEF Has
  <2>2. MayHold(m, r)  BY DEF MarksInv, Holdings
  <2>3. m.by \in Requests /\ Lends(c, url[m.by])  BY <2>1, <2>2 DEF MayHold
  <2>4. m.by = r \/ Headerless(m.by)
    BY <2>2, <2>3, ClientAssumption DEF MayHold, ClientAssumption
  <2> QED  BY <2>3, <2>4 DEF Lends
<1> QED  BY <1>1, MarksInvariant, PTL

-----------------------------------------------------------------------------
(* The length of the body that a request declares *)

Lengths == \A o \in Owners : \A m \in heap[o] :
              m.field = "content-length" => m.by \in Requests /\ kind[m.by] = "sized"

\* A sized body of a request with headers of its own is declared by itself.
OwnLength == \A r \in Requests : kind[r] = "sized" /\ own[r] # {} =>
                \A m \in heap[r] : m.field = "content-length" => m.by = r

\* Until it is sent, a body can be read, and is not misframed.
Unsent == \A r \in Requests :
             /\ kind[r] = "sized" /\ sends[r] = 0 => r \in left
             /\ kind[r] = "none" => r \notin misframed

FramingInv == MarksInv /\ Lengths /\ OwnLength /\ Unsent /\ MisframedOnlyByLeak

\* What the exceptions to the rule are, once they are, they stay.
LEMMA StillFramed ==
    ASSUME FramingInv,
           \A q \in Requests : kind[q] # "none" => kind'[q] = kind[q] /\ own'[q] = own[q],
           \A q \in Requests : sends[q] > 1 => sends'[q] > 1,
           NEW r \in misframed
    PROVE  \/ sends'[r] > 1
           \/ /\ \E q \in Requests \ {r} : Headerless(q)' /\ kind'[q] = "sized"
              /\ kind'[r] = "sized" => own'[r] = {}
<1>1. r \in Requests  BY DEF FramingInv, MarksInv, TypeOK
<1>2. kind[r] # "none"  BY <1>1 DEF FramingInv, Unsent
<1> QED  BY <1>1, <1>2 DEF FramingInv, MisframedOnlyByLeak, Headerless

LEMMA SendFraming == ASSUME FramingInv, NEW r \in Requests, Send(r)
                     PROVE  Lengths' /\ OwnLength' /\ Unsent' /\ MisframedOnlyByLeak'
<1> DEFINE h == Completed(heap[obj[r]], r)
<1>1. /\ heap \in [Owners -> SUBSET Marks] /\ obj[r] \in Owners /\ kind[r] # "none"
      /\ UNCHANGED <<obj, kind, own, url>>
      /\ heap' = [heap EXCEPT ![obj[r]] = h]
      /\ sends \in [Requests -> 0 .. MaxSends] /\ sends' = [sends EXCEPT ![r] = @ + 1]
      /\ left' = left \ {r} /\ left \subseteq Requests
      /\ misframed' = IF Misframes(h, r) THEN misframed \cup {r} ELSE misframed
  BY DEF FramingInv, MarksInv, TypeOK, Send, ReadOnce
<1>2. \A m \in h : m.field = "content-length" => m \in heap[obj[r]]
  BY CompletedEffects DEF Mark
<1>3. Lengths'  BY <1>1, <1>2 DEF FramingInv, Lengths
<1>4. \A o \in Owners : \A m \in heap'[o] : m.field = "content-length" => m \in heap[o]
  BY <1>1, <1>2
<1>5. OwnLength'  BY <1>1, <1>4 DEF FramingInv, OwnLength, Owners
<1>6. sends'[r] = sends[r] + 1 /\ sends[r] \in Nat
      /\ \A q \in Requests \ {r} : sends'[q] = sends[q]
  BY <1>1, ClientAssumption DEF ClientAssumption
<1>7. Unsent'  BY <1>1, <1>6 DEF FramingInv, Unsent
<1>8. ASSUME Misframes(h, r), sends[r] = 0
      PROVE  /\ \E q \in Requests \ {r} : Headerless(q)' /\ kind'[q] = "sized"
             /\ kind'[r] = "sized" => own'[r] = {}
  <2>1. PICK m \in h : m.field = "content-length" /\ (m.by # r \/ r \notin left)
    BY <1>8 DEF Misframes
  <2>2. m \in heap[obj[r]] /\ m.by \in Requests /\ kind[m.by] = "sized"
    BY <1>1, <1>2, <2>1 DEF FramingInv, Lengths
  <2>3. m.by # r  BY <1>8, <2>1, <2>2 DEF FramingInv, Unsent
  <2>4. MayHold(m, obj[r]) /\ obj[r] = ObjectOf(own[r], r)
    BY <1>1, <2>2 DEF FramingInv, MarksInv, Holdings, Objects
  <2>5. Headerless(m.by)
    BY <2>2, <2>3, <2>4, ClientAssumption DEF MayHold, ObjectOf, ClientAssumption
  <2>6. kind[r] = "sized" => own[r] = {}
    BY <2>1, <2>2, <2>3, <2>4 DEF FramingInv, OwnLength, ObjectOf
  <2> QED  BY <1>1, <2>2, <2>3, <2>5, <2>6 DEF Headerless
<1>9. ASSUME NEW q \in misframed'
      PROVE  \/ sends'[q] > 1
             \/ /\ \E p \in Requests \ {q} : Headerless(p)' /\ kind'[p] = "sized"
                /\ kind'[q] = "sized" => own'[q] = {}
  <2>1. CASE q \in misframed
    <3>1. \A p \in Requests : sends[p] > 1 => sends'[p] > 1  BY <1>6
    <3> QED  BY <1>1, <2>1, <3>1, StillFramed
  <2>2. CASE q = r /\ Misframes(h, r)  BY <1>6, <1>8, <2>2
  <2> QED  BY <1>1, <1>9, <2>1, <2>2
<1>10. MisframedOnlyByLeak'  BY <1>9 DEF MisframedOnlyByLeak, Headerless
<1> QED  BY <1>3, <1>5, <1>7, <1>10

LEMMA MakeFraming ==
    ASSUME \A hdrs \in OwnHeaders : "content-length" \notin hdrs,
           FramingInv, NEW r \in Requests, NEW k \in Kinds, NEW hdrs \in OwnHeaders,
           NEW u \in Urls, Make(r, k, hdrs, u)
    PROVE  Lengths' /\ OwnLength' /\ Unsent' /\ MisframedOnlyByLeak'
<1> DEFINE o == ObjectOf(hdrs, r)
           h == Decorated(_prepare_request(hdrs, r, u), k, r)
<1>1. /\ heap' = [heap EXCEPT ![o] = h] /\ kind' = [kind EXCEPT ![r] = k]
      /\ own' = [own EXCEPT ![r] = hdrs] /\ kind[r] = "none"
      /\ left' = IF k \in {"sized", "stream"} THEN left \cup {r} ELSE left
      /\ UNCHANGED <<sends, misframed>>
  BY DEF Make
<1>2. /\ o \in Owners /\ Config \in Owners /\ (o = r \/ (o = Config /\ hdrs = {}))
      /\ kind'[r] = k /\ k # "none" /\ own'[r] = hdrs
      /\ \A q \in Requests \ {r} : kind'[q] = kind[q] /\ own'[q] = own[q]
      /\ heap'[o] = h /\ \A p \in Owners \ {o} : heap'[p] = heap[p]
  BY <1>1, ClientAssumption
     DEF FramingInv, MarksInv, TypeOK, ObjectOf, Owners, Kinds, ClientAssumption
<1>3. ASSUME NEW m \in h, m.field = "content-length"
      PROVE  m \in heap[Config] \/ (m.by = r /\ k = "sized")
  <2>1. CASE m \in _prepare_request(hdrs, r, u)
    <3>1. \A f \in hdrs : m # Mark(f, r)  BY <1>3 DEF Mark
    <3>2. \A c \in Cookies : m # Mark(c, r)
      BY <1>3, ClientAssumption DEF Mark, Fields, ClientAssumption
    <3> QED  BY <2>1, <3>1, <3>2, PrepareEffects
  <2>2. CASE \E f \in {"content-type", "content-length", "accept"} :
                m = Mark(f, r) /\ (f = "content-length" => k = "sized")
    BY <1>3, <2>2 DEF Mark
  <2> QED  BY <1>3, <2>1, <2>2, DecoratedEffects
<1>4. Lengths'
  <2> SUFFICES ASSUME NEW p \in Owners, NEW m \in heap'[p], m.field = "content-length"
               PROVE  m.by \in Requests /\ kind'[m.by] = "sized"
    BY DEF Lengths
  <2>1. CASE m \in heap[p] \/ m \in heap[Config]
    BY <1>1, <1>2, <2>1 DEF FramingInv, Lengths
  <2> QED  BY <1>2, <1>3, <2>1
<1>5. OwnLength'
  <2> SUFFICES ASSUME NEW q \in Requests, kind'[q] = "sized", own'[q] # {},
                      NEW m \in heap'[q], m.field = "content-length"
               PROVE  m.by = q
    BY DEF OwnLength
  <2>1. CASE q = r
    <3>1. m \in h  BY <1>2, <2>1
    <3> QED  BY <1>2, <2>1, <3>1, DecoratedEffects DEF Mark
  <2>2. CASE q # r
    <3>1. m \in heap[q]  BY <1>2, <2>2, ClientAssumption DEF Owners, ClientAssumption
    <3> QED  BY <1>2, <2>2, <3>1 DEF FramingInv, OwnLength
  <2> QED  BY <2>1, <2>2
<1>6. Unsent'  BY <1>1, <1>2 DEF FramingInv, Unsent
<1>7. MisframedOnlyByLeak'
  <2>1. \A q \in Requests : kind[q] # "none" => kind'[q] = kind[q] /\ own'[q] = own[q]
    BY <1>1, <1>2
  <2>2. \A q \in misframed :
          \/ sends'[q] > 1
          \/ /\ \E p \in Requests \ {q} : Headerless(p)' /\ kind'[p] = "sized"
             /\ kind'[q] = "sized" => own'[q] = {}
    BY <1>1, <2>1, StillFramed
  <2> QED  BY <1>1, <2>2 DEF MisframedOnlyByLeak, Headerless
<1> QED  BY <1>4, <1>5, <1>6, <1>7

LEMMA InitFraming == Init => FramingInv
<1> SUFFICES ASSUME Init PROVE Lengths /\ OwnLength /\ Unsent /\ MisframedOnlyByLeak
  BY InitMarks DEF FramingInv
<1>1. \A o \in Owners : \A m : m \in heap[o] => m = Mark("user-agent", Config)
  BY DEF Init
<1>2. Lengths  BY <1>1 DEF Lengths, Mark
<1> QED  BY <1>2 DEF Init, OwnLength, Unsent, MisframedOnlyByLeak

\* If no request brings a content-length of its own: a declared length that is
\* not the body's comes from sending a request again, or from the object that
\* requests without headers share (_client.py:293, 330-340).
THEOREM LengthsMatch ==
    ASSUME \A hdrs \in OwnHeaders : "content-length" \notin hdrs
    PROVE  Spec => []MisframedOnlyByLeak
<1>1. Init => FramingInv  BY InitFraming
<1>2. FramingInv /\ [Next]_vars => FramingInv'
  <2> SUFFICES ASSUME FramingInv, [Next]_vars
               PROVE  Lengths' /\ OwnLength' /\ Unsent' /\ MisframedOnlyByLeak'
    BY NextMarks DEF FramingInv
  <2>1. CASE UNCHANGED vars
    BY <2>1 DEF vars, FramingInv, Lengths, OwnLength, Unsent, MisframedOnlyByLeak, Headerless
  <2> QED  BY <2>1, SendFraming, MakeFraming DEF Next
<1>3. FramingInv => MisframedOnlyByLeak  BY DEF FramingInv
<1> QED  BY <1>1, <1>2, <1>3, PTL DEF Spec
=============================================================================
