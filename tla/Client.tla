------------------------------- MODULE Client -------------------------------
(***************************************************************************)
(* HTTPClient.request(), connect_sse(), connect_ws() and _prepare_request() *)
(* (_client.py), with the cookies (_cookies.py), up to what the connection *)
(* sends.  A request is prepared at once and sent when it is awaited; its  *)
(* headers are a mutable object, which is the client's own when it brought *)
(* none.  An object is the set of its marks: a field, and who put it there. *)
(***************************************************************************)
EXTENDS Naturals, Sequences, FiniteSets

CONSTANTS Requests,
          Config,      \* who put the headers that the client was made with
          Cookies,     \* the names of the client's cookies
          Jar,         \* and each one's [path, domain, secure]
          Urls,        \* where requests go: [scheme, host, path], a path being a
                       \* sequence of pieces
          OwnHeaders,  \* what a request may bring: sets of fields
          None,        \* no path, domain, host or scheme
          MaxSends     \* bound: how often one HTTPRequest is awaited

Kinds  == {"get", "sized", "stream", "sse", "ws"}
Fields == {"user-agent", "content-length", "content-type", "host", "accept",
           "transfer-encoding", "upgrade", "x"}

ASSUME ClientAssumption ==
    /\ Config \notin Requests
    /\ Cookies \cap Fields = {}        \* cookies are named apart from fields
    /\ \A c \in Cookies : Jar[c].secure \in BOOLEAN
    /\ \A u \in Urls : u = [scheme |-> u.scheme, host |-> u.host, path |-> u.path]
    /\ None # "https"
    /\ OwnHeaders \subseteq SUBSET Fields
    /\ MaxSends \in Nat

VARIABLES
    heap,     \* the header objects: self.headers, and one per request
    obj,      \* the one that each request uses
    kind,     \* what each request is; "none": not made
    own,      \* the headers that it brought
    url,      \* where it goes
    left,     \* requests whose body has not been read
    sends,    \* how often it was sent
    sent,     \* the headers it was last sent with
    misframed \* requests that were sent with another length than the body's

vars == <<heap, obj, kind, own, url, left, sends, sent, misframed>>

Owners == Requests \cup {Config}
Mark(f, r) == [field |-> f, by |-> r]
Marks == [field : Fields \cup Cookies, by : Owners]
Has(h, f) == \E m \in h : m.field = f

TypeOK ==
    /\ heap \in [Owners -> SUBSET Marks]
    /\ obj \in [Requests -> Owners]
    /\ kind \in [Requests -> Kinds \cup {"none"}]
    /\ own \in [Requests -> OwnHeaders \cup {{}}]
    /\ url \in [Requests -> Urls \cup {None}]
    /\ \A r \in Requests : kind[r] # "none" => url[r] \in Urls
    /\ left \subseteq Requests /\ misframed \subseteq Requests
    /\ sends \in [Requests -> 0 .. MaxSends]
    /\ sent \in [Requests -> SUBSET Marks]

Init ==
    /\ heap = [o \in Owners |->
                 IF o = Config THEN {Mark("user-agent", Config)} ELSE {}]
    /\ obj = [r \in Requests |-> r]
    /\ kind = [r \in Requests |-> "none"] /\ own = [r \in Requests |-> {}]
    /\ url = [r \in Requests |-> None]
    /\ left = {} /\ sends = [r \in Requests |-> 0]
    /\ sent = [r \in Requests |-> {}] /\ misframed = {}

\* CIMultiDict: setdefault(), and assignment.
SetDefault(h, f, r) == IF Has(h, f) THEN h ELSE h \cup {Mark(f, r)}
Assign(h, f, r)     == {m \in h : m.field # f} \cup {Mark(f, r)}

-----------------------------------------------------------------------------
(* Preparing a request *)

\* str.startswith().
startswith(p, q) == Len(q) <= Len(p) /\ SubSeq(p, 1, Len(q)) = q

\* A path is a prefix, of any kind.  A domain restricts nothing: all() is asked of pairs, which are true.  Nor
\* does has_expired(): it compares a timestamp with the event loop's clock.
is_valid_for(c, u) ==
    /\ Jar[c].path # None => startswith(u.path, Jar[c].path)
    /\ Jar[c].secure => u.scheme = "https"

AskedWhole(u) == u                                                  \* mutant
\* URL.relative(): what is_valid_for() is asked about has lost scheme and host, as
\* _is_proxy is never set.
relative(u) == [u EXCEPT !.scheme = None, !.host = None]

AddCookies(h, r, u) ==
    h \cup {Mark(c, r) : c \in {d \in Cookies : is_valid_for(d, relative(u))}}

SharedHeaders(hdrs, r) == Config                                    \* mutant
NoHeaders(hdrs, r) == IF hdrs = {} THEN None ELSE r                 \* mutant
\* A request with headers of its own gets a copy of the client's, to which they
\* are added; one without gets self.headers itself.
ObjectOf(hdrs, r) == IF hdrs = {} THEN Config ELSE r

_prepare_request(hdrs, r, u) ==
    AddCookies(heap[Config] \cup {Mark(f, r) : f \in hdrs}, r, u)

\* What request() and connect_sse() add.
SizedOnce(h, r) ==                                                  \* mutant
    SetDefault(SetDefault(h, "content-type", r), "content-length", r)
AddSized(h, r) == Assign(SetDefault(h, "content-type", r), "content-length", r)
Decorated(h, k, r) ==
    CASE k = "sized"  -> AddSized(h, r)
      [] k = "sse"    -> Assign(h, "accept", r)
      [] OTHER        -> h

Make(r, k, hdrs, u) ==
    LET o == ObjectOf(hdrs, r)
    IN  /\ kind[r] = "none"
        /\ kind' = [kind EXCEPT ![r] = k]
        /\ own'  = [own EXCEPT ![r] = hdrs]
        /\ url'  = [url EXCEPT ![r] = u]
        /\ obj'  = [obj EXCEPT ![r] = o]
        /\ heap' = [heap EXCEPT ![o] =
                      Decorated(_prepare_request(hdrs, r, u), k, r)]
        /\ left' = IF k \in {"sized", "stream"} THEN left \cup {r} ELSE left
        /\ UNCHANGED <<sends, sent, misframed>>

-----------------------------------------------------------------------------
(* Sending it over HTTP/1.1 (_http11.py:94-110, 144-152) *)

\* connect_ws() updates the headers, _request() completes them.
Completed(h, r) ==
    LET g == IF kind[r] = "ws" THEN Assign(h, "upgrade", r) ELSE h
        chunked == kind[r] \in {"sized", "stream"} /\ ~Has(g, "content-length")
    IN  SetDefault(IF chunked THEN Assign(g, "transfer-encoding", r) ELSE g,
                   "host", r)

\* The length that is declared is not that of what is left of the body: h11
\* raises LocalProtocolError; HTTP/2 sends as much of the body as it says.
Misframes(h, r) ==
    \E m \in h : m.field = "content-length" /\ (m.by # r \/ r \notin left)

\* StaticStream hands out its data once; so does what the caller brought.
ReadOnce(r) == left \ {r}

Send(r) ==
    LET h == Completed(heap[obj[r]], r)
    IN  /\ kind[r] # "none" /\ sends[r] < MaxSends
        /\ heap' = [heap EXCEPT ![obj[r]] = h]
        /\ sent' = [sent EXCEPT ![r] = h]
        /\ misframed' = IF Misframes(h, r) THEN misframed \cup {r}
                        ELSE misframed
        /\ left' = ReadOnce(r)
        /\ sends' = [sends EXCEPT ![r] = @ + 1]
        /\ UNCHANGED <<obj, kind, own, url>>

-----------------------------------------------------------------------------

Next == \E r \in Requests :
            \/ Send(r)
            \/ \E k \in Kinds, hdrs \in OwnHeaders, u \in Urls :
                  Make(r, k, hdrs, u)

Spec == Init /\ [][Next]_vars

-----------------------------------------------------------------------------
(* Properties *)

Headerless(r) == kind[r] # "none" /\ own[r] = {}

\* What a request is sent with was put there by itself, by the client's
\* configuration, or by a request that had no headers of its own (293): however
\* requests are prepared and sent in between, headers of one that had some
\* reach no other.
OnlyHeaderlessLeak ==
    \A r \in Requests : \A m \in sent[r] :
        m.by \in {r, Config} \/ Headerless(m.by)

\* The declared length is that of the body, unless the HTTPRequest is awaited
\* again, when its body has been read, or another request without headers of
\* its own left its length in self.headers; a body with a length, sent with
\* headers of its own, escapes that too (330-340).
MisframedOnlyByLeak ==
    \A r \in misframed :
        \/ sends[r] > 1
        \/ /\ \E q \in Requests \ {r} : Headerless(q) /\ kind[q] = "sized"
           /\ kind[r] = "sized" => own[r] = {}

\* A cookie that is for https is not sent over http, and one that is for a path is
\* not sent outside of it, by the URL of the request that it is sent with: neither
\* when it is prepared, nor when it is sent, after others have been prepared with
\* the same self.headers (287-307).  Others put the cookies of their own paths
\* there, if they brought no headers: that is the exception, and for it the scheme
\* is right only because is_valid_for() never sees one.
Covers(c, u) == Jar[c].path = None \/ startswith(u.path, Jar[c].path)
CookieScope ==
    \A r \in Requests, c \in Cookies : Has(sent[r], c) =>
        /\ Jar[c].secure => url[r].scheme = "https"
        /\ \/ Covers(c, url[r])
           \/ \E q \in Requests \ {r} : Headerless(q) /\ Covers(c, url[q])
=============================================================================
