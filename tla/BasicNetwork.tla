---------------------------- MODULE BasicNetwork ----------------------------
(***************************************************************************)
(* HTTP exchanges (com.android.volley.toolbox.BasicNetwork) of one network *)
(* thread: send, look at the status, read the body into pooled buffers,    *)
(* try again as the request's RetryPolicy allows.  A step ends at each     *)
(* call of the socket and at each lock of the pool, where the exchanges of *)
(* other threads get and return buffers of their own.                      *)
(***************************************************************************)
EXTENDS ByteArrayPool

CONSTANTS
    MaxRetries,     \* the values of mMaxNumRetries
    DefaultSize,    \* DEFAULT_SIZE of a stream's buffer
    ReadSize,       \* the size of the read buffer
    MaxBody,        \* bound: the longest body
    MaxOthers,      \* bound: buffers with other threads
    None

VARIABLES
    pc,         \* where the thread is
    limit,      \* mMaxNumRetries of the request it performs
    attempts,   \* how often the request was sent
    retries,    \* its mCurrentRetryCount
    logUrl,     \* whether getUrl() ends with api/v1/behaviour/logbehaviour
    stream,     \* the buffer of the PoolingByteArrayOutputStream
    spare,      \* the buffer the stream has grown out of
    chunk,      \* the read buffer
    count,      \* the bytes written to the stream
    status,     \* the class of the response's status code
    thrown,     \* what reading the body threw
    outcome     \* how the exchange ended, None while it goes on

policy == <<limit, attempts, retries, logUrl>>
body   == <<stream, spare, chunk, count>>
vars   == <<pool, pc, policy, body, status, thrown, outcome>>

\* The kinds of status codes the code tells apart, besides 304: 2xx, 301 or
\* 302, 401 or 403, any other.
Statuses == {"ok", "moved", "denied", "other"}
Outcomes == {"response", "notModified", "noConnection", "noAuth", "timeout",
             "auth", "redirect", "server", "network", "exception"}

ASSUME NetworkAssumption ==
    /\ MaxRetries \subseteq Nat
    /\ {DefaultSize, ReadSize, MaxBody} \subseteq Nat \ {0}
    /\ MaxOthers \in Nat
    /\ None \notin Buffers /\ None \notin Outcomes
    /\ MaxBuffers >= SizeLimit \div Min({DefaultSize, ReadSize}) + 3 + MaxOthers

TypeOK ==
    /\ PoolTypeOK
    /\ pc \in {"idle", "send", "open", "content", "read", "grow", "swap",
               "returnChunk", "close", "check"}
    /\ limit \in MaxRetries \cup {0} /\ attempts \in Nat /\ retries \in Nat /\ logUrl \in BOOLEAN
    /\ {stream, spare, chunk} \subseteq Buffers \cup {None}
    /\ count \in 0..MaxBody
    /\ status \in Statuses
    /\ thrown \in {"nothing", "timeout", "io", "server", "runtime"}
    /\ outcome \in Outcomes \cup {None}

Init ==
    /\ PoolInit
    /\ pc = "idle"
    /\ limit = 0 /\ attempts = 0 /\ retries = 0 /\ logUrl = FALSE
    /\ stream = None /\ spare = None /\ chunk = None /\ count = 0
    /\ status = "ok" /\ thrown = "nothing" /\ outcome = None

\* performRequest() is called with a request that was never performed before.
Begin ==
    /\ pc = "idle" /\ pc' = "send"
    /\ limit' \in MaxRetries /\ attempts' = 0 /\ retries' = 0 /\ logUrl' \in BOOLEAN
    /\ status' = "ok" /\ outcome' = None
    /\ UNCHANGED <<pool, body, thrown>>

\* performRequest() returns or throws.
End(how) == pc' = "idle" /\ outcome' = how /\ UNCHANGED retries

GoTo(label) == pc' = label /\ UNCHANGED <<outcome, retries>>
-----------------------------------------------------------------------------
(* Sending and retrying.                                                   *)

\* Faulty variant: one more attempt than allowed.
RetryOnceMore(error) ==
    /\ retries' = retries + 1
    /\ IF retries <= limit
         THEN pc' = "send" /\ UNCHANGED outcome
         ELSE pc' = "idle" /\ outcome' = error

\* attemptRetryOnException() and DefaultRetryPolicy.retry(): the count first.
Retry(error) ==
    /\ retries' = retries + 1
    /\ IF retries' <= limit
         THEN pc' = "send" /\ UNCHANGED outcome
         ELSE pc' = "idle" /\ outcome' = error

Sent == /\ pc = "send"
        /\ attempts' = attempts + 1
        /\ thrown' = "nothing"
        /\ UNCHANGED <<pool, limit, body>>

\* The stack throws: a timeout, no connection, an AuthFailureError of its own
\* (from the headers or the body of the request), which is not retried, or a
\* malformed URL, which becomes a RuntimeException.
SendFails ==
    /\ Sent
    /\ Retry("timeout") \/ \E how \in {"noConnection", "noAuth", "exception"} : End(how)
    /\ UNCHANGED <<logUrl, status>>

\* Status 304: the exchange ends with the data of the entry, if there is one,
\* after the headers of the response are put into those of the entry, which
\* throws when they are the immutable empty map of DiskBasedCache.
NotModified ==
    /\ Sent
    /\ \E how \in {"notModified", "exception"} : End(how)
    /\ UNCHANGED <<logUrl, status>>

\* Any other response, with or without a body.  A redirect changes the URL to
\* any other, or back to the first when it does not say where to go.
Respond(s, entity) ==
    /\ Sent
    /\ status' = s
    /\ logUrl' \in IF s = "moved" THEN BOOLEAN ELSE {logUrl}
    /\ GoTo(IF entity THEN "open" ELSE "check")
-----------------------------------------------------------------------------
(* entityToBytes() and PoolingByteArrayOutputStream.                       *)

\* A buffer for the length announced (less than DefaultSize if it is not known).
Open(announced) ==
    LET len == Max({announced, DefaultSize}) IN
    /\ pc = "open"
    /\ GetBuf(len) /\ stream' = BufferFor(len)
    /\ GoTo("content")
    /\ UNCHANGED <<policy, spare, chunk, count, status, thrown>>

\* getContent() returns null (ServerError) or throws: an IOException, or, for the
\* null content HurlStack may set, an IllegalStateException.
ContentFails ==
    /\ pc = "content"
    /\ thrown' \in {"server", "io", "runtime"}
    /\ GoTo("returnChunk")
    /\ UNCHANGED <<pool, policy, body, status>>

GetChunk ==
    /\ pc = "content"
    /\ GetBuf(ReadSize) /\ chunk' = BufferFor(ReadSize)
    /\ GoTo("read")
    /\ UNCHANGED <<policy, stream, spare, count, status, thrown>>

\* Some bytes arrive; they fit, or the stream has to grow first.
Read(n) ==
    /\ pc = "read"
    /\ n <= length[chunk] /\ count + n <= MaxBody
    /\ count' = count + n
    /\ GoTo(IF count' <= length[stream] THEN "read" ELSE "grow")
    /\ UNCHANGED <<pool, policy, stream, spare, chunk, status, thrown>>

\* expand(): a buffer of twice the size that is needed ...
Grow ==
    /\ pc = "grow"
    /\ GetBuf(2 * count) /\ stream' = BufferFor(2 * count)
    /\ spare' = stream
    /\ GoTo("swap")
    /\ UNCHANGED <<policy, chunk, count, status, thrown>>

\* Faulty variant: expand() does not stop when the buffer is large enough.
SwapGrowsAgain ==
    /\ pc = "swap"
    /\ ReturnBuf(spare) /\ spare' = None
    /\ GoTo("grow")
    /\ UNCHANGED <<policy, stream, chunk, count, status, thrown>>

\* ... then the old one goes back.
Swap ==
    /\ pc = "swap"
    /\ ReturnBuf(spare) /\ spare' = None
    /\ GoTo("read")
    /\ UNCHANGED <<policy, stream, chunk, count, status, thrown>>

\* The body ends, or reading it times out or fails.
ReadEnds ==
    /\ pc = "read"
    /\ thrown' \in {"nothing", "timeout", "io"}
    /\ GoTo("returnChunk")
    /\ UNCHANGED <<pool, policy, body, status>>

\* Faulty variant: the read buffer is only returned when the body was read.
ReturnChunkIfRead ==
    /\ pc = "returnChunk"
    /\ IF thrown # "nothing" THEN UNCHANGED pool ELSE ReturnBuf(chunk)
    /\ chunk' = None
    /\ GoTo("close")
    /\ UNCHANGED <<policy, stream, spare, count, status, thrown>>

\* finally: the read buffer goes back, null if there was none yet.
ReturnChunk ==
    /\ pc = "returnChunk"
    /\ IF chunk = None THEN UNCHANGED pool ELSE ReturnBuf(chunk)
    /\ chunk' = None
    /\ GoTo("close")
    /\ UNCHANGED <<policy, stream, spare, count, status, thrown>>

\* What becomes of the exchange when the body was read, or reading it failed.
AfterBody ==
    \/ thrown = "nothing" /\ GoTo("check")
    \/ thrown = "timeout" /\ Retry("timeout")
    \/ thrown = "io"      /\ End("network")
    \/ thrown = "server"  /\ End("server")
    \/ thrown = "runtime" /\ End("exception")

\* Faulty variant: close() keeps the buffer.
CloseKeeps ==
    /\ pc = "close"
    /\ ReturnBuf(stream) /\ count' = 0
    /\ AfterBody
    /\ UNCHANGED <<limit, attempts, logUrl, stream, spare, chunk, status, thrown>>

\* Faulty variant: what was read before an IOException is taken for the body.
CloseSwallows ==
    /\ pc = "close"
    /\ ReturnBuf(stream) /\ stream' = None /\ count' = 0
    /\ IF thrown = "io" THEN GoTo("check") ELSE AfterBody
    /\ UNCHANGED <<limit, attempts, logUrl, spare, chunk, status, thrown>>

\* finally: close() returns the stream's buffer and forgets it, so that
\* finalize() has nothing to return (it would be a step that changes nothing).
Close ==
    /\ pc = "close"
    /\ ReturnBuf(stream) /\ stream' = None /\ count' = 0
    /\ AfterBody
    /\ UNCHANGED <<limit, attempts, logUrl, spare, chunk, status, thrown>>
-----------------------------------------------------------------------------
(* What comes of it.                                                       *)

\* The body is there: the status decides, except for the logging URL.
Check ==
    /\ pc = "check"
    /\ IF status = "ok" \/ logUrl
         THEN End("response")
         ELSE \/ status = "moved"  /\ Retry("redirect")
              \/ status = "denied" /\ Retry("auth")
              \/ status = "other"  /\ End("server")
    /\ UNCHANGED <<pool, limit, attempts, logUrl, body, status, thrown>>
-----------------------------------------------------------------------------
(* The other threads, which perform exchanges with the same pool.          *)

Mine   == {stream, spare, chunk} \ {None}
Others == lent \ Mine

OtherGets ==
    /\ Cardinality(Others) < MaxOthers
    /\ \E len \in {DefaultSize, ReadSize} : GetBuf(len)
    /\ UNCHANGED <<pc, policy, body, status, thrown, outcome>>

OtherReturns ==
    /\ \E b \in Others : ReturnBuf(b)
    /\ UNCHANGED <<pc, policy, body, status, thrown, outcome>>

Exchange ==
    \/ SendFails \/ NotModified
    \/ \E s \in Statuses, entity \in BOOLEAN : Respond(s, entity)
    \/ \E announced \in {0, MaxBody} : Open(announced)
    \/ ContentFails \/ GetChunk
    \/ \E n \in 1..MaxBody : Read(n)
    \/ Grow \/ Swap \/ ReadEnds
    \/ ReturnChunk \/ Close \/ Check

Next == Exchange \/ Begin \/ OtherGets \/ OtherReturns

Spec == Init /\ [][Next]_vars

\* An exchange goes on: the sockets have timeouts.
FairSpec == Spec /\ WF_vars(Exchange)
-----------------------------------------------------------------------------
(* Properties.                                                             *)

\* Every buffer in use here has one use, and is not in the pool meanwhile,
\* where another thread would get it: two bodies would be mixed.
OneOwner ==
    /\ LentIsGone
    /\ Mine \subseteq lent
    /\ stream # None => stream \notin {spare, chunk}
    /\ spare # None => spare # chunk

\* However an exchange ends, it has given back every buffer it got.
NothingKept == pc = "idle" => Mine = {} /\ Cardinality(lent) <= MaxOthers

\* A request is sent once and then as often as its policy allows, and an error
\* that could be retried only comes when the attempts are used up.
AttemptsUsedUp ==
    /\ pc # "idle" => attempts <= limit + 1
    /\ outcome \in {"timeout", "auth", "redirect"} => attempts = limit + 1

\* What is delivered as a response came whole in the last attempt (its stream
\* ended without an exception; lengths are not compared), with a status of
\* success; only the logging URL does not mind the status.
ResponseIsGood ==
    outcome = "response" => thrown = "nothing" /\ (status = "ok" \/ logUrl)

\* Every exchange ends.
EveryExchangeEnds == pc # "idle" ~> pc = "idle"
=============================================================================
