---------------------------- MODULE RequestQueue ----------------------------
(***************************************************************************)
(* The dispatch core of the HTTP layer (package com.android.volley):       *)
(* RequestQueue, CacheDispatcher, NetworkDispatcher, ExecutorDelivery and  *)
(* the life cycle of a Request.  Callers add requests from any thread; one *)
(* cache thread and PoolSize network threads take them from two priority   *)
(* queues; the main thread runs the delivery runnables posted to its       *)
(* looper.  One action is one step of one thread between two points where  *)
(* another thread can be seen: a queue operation, a synchronized block, a  *)
(* read of a shared flag, a callback.                                      *)
(***************************************************************************)
EXTENDS Naturals, Sequences, FiniteSets

CONSTANTS
    Requests,       \* the request objects callers may add, each at most once
    Keys,           \* cache keys
    KeyOf,          \* Request.getCacheKey()
    TagOf,          \* Request.getTag()
    Priority,       \* Request.getPriority(), as its ordinal
    Cacheable,      \* the requests on which setShouldCache(true) was called
    Cancellable,    \* the requests callers may cancel (a bound of the model)
    CacheThreads,   \* the CacheDispatcher threads start() may ever create
    NetThreads,     \* the NetworkDispatcher threads start() may ever create
    PoolSize,       \* mDispatchers.length
    Main,           \* the main (UI) thread
    NoRequest,
    StopAllowed,    \* whether callers use stop()
    CacheParses,    \* what parseNetworkResponse may do with cached data: "result",
                    \* "error" (of the Response) or "exception"
    OffMainCancel   \* whether cancel() is called off the main thread

Dispatchers == CacheThreads \cup NetThreads
Threads == Dispatchers \cup {Main}

ASSUME RequestAssumption ==
    /\ KeyOf \in [Requests -> Keys]
    /\ Priority \in [Requests -> Nat]
    /\ Cacheable \subseteq Requests
    /\ Cancellable \subseteq Requests
    /\ NoRequest \notin Requests
    /\ DOMAIN TagOf = Requests

ASSUME ThreadAssumption ==
    /\ CacheThreads \cap NetThreads = {}
    /\ Main \notin Dispatchers
    /\ PoolSize \in Nat \ {0}
    /\ {StopAllowed, OffMainCancel} \subseteq BOOLEAN

ASSUME ParseAssumption ==
    CacheParses \subseteq {"result", "error", "exception"}

VARIABLES
    seq,            \* mSequence of each request, 0 before add()
    lastSeq,        \* mSequenceGenerator
    adding,         \* requests whose add() is between its two critical sections
    current,        \* mCurrentRequests
    keysInFlight,   \* the key set of mWaitingRequests
    waiting,        \* the queues of mWaitingRequests, {} for a null one
    cacheQueue,     \* mCacheQueue
    networkQueue,   \* mNetworkQueue
    pc,             \* where each thread is
    req,            \* the request each thread is working on
    quit,           \* mQuit and the interrupt status of each dispatcher
    looper,         \* delivery runnables posted to the main thread
    message,        \* the kind of the runnable the main thread is running
    cancelled,      \* mCanceled
    delivered,      \* mResponseDelivered
    hasEntry,       \* mCacheEntry # null
    cache,          \* freshness of the entry the Cache holds for each key
    answers,        \* callbacks each request's listeners have received
    finished        \* how often each request has been finished

tracking == <<adding, current, keysInFlight, waiting>>
queues   == <<cacheQueue, networkQueue>>
flags    == <<cancelled, delivered, hasEntry>>
threads  == <<pc, req>>
delivery == <<looper, message>>
observed == <<answers, finished>>
vars == <<seq, lastSeq, tracking, queues, threads, quit, delivery, flags,
          cache, observed>>

Freshness == {"none", "fresh", "stale", "expired"}
Provisional == {"intermediate", "intermediateError"}
Kinds == Provisional \cup {"response", "error"}
Message == [req : Requests, kind : Kinds]
-----------------------------------------------------------------------------
(* Where a request can be.                                                 *)

Staged  == {r \in Requests : r \in waiting[KeyOf[r]]}
Posted  == {looper[i].req : i \in DOMAIN looper}
Held    == {req[t] : t \in Threads} \ {NoRequest}

\* Requests a thread works on and has not begun to finish.
Working == {req[t] : t \in {u \in Threads : pc[u] \in {"taken", "deliver",
                                                      "forward", "finish"}}}

\* Requests that passed the staging area and will call finish().
InFlight == cacheQueue \cup networkQueue \cup Posted \cup Held

TypeOK ==
    /\ seq \in [Requests -> Nat]
    /\ lastSeq \in Nat
    /\ adding \subseteq Requests
    /\ current \subseteq Requests
    /\ keysInFlight \subseteq Keys
    /\ waiting \in [Keys -> SUBSET Requests]
    /\ cacheQueue \subseteq Requests
    /\ networkQueue \subseteq Requests
    /\ pc \in [Threads -> {"unborn", "take", "taken", "deliver", "forward",
                           "finish", "release", "exited", "uncaught"}]
    /\ req \in [Threads -> Requests \cup {NoRequest}]
    /\ quit \in [Dispatchers -> BOOLEAN]
    /\ looper \in Seq(Message)
    /\ message \in Kinds
    /\ cancelled \subseteq Requests
    /\ delivered \subseteq Requests
    /\ hasEntry \subseteq Requests
    /\ cache \in [Keys -> Freshness]
    /\ answers \in [Requests -> Seq(Kinds)]
    /\ finished \in [Requests -> Nat]

Init ==
    /\ seq = [r \in Requests |-> 0]
    /\ lastSeq = 0
    /\ adding = {}
    /\ current = {}
    /\ keysInFlight = {}
    /\ waiting = [k \in Keys |-> {}]
    /\ cacheQueue = {}
    /\ networkQueue = {}
    /\ pc = [t \in Threads |-> IF t = Main THEN "take" ELSE "unborn"]
    /\ req = [t \in Threads |-> NoRequest]
    /\ quit = [t \in Dispatchers |-> FALSE]
    /\ looper = <<>>
    /\ message = "response"
    /\ cancelled = {}
    /\ delivered = {}
    /\ hasEntry = {}
    /\ cache \in [Keys -> {"none", "fresh"}]
    /\ answers = [r \in Requests |-> <<>>]
    /\ finished = [r \in Requests |-> 0]
-----------------------------------------------------------------------------
(* RequestQueue: the operations of its callers.                            *)

\* stop() marks and interrupts every dispatcher thread there is.
QuitAll == quit' = [t \in Dispatchers |-> quit[t] \/ pc[t] # "unborn"]

\* start(): stop what runs, then create a cache thread and PoolSize network
\* threads.
Start ==
    \E c \in CacheThreads, pool \in SUBSET NetThreads :
        /\ Cardinality(pool) = PoolSize
        /\ \A t \in pool \cup {c} : pc[t] = "unborn"
        /\ QuitAll
        /\ pc' = [t \in Threads |-> IF t \in pool \cup {c} THEN "take" ELSE pc[t]]
        /\ UNCHANGED <<seq, lastSeq, tracking, queues, req, delivery, flags,
                       cache, observed>>

FirstStart == Start /\ \A t \in Dispatchers : pc[t] = "unborn"

Stop ==
    /\ StopAllowed
    /\ QuitAll
    /\ UNCHANGED <<seq, lastSeq, tracking, queues, threads, delivery, flags,
                   cache, observed>>

\* Faulty variant: the request never joins mCurrentRequests.
AddCurrentForgotten(r) ==
    /\ seq[r] = 0
    /\ adding' = adding \cup {r}
    /\ lastSeq' = lastSeq + 1
    /\ seq' = [seq EXCEPT ![r] = lastSeq + 1]
    /\ UNCHANGED <<current, keysInFlight, waiting, queues, threads, quit,
                   delivery, flags, cache, observed>>

\* add(), first half: the request joins mCurrentRequests and is numbered.
AddCurrent(r) ==
    /\ seq[r] = 0
    /\ current' = current \cup {r}
    /\ adding' = adding \cup {r}
    /\ lastSeq' = lastSeq + 1
    /\ seq' = [seq EXCEPT ![r] = lastSeq + 1]
    /\ UNCHANGED <<keysInFlight, waiting, queues, threads, quit, delivery,
                   flags, cache, observed>>

\* add(), second half: an uncacheable request goes to the network, the first
\* request for a key to the cache thread, later ones wait.
AddUncacheable(r) ==
    /\ r \in adding \ Cacheable
    /\ adding' = adding \ {r}
    /\ networkQueue' = networkQueue \cup {r}
    /\ UNCHANGED <<seq, lastSeq, current, keysInFlight, waiting, cacheQueue,
                   threads, quit, delivery, flags, cache, observed>>

AddFirst(r) ==
    /\ r \in adding \cap Cacheable
    /\ KeyOf[r] \notin keysInFlight
    /\ adding' = adding \ {r}
    /\ keysInFlight' = keysInFlight \cup {KeyOf[r]}
    /\ cacheQueue' = cacheQueue \cup {r}
    /\ UNCHANGED <<seq, lastSeq, current, waiting, networkQueue, threads, quit,
                   delivery, flags, cache, observed>>

AddStaged(r) ==
    /\ r \in adding \cap Cacheable
    /\ KeyOf[r] \in keysInFlight
    /\ adding' = adding \ {r}
    /\ waiting' = [waiting EXCEPT ![KeyOf[r]] = @ \cup {r}]
    /\ UNCHANGED <<seq, lastSeq, current, keysInFlight, queues, threads, quit,
                   delivery, flags, cache, observed>>

\* A caller on the main thread can act inside a callback, never between the
\* canceled check of a delivery runnable and its callback.
CallerMayCancel == OffMainCancel \/ pc[Main] # "deliver"

\* Request.cancel()
Cancel(r) ==
    /\ CallerMayCancel
    /\ r \in Cancellable \ cancelled
    /\ cancelled' = cancelled \cup {r}
    /\ UNCHANGED <<seq, lastSeq, tracking, queues, threads, quit, delivery,
                   delivered, hasEntry, cache, observed>>

\* cancelAll(tag) and cancelAll(filter)
CancelAll(tag) ==
    /\ CallerMayCancel
    /\ {r \in Requests : TagOf[r] = tag} \subseteq Cancellable
    /\ cancelled' = cancelled \cup {r \in current : TagOf[r] = tag}
    /\ UNCHANGED <<seq, lastSeq, tracking, queues, threads, quit, delivery,
                   delivered, hasEntry, cache, observed>>
-----------------------------------------------------------------------------
(* Steps the threads share.                                                *)

\* PriorityBlockingQueue order: high priority first, then by sequence number.
Before(r, s) ==
    \/ Priority[r] > Priority[s]
    \/ Priority[r] = Priority[s] /\ seq[r] < seq[s]

IsHead(r, queue) == r \in queue /\ \A s \in queue \ {r} : ~Before(s, r)

Goto(t, label) == pc' = [pc EXCEPT ![t] = label]

\* The thread is through with its request and takes the next one.
NextTask(t) ==
    /\ Goto(t, "take")
    /\ req' = [req EXCEPT ![t] = NoRequest]

Post(r, kind) == looper' = Append(looper, [req |-> r, kind |-> kind])

\* Request.finish() -> RequestQueue.finish(), first critical section.
Finish(t) ==
    /\ pc[t] = "finish"
    /\ current' = current \ {req[t]}
    /\ finished' = [finished EXCEPT ![req[t]] = @ + 1]
    /\ IF req[t] \in Cacheable THEN Goto(t, "release") /\ UNCHANGED req
                               ELSE NextTask(t)
    /\ UNCHANGED <<seq, lastSeq, adding, keysInFlight, waiting, queues, quit,
                   delivery, flags, cache, answers>>

\* Faulty variants: the staged requests are read but not removed; the key
\* stays in the map; the staged requests are dropped.
ReleaseKeepsQueue(t) ==
    LET k == KeyOf[req[t]] IN
    /\ pc[t] = "release"
    /\ keysInFlight' = keysInFlight \ {k}
    /\ cacheQueue' = cacheQueue \cup waiting[k]
    /\ NextTask(t)
    /\ UNCHANGED <<seq, lastSeq, adding, current, waiting, networkQueue, quit,
                   delivery, flags, cache, observed>>

ReleaseKeepsKey(t) ==
    LET k == KeyOf[req[t]] IN
    /\ pc[t] = "release"
    /\ waiting' = [waiting EXCEPT ![k] = {}]
    /\ cacheQueue' = cacheQueue \cup waiting[k]
    /\ NextTask(t)
    /\ UNCHANGED <<seq, lastSeq, adding, current, keysInFlight, networkQueue,
                   quit, delivery, flags, cache, observed>>

ReleaseDrops(t) ==
    LET k == KeyOf[req[t]] IN
    /\ pc[t] = "release"
    /\ keysInFlight' = keysInFlight \ {k}
    /\ waiting' = [waiting EXCEPT ![k] = {}]
    /\ NextTask(t)
    /\ UNCHANGED <<seq, lastSeq, adding, current, queues, quit, delivery,
                   flags, cache, observed>>

\* RequestQueue.finish(), last critical section: the requests staged for the
\* key all move to the cache queue.
Release(t) ==
    LET k == KeyOf[req[t]] IN
    /\ pc[t] = "release"
    /\ keysInFlight' = keysInFlight \ {k}
    /\ waiting' = [waiting EXCEPT ![k] = {}]
    /\ cacheQueue' = cacheQueue \cup waiting[k]
    /\ NextTask(t)
    /\ UNCHANGED <<seq, lastSeq, adding, current, networkQueue, quit, delivery,
                   flags, cache, observed>>
-----------------------------------------------------------------------------
(* CacheDispatcher.run.  mCanceled is a plain field read without a lock, so *)
(* a dispatcher may or may not see a cancel: discarding is possible when    *)
(* the request is cancelled, going on is always possible.                   *)

CacheTake(c) ==
    /\ pc[c] = "take" /\ ~quit[c]
    /\ \E r \in cacheQueue :
        /\ IsHead(r, cacheQueue)
        /\ cacheQueue' = cacheQueue \ {r}
        /\ req' = [req EXCEPT ![c] = r]
    /\ Goto(c, "taken")
    /\ UNCHANGED <<seq, lastSeq, tracking, networkQueue, quit, delivery, flags,
                   cache, observed>>

\* take() throws InterruptedException; the handler dereferences the request
\* it has just set to null before it looks at mQuit.  Nobody catches the
\* NullPointerException, and Android ends the process.
CacheInterrupted(c) ==
    /\ pc[c] = "take" /\ quit[c]
    /\ Goto(c, "uncaught")
    /\ UNCHANGED <<seq, lastSeq, tracking, queues, req, quit, delivery, flags,
                   cache, observed>>

\* Both kinds of dispatcher discard a cancelled request they have taken.
Discard(t) ==
    /\ pc[t] = "taken"
    /\ req[t] \in cancelled
    /\ Goto(t, "finish")
    /\ UNCHANGED <<seq, lastSeq, tracking, queues, req, quit, delivery, flags,
                   cache, observed>>

CacheMiss(c) ==
    LET r == req[c] IN
    /\ pc[c] = "taken"
    /\ cache[KeyOf[r]] \in {"none", "expired"}
    /\ hasEntry' = IF cache[KeyOf[r]] = "expired" THEN hasEntry \cup {r} ELSE hasEntry
    /\ networkQueue' = networkQueue \cup {r}
    /\ NextTask(c)
    /\ UNCHANGED <<seq, lastSeq, tracking, cacheQueue, quit, delivery,
                   cancelled, delivered, cache, observed>>

\* A fresh entry; parseNetworkResponse makes a result of it or an error.
CacheHit(c) ==
    LET r == req[c] IN
    /\ pc[c] = "taken"
    /\ cache[KeyOf[r]] = "fresh"
    /\ delivered' = delivered \cup {r}
    /\ \/ "result" \in CacheParses /\ Post(r, "response")
       \/ "error" \in CacheParses /\ Post(r, "error")
    /\ NextTask(c)
    /\ UNCHANGED <<seq, lastSeq, tracking, queues, quit, message, cancelled,
                   hasEntry, cache, observed>>

\* Faulty variant: the response is not marked intermediate and the request is
\* sent on at once.
CacheHitRefreshFinal(c) ==
    LET r == req[c] IN
    /\ pc[c] = "taken"
    /\ cache[KeyOf[r]] = "stale"
    /\ hasEntry' = hasEntry \cup {r}
    /\ delivered' = delivered \cup {r}
    /\ Post(r, "response")
    /\ networkQueue' = networkQueue \cup {r}
    /\ NextTask(c)
    /\ UNCHANGED <<seq, lastSeq, tracking, cacheQueue, quit, message, cancelled,
                   cache, observed>>

\* A soft-expired entry: deliver what it parses to, then refresh it.
CacheHitRefresh(c) ==
    LET r == req[c] IN
    /\ pc[c] = "taken"
    /\ cache[KeyOf[r]] = "stale"
    /\ hasEntry' = hasEntry \cup {r}
    /\ delivered' = delivered \cup {r}
    /\ \/ "result" \in CacheParses /\ Post(r, "intermediate")
       \/ "error" \in CacheParses /\ Post(r, "intermediateError")
    /\ NextTask(c)
    /\ UNCHANGED <<seq, lastSeq, tracking, queues, quit, message, cancelled,
                   cache, observed>>

\* The catch-all at the end of the loop logs the exception and goes on.
CacheHitThrows(c) ==
    /\ "exception" \in CacheParses
    /\ pc[c] = "taken"
    /\ cache[KeyOf[req[c]]] \in {"fresh", "stale"}
    /\ NextTask(c)
    /\ UNCHANGED <<seq, lastSeq, tracking, queues, quit, delivery, flags,
                   cache, observed>>

CacheStep(c) ==
    \/ CacheTake(c) \/ CacheInterrupted(c) \/ Discard(c)
    \/ CacheMiss(c) \/ CacheHit(c) \/ CacheHitRefresh(c) \/ CacheHitThrows(c)
    \/ Finish(c) \/ Release(c)
-----------------------------------------------------------------------------
(* NetworkDispatcher.run.  Network.performRequest is the choice of action. *)

NetTake(n) ==
    /\ pc[n] = "take" /\ ~quit[n]
    /\ \E r \in networkQueue :
        /\ IsHead(r, networkQueue)
        /\ networkQueue' = networkQueue \ {r}
        /\ req' = [req EXCEPT ![n] = r]
    /\ Goto(n, "taken")
    /\ UNCHANGED <<seq, lastSeq, tracking, cacheQueue, quit, delivery, flags,
                   cache, observed>>

\* Faulty variant: an interrupted request is abandoned.
NetInterruptedAbandons(n) ==
    /\ pc[n] \in {"take", "taken"} /\ quit[n]
    /\ Goto(n, "exited")
    /\ UNCHANGED <<seq, lastSeq, tracking, queues, req, quit, delivery, flags,
                   cache, observed>>

NetInterrupted(n) ==
    /\ pc[n] = "take" /\ quit[n]
    /\ Goto(n, "exited")
    /\ UNCHANGED <<seq, lastSeq, tracking, queues, req, quit, delivery, flags,
                   cache, observed>>

\* Faulty variants: the missing hasHadResponseDelivered() check; the missing
\* continue after finish("not-modified").
NetNotModifiedUnchecked(n) ==
    /\ pc[n] = "taken"
    /\ req[n] \in hasEntry
    /\ Goto(n, "finish")
    /\ UNCHANGED <<seq, lastSeq, tracking, queues, req, quit, delivery, flags,
                   cache, observed>>

NetNotModifiedDelivers(n) ==
    /\ pc[n] = "taken"
    /\ req[n] \in hasEntry \cap delivered
    /\ Post(req[n], "response")
    /\ Goto(n, "finish")
    /\ UNCHANGED <<seq, lastSeq, tracking, queues, req, quit, message, flags,
                   cache, observed>>

\* 304 for a request whose cached response was already delivered.
NetNotModified(n) ==
    /\ pc[n] = "taken"
    /\ req[n] \in hasEntry \cap delivered
    /\ Goto(n, "finish")
    /\ UNCHANGED <<seq, lastSeq, tracking, queues, req, quit, delivery, flags,
                   cache, observed>>

\* Any other response; entry is the freshness of the parsed cacheEntry, or
\* "none" when the response must not be stored.
NetResponse(n, entry) ==
    LET r == req[n] IN
    /\ pc[n] = "taken"
    /\ cache' = IF r \in Cacheable /\ entry # "none"
                THEN [cache EXCEPT ![KeyOf[r]] = entry] ELSE cache
    /\ delivered' = delivered \cup {r}
    /\ Post(r, "response")
    /\ NextTask(n)
    /\ UNCHANGED <<seq, lastSeq, tracking, queues, quit, message, cancelled,
                   hasEntry, observed>>

\* VolleyError, any other exception, or a response that does not parse.
NetError(n) ==
    /\ pc[n] = "taken"
    /\ Post(req[n], "error")
    /\ NextTask(n)
    /\ UNCHANGED <<seq, lastSeq, tracking, queues, quit, message, flags, cache,
                   observed>>

NetStep(n) ==
    \/ NetTake(n) \/ NetInterrupted(n) \/ Discard(n)
    \/ NetNotModified(n) \/ NetError(n)
    \/ \E entry \in {"none", "fresh", "expired"} : NetResponse(n, entry)
    \/ Finish(n) \/ Release(n)
-----------------------------------------------------------------------------
(* The main thread: ExecutorDelivery.ResponseDeliveryRunnable.run.         *)

\* Faulty variant: the runnable does not look at the canceled flag.
DeliveryRunUnchecked ==
    /\ pc[Main] = "take"
    /\ looper # <<>>
    /\ req' = [req EXCEPT ![Main] = Head(looper).req]
    /\ message' = Head(looper).kind
    /\ Goto(Main, "deliver")
    /\ looper' = Tail(looper)
    /\ UNCHANGED <<seq, lastSeq, tracking, queues, quit, flags, cache, observed>>

DeliveryRun ==
    /\ pc[Main] = "take"
    /\ looper # <<>>
    /\ LET m == Head(looper) IN
        /\ req' = [req EXCEPT ![Main] = m.req]
        /\ message' = m.kind
        /\ Goto(Main, IF m.req \in cancelled THEN "finish" ELSE "deliver")
    /\ looper' = Tail(looper)
    /\ UNCHANGED <<seq, lastSeq, tracking, queues, quit, flags, cache, observed>>

\* deliverResponse or deliverError: the callback into the caller.
Deliver ==
    /\ pc[Main] = "deliver"
    /\ answers' = [answers EXCEPT ![req[Main]] = Append(@, message)]
    /\ Goto(Main, IF message \in Provisional THEN "forward" ELSE "finish")
    /\ UNCHANGED <<seq, lastSeq, tracking, queues, req, quit, delivery, flags,
                   cache, finished>>

\* The runnable posted with an intermediate response.
Forward ==
    /\ pc[Main] = "forward"
    /\ networkQueue' = networkQueue \cup {req[Main]}
    /\ NextTask(Main)
    /\ UNCHANGED <<seq, lastSeq, tracking, cacheQueue, quit, delivery, flags,
                   cache, observed>>

MainStep == DeliveryRun \/ Deliver \/ Forward \/ Finish(Main) \/ Release(Main)
-----------------------------------------------------------------------------
(* The cache: its entries age, and are evicted or cleared.                 *)

CacheAges(k) ==
    /\ cache[k] \in {"fresh", "stale"}
    /\ cache' = [cache EXCEPT ![k] = IF @ = "fresh" THEN "stale" ELSE "expired"]
    /\ UNCHANGED <<seq, lastSeq, tracking, queues, threads, quit, delivery,
                   flags, observed>>

CacheEvicts(k) ==
    /\ cache[k] # "none"
    /\ cache' = [cache EXCEPT ![k] = "none"]
    /\ UNCHANGED <<seq, lastSeq, tracking, queues, threads, quit, delivery,
                   flags, observed>>
-----------------------------------------------------------------------------
Enqueue(r) == AddUncacheable(r) \/ AddFirst(r) \/ AddStaged(r)

Caller ==
    \/ Start \/ Stop
    \/ \E r \in Requests : AddCurrent(r) \/ Enqueue(r) \/ Cancel(r)
    \/ \E tag \in {TagOf[r] : r \in Requests} : CancelAll(tag)

\* The process runs; no thread of it takes a step after an uncaught exception.
Alive == \A c \in CacheThreads : pc[c] # "uncaught"

Next ==
    /\ Alive
    /\ \/ Caller
       \/ \E c \in CacheThreads : CacheStep(c)
       \/ \E n \in NetThreads : NetStep(n)
       \/ MainStep
       \/ \E k \in Keys : CacheAges(k) \/ CacheEvicts(k)

Spec == Init /\ [][Next]_vars

\* While the process runs, the scheduler runs every thread that can run;
\* performRequest returns (sockets have timeouts); an add() that began
\* completes; the queue is started.  Nobody has to add or cancel, and the
\* cache need not change.
Fairness ==
    /\ WF_vars(Alive /\ FirstStart)
    /\ \A r \in Requests : WF_vars(Alive /\ Enqueue(r))
    /\ \A c \in CacheThreads : WF_vars(Alive /\ CacheStep(c))
    /\ \A n \in NetThreads : WF_vars(Alive /\ NetStep(n))
    /\ WF_vars(Alive /\ MainStep)

FairSpec == Spec /\ Fairness
-----------------------------------------------------------------------------
(* Properties.                                                             *)

\* The places are disjoint and hold a request at most once: no request is
\* queued twice, worked on by two threads, or both queued and worked on.
PlacesDisjoint ==
    /\ adding \cap (Staged \cup InFlight) = {}
    /\ Staged \cap InFlight = {}
    /\ cacheQueue \cap (networkQueue \cup Posted \cup Held) = {}
    /\ networkQueue \cap (Posted \cup Held) = {}
    /\ Posted \cap Held = {}

HeldOnce == \A s, t \in Threads : s # t /\ req[s] = req[t] => req[s] = NoRequest

PostedOnce == \A i, j \in DOMAIN looper : looper[i].req = looper[j].req => i = j

OnePlace == PlacesDisjoint /\ HeldOnce /\ PostedOnce

\* mCurrentRequests is exactly the set of requests that are being added, wait
\* in a queue or are processed by a thread that has not begun to finish them:
\* cancelAll reaches every request it should, and no finished one is leaked.
CurrentIsExact ==
    current = adding \cup Staged \cup cacheQueue \cup networkQueue \cup Posted
              \cup Working

\* The comment on mWaitingRequests: a key in the map has a request in flight,
\* whose finish() will release the requests staged under that key.  Without
\* it a staged request is never dispatched.
KeyMeansInFlight ==
    /\ \A k \in keysInFlight : \E r \in InFlight \cap Cacheable : KeyOf[r] = k
    /\ \A k \in Keys : waiting[k] # {} => k \in keysInFlight

\* A finished request gets no further answer and is in no queue again, though
\* late runnables, released waiters and new dispatchers may be around.
FinishedIsFinal ==
    [][\A r \in Requests : finished[r] > 0 =>
            /\ answers'[r] = answers[r]
            /\ r \notin (current \cup adding \cup Staged \cup cacheQueue
                           \cup networkQueue \cup Posted)']_vars

\* Every request that was added is finished, however the keys, cancels, cache
\* contents and answers fall, unless the process ends first.  It ends in
\* CacheInterrupted only, which stop() or a second start() bring about: with
\* neither, the request is finished.
EveryRequestFinishes ==
    \A r \in Requests : seq[r] > 0 ~> finished[r] > 0 \/ ~Alive
=============================================================================
