----------------------------- MODULE ImageLoader -----------------------------
(***************************************************************************)
(* The image loader (com.android.volley.toolbox.ImageLoader).  Everything  *)
(* runs on the main thread: callers ask for images and get a container     *)
(* each, callers of one image share a request, and the answers of a while  *)
(* are handed out together by a runnable posted with a delay.  What makes  *)
(* it hard is that callers, answers and the runnable come in any order,    *)
(* and that listeners call the loader back from inside the runnable.  An image *)
(* request is cacheable, so it may be answered twice: with what the disk   *)
(* cache holds and, if that is due for a refresh, with what the server     *)
(* sends.                                                                  *)
(***************************************************************************)
EXTENDS Naturals, Sequences, SequencesExt, FiniteSets

CONSTANTS
    Keys,           \* cache keys, one per image
    Refreshed,      \* those whose requests may be answered twice
    MaxContainers,  \* bound: containers made (each may start a request)
    World           \* the environments there are, see env

Disturbances == {"overtake", "inside", "queueCancels"}

ASSUME LoaderAssumption ==
    /\ MaxContainers \in Nat \ {0}
    /\ World \subseteq SUBSET Disturbances
    /\ Refreshed \subseteq Keys

VARIABLES
    env,            \* what may happen in this behaviour:
                    \*   "overtake"      an answer comes while an earlier one
                    \*                   for the same key waits to be delivered
                    \*   "inside"        listeners call the loader back
                    \*   "queueCancels"  RequestQueue.cancelAll() drops requests
    images,         \* mCache: the keys it holds a bitmap for
    containers,     \* the ImageContainers handed out, in order
    requests,       \* the BatchedImageRequests made, in order
    inFlight,       \* mInFlightRequests, 0 for none
    batched,        \* mBatchedResponses, 0 for none
    posted,         \* mRunnable # null
    run             \* where the runnable is

vars == <<env, images, containers, requests, inFlight, batched, posted, run>>

ContainerIds == 1..MaxContainers
RequestIds   == 1..MaxContainers

\* A container: the request it joined (0 if the bitmap was in the cache),
\* whether its caller cancelled, and the final callback it got.
Container == [req : 0..MaxContainers, cancelled : BOOLEAN,
              called : {"no", "image", "error"}]

\* A request: what the queue will do with it ("refreshing": answer it once
\* more), the outcome its callers were given, and, as history, by whose answer
\* (0 for none yet).
Request == [key : Keys, list : Seq(ContainerIds), error : BOOLEAN,
            by : 0..MaxContainers,
            state : {"live", "refreshing", "answered", "cancelled"}]

\* The queue will answer such a request if nobody cancels it.
Open == {"live", "refreshing"}

\* The runnable: the batches still to come, the index reached in the first of
\* them, and whether the list or the map under the iterators was changed.
NotRunning == [todo |-> <<>>, at |-> 0, listChanged |-> FALSE, mapChanged |-> FALSE]
Idle    == run = NotRunning
Running == ~Idle /\ run.todo # <<>>
Crashed == ~Idle /\ run.todo = <<>>

TypeOK ==
    /\ env \in World
    /\ images \subseteq Keys
    /\ containers \in Seq(Container) /\ Len(containers) <= MaxContainers
    /\ requests \in Seq(Request) /\ Len(requests) <= MaxContainers
    /\ inFlight \in [Keys -> 0..Len(requests)]
    /\ batched \in [Keys -> 0..Len(requests)]
    /\ posted \in BOOLEAN /\ (Running => posted)
    /\ run \in [todo : Seq(RequestIds), at : Nat, listChanged : BOOLEAN, mapChanged : BOOLEAN]

Init ==
    /\ env \in World
    /\ images = {}
    /\ containers = <<>> /\ requests = <<>>
    /\ inFlight = [k \in Keys |-> 0] /\ batched = [k \in Keys |-> 0]
    /\ posted = FALSE
    /\ run = NotRunning

\* Callers reach the loader between the messages of the main thread, and from
\* a listener the runnable has just called.
CallerMayAct == Idle \/ (Running /\ run.at > 0 /\ "inside" \in env)
-----------------------------------------------------------------------------
(* Callers.                                                                *)

NewContainer(r, cancelled, called) ==
    /\ Len(containers) < MaxContainers
    /\ containers' = Append(containers,
                            [req |-> r, cancelled |-> cancelled, called |-> called])

\* get(): the bitmap is in the cache.
GetCached(k) ==
    /\ CallerMayAct /\ k \in images
    /\ NewContainer(0, FALSE, "image")
    /\ UNCHANGED <<env, images, requests, inFlight, batched, posted, run>>

\* get(): the listener is told to use the default image, and may cancel right
\* there, which finds nothing; then the container joins the request in flight.
GetJoins(k, early) ==
    LET r == inFlight[k] IN
    /\ CallerMayAct /\ k \notin images /\ r # 0
    /\ early => "inside" \in env
    /\ NewContainer(r, early, "no")
    /\ requests' = [requests EXCEPT ![r].list = Append(@, Len(containers) + 1)]
    /\ UNCHANGED <<env, images, inFlight, batched, posted, run>>

\* get(): or starts one.
GetRequests(k, early) ==
    LET r == Len(requests) + 1 IN
    /\ CallerMayAct /\ k \notin images /\ inFlight[k] = 0
    /\ early => "inside" \in env
    /\ NewContainer(r, early, "no")
    /\ requests' = Append(requests, [key |-> k, list |-> <<Len(containers) + 1>>,
                                     error |-> FALSE, by |-> 0, state |-> "live"])
    /\ inFlight' = [inFlight EXCEPT ![k] = r]
    /\ UNCHANGED <<env, images, batched, posted, run>>

\* Faulty variant: the request goes on when nobody listens any more.
WithoutOnly(c, r) == [requests EXCEPT ![r].list = RemoveFirst(@, c)]

\* removeContainerAndCancelIfNecessary()
Without(c, r) ==
    LET rest == RemoveFirst(requests[r].list, c) IN
    [requests EXCEPT ![r].list = rest,
                     ![r].state = IF rest = <<>> /\ @ \in Open THEN "cancelled" ELSE @]

\* A runnable that is going through a list or the map notices the change.
Disturbed(c, r, mapChanges) ==
    IF Running
      THEN [run EXCEPT !.listChanged = @ \/ (r = Head(run.todo) /\ c \in ToSet(requests[r].list)),
                       !.mapChanged = @ \/ mapChanges]
      ELSE run

\* Faulty variant: the request is dropped with the first caller.
CancelInFlightDrops(c) ==
    LET k == requests[containers[c].req].key  r == inFlight[k] IN
    /\ r # 0
    /\ requests' = Without(c, r)
    /\ inFlight' = [inFlight EXCEPT ![k] = 0]
    /\ UNCHANGED <<batched, run>>

\* cancelRequest(): there is a request in flight for the key, not necessarily
\* the one of the container.
CancelInFlight(c) ==
    LET k == requests[containers[c].req].key  r == inFlight[k] IN
    /\ r # 0
    /\ requests' = Without(c, r)
    /\ inFlight' = [inFlight EXCEPT ![k] = IF requests'[r].list = <<>> THEN 0 ELSE r]
    /\ UNCHANGED <<batched, run>>

\* cancelRequest(): otherwise, an answer that waits to be delivered.
CancelBatched(c) ==
    LET k == requests[containers[c].req].key  r == batched[k] IN
    /\ inFlight[k] = 0
    /\ IF r = 0
         THEN UNCHANGED <<requests, batched, run>>
         ELSE /\ requests' = Without(c, r)
              /\ batched' = [batched EXCEPT ![k] = IF requests'[r].list = <<>> THEN 0 ELSE r]
              /\ run' = Disturbed(c, r, requests'[r].list = <<>>)
    /\ UNCHANGED inFlight

Cancel(c) ==
    /\ CallerMayAct
    /\ containers[c].req # 0
    /\ CancelInFlight(c) \/ CancelBatched(c)
    /\ containers' = [containers EXCEPT ![c].cancelled = TRUE]
    /\ UNCHANGED <<env, images, posted>>
-----------------------------------------------------------------------------
(* Answers, and the batched delivery.                                      *)

\* Faulty variant: the runnable is posted only if one is already under way.
BatchResponseWaits(k) ==
    /\ batched' = [batched EXCEPT ![k] = inFlight[k]]
    /\ UNCHANGED posted

\* batchResponse(): an earlier batch for the key is replaced.
BatchResponse(k) ==
    /\ batched' = [batched EXCEPT ![k] = inFlight[k]]
    /\ posted' = TRUE

\* The callers of an answer are looked up by its key: those of the request in
\* flight, which need not be r any more when r is answered again.
Answered(r) ==
    /\ Idle /\ requests[r].state \in Open
    /\ batched[requests[r].key] # 0 => "overtake" \in env
    /\ inFlight' = [inFlight EXCEPT ![requests[r].key] = 0]
    /\ IF inFlight[requests[r].key] # 0
         THEN BatchResponse(requests[r].key)
         ELSE UNCHANGED <<batched, posted>>
    /\ UNCHANGED <<env, containers, run>>

\* What comes after an answer of r: an expired entry of the cache is delivered
\* first, and the request goes on to the network.
Afterwards(r) ==
    {"answered"} \cup
    (IF requests[r].state = "live" /\ requests[r].key \in Refreshed
       THEN {"refreshing"} ELSE {})

\* The batch of the key gets the outcome; r itself is in the state after.
Marked(r, error, after) ==
    [i \in DOMAIN requests |->
        [requests[i] EXCEPT
            !.state = IF i = r THEN after ELSE @,
            !.error = IF i = inFlight[requests[r].key] THEN error ELSE @,
            !.by    = IF i = inFlight[requests[r].key] THEN r ELSE @]]

\* onGetImageSuccess()
OnGetImageSuccess(r) ==
    /\ Answered(r)
    /\ images' = images \cup {requests[r].key}
    /\ \E after \in Afterwards(r) : requests' = Marked(r, FALSE, after)

\* onGetImageError()
OnGetImageError(r) ==
    /\ Answered(r)
    /\ \E after \in Afterwards(r) : requests' = Marked(r, TRUE, after)
    /\ UNCHANGED images

\* The server has nothing newer: there is no second answer.
NotModified(r) ==
    /\ ~Crashed /\ requests[r].state = "refreshing"
    /\ requests' = [requests EXCEPT ![r].state = "answered"]
    /\ UNCHANGED <<env, images, containers, inFlight, batched, posted, run>>

\* The runnable begins: the batches come in the order of a hash map.
RunBegins ==
    /\ Idle /\ posted
    /\ LET keys == {k \in Keys : batched[k] # 0} IN
       \E order \in SetToSeqs(keys) :
           IF keys = {}
             THEN posted' = FALSE /\ UNCHANGED run
             ELSE /\ run' = [NotRunning EXCEPT !.todo = [i \in DOMAIN order |-> batched[order[i]]]]
                  /\ UNCHANGED posted
    /\ UNCHANGED <<env, images, containers, requests, inFlight, batched>>

Current == requests[Head(run.todo)]
ListHasNext == run.at < Len(Current.list)

\* Faulty variant: every container is told that there is a bitmap.
RunCallsImage ==
    LET c == Current.list[run.at + 1] IN
    /\ Running /\ ListHasNext /\ ~run.listChanged
    /\ containers' = [containers EXCEPT ![c].called = "image"]
    /\ run' = [run EXCEPT !.at = @ + 1]
    /\ UNCHANGED <<env, images, requests, inFlight, batched, posted>>

\* The next container of the batch gets its callback.
RunCalls ==
    LET c == Current.list[run.at + 1] IN
    /\ Running /\ ListHasNext /\ ~run.listChanged
    /\ containers' = [containers EXCEPT ![c].called = IF Current.error THEN "error" ELSE "image"]
    /\ run' = [run EXCEPT !.at = @ + 1]
    /\ UNCHANGED <<env, images, requests, inFlight, batched, posted>>

\* The batch is done (an iterator over a shortened list may end too early),
\* on to the next one.
RunNextBatch ==
    /\ Running /\ ~ListHasNext /\ Len(run.todo) > 1 /\ ~run.mapChanged
    /\ run' = [NotRunning EXCEPT !.todo = Tail(run.todo)]
    /\ UNCHANGED <<env, images, containers, requests, inFlight, batched, posted>>

\* Faulty variant: the delivered batches stay in the map.
RunEndsKeeping ==
    /\ Running /\ ~ListHasNext /\ Len(run.todo) = 1
    /\ posted' = FALSE
    /\ run' = NotRunning
    /\ UNCHANGED <<env, images, containers, requests, inFlight, batched>>

\* The last batch is done: mBatchedResponses.clear(), mRunnable = null.
RunEnds ==
    /\ Running /\ ~ListHasNext /\ Len(run.todo) = 1
    /\ batched' = [k \in Keys |-> 0]
    /\ posted' = FALSE
    /\ run' = NotRunning
    /\ UNCHANGED <<env, images, containers, requests, inFlight>>

\* ConcurrentModificationException: the program ends.
RunThrows ==
    /\ Running
    /\ \/ ListHasNext /\ run.listChanged
       \/ ~ListHasNext /\ Len(run.todo) > 1 /\ run.mapChanged
    /\ run' = [NotRunning EXCEPT !.mapChanged = TRUE]
    /\ UNCHANGED <<env, images, containers, requests, inFlight, batched, posted>>
-----------------------------------------------------------------------------
(* The rest of the program.                                                *)

\* The ImageCache is the application's, an LRU cache of bitmaps.
Evict(k) ==
    /\ k \in images /\ ~Crashed
    /\ images' = images \ {k}
    /\ UNCHANGED <<env, containers, requests, inFlight, batched, posted, run>>

\* RequestQueue.cancelAll(): the loader is not told.
QueueCancels(r) ==
    /\ CallerMayAct /\ "queueCancels" \in env
    /\ requests[r].state \in Open
    /\ requests' = [requests EXCEPT ![r].state = "cancelled"]
    /\ UNCHANGED <<env, images, containers, inFlight, batched, posted, run>>

AnyAnswer(r) == OnGetImageSuccess(r) \/ OnGetImageError(r)
Deliver == RunBegins \/ RunCalls \/ RunNextBatch \/ RunEnds \/ RunThrows

Next ==
    \/ \E k \in Keys : \/ GetCached(k) \/ Evict(k)
                       \/ \E early \in BOOLEAN : GetJoins(k, early) \/ GetRequests(k, early)
    \/ \E c \in DOMAIN containers : Cancel(c)
    \/ \E r \in DOMAIN requests : AnyAnswer(r) \/ NotModified(r) \/ QueueCancels(r)
    \/ Deliver

\* The main thread does not rest while the queue has answers for it or the
\* runnable is due; in which order it takes them is open.
Fairness == WF_vars(Deliver \/ \E r \in DOMAIN requests : AnyAnswer(r))

Spec == Init /\ [][Next]_vars
FairSpec == Spec /\ Fairness
-----------------------------------------------------------------------------
(* Properties.                                                             *)

\* The step calls the listener of c.
RunCallsFor(c) ==
    /\ Running /\ ListHasNext /\ run'.at = run.at + 1
    /\ c = Current.list[run.at + 1]

Waiting(c) == containers[c].called = "no" /\ ~containers[c].cancelled

\* Callers of one image share one request: whatever is cancelled, answered or
\* evicted meanwhile, those who share a request that nobody cancelled wait where
\* the next answer for their key looks for them, or have been given an answer.
\* Unless requests for the image are answered twice, they wait there until their
\* own comes.
AnswerFindsItsCallers ==
    \A r \in DOMAIN requests :
        requests[r].state # "cancelled" =>
            \/ inFlight[requests[r].key] = r
            \/ /\ requests[r].by # 0
               /\ requests[r].state = "live" => requests[r].key \in Refreshed

\* The callback tells what an answer for the caller's image was: that of its own
\* request or, for an image that is answered twice, that of an older request for
\* it, which takes the callers of the newer one with it; never an answer of a
\* later request.
CallbackFitsAnswer ==
    \A c \in DOMAIN containers : LET r == containers[c].req IN
        r # 0 /\ containers[c].called # "no" =>
            /\ requests[r].error = (containers[c].called = "error")
            /\ LET q == requests[r].by IN
               /\ q \in 1..r /\ requests[q].key = requests[r].key
               /\ requests[q].state # "live"
               /\ q # r => requests[r].key \in Refreshed

\* No caller is called twice: not when later batches are delivered, nor when
\* requests for the key overlap, nor when listeners call back.
CalledOnce ==
    [][\A c \in DOMAIN containers :
          RunCallsFor(c) => containers[c].called = "no"]_vars

\* When nobody interferes nobody is forgotten: again and again there is a moment
\* when every caller has been called or has cancelled; second answers may come.
EveryCallerIsCalled ==
    env = {} => []<>(\A c \in DOMAIN containers : ~Waiting(c))

\* "If one of the callers in the batched request canceled the request after
\* the response was received but before it was delivered, skip them."
CancelledIsSkipped ==
    [][\A c \in DOMAIN containers :
          containers[c].cancelled => ~RunCallsFor(c)]_vars
=============================================================================
