# A TLA+ development of the Avarta integration library

The repository is an Android library (`src/avartaIntegration-library`) through
which a host application authenticates its users: it runs *workflows* of
activities against a server, over a vendored and adapted copy of the Volley HTTP
layer, with payloads encrypted by native code. This directory holds TLA+ models
of the parts whose correctness depends on order, concurrency and failure, the TLC
configurations that check them, and proofs checked by TLAPS.

Short names used below: `volley/` is
`src/avartaIntegration-library/src/main/java/com/android/volley/`, `avarta/` is
`.../java/com/avarta/integrationlibrary/`, `jni/` is
`src/avartaIntegration-library/jni/`.

## 1. Inventory

### The parts and how they interact

```
 host application
    |  startWorkflow, processActivityData, cancelWorkflow, ...   (main thread)
    v
 IntegrationApiManager -> RequestManager --IWorkflowProccessListener--> host
    |  BasePostRequest, encrypted by ApiCryptManager / JNI
    v
 RequestQueue -> CacheDispatcher (1 thread) -> DiskBasedCache (files)
    |                  |
    |                  v
    +----------> NetworkDispatcher (4 threads) -> BasicNetwork -> HurlStack
                       |                             RetryPolicy, ByteArrayPool
                       v
                 ExecutorDelivery -> main looper -> listeners
 ImageLoader, NetworkImageView, RequestFuture: further clients of RequestQueue
```

| Component | State | Operations | What is hard | What makes it correct |
|---|---|---|---|---|
| `RequestQueue` | `mCurrentRequests`, `mWaitingRequests` (per cache key a staging queue), two priority queues, a sequence counter | `add`, `finish`, `cancelAll`, `start`, `stop` | two locks taken one after the other by many threads; a staged request depends on another's `finish` | every request is in one place, is never forgotten, ends once |
| `CacheDispatcher`, `NetworkDispatcher` | `mQuit`, the interrupt, the request in hand | one `run()` loop each | branches that end a request silently, hand it on, or answer it; `quit` at any point | the same, and every path finishes what it took |
| `Request`, `ExecutorDelivery` | `mCanceled`, `mResponseDelivered`, `mCacheEntry`; the main looper | `cancel`, `postResponse`, the delivery runnable | flags read by three threads; provisional and final answers; cancel while an answer is under way | one final answer, none after a cancel |
| `RequestManager`, `IntegrationApiManager` | workflow key, session key, salt and server key, user name, type, one listener | start, check status, answer an activity, complete, abort, score, cancel all, reset | one set of fields for all workflows; responses in any order; host calls between and inside callbacks | callbacks name the right workflow and outcome; one outcome; nobody waits for ever |
| `DiskBasedCache` | headers in order of use, a running total; the files | `initialize`, `get`, `put`, `invalidate`, `remove`, `clear` | files that fail, vanish or are half written when the process dies; memory and disk disagree | serves what was stored, keeps its directory bounded |
| `ImageLoader` | in-flight and batched requests by key, a posted runnable | `get`, `cancelRequest`, answers, batched delivery | callers, answers and delivery in any order; listeners that call back | every caller called once with its own answer, or has cancelled |
| `RequestFuture` | the answer, a monitor | `get`, `cancel`, answers | a blocked thread against answer, cancel and timeout | returns when there is something to return |
| `ByteArrayPool` | buffers by use and by size, a total | `getBuf`, `returnBuf` | shared by the network threads; a size limit | bounded, no buffer with two owners |
| `BasicNetwork`, `DefaultRetryPolicy` | attempt count, timeout, headers | one HTTP exchange | redirects, 304 with and without entry, retries with growing timeouts | ends, at most the allowed attempts |
| `HttpHeaderParser` | none | cache times from headers | precedence of headers, absent or negative times | soft expiry not after expiry |
| JNI key exchange (`bigint.c`, `fe25519.c`, `curve25519.c`, `ecdh_curve25519.c`) | the work array of the ladder during a call | secret key, public key, shared secret | carries and borrows in 8-bit limbs, elements that are not reduced, swaps that undo each other | congruent to the mathematical value; both ends get the same secret |
| JNI encryption (`aes256.cpp`, `skm.cpp`) | the round key during a call | `encrypt`, `decrypt` of the constants of `ApiCryptManager` | a key schedule computed forwards and backwards in place; padding, C strings, UTF-8 | rounds of the standard; what was encrypted comes back |

Also present: the JSON parsers of responses, the Java half of `ApiCryptManager` and
`EllipticCurveKeys`, request types, HTTP stacks, `VolleyLog`, `CrashLogging`,
the polarssl headers, and an empty sample application.
`PROJECT.json` lists every one, with its status, and the hazards by source line.

### What is modelled so far

| Module | Models | Kind |
|---|---|---|
| `RequestQueue` | `RequestQueue`, both dispatchers, `ExecutorDelivery`, the life cycle of `Request` | threads, one action per visible step |
| `RequestService` | what the HTTP layer promises a caller | abstract specification |
| `RequestQueueService` | the refinement mapping from the first to the second | `INSTANCE ... WITH` |
| `RequestQueueProofs` | theorems about `RequestQueue`, that it implements `RequestService`, and about `RequestFuture` on top of that | TLAPS |
| `WorkflowManager` | `RequestManager`, `IntegrationApiManager`, the listener, the hand-over in `BaseApi` / `BasePostRequest`; the server from how it is used | main thread and a server |
| `WorkflowManagerProofs` | theorems about `WorkflowManager` | TLAPS |
| `DiskBasedCache` | the cache class and its directory | a monitor, a file system, deaths of the process |
| `DiskBasedCacheProofs` | theorems about `DiskBasedCache` | TLAPS |
| `ImageLoader` | the loader and its batched delivery | main thread, re-entrant listeners |
| `ImageLoaderProofs` | theorems about `ImageLoader` | TLAPS |
| `ByteArrayPool` | the pool of buffers | operators on its state, used by `BasicNetwork` |
| `BasicNetwork` | one thread's HTTP exchanges, the retry policy, the pooled stream | a network thread and the pool's other users |
| `BasicNetworkProofs` | theorems about `BasicNetwork` | TLAPS |
| `BigInteger`, `FieldArithmetic` | `bigint.c`, `fe25519.c`, for every limb width, length and prime 2^k - C | operators |
| `InversionChain` | the addition chains of `fe25519_invert` and `fe25519_pow2523` | straight-line programs over exponents |
| `Curve25519` | `curve25519.c` | operators |
| `ECDHCurve25519` | `ecdh_curve25519.c`, the JNI functions, `test.c` | a key exchange, one ladder bit a step |
| `MontgomeryCurve` | nothing of the code: the group the ladder is checked against, and Montgomery's formulas | reference definitions |
| `ECDHOnCurve` | nothing of the code: the exchange and the group together, and what the proofs take from mathematics | properties and assumptions |
| `ECDHCurve25519Proofs` | theorems about the big integers, the field, the ladder, the keys and what they stand for | TLAPS |
| `Aes256`, `Skm` | `aes256.cpp`, `skm.cpp` | operators; calls of the library, one round a step |
| `AesStandard` | nothing of the code: AES as FIPS 197 defines it | reference definitions |
| `Utf8Standard` | nothing of the code: UTF-8 as RFC 3629 defines it | reference definitions |
| `SkmProofs` | theorems about the rounds, the texts and the UTF-8 check of `Skm` | TLAPS |
| `RequestFuture` | `RequestFuture` over `RequestService` | waiting threads and the main thread |
| `DataLemmas` | nothing of the code: induction over sets and numbers, folds, recursive functions, lists without repetition | TLAPS |
| `MC*` | the finite instances | |

Definitions called "Faulty variant" stand next to the one they vary. No
specification uses them; they are there to see that a property notices the bug.

## 2. RequestQueue

### Correspondence

The state is the fields of the classes: `current` is `mCurrentRequests`,
`keysInFlight` and `waiting` are `mWaitingRequests` (whose values may be null or a
queue), `cacheQueue` and `networkQueue` are the priority queues (a set; the head
is a minimum of `Before`, which is `compareTo`), `looper` is the queue of the main
thread. `pc[t]` and `req[t]` say where a thread is and what it holds.

A step ends where another thread can look: `add` has two (`AddCurrent`, then
`AddUncacheable`, `AddFirst` or `AddStaged`, since the code takes two locks), `finish`
has two (`Finish`, `Release`). A dispatcher takes a request (`CacheTake`,
`NetTake`), and each branch of the rest of its loop is an action: `Discard` (found
cancelled), `CacheMiss` (also for an expired entry), `CacheHit`,
`CacheHitRefresh`, `CacheHitThrows`, `NetNotModified`, `NetResponse`, `NetError`.
The main thread runs a delivery runnable in the steps `DeliveryRun` (where the
canceled flag is tested), `Deliver` (the callback), `Forward` (the runnable of an
intermediate response), `Finish`, `Release`. `Stop` and `Start` set `quit` of the
living dispatchers. A network dispatcher leaves at its next blocking take. A cache
dispatcher evaluates the URL of the request it has just set to null
(`CacheDispatcher.java:98`): an uncaught `NullPointerException`, with which Android ends
the process (`CacheInterrupted`, the label `uncaught`). From then on nothing steps:
`Alive` is a conjunct of `Next`.

What `parseNetworkResponse` may do with cached data is the constant `CacheParses`: yield a
result, or an error, which is delivered as one (also as a provisional answer, when the entry is
soon stale), or throw (`CacheHitThrows`).

Cancels are on the main thread unless `OffMainCancel`: an action `Cancel` or
`CancelAll` then falls between two runnables or inside a callback, never between
the test of the flag and the callback.

### Properties

`OnePlace` (no request queued twice, held by two threads, or queued and held),
`CurrentIsExact` (`mCurrentRequests` has exactly those in progress),
`KeyMeansInFlight` (the comment on `mWaitingRequests`), `FinishedIsFinal` (what is
finished is neither answered nor finished again), the refinement `KeepsPromise`
(at most a provisional and a final answer, none after a cancel, no end without
one), and under fairness `EveryRequestFinishes` (every request that was added ends,
unless the process does). `TypeOK` is proved.

### Runs

| Run | Instance | Question |
|---|---|---|
| `staging` | 3 cacheable requests for one key, 2 network threads, `stop()`, cached data that yields a result or throws | is a request ever in two places or answered twice, when staging, release and shutdown interleave? |
| `mixed` | 2 cacheable and 1 uncacheable, priorities, cached data that yields a result or an error, cancels of two of the requests and by tag | is the bookkeeping exact, is nothing heard after a cancel, does the whole implement `RequestService`? |
| `restart` | 2 requests, a second generation of dispatchers | does every request end, also when `start()` is called again, as long as the process goes on? |
| `throws` | as small as possible | (a counterexample) what becomes of a key whose cached data does not parse? |

Three requests on one key are the fewest where one is in flight, one staged and
one released beside another; two network threads the fewest that race; more keys
only add independent copies, since all sharing is per key. Cache entries go
through none, fresh, stale, expired and back, so every branch is reached. `mixed` has
two requests on its key and two that are cancelled; a third request on the key with all the
bookkeeping rests on the theorems below. `restart` shows less than its
name says: the old cache dispatcher ends the process as soon as it looks at its queue, so that
two generations work side by side only until then, and what was under way ends with the
process. That the process ends is not an exception made for the property's sake: TLC finds `[]Alive`
violated in `staging` and `restart` (section 10).

### Fairness

Weak fairness for each dispatcher, for the main thread, for the second half of an
`add` that began, and for the first `start()`. The threads are scheduled by the
platform, `performRequest` returns (section 6). Nothing makes
callers add or cancel, the cache age, or `start()` be called again. `restart` has
no "exception" in `CacheParses`, which makes the property false (run `throws`), and no
`stop()`, after which nobody promises anything.

### Proofs

`RequestQueueProofs` proves, for every set of requests, keys and threads:

* `TypeCorrect`: `Spec => []TypeOK`. Inductive with `HoldsWhenBusy`: a thread
  holds a request exactly at the labels where its code uses one.
* `OnePlaceAlways`: `Spec => []OnePlace`. `OnePlace` is not inductive: a step
  that releases staged requests needs to know that what is staged is staged under
  a key that is in the map and was numbered by an `add`, and a step of `add` that
  the request it puts into a queue is nowhere else. `PlaceInv` adds those facts
  (`WaitingKeyed`, `Numbered`) to `TypeInv` and `OnePlace`. The steps are
  grouped by how they move requests: lemmas such as `TakingHolds`, `Posting`,
  `Staging`, `LeavingWork` say what a move does to the sets `Held`, `Posted`,
  `Staged`, one lemma per action (`CacheTakeMoves`, ...) which move it makes, and
  `PlaceStep` puts them together.
* `CurrentExactAlways` and `KeysAlwaysInFlight`: if `"exception" \notin CacheParses`, that
  `CurrentIsExact` and `KeyMeansInFlight` always hold, from the invariant
  `TrackInv`. The assumption is necessary: run `throws`.

About what callers hear:

* `FinishedIsAlwaysFinal`: `Spec => FinishedIsFinal`, without conditions. `EndInv`
  adds to `PlaceInv` that a finished request is in no queue, staged nowhere, in no
  runnable and with no thread that still works on it; so no step has it in hand to
  answer or finish it again.
* `PromiseAlwaysKept`: `Spec => KeepsPromise` if `~OffMainCancel`, the refinement of
  `RequestService`. The order of the answers is not visible from where a request is
  alone: `AnswersFit` says what its caller may have heard at each place (nothing before the
  cache thread decides, at most a provisional answer on the way to the network, an
  answer or a cancel at "finish"), for the queues (`QueuesFit`), the posted runnables
  (`MessagesFit`) and the threads (`ThreadsFit`). `FitStep` proves it inductive given
  `EndInv`, by actor: `OnlyActs` says that a thread's step leaves every request but
  its own alone. `ServiceStep` then maps each step to a step of the service or a
  stutter. The condition is needed for `NotSilenced` (the main thread delivers nothing
  to a request cancelled since it looked); section 10 shows what happens without it.

All rest on `RequestAssumption` and `ThreadAssumption` only. Liveness
(`EveryRequestFinishes`) is model-checked only.

## 3. WorkflowManager

### Correspondence

All of it runs on the main thread. A host call (`StartWorkflow`, `ProcessActivity`,
`CancelWorkflow`, ...) is an action; so is the handling of one response
(`OnConfig`, `OnWorkflowResponse`, `OnWorkflowNotFound`, `OnComplete`, `OnAbort`, `OnError`, `OnScore`),
with every field it assigns and every request it sends. Requests are records in
`calls`, which the server answers (`Serve`) in any order, as network threads do.
`workflowKey`, `secret`, `userName`, `workflowType`, `sessionKey` are the manager's
fields. A request's listener reads them when its response comes, except for the type,
which most methods capture when they are called: it is part of the request then (`type` of
`Call`), as in `sendComplete`; only the response to an activity's answer takes the field
(`RequestManager.java:316`). `onConfigLoaded` is the one callback after which its handler goes on, so
the host may run inside it: `frame`. The remaining variables
(`heard`, `asked`, `outcomes`, ...) are what the host has seen.

The server is external, modelled from the replies the code distinguishes: it
keeps a status for each workflow, completes or aborts it when asked, and may be
unreachable at any call. A configuration may also be such that a handler throws
(`"configMalformed"`): its licence has no provider or system, and `ConfigurationResponse.parse`
throws (`OnConfigUnreadable`), or its workflow has no code, and `getWorkflowKey` throws after
`onConfigLoaded` (in `ConfigContinues`). `BasePostRequest.java:177-180` swallows both, and the
variable `swallowed` has the workflows that end there.

### Properties and runs

| Run | Instance | Question |
|---|---|---|
| `steps` | two workflows of two users and two types, one after the other in either order; one with the status check and device based, the other by `startWorkflow` or by `resetPassword`; errors anywhere, a configuration that fails or makes a handler throw, `cancelAllRequests` and a host that attaches and detaches its listener between workflows | do callbacks name their workflow (`CallbacksNameTheirWorkflow`), is each request made with the key of its own workflow and instance (`AnswersOwnWorkflow`), is "completed" true (`CompletedIsDone`), is there one outcome (`OutcomeIsFinal`), a score only after a success (`ScoreNeedsSuccess`), silence after `cancelAllRequests` (`CancelAllSilences`), and is every step answered (`EveryStepAnswered`)? |

`CallbacksNameTheirWorkflow` leaves out the callbacks of a workflow started by
`resetPassword` and errors before the first activity, for which the code does not hold it;
`EveryStepAnswered` leaves out the workflows in `swallowed`, of which nobody tells the host
anything. The run has `HostMay = {}` and no `"otherTasks"`: hosts that overlap two
workflows, cancel before the first activity or inside `onConfigLoaded`, and servers with
tasks the client does not know, break properties of the run, as section 10 says.
Two workflows are the fewest that can mix in the shared fields; each is
started at most once, so that the instance key names it. Weak fairness of `FairSpec`: every
request of a workflow is answered or times out (Volley's promise, section 2), its response is
handled, and `onConfigLoaded` returns. The host is not obliged to anything.

### Proofs

`WorkflowManagerProofs` proves for any number of workflows, users and types, with
requests lost, refused, cancelled or answered late and in any order:

| Theorem | Property | Hosts it holds for |
|---|---|---|
| `FlowAlways` | the invariant `FlowInv`, which implies `TypeOK` | all |
| `ScoreAlwaysNeedsSuccess` | `ScoreNeedsSuccess` | all, also with overlapping workflows |
| `OutcomeAlwaysFinal` | `OutcomeIsFinal` | all |
| `CancelAllAlwaysSilences` | `CancelAllSilences` | those that do not call `cancelAllRequests` inside `onConfigLoaded` |
| `AlwaysAnswersOwnWorkflow` | `AnswersOwnWorkflow` | one workflow at a time, no cancel before the first activity (`WellBehaved`) |
| `CompletedAlwaysDone` | `CompletedIsDone` | the same |
| `CallbacksAlwaysNameTheirWorkflow` | `CallbacksNameTheirWorkflow` | the same |

All of them suppose `"otherTasks" \notin ServerMay`. The conditions are those under
which section 10 has counterexamples when they are dropped.

None of the properties is inductive. `FlowInv` adds three facts to the types.
`OneChain`: at most one request of a workflow can lead to its start on the server
(configuration, then status, then start), so that what is started was not there
(`NotYetThere`). `ServerFits`: what a request and its answer say about the server is
still true when the answer is handled, since a workflow that is done or aborted stays
so; a session key is then always one of a workflow that is done. `OneAtATime` says
that the fields are those of the workflow that has asked last, and every live
request belongs to it. `OneFlow` says that a workflow without a cancel goes on in one
request or in the frame of `onConfigLoaded`, and one with an outcome in none. `FieldsName`, with
`OneAtATime`, says that user and type are those of the workflow whose requests are under way after
its configuration, or that has asked for an activity, and that what a request has captured is
the type of its workflow. Each is proved
action by action; `ResponseShape` and `ResponseEnds` say what the handlers
have in common.

Besides the types of the constants the proofs use two assumptions:
`Checked \cap Resets = {}` (`resetPassword` never asks for a status first) and
`Nothing \notin Reply` (no answer yet is not an answer). `EveryStepAnswered` is liveness
and model-checked only.

## 4. DiskBasedCache

Every public method is synchronized and is one action: `Initialize`, `GetHit` /
`GetUnreadable`, `Put` / `PutFails`, `Invalidate`, `RemoveKey`, `Clear`. Pruning is
the operator `Pruned` inside `put`, with the code's two thresholds and its habit of
subtracting an entry's size only if there was a file to delete. `mem.entries` is
the access-ordered `LinkedHashMap`, `mem.total` is `mTotalSize`, `disk` the
directory. A response is a name with a length; a file remembers whose header and
data it has and whether it was cut.

`DiskMay` turns on what happens to it: writes that fail, files the platform deletes from
the cache directory, the death of the process between operations (`Crash`) and
within `put` (`CrashInPut`: before the file is opened, while the header is written,
while the data is written, after). `initialize()` of the next process finds the
files in any order.

`mTotalSize` drifts upwards without limit (below), so `MaxDrift` bounds how
far off it may be before another file is lost; 4 allows a drift past the
pruning threshold. Three keys with lengths 2 and 5 and a maximum of 9 are
enough for pruning of one, of several and of all entries, and for a response
that alone fits.

| Run | Question |
|---|---|
| `disk` | in every such history: is what is served what was stored last (`ServesWhatWasPut`), is every file known to some entry after initialization (`NoOrphanFiles`), is what is on disk bounded by the total and the headers (`DiskUseIsBounded`), does a `put` make room (`PutMakesRoom`)? |

### Proofs

`DiskBasedCacheProofs` proves the four properties of the run for any keys, file
names, lengths, maximum size and number of entries, whatever `DiskMay` has:

* `InvAlways`: the inductive invariant. `MemInv`: the entries have different keys and
  the sum of their sizes is at most the total; `FilesInv`: what is in a file is there
  under the name of its key; `Covers`: for the files there are, the entry of the key is
  at least as large as the data; `AllKnown`: once initialized, every file can be read
  and has an entry. `TotalNeverTooLow` says what is left of "currently used": the total is
  never too small, it only drifts upward (section 10).
* `NoOrphanFilesAlways` and `DiskUseIsBoundedAlways` follow. They need not suppose that
  keys have different file names: an entry whose file another key has taken
  over is still an entry that pruning reaches.
* `PutMakesRoomAlways` is about the loop of `pruneIfNeeded`: it stops when the
  total is below the lower threshold or the iterator ends. Since the total is
  at least the sum of the sizes, and what is deleted is taken off it, more than one
  entry with the total at the maximum is not left. The loop's stopping point is a
  minimum (`Evicted`), and the sums are folds, so that the proof is an induction
  over the list of entries.
* `ServesWhatWasPutAlways`: the invariant `Agree` says that a file that is read whole
  has the response last put under its key, and a header in memory the same, as long
  as the file is there. It holds if `getFilenameForKey` tells keys apart (`NamesDiffer`):
  a file name is made of two hash codes, and with a collision `get` returns one key's header
  with the other's data.

## 5. ImageLoader

All on the main thread. `containers` are the `ImageContainer`s, `requests` the
`BatchedImageRequest`s, `inFlight` and `batched` the two maps, `posted` whether
`mRunnable` is set. The delivery runnable is a sequence of steps, one per
callback (`RunBegins`, `RunCalls`, `RunNextBatch`, `RunEnds`), because a listener may
call `get` and `cancelRequest` from inside; `run` has the position of its two
iterators and whether the collections under them have changed, with the rules of
`LinkedList` and `HashMap` (`RunThrows` is the exception that ends the program).
`env` is chosen once, at the start, from `World`: which of three disturbances the behaviour
has. Properties that only hold without some of them say so.

`ImageRequest` is cacheable, so that the queue may answer one request twice: with a
cached image that is soon stale and then with what the server sends, or with nothing more
if that is a 304 (`Afterwards`, `NotModified`; section 2). `Refreshed` are the images for
which that may happen. The loader finds the callers of an answer by the key
(`ImageLoader.java:285`), so that the second answer of a request takes those of whatever
request for the image is in flight by then; `by` remembers whose answer it was.

| Run | Question |
|---|---|
| `images` | does an answer find its own callers (`AnswerFindsItsCallers`), is what a caller is told an answer for its image, its own request's or, if the image is answered twice, an older one's (`CallbackFitsAnswer`), is nobody called twice (`CalledOnce`) or forgotten (`EveryCallerIsCalled`)? |

Three containers are enough for one whose answer waits, one that shares its
request and one that asks again; two keys for two batches in one delivery, one of them answered
once and the other up to twice. `World` has the environment without disturbances and
the one with all three; a flag only allows more, so that the second has the behaviours
of all the others. Fairness: the main thread does not rest while an answer is there
or the runnable is due, and the queue answers every request that is not cancelled
(section 2). `EveryCallerIsCalled` speaks of the undisturbed environment only, in which second
answers come all the same; what happens with each disturbance is in section 10.

### Proofs

`ImageLoaderProofs` proves, for any keys, any number of containers and every choice
of `World` and `Refreshed`, that the types are right (`TypeCorrect`) and three of the four properties of
the run. None is inductive by itself; three invariants build on each other.

1. `TypeInv`: the types, and `Belong`: a container is in the list of its own request
   only, and only once. `LinkedList.remove` takes out the first occurrence; that it
   thereby takes the container out altogether needs `Belong`.
2. `AnswersInv` adds that what a map has under a key is a request for that key
   whose callers have no answer while it is in flight and have one once it is batched (`Filed`), that
   what is in flight is the newest request for its key (`Newest`), that a request which was answered
   has no callers left without an answer (`Waits`, with `AnswerFindsItsCallers`), that callers have
   theirs from a request not newer than their own (`Sourced`), that a request
   being delivered has one (`TodoAnswered`), and that who was called was told it (`Told`).
   `AnswersKept` says that an answer given is final. `Newest` is what keeps the answer of a later
   request away from the callers of an older one: the maps are by key only.
   `AnswersFindTheirCallers` and `CallbacksFitAnswers` follow.
3. `CallsInv` adds where the delivery stands: nobody in a batch still to come has been
   called (`ToCome`), nor anybody after the iterator's place in the list it is in, as long
   as that list was not changed (`Behind`): a changed one makes the iterator throw.
   `NobodyIsCalledTwice` follows, with `BatchesInOrder`: the batches of a delivery come in
   some order, each once.

`EveryCallerIsCalled` is liveness and model-checked only.

## 6. BasicNetwork and ByteArrayPool

`ByteArrayPool` keeps the class's three views of its buffers: `byLastUse`, `bySize`
and the total `currentSize`. Both methods are synchronized, so `GetBuf` and
`ReturnBuf` (with `trim`) are one step each; where `binarySearch` may put a buffer
among equals is left open. Buffers have an identity and a length, 0 once
they are garbage, and `lent` has those in somebody's hands.

`BasicNetwork` is one network thread, its program counter a position in
`performRequest`, `entityToBytes` or the stream's `expand`. A step ends at each call
of the socket and each lock of the pool. `SendFails`, `NotModified` and `Respond`
are what the stack may do: an `AuthFailureError` that it throws itself, while it takes the
headers and the body from the request (`HurlStack.java:90-91, 199`), is passed on without a retry
("noAuth"; no request of the repository throws one). `Open`, `ContentFails`, `GetChunk`, `Read`, `Grow`, `Swap`,
`ReadEnds` the reading of a body; `ReturnChunk` and `Close` its `finally`; `Check` the
test of the status. `Retry` is `attemptRetryOnException` with `DefaultRetryPolicy.retry`,
which counts first and compares then. `logUrl` is the exemption of the logging URL
from the test of the status (`BasicNetwork.java:141`); a redirect may lead to or away from it.
`ContentFails` includes the `IllegalStateException` of an entity whose content is null, which
`HurlStack.java:158-160` may make. `finalize` of a stream has no action: after `close` there is
nothing it could return. Other threads share nothing but the pool: `OtherGets` and `OtherReturns` are
their effect on it, at any moment.

| Run | Question |
|---|---|
| `exchange` | do the views of the pool agree and stay within the limit (`PoolIsSound`), has every buffer one user (`OneOwner`), does an exchange give back what it got however it ends (`NothingKept`), is a request sent exactly as often as its policy allows before an error that could be retried is reported (`AttemptsUsedUp`), is only what was read without an exception and has a good status delivered (`ResponseIsGood`), does every exchange end (`EveryExchangeEnds`)? |

Lengths are scaled: 2 for the stream's first buffer, 3 for the read buffer, a
limit of 4, so that the pool holds two of the first or one of the second,
`trim` removes one or two, an announced body needs more than the default and a grown buffer (6)
is larger than the pool takes. One retry shows the loop; another thread with one
buffer is enough to take what this one returned. Fairness: an exchange goes on,
as sockets have timeouts and bodies end (`MaxBody`). In the last respect the run assumes more
than the code does: a server that sends for ever keeps the thread.
`MaxBuffers` bounds the identities of buffers; `NetworkAssumption` makes it large enough
that a buffer is free whenever `GetBuf` needs a new one, which is proved (`AlwaysRoomLeft`).

### Proofs

`BasicNetworkProofs` proves `AttemptsUsedUp`, `ResponseIsGood` and `NothingKept` for
all retry counts, all lengths of buffers and bodies, and any number of buffers with other
threads, by the inductive invariant `NetInv` (`NetInvAlways`). `Counted` says that
every attempt but the one under way was counted as a retry the policy allowed, so that
an error that could be retried is reported after exactly `limit + 1`; `WholeBody` that the
status is looked at only when nothing was thrown; `Held` in which part of the code
a buffer can be with the exchange, which is why it has none when it ends.

`PoolIsAlwaysSound` and `OneOwnerAlways` are about the lists. `PoolInv` says that both
have the same buffers, each once, the one by size in order, that none of them is lent, and
that the total is their sum and within the limit. A buffer comes out of each list with
`RemoveFirst` or at the front; `trim` takes a prefix of one list and those buffers, wherever they are,
out of the other (`Trimmed`, a recursive function). The lemmas are of two kinds: what such a
list still has, and that the sum of the lengths changes by what left (`DataLemmas`).
`AlwaysRoomLeft` shows that the bound on buffers (`NetworkAssumption`) never decides
what `getBuf` does. `EveryExchangeEnds` stays with TLC.

## 7. The key exchange

### Correspondence

A number is a sequence of limbs of `W` bits; the code has `W = 8`, operands of 32
limbs (`H = 8`, the length at which Karatsuba's method stops) and the prime
2^255 - 19 (`C = 19`). Every definition is written for all `W`, `H` and `C`, so that
TLC can go through a field small enough to enumerate while the carries, the
unreduced elements and the folding at the top bit are those of the code. All
loops that carry are one operator, `Chain`, all that borrow another, `Borrow`; both
keep the 16-bit temporaries (`Word`). `fe25519_sub` and `fe25519_mul` keep their
third loops over three limbs only.

`InversionChain` has the two addition chains line by line, with the register each
line sets, the loops with their two alternating temporaries, and the exponent the
comment announces. An exponent is the set of its bits, as TLC's integers cannot
hold 2^255. The ladder inverts by a plain power, since the chain is for one prime.

`ECDHCurve25519` is `test.c` with the JNI functions: keys for Alice and Bob, or for
Alice and a peer that sends any bytes. A scalar multiplication starts (`Starts`), goes
bit by bit (`LadderBit`) and ends (`Ends`). `CopiedKey` has the `memcpy` of
`sizeof(secret_key)`: `Copied` limbs are taken, the others are what the array held.
`prefix` and `multiple` are history variables: which bits are done and which
multiples of the point the work array ought to stand for.

### Properties and runs

| Run | Instance | Question |
|---|---|---|
| `curve` | 2-bit limbs, the prime 127, a curve of order 4 * 31; edge cases of random bytes and leftovers, public keys on the curve and on its twist, reduced and not | do both ends get one secret (`SharedSecretsAgree`); do the swaps, of which the last is missing, leave the right multiple in place (`LadderInStep`); do the projective coordinates stand for it at every bit (`LadderIsRight`); are keys what group theory says, reduced (`KeysAreMultiples`); are the field operations exact on two of the elements the ladder works on, `xp` and `zq` (`FieldIsExact`); as assumptions that TLC evaluates, does every line of both addition chains compute what its comment announces (`ChainsAsCommented`), and are the reference's multiples, computed by doubling and adding, those of repeated addition (`MultiplesByAdding`)? |
| `secretkey` | the same | (a counterexample) do the random bytes determine the key? |

The prime 127 = 2^7 - 1 has 4 limbs of 2 bits, so every loop runs, the top bit is
inside the last limb as in the code, and 2p + 1 is the largest element four limbs
hold, which needs both subtractions of `fe25519_freeze`. In a field as small as that the
second loop of `fe25519_mul` never carries. `Clamp` leaves only the scalars 64 and 124 of
seven bits, and wipes the one limb that the key copies; that the ladder, the keys and the
exchange are right for every scalar is what the theorems below show. The two addition chains
are checked at their real size; that the arithmetic is exact at that size, and at
any other, is proved.

### Proofs

`ECDHCurve25519Proofs`, for all constants. First what the arithmetic computes:

* `LadderAlwaysInStep`: `Spec => []LadderInStep`, by the inductive invariant `InStep`
  (`LadderInStep` with the types of the history variables).
* `ProductFitsTemporary`, `FoldFitsTemporary`: the temporaries of `bigint_mul` and `fe25519_mul`
  never overflow, whatever the base of a limb is. `BorrowIsExact`: the top bit of a
  temporary that wrapped around is the borrow.
* `MulIsExact`: `bigint_mul32`, that is two levels of Karatsuba's method with all the
  ninth and seventeenth limbs, over the schoolbook method, is the product of any two
  elements. `SumsAreExact`, `ProductsAreExact`: addition, subtraction and
  multiplication are exact modulo p for elements that need not be reduced.
  `FreezeIsCanonical`: two subtractions always reach the least residue.
* `TwoLimbsAreEnough`: the answer to `fe25519.c:103`, "3 should be enough here, is 2
  enough?". It is: nothing carries out of the second limb.
* `TypesAreRight`, `KeysAlwaysReduced`: all that the ladder works on are elements, and
  every key it returns is a least residue. `TypeOK` is not inductive, since a public key
  could come from a secret that does not exist yet; the invariant `Inv` adds that
  it does not, nor a multiplication under way.
* `FieldAlwaysExact`: `Spec => []FieldIsExact`, from `TypeOK` and the five theorems.

The argument goes from the bottom up. `Value` is unfolded by `ValueTop`, one limb at a
time; `Power` is a limb's weight, defined in the proofs by repeated products.
`ChainExact` and `BorrowExact` say, by induction over the length of a chain, that its
limbs and what runs out of it are together what went in; `MulExact` is the same over
the rows of `bigint_mul`, and `KaratsubaExact` holds for any three exact products.
In the field, `IsWorth(z, v)` is an element congruent to v: `ThePrime` makes 2C at the bottom worth
the limb above the top, and bounds of what is folded back show that a second carry
leaves a number so small that the third loop stays in its first two limbs.
The inductions are over sets of naturals (`NatSetInduction` of `DataLemmas`), and
the functions that the model defines by recursion exist by `RecursionExists`.

What the numbers stand for:

* `StepIsMontgomery`: `ladderstep`, over elements that are hardly ever reduced, is one doubling and
  one differential addition of Montgomery's formulas (`Doubled`, `Added`), as residues.
  (The inversion at the end is the power p - 2 that the comments of `fe25519_invert` announce;
  that its addition chain yields that power is what `InversionChain` checks.)
* `LadderAlwaysRight`: `Spec => []LadderIsRight`. `KeysAlwaysMultiples`: `Spec =>
  []KeysAreMultiples`. `SecretsAlwaysAgree`: `Spec => []SharedSecretsAgree`.

They share the invariant `KeysInv`, which TLC has checked in the instance of the run `curve`
too. It says of a call (`CallRight`) that its scalar is the clamped secret; that the scalar
is what `prefix` is worth above the bit reached and what its own bits are worth below it
(`Taken`); that both pairs stand for their multiples (`PointsRight`); that the point is the base point
or the peer's key. It says of each key that it is the multiple it should be, and that a shared secret
has been made from keys that are there: without that, a public key that comes later
would change what the secret ought to be. Where a point has the coordinate 0 there is no
multiple to stand for, and `PointsRight` has what the code's 0 follows from: one of each
pair's coordinates is 0, which `ladderstep` keeps.

A pair of coordinates is one of many for its point, and the ladder's are not those of
`Coordinates()`. `Scaled(d, l, c)` says that d is l times c; `DoubledScales` and `AddedScales` carry such factors
through the formulas, where they come out as l^4 and (h * l)^2, and `UnitIs` and `UnitProduct` say that these have
inverses, from `FermatAssumption`. At
the end of a multiplication the scalar is used up and even (`ClampIs`), so that `prevbit` is 0
and xp is where the code takes the result from (`EndsRight`).

From mathematics the proofs assume what they name, and nothing about the code. TLC
evaluates each of these for the run `curve`:

* `PowersAssumption`: 2^0 is 1 and 2^(i + 1) is twice 2^i, up to the width of a limb.
* `FermatAssumption`: x^(p - 1) is 1 modulo the prime p for x other than 0.
* `PointsAssumption`: the multiples of a point are points with coordinates in the field.
* `FormulasAssumption`: Montgomery's formulas, given the reduced affine coordinates of kP and (k + 1)P,
  yield coordinates of 2kP and (2k + 1)P, if the coordinate of P is not 0.
* `MultiplesAssumption`: j times kB and k times jB have one coordinate, for the base point B.

The last two are the group law, which is the theory of the curve and not of this
library. `FieldAssumption` has the one relation of the code's constants that the arithmetic
needs: 2C is less than what a limb can hold; `SameField` says that the curve is one over this field and
that A24 is its (A + 2) / 4.

The addition chains of `InversionChain` stay with TLC: they are data, straight-line programs at
their one real size.

## 8. AES and strings

A byte is the set of its bits, so that exclusive or is symmetric difference and
the model needs no bit operations of the tool. `Aes256` has the functions of
`aes256.cpp` as compiled (without `BACK_TO_TABLES`): the substitution box from
logarithms, the rounds, and the two expansions that turn the key of one pair of
rounds into that of the next, or back. `Skm` is `encrypt()` and `decrypt()` of
`skm.cpp`, one round a step; the embedded key is the constant `CipherKey`.

| Run | Question |
|---|---|
| `skm` | is each round that of FIPS 197 with the expanded key (`RoundsAreStandard`); does decryption go back through the same states, with keys undone in place (`DecryptionRetraces`); does a text of characters of up to three bytes survive, does null come back for what is not UTF-8 and for nothing else, and what is left when the end of the encryption is lost (`TextSurvives`); does everything fit (`EncodedFits`)? |

Texts of 0 to 34 bytes end before, at and after the end of a block, with characters of
one to four bytes, a surrogate, broken characters and an inner zero; of the result
0, 1 or 16 bytes may be lost. `NewStringUTF` is the platform's and takes modified UTF-8, in which a
character beyond FFFF is two surrogates of three bytes each. What `utf8_check_is_valid` lets pass and
`NewStringUTF` is not made for (four bytes, overlong forms, numbers beyond 10FFFF) comes back as it
was or as another text (`OtherText`), as the release of the platform has it; `IsPlainText` says for which
texts the conversion is exact. `SampleIsRight` checks the reference itself with the
example of FIPS 197, C.3, and `Utf8CheckIsRight` the UTF-8 check against RFC 3629
(`Utf8Standard`) for all strings of up to four bytes over the edges of every class of bytes. Rounds
do not depend on values, so that a few blocks are enough; the substitution box
is compared for all 256 bytes by the rounds of the texts and the table of the reference.

### Proofs

`SkmProofs`, for every key, all texts, all cuts and whatever the buffer held:

* `DecryptionAlwaysRetraces`: `CryptSpec => []DecryptionRetraces`. Decryption has no
  reference to compare with but encryption; this says that each of its rounds undoes one.
* `EncodedAlwaysFits`: `CryptSpec => []EncodedFits`.
* `RoundsAlwaysStandard`: `CryptSpec => []RoundsAreStandard`. Encryption is AES-256 of the
  standard, for every key and every block.
* `TextAlwaysSurvives`: `CryptSpec => []TextSurvives`. A text without zeros, of characters of up
  to three bytes, comes back as it was; what the check refuses comes back as null, and nothing
  else does; of a text whose end was lost the whole blocks come back, or null, or `OtherText`.
* `ValidIsLaxText`: for strings of every length, `utf8_check_is_valid` accepts exactly what is
  made of the characters of RFC 3629 and of the further ones in `IsLaxCharacter`, overlong
  forms and numbers beyond 10FFFF. That is what `Utf8CheckIsRight`
  checks on short strings.

Each step of a round is undone by its inverse: `SubUndone`, `ShiftUndone`, `MixUndone`,
`KeyAddedTwice`. For the columns (`MixOfColumn`) only two things are needed, that exclusive
or is associative and cancels, and that doubling is linear (`XtimeIsLinear`, bit by
bit). For the keys, `ExpandEncKeyIs` says that the loops of `aes_expandEncKey` make the bytes
that take in lower ones, and `ExpansionUndone` that `aes_expandDecKey`, from the top down,
takes the same out; `ScheduleIs` that decryption starts from the last key of encryption.

The invariant `CryptInv` says where in its history each call is: the trace is made of
rounds (`TracesAreRounds`); `encrypt()` at round r has the key of the rounds r - 1 and its number as
the round constant (`Inside`); what it has written are the ends of the traces (`HoldsEnds`); and
`decrypt()` at round r has the key of round r + 1, and the state that encryption had after
round r, if the block is whole (`Decrypting`). Without it `DecryptionRetraces` says
nothing of keys, from which the next step follows.

The standard is defined another way than the code, and `RoundsAgree` compares them. The
boxes are the same function, `rj_xtime` is the standard's `TimesX`, and rows and columns are
the code's indices by arithmetic (`RoundIsStandard`). The code never holds the 60
words of the expanded key, only the eight it needs next. `WordOf` reads each word off
the code's keys, `WordAppended` shows that the standard's next word is that one,
and `WordsAre` follows by induction over the 60. `Started` adds to `CryptInv` what each
trace begins with: its part of the padded text, under the first round key.

The check for UTF-8 and the reference go through a string in two ways, one by a loop that
counts down the bytes still to follow, the other by cutting off a character. Both are
functions of a place in the string that depend on later places only. `AreEnds(s, G)` says of a set G of
places that each is in it if and only if a character that is let pass leads to the end or
another place of G. Such a set exists (`EndsExist`, by induction from the end); the
reference's function is membership in it (`ParseIs`), and so is the check's
(`CheckIs`), because for one character their conditions are the same: `Passes`, from the numbers
of the first byte (`LaxCharacterIs`, `ChecksIs`).

For texts, `TextInv` says what `decrypt()` has written: while blocks are whole, exactly the
text up to there (`Opening(at)`); after one that is not, something that begins with
the whole blocks (`Recovered`). The last round of a whole block gives back the padded
block of the text (`BlockComesBack`, from `DecryptionRetraces`, `Started` and
`KeyAddedTwice`), of which the C string is the text's part when it has no zeros
(`CStringOfText`, `OpeningGrows`). A part block only appends (`OpeningStays`). At the end
`ValidIsLaxText` turns the check's answer into the property's.

Two facts about data are assumed, since the provers cannot go through 256 values:
`BoxesAssumption` says that the inverse box undoes the box, `StandardBoxAssumption` that the box,
which the code gets from logarithms, is the standard's. Neither has parameters, so that TLC's
evaluation in the run `skm` settles them.

## 9. RequestFuture

`RequestFuture` stands on `RequestService` (section 2), through `INSTANCE`: adding,
answers, ends and cancels are steps of the abstraction, so what a future may hear
is what `RequestQueue` was checked to let it hear. `Answer` is the test of the
canceled flag in `ExecutorDelivery`, `onResponse` and `onErrorResponse` the callback
after it; a cancel may fall between. A getter is at `start`, `waiting` in the one
`wait()` of `doGet`, `woken`, or `back`. `WakesUp` is the end of the timeout or a
spurious wake-up, `Interrupted` may come while it waits or competes for the lock.

| Run | Instance | Question |
|---|---|---|
| `future` | three threads in `get()`, one with a timeout | does nobody sleep beside an answer (`NoLostWakeup`), is what is told an answer in its kind (`OutcomesAreAnswers`), never an older one than somebody was told before (`GetsNeverGoBack`), does every `get` return (`EveryGetReturns`)? |

Two untimed threads are needed to tell `notifyAll` from `notify`; a request is
answered at most twice, so the bound on answers is exact. Fairness: the HTTP
layer gives a first answer (section 2: `EveryRequestFinishes`, so not to a request that is dropped
as in finding 1, nor after a cancel, when `Answer` is disabled), the main thread runs the callback, a woken thread gets the lock,
and the clock of a timed wait goes on. Nothing makes an untimed wait end by itself.

The last part of `RequestQueueProofs` proves `NoLostWakeup`, `OutcomesAreAnswers` and
`GetsNeverGoBack` for any number of threads. The invariant `FutureInv` adds to the types what
the fields may hold: a result or an error is an answer heard, the one under way is the last
one heard, and what has been told is not newer than what the fields hold
(`FieldsFit`, `ToldFits`). `EveryGetReturns` is liveness and stays with TLC.

## 10. Findings

Runs that end in a counterexample, with the line they contradict:

1. `throws`: `CacheDispatcher.java:164-167` drops a request whose cached data
   does not parse; nobody finishes it, and later requests for its key wait for
   ever (against `RequestQueue.java:54-55`).
2. `secretkey`: `ecdh_curve25519.c:40` copies `sizeof` a pointer, so that 24 or 28 of
   the 32 bytes of a secret key are not from the random number (against
   `ecdh_curve25519.h:44`). Both ends still agree on a secret, which is all
   that `test.c` looks at.

Other disagreements with the documentation, which the models contain but no run
of the list shows; each appears with the change named:

* `resetPassword` never records its user (`RequestManager.java:187-217`), so its
  callbacks carry null or the user of an earlier workflow, against
  `IWorkflowProccessListener.java:39`: drop the exception for `reset` from
  `CallbacksNameTheirWorkflow`.
* A workflow in progress whose pending tasks are of types the client does not know is
  reported as completed (`RequestManager.java:420-442`), against
  `IWorkflowProccessListener.java:53`: `ServerMay = {"otherTasks"}` with
  `CompletedIsDone`.
* `cancelRequest` looks for the key in the in-flight map first (`ImageLoader.java:354`); when
  it has been requested again, a cancelled caller of the batch is called, against
  the comment at 467-469: check `CancelledIsSkipped` as a property.
* A configuration with a licence without provider or system, or a workflow without
  code, ends its workflow without a word: the exception stops in the catch-all of
  `BasePostRequest.java:177-180`, and `onWorkflowError` is not called, against
  `IWorkflowProccessListener.java:14`: drop `swallowed` from `EveryStepAnswered`.

Other observations, which contradict no promise in the repository:

* `OffMainCancel = TRUE` with `KeepsPromise`: a cancel from another thread
  falls between the test of the flag and the callback.
* When the first request of a key fails or is cancelled, all staged requests
  are released together onto a cache that is not primed (`RequestQueue.java:295-297`).
* `CacheDispatcher.java:98` reads the URL of a request it has just set to null, so
  that the interrupt of a `stop()`, or of a second `start()`, does not end the cache thread as the
  comment before it has in mind ("We may have been interrupted because it was time to quit") but,
  by an uncaught `NullPointerException`, the process: check `Alive` as an invariant of `staging` or
  `restart`. The library itself starts each queue once (`Volley.java:82`) and never stops one; a host that does ends itself.
* The second answer of an image request (cached and soon stale, then from the server) is
  given to the callers of whatever request for the image is in flight by then
  (`ImageLoader.java:285`), whose own answer finds nobody later. They are called once and with an answer
  for their image, but it may be an error of a request that is not theirs.
* `HostMay = {"overlap"}` with `CallbacksNameTheirWorkflow`: two workflows at a
  time overwrite each other's user and type. `{"cancelEarly"}` with
  `AnswersOwnWorkflow`: a cancel before the start is answered aborts the
  definition's key. `{"cancelInside"}` with `CancelAllSilences`: the handler of
  the configuration goes on after a `cancelAllRequests` inside its callback.
* A configuration that fails calls `onWorkflowError` before the user of the new
  workflow is stored.
* `DiskMay = {"writeFails"}` with the invariant `SizeIsExact`: a failed `put` keeps an
  entry without a file, whose size is never taken off `mTotalSize`, so that it is
  not the space "currently used" of `DiskBasedCache.java:54`.
* `DiskMay` with `"crashInPut"`: the cache serves a response cut short when the
  process died while its data was written, since nothing in the file tells.
* `"overtake" \in env`: a second answer for a key within the batch delay replaces
  the first batch, whose callers are never called. `"inside" \in env`: a listener
  that cancels its own finished container makes the next caller be passed over.
* `calculateUserScore` is documented to throw an `IllegalStateException`; the
  code calls `onError` of its listener. A listener whose `onError` throws is called twice
  (`BaseApi.java:90-101`). `mActiveRequests` only grows.
  The retry policy in use allows no retries.
* A 304 for an entry without stored headers ends in an `UnsupportedOperationException`
  (`BasicNetwork.java:117`, the outcome "exception"), as an error of the request.
* `QueueCancels`: `RequestQueue.cancelAll()` leaves the loader's key in flight, and later
  callers join a request that nobody will answer.
* `RequestFuture.cancel` wakes nobody, so that an untimed `get` of a cancelled request
  never returns (the exception in `EveryGetReturns`); a spurious wake-up makes an untimed
  `get` throw an `AssertionError`; `get` may return a result after `cancel` returned true, and
  two calls of `get` may tell two answers if a cached one was soon stale.
* `fe25519_iszero` starts at limb 1 and `equal` returns 65535 instead of 1; like
  `iseq_vartime`, `getparity`, `neg` and `pow2523` it has no caller. `bigint_mul16c` writes
  `t[17]`, which nobody reads. Two limbs are enough in the third loop of `fe25519_mul`
  (`TwoLimbsAreEnough`, proved), which its comment asks.
* `decrypt()` of `skm.cpp` cuts each block at its first zero byte, so that a text with zeros loses
  the rest of that block; its UTF-8 check lets overlong forms and numbers beyond 10FFFF
  pass (`IsLaxCharacter`) and hands four-byte characters to `NewStringUTF`; it never
  frees `source`. A last block that is not whole is decrypted with what the buffer held.
  `decryptSalt` removes the cipher's marker wherever it occurs.

## 11. What is not modelled, and why

* The contents of messages: JSON, headers, bodies. The workflow model keeps whose
  salt and key a payload is made with, which is what can be mixed up. Of
  `ApiCryptManager` and `EllipticCurveKeys` the Java half is calls of the platform's
  ciphers, Base64 and preferences.
* The headers under `jni/include/polarssl`: 19,750 of the 21,489 lines of C in
  the repository. They are a third party's declarations and configuration macros,
  with a few inline wrappers of a line or two; no source file of the repository includes
  them, and the functions they declare are not in it. There is no behaviour of
  this library in them, so that the share of C lines covered cannot rise above what the
  library's own sources are, all of which are modelled.
* Of the native code: the conversion of Java arrays, memory management beyond the
  uninitialised arrays above, the tables of `aes256.cpp` that are not compiled, and
  the overwriting of keys in `aes256_done`.
* HTTP stacks, logging, views, the sample application: one platform call each, or
  no state. The growing timeouts of the retry policy, which parameterise the socket.
* `changePassword` and the generic requests, which touch no field of the workflow
  protocol; the `isDeviceBased` argument of `onWorkflowCompleted`.
* In `DiskBasedCache`: a `delete()` that fails although there is a file; two keys
  that share a file (possible with another `FileOf`; every run gives each key its own).
* The wrap of the `int` sequence counter.

Out of the prover's reach: liveness and fairness, which stay with TLC. Induction is
not, although no rule that takes a predicate as parameter can be used: `DataLemmas` states it
for sets (a set of numbers with 0 that is closed under successor has every number; a family of
finite sets with the empty one that is closed under adding an element has each finite set) and gets it
from the minimum of a well-founded relation; each use names the set of those for
which the claim holds.

## 12. Plan

In order of importance, with what each will check and prove.

1. *Done:* `RequestQueue` with its abstract specification and first theorems;
   `WorkflowManager`; `DiskBasedCache`; `ImageLoader`; `ByteArrayPool` and
   `BasicNetwork`; the key exchange and the encryption of `jni/`; `RequestFuture`.
2. Proofs: *done* for `RequestQueue` with its refinement, `WorkflowManager`, `DiskBasedCache`,
   `ImageLoader`, `BasicNetwork` with the pool, the key exchange, the encryption and `RequestFuture`, as
   far as their sections say.
3. `BasicNetwork` under `NetNotModified`, `NetResponse` and `NetError` of `RequestQueue`, through an
   abstract exchange that both refer to.
4. `HttpCaching`: `HttpHeaderParser` and `Cache.Entry` as pure operators checked
   against a reference over bounded headers; connects to `Freshness`.
5. `NetworkImageView` over `ImageLoader`: the container it holds, recycling and detaching.
6. Composition: `RequestQueue` over `DiskBasedCache` (an entry seen by `CacheTake`
   may be replaced before the 304), and the requests of `WorkflowManager` as
   clients of `RequestService`.

## 13. How to run

    tlc -config RequestQueue_mixed.cfg MCRequestQueue
    tlapm RequestQueueProofs.tla

`PROJECT.json` names module, configuration and properties of every run. None
needs more than about three minutes with two workers. Deadlock is not checked:
every system here may come to rest, when callers ask for nothing more or after
`stop()`.
