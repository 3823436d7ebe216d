-------------------------- MODULE RequestQueueProofs --------------------------
(***************************************************************************)
(* Theorems about RequestQueue, for every set of requests, keys, threads    *)
(* and every value of its flags: its bookkeeping, and that it implements    *)
(* RequestService, what is answered and finished in which order, wherever   *)
(* callers cancel, stop and restart and whatever the cache holds; and, for  *)
(* any number of waiting threads, about RequestFuture on top of the service.*)
(***************************************************************************)
EXTENDS RequestQueueService, RequestFuture, SequenceTheorems, TLAPS

USE RequestAssumption, ThreadAssumption DEF Threads, Dispatchers

\* Every step, one disjunct per action.
LEMMA NextCases ==
    ASSUME Next
    PROVE  \/ Start
           \/ Stop
           \/ \E r \in Requests : AddCurrent(r)
           \/ \E r \in Requests : AddUncacheable(r)
           \/ \E r \in Requests : AddFirst(r)
           \/ \E r \in Requests : AddStaged(r)
           \/ \E r \in Requests : Cancel(r)
           \/ \E tag \in {TagOf[r] : r \in Requests} : CancelAll(tag)
           \/ \E t \in Threads : Finish(t)
           \/ \E t \in Threads : Release(t)
           \/ \E t \in Dispatchers : Discard(t)
           \/ \E c \in CacheThreads : CacheTake(c)
           \/ \E c \in CacheThreads : CacheInterrupted(c)
           \/ \E c \in CacheThreads : CacheMiss(c)
           \/ \E c \in CacheThreads : CacheHit(c)
           \/ \E c \in CacheThreads : CacheHitRefresh(c)
           \/ \E c \in CacheThreads : CacheHitThrows(c)
           \/ \E n \in NetThreads : NetTake(n)
           \/ \E n \in NetThreads : NetInterrupted(n)
           \/ \E n \in NetThreads : NetNotModified(n)
           \/ \E n \in NetThreads : NetError(n)
           \/ \E n \in NetThreads, e \in Freshness : NetResponse(n, e)
           \/ DeliveryRun
           \/ Deliver
           \/ Forward
           \/ \E k \in Keys : CacheAges(k)
           \/ \E k \in Keys : CacheEvicts(k)
  <1>1. CASE Caller
    BY <1>1 DEF Caller, Enqueue
  <1>2. CASE \E c \in CacheThreads : CacheStep(c)
    BY <1>2 DEF CacheStep
  <1>3. CASE \E n \in NetThreads : NetStep(n)
    BY <1>3 DEF NetStep, Freshness
  <1>4. CASE MainStep
    BY <1>4 DEF MainStep
  <1>5. CASE \E k \in Keys : CacheAges(k) \/ CacheEvicts(k)
    BY <1>5
  <1>6. QED
    BY <1>1, <1>2, <1>3, <1>4, <1>5 DEF Next
-----------------------------------------------------------------------------
(* Type correctness.  The one fact beyond TypeOK it needs is that a thread   *)
(* holds a request exactly at the labels where it uses one.                  *)

BusyLabels == {"taken", "deliver", "forward", "finish", "release"}

HoldsWhenBusy ==
    \A t \in Threads : (req[t] # NoRequest) <=> (pc[t] \in BusyLabels)

TypeInv == TypeOK /\ HoldsWhenBusy

LEMMA TypeInit == Init => TypeInv
  BY DEF Init, TypeInv, TypeOK, HoldsWhenBusy, BusyLabels, Freshness, Kinds, Provisional, Message

LEMMA TypeStep == TypeInv /\ [Next]_vars => TypeInv'
  <1> SUFFICES ASSUME TypeInv, [Next]_vars
               PROVE  TypeInv'
    OBVIOUS
  <1> USE DEF TypeInv, TypeOK, HoldsWhenBusy, BusyLabels, Kinds, Provisional, Freshness, Message,
              tracking, queues, flags, threads, delivery, observed
  <1>1. CASE Start
    BY <1>1 DEF Start, QuitAll
  <1>2. CASE Stop
    BY <1>2 DEF Stop, QuitAll
  <1>3. CASE \E r \in Requests : AddCurrent(r)
    BY <1>3 DEF AddCurrent
  <1>4. CASE \E r \in Requests : AddUncacheable(r)
    BY <1>4 DEF AddUncacheable
  <1>5. CASE \E r \in Requests : AddFirst(r)
    BY <1>5 DEF AddFirst
  <1>6. CASE \E r \in Requests : AddStaged(r)
    BY <1>6 DEF AddStaged
  <1>7. CASE \E r \in Requests : Cancel(r)
    BY <1>7 DEF Cancel
  <1>8. CASE \E tag \in {TagOf[r] : r \in Requests} : CancelAll(tag)
    BY <1>8 DEF CancelAll
  <1>9. CASE \E t \in Threads : Finish(t)
    <2>1. PICK t \in Threads : Finish(t)
      BY <1>9
    <2>a. /\ pc[t] = "finish" /\ current' = current \ {req[t]}
          /\ finished' = [finished EXCEPT ![req[t]] = @ + 1]
          /\ UNCHANGED <<seq, lastSeq, adding, keysInFlight, waiting, cacheQueue,
                         networkQueue, quit, looper, message, cancelled, delivered,
                         hasEntry, cache, answers>>
      BY <2>1, Zenon DEF Finish
    <2>2. req[t] \in Requests
      BY <2>a
    <2>3. finished' \in [Requests -> Nat] /\ current' \subseteq Requests
      BY <2>a, <2>2
    <2>4. CASE req[t] \in Cacheable
      <3>1. pc' = [pc EXCEPT ![t] = "release"] /\ req' = req
        BY <2>1, <2>4 DEF Finish, Goto
      <3>2. QED
        BY <2>a, <2>2, <2>3, <3>1
    <2>5. CASE req[t] \notin Cacheable
      <3>1. pc' = [pc EXCEPT ![t] = "take"] /\ req' = [req EXCEPT ![t] = NoRequest]
        BY <2>1, <2>5 DEF Finish, Goto, NextTask
      <3>2. QED
        BY <2>a, <2>2, <2>3, <3>1
    <2>6. QED
      BY <2>4, <2>5
  <1>10. CASE \E t \in Threads : Release(t)
    BY <1>10 DEF Release, Goto, NextTask
  <1>11. CASE \E t \in Dispatchers : Discard(t)
    BY <1>11 DEF Discard, Goto
  <1>12. CASE \E c \in CacheThreads : CacheTake(c)
    BY <1>12 DEF CacheTake, Goto
  <1>13. CASE \E c \in CacheThreads : CacheInterrupted(c)
    <2>1. PICK c \in CacheThreads :
              /\ pc[c] = "take"
              /\ pc' = [pc EXCEPT ![c] = "uncaught"]
              /\ UNCHANGED <<seq, lastSeq, tracking, queues, req, quit, delivery,
                             flags, cache, observed>>
      BY <1>13, Zenon DEF CacheInterrupted, Goto
    <2>2. QED
      BY <2>1
  <1>14. CASE \E c \in CacheThreads : CacheMiss(c)
    BY <1>14 DEF CacheMiss, Goto, NextTask
  <1>15. CASE \E c \in CacheThreads : CacheHit(c)
    <2>1. PICK c \in CacheThreads : CacheHit(c)
      BY <1>15
    <2>2. PICK m \in Message : looper' = Append(looper, m)
      <3>1. req[c] \in Requests
        BY <2>1 DEF CacheHit
      <3>2. \E kind \in Kinds : Post(req[c], kind)
        BY <2>1 DEF CacheHit
      <3>3. QED
        BY <3>1, <3>2 DEF Post
    <2>3. /\ pc' = [pc EXCEPT ![c] = "take"] /\ req' = [req EXCEPT ![c] = NoRequest]
          /\ delivered' = delivered \cup {req[c]}
          /\ UNCHANGED <<seq, lastSeq, tracking, queues, quit, message, cancelled, hasEntry, cache, observed>>
          /\ req[c] \in Requests
      BY <2>1 DEF CacheHit, Goto, NextTask
    <2>4. QED
      BY <2>2, <2>3
  <1>16. CASE \E c \in CacheThreads : CacheHitRefresh(c)
    <2>1. PICK c \in CacheThreads : CacheHitRefresh(c)
      BY <1>16
    <2>2. PICK m \in Message : looper' = Append(looper, m)
      <3>1. req[c] \in Requests
        BY <2>1 DEF CacheHitRefresh
      <3>2. \E kind \in Kinds : Post(req[c], kind)
        BY <2>1 DEF CacheHitRefresh
      <3>3. QED
        BY <3>1, <3>2 DEF Post
    <2>3. /\ pc' = [pc EXCEPT ![c] = "take"] /\ req' = [req EXCEPT ![c] = NoRequest]
          /\ delivered' = delivered \cup {req[c]} /\ hasEntry' = hasEntry \cup {req[c]}
          /\ UNCHANGED <<seq, lastSeq, tracking, queues, quit, message, cancelled, cache, observed>>
          /\ req[c] \in Requests
      BY <2>1 DEF CacheHitRefresh, Goto, NextTask
    <2>4. QED
      BY <2>2, <2>3
  <1>17. CASE \E c \in CacheThreads : CacheHitThrows(c)
    BY <1>17 DEF CacheHitThrows, Goto, NextTask
  <1>18. CASE \E n \in NetThreads : NetTake(n)
    BY <1>18 DEF NetTake, Goto
  <1>19. CASE \E n \in NetThreads : NetInterrupted(n)
    <2>1. PICK n \in NetThreads :
              /\ pc[n] = "take"
              /\ pc' = [pc EXCEPT ![n] = "exited"]
              /\ UNCHANGED <<seq, lastSeq, tracking, queues, req, quit, delivery,
                             flags, cache, observed>>
      BY <1>19, Zenon DEF NetInterrupted, Goto
    <2>2. QED
      BY <2>1
  <1>20. CASE \E n \in NetThreads : NetNotModified(n)
    BY <1>20 DEF NetNotModified, Goto
  <1>21. CASE \E n \in NetThreads : NetError(n)
    BY <1>21 DEF NetError, Goto, NextTask, Post
  <1>22. CASE \E n \in NetThreads, e \in Freshness : NetResponse(n, e)
    BY <1>22 DEF NetResponse, Goto, NextTask, Post
  <1>23. CASE DeliveryRun
    <2>1. Head(looper) \in Message /\ Tail(looper) \in Seq(Message)
      <3>1. looper \in Seq(Message)
        OBVIOUS
      <3>2. looper # <<>>
        BY <1>23 DEF DeliveryRun
      <3>3. QED
        BY <3>1, <3>2, HeadTailProperties
    <2>2. PICK m \in Message : /\ req' = [req EXCEPT ![Main] = m.req]
                               /\ message' = m.kind
      BY <1>23, <2>1 DEF DeliveryRun
    <2>3. PICK l \in {"finish", "deliver"} : pc' = [pc EXCEPT ![Main] = l]
      BY <1>23 DEF DeliveryRun, Goto
    <2>4. m.req \in Requests /\ m.kind \in Kinds
      BY <2>2
    <2>5. UNCHANGED <<seq, lastSeq, tracking, queues, quit, flags, cache, observed>>
          /\ looper' = Tail(looper) /\ pc[Main] = "take"
      BY <1>23 DEF DeliveryRun
    <2>6. QED
      BY <2>1, <2>2, <2>3, <2>4, <2>5
  <1>24. CASE Deliver
    BY <1>24 DEF Deliver, Goto
  <1>25. CASE Forward
    BY <1>25 DEF Forward, Goto, NextTask
  <1>26. CASE \E k \in Keys : CacheAges(k)
    BY <1>26 DEF CacheAges
  <1>27. CASE \E k \in Keys : CacheEvicts(k)
    BY <1>27 DEF CacheEvicts
  <1>28. CASE UNCHANGED vars
    BY <1>28 DEF vars
  <1>29. QED
    BY <1>1, <1>2, <1>3, <1>4, <1>5, <1>6, <1>7, <1>8, <1>9, <1>10, <1>11, <1>12, <1>13, <1>14, <1>15, <1>16, <1>17, <1>18, <1>19, <1>20, <1>21, <1>22, <1>23, <1>24, <1>25, <1>26, <1>27, <1>28, NextCases DEF vars

\* Every variable keeps the type of the field it models.
THEOREM TypeCorrect == Spec => []TypeOK
  <1>1. TypeInv => TypeOK
    BY DEF TypeInv
  <1>2. QED
    BY <1>1, TypeInit, TypeStep, PTL DEF Spec
-----------------------------------------------------------------------------
(* How the steps move requests between the places.                           *)

\* A thread without a request takes one that no thread holds.
LEMMA TakingHolds ==
    ASSUME TypeInv, HeldOnce, NEW t \in Threads, req[t] = NoRequest,
           NEW r \in Requests, r \notin Held,
           NEW l \in {"taken", "deliver", "finish"},
           req' = [req EXCEPT ![t] = r], pc' = [pc EXCEPT ![t] = l]
    PROVE  HeldOnce' /\ Held' = Held \cup {r} /\ Working' = Working \cup {r}
  <1>1. HeldOnce' /\ Held' = Held \cup {r}
    BY DEF TypeInv, TypeOK, HeldOnce, Held
  <1>2. pc[t] \notin {"taken", "deliver", "forward", "finish"}
    BY DEF TypeInv, HoldsWhenBusy, BusyLabels
  <1>3. Working' = Working \cup {r}
    <2>1. \A u \in Threads : u # t => pc'[u] = pc[u] /\ req'[u] = req[u]
      BY DEF TypeInv, TypeOK
    <2>2. pc'[t] = l /\ req'[t] = r
      BY DEF TypeInv, TypeOK
    <2>3. QED
      BY <1>2, <2>1, <2>2 DEF Working
  <1>4. QED
    BY <1>1, <1>3

\* A thread leaves the labels at which it works on its request.
LEMMA LeavingWork ==
    ASSUME HeldOnce, NEW t \in Threads, req[t] \in Requests,
           pc'[t] \in {"take", "release"},
           \A u \in Threads : u # t => pc'[u] = pc[u] /\ req'[u] = req[u]
    PROVE  Working' = Working \ {req[t]}
  <1>1. \A u \in Threads : u # t => req[u] # req[t]
    BY DEF HeldOnce
  <1>2. ASSUME NEW x \in Working' PROVE x \in Working /\ x # req[t]
    <2>1. PICK u \in Threads : /\ x = req'[u]
                               /\ pc'[u] \in {"taken", "deliver", "forward", "finish"}
      BY DEF Working
    <2>2. u # t
      BY <2>1
    <2>3. QED
      BY <1>1, <2>1, <2>2 DEF Working
  <1>3. ASSUME NEW x \in Working, x # req[t] PROVE x \in Working'
    <2>1. PICK u \in Threads : /\ x = req[u]
                               /\ pc[u] \in {"taken", "deliver", "forward", "finish"}
      BY DEF Working
    <2>2. u # t
      BY <1>3, <2>1
    <2>3. QED
      BY <2>1, <2>2 DEF Working
  <1>4. \A x : x \in Working' <=> x \in Working \ {req[t]}
    BY <1>2, <1>3
  <1>5. QED
    BY <1>4

\* A thread is through with the request it holds.
LEMMA DroppingFrees ==
    ASSUME TypeInv, HeldOnce, NEW t \in Threads, pc[t] \in BusyLabels, NextTask(t)
    PROVE  /\ HeldOnce' /\ Held' = Held \ {req[t]} /\ Working' = Working \ {req[t]}
           /\ req[t] \in Requests \cap Held
           /\ pc[t] # "release" => req[t] \in Working
  <1>1. req[t] \in Requests \cap Held
    BY DEF TypeInv, TypeOK, HoldsWhenBusy, Held
  <1>2. HeldOnce' /\ Held' = Held \ {req[t]}
    BY <1>1 DEF TypeInv, TypeOK, HeldOnce, Held, NextTask
  <1>3. Working' = Working \ {req[t]}
    <2>1. \A u \in Threads : u # t => pc'[u] = pc[u] /\ req'[u] = req[u]
      BY DEF TypeInv, TypeOK, NextTask, Goto
    <2>2. pc'[t] = "take"
      BY DEF TypeInv, TypeOK, NextTask, Goto
    <2>3. QED
      BY <1>1, <2>1, <2>2, LeavingWork
  <1>4. pc[t] # "release" => req[t] \in Working
    BY DEF BusyLabels, Working
  <1>5. QED
    BY <1>1, <1>2, <1>3, <1>4

\* A thread has removed its request from mCurrentRequests and still holds it.
LEMMA BeginningRelease ==
    ASSUME TypeInv, HeldOnce, NEW t \in Threads, pc[t] = "finish", req' = req,
           pc' = [pc EXCEPT ![t] = "release"]
    PROVE  /\ HeldOnce' /\ Held' = Held /\ Working' = Working \ {req[t]}
           /\ req[t] \in Requests \cap Held
  <1>1. req[t] \in Requests \cap Held
    BY DEF TypeInv, TypeOK, HoldsWhenBusy, BusyLabels, Held
  <1>2. Working' = Working \ {req[t]}
    BY <1>1, LeavingWork DEF TypeInv, TypeOK
  <1>3. QED
    BY <1>1, <1>2 DEF HeldOnce, Held

\* A runnable is posted for a request that has none.
LEMMA Posting ==
    ASSUME TypeInv, PostedOnce, NEW r \in Requests, r \notin Posted,
           NEW kind \in Kinds, Post(r, kind)
    PROVE  PostedOnce' /\ Posted' = Posted \cup {r}
  <1> DEFINE m == [req |-> r, kind |-> kind]
  <1>1. looper \in Seq(Message) /\ m \in Message
    BY DEF TypeInv, TypeOK, Message
  <1>2. /\ looper' = Append(looper, m)
        /\ Len(looper') = Len(looper) + 1
        /\ \A i \in 1 .. Len(looper) : looper'[i] = looper[i]
        /\ looper'[Len(looper) + 1] = m
        /\ DOMAIN looper = 1 .. Len(looper)
        /\ DOMAIN looper' = 1 .. (Len(looper) + 1)
        /\ Len(looper) \in Nat
    BY <1>1 DEF Post
  <1>3. m.req = r
    OBVIOUS
  <1> HIDE DEF m
  <1>4. \A i \in DOMAIN looper : looper[i].req # r
    BY DEF Posted
  <1>5. PostedOnce'
    BY <1>2, <1>3, <1>4 DEF PostedOnce
  <1>6. Posted' = Posted \cup {r}
    BY <1>2, <1>3 DEF Posted
  <1>7. QED
    BY <1>5, <1>6

\* The main thread takes the first runnable.
LEMMA Running ==
    ASSUME TypeInv, PostedOnce, looper # <<>>, looper' = Tail(looper)
    PROVE  /\ PostedOnce'
           /\ Head(looper).req \in Posted \cap Requests
           /\ Posted' = Posted \ {Head(looper).req}
  <1>1. looper \in Seq(Message)
    BY DEF TypeInv, TypeOK
  <1>2. /\ Len(looper) \in Nat \ {0}
        /\ Head(looper) = looper[1]
        /\ Head(looper) \in Message
        /\ Len(looper') = Len(looper) - 1
        /\ \A i \in 1 .. (Len(looper) - 1) : looper'[i] = looper[i + 1]
        /\ DOMAIN looper = 1 .. Len(looper)
        /\ DOMAIN looper' = 1 .. (Len(looper) - 1)
    BY <1>1, HeadTailProperties
  <1>3. PostedOnce'
    BY <1>2 DEF PostedOnce
  <1>4. Head(looper).req \in Posted \cap Requests
    BY <1>2 DEF Posted, Message
  <1>5. ASSUME NEW x \in Posted, x # Head(looper).req
        PROVE  x \in Posted'
    <2>1. PICK i \in DOMAIN looper : x = looper[i].req
      BY DEF Posted
    <2>2. i # 1 /\ i - 1 \in DOMAIN looper' /\ looper'[i - 1] = looper[i]
      BY <1>2, <1>5, <2>1
    <2>3. QED
      BY <2>1, <2>2 DEF Posted
  <1>6. ASSUME NEW x \in Posted'
        PROVE  x \in Posted \ {Head(looper).req}
    <2>1. PICK i \in DOMAIN looper' : x = looper'[i].req
      BY DEF Posted
    <2>2. i + 1 \in DOMAIN looper /\ i + 1 # 1 /\ 1 \in DOMAIN looper
          /\ x = looper[i + 1].req
      BY <1>2, <2>1
    <2>3. QED
      BY <1>2, <2>2 DEF Posted, PostedOnce
  <1>7. QED
    BY <1>3, <1>4, <1>5, <1>6
-----------------------------------------------------------------------------
\* Waiting requests are cacheable and filed under their own key.
WaitingKeyed ==
    \A k \in Keys : waiting[k] \subseteq {r \in Cacheable : KeyOf[r] = k}

\* A request that is somewhere has a sequence number.
Numbered == \A r \in adding \cup Staged \cup InFlight : seq[r] # 0

PlaceInv == TypeInv /\ OnePlace /\ WaitingKeyed /\ Numbered

\* The places hold requests.
LEMMA PlacesTyped ==
    ASSUME TypeInv PROVE adding \cup Staged \cup InFlight \subseteq Requests
  <1>1. Posted \subseteq Requests
    <2>1. \A i \in DOMAIN looper : looper[i] \in Message
      BY DEF TypeInv, TypeOK
    <2>2. QED
      BY <2>1 DEF Posted, Message
  <1>2. Held \subseteq Requests /\ Staged \subseteq Requests
    BY DEF TypeInv, TypeOK, Held, Staged
  <1>3. QED
    BY <1>1, <1>2 DEF TypeInv, TypeOK, InFlight

\* A request joins the staging area.
LEMMA Staging ==
    ASSUME TypeInv, NEW r \in Requests,
           waiting' = [waiting EXCEPT ![KeyOf[r]] = @ \cup {r}]
    PROVE  Staged' = Staged \cup {r}
  BY DEF TypeInv, TypeOK, Staged

\* The requests staged under a key leave together.
LEMMA Unstaging ==
    ASSUME TypeInv, WaitingKeyed, NEW k \in Keys,
           waiting' = [waiting EXCEPT ![k] = {}]
    PROVE  Staged' = Staged \ waiting[k] /\ waiting[k] \subseteq Staged
  BY DEF TypeInv, TypeOK, WaitingKeyed, Staged

\* The places after a step.
After(a, s, c, n, p, h, w) ==
    /\ adding' = a /\ Staged' = s /\ cacheQueue' = c /\ networkQueue' = n
    /\ Posted' = p /\ Held' = h /\ Working' = w
    /\ HeldOnce' /\ PostedOnce'

LEMMA SameStaged == ASSUME waiting' = waiting PROVE Staged' = Staged
  BY DEF Staged

LEMMA SameHeld == ASSUME req' = req, HeldOnce PROVE HeldOnce' /\ Held' = Held
  BY DEF Held, HeldOnce

LEMMA SamePosted ==
    ASSUME looper' = looper, PostedOnce PROVE PostedOnce' /\ Posted' = Posted
  BY DEF Posted, PostedOnce

\* Steps that move no request.
Unmoved == UNCHANGED <<seq, adding, waiting, cacheQueue, networkQueue, req, looper>>

LEMMA UnmovedAfter ==
    ASSUME PlaceInv, Unmoved, Working' = Working
    PROVE  After(adding, Staged, cacheQueue, networkQueue, Posted, Held, Working)
  BY SameStaged, SameHeld, SamePosted DEF Unmoved, PlaceInv, OnePlace, After

LEMMA SamePc == ASSUME req' = req, pc' = pc PROVE Working' = Working
  BY DEF Working

LEMMA Relabelled ==
    ASSUME TypeInv, NEW t \in Threads, NEW l, req' = req, pc' = [pc EXCEPT ![t] = l],
           pc[t] \in {"taken", "deliver", "forward", "finish"}
               <=> l \in {"taken", "deliver", "forward", "finish"}
    PROVE  Working' = Working
  BY DEF TypeInv, TypeOK, Working

Quiet == \/ Stop
         \/ \E r \in Requests : Cancel(r)
         \/ \E tag \in {TagOf[r] : r \in Requests} : CancelAll(tag)
         \/ \E k \in Keys : CacheAges(k) \/ CacheEvicts(k)
         \/ UNCHANGED vars

Relabelling == \/ \E t \in Dispatchers : Discard(t)
               \/ \E c \in CacheThreads : CacheInterrupted(c)
               \/ \E n \in NetThreads : NetInterrupted(n) \/ NetNotModified(n)
               \/ Deliver

LEMMA QuietMoves ==
    ASSUME PlaceInv, Quiet
    PROVE  /\ UNCHANGED <<seq, keysInFlight, waiting, current>>
           /\ After(adding, Staged, cacheQueue, networkQueue, Posted, Held, Working)
  <1> USE DEF tracking, queues, threads, delivery
  <1>1. Unmoved /\ pc' = pc /\ keysInFlight' = keysInFlight /\ current' = current
    <2>1. CASE Stop
      BY <2>1, Zenon DEF Stop, Unmoved
    <2>2. CASE \E r \in Requests : Cancel(r)
      BY <2>2, Zenon DEF Cancel, Unmoved
    <2>3. CASE \E tag \in {TagOf[r] : r \in Requests} : CancelAll(tag)
      BY <2>3, Zenon DEF CancelAll, Unmoved
    <2>4. CASE \E k \in Keys : CacheAges(k) \/ CacheEvicts(k)
      BY <2>4, Zenon DEF CacheAges, CacheEvicts, Unmoved
    <2>5. CASE UNCHANGED vars
      BY <2>5, Zenon DEF vars, Unmoved
    <2>6. QED
      BY <2>1, <2>2, <2>3, <2>4, <2>5 DEF Quiet
  <1>2. Working' = Working
    BY <1>1, SamePc DEF Unmoved
  <1>3. QED
    BY <1>1, <1>2, UnmovedAfter DEF Unmoved

LEMMA StartMoves ==
    ASSUME PlaceInv, Start
    PROVE  /\ UNCHANGED <<seq, keysInFlight, waiting, current>>
           /\ After(adding, Staged, cacheQueue, networkQueue, Posted, Held, Working)
  <1> USE DEF tracking, queues, threads, delivery
  <1>1. Unmoved /\ UNCHANGED <<keysInFlight, current>>
    BY Zenon DEF Start, Unmoved
  <1>2. PICK S \in SUBSET Dispatchers :
            /\ \A t \in S : pc[t] = "unborn"
            /\ pc' = [t \in Threads |-> IF t \in S THEN "take" ELSE pc[t]]
    <2>1. PICK c \in CacheThreads, pool \in SUBSET NetThreads :
              /\ \A t \in pool \cup {c} : pc[t] = "unborn"
              /\ pc' = [t \in Threads |-> IF t \in pool \cup {c} THEN "take" ELSE pc[t]]
      BY Zenon DEF Start
    <2>2. QED
      BY <2>1
  <1>3. Working' = Working
    BY <1>1, <1>2 DEF Working, Unmoved
  <1>4. QED
    BY <1>1, <1>3, UnmovedAfter DEF Unmoved

LEMMA RelabellingMoves ==
    ASSUME PlaceInv, Relabelling
    PROVE  /\ UNCHANGED <<seq, keysInFlight, waiting, current>>
           /\ After(adding, Staged, cacheQueue, networkQueue, Posted, Held, Working)
  <1> USE DEF tracking, queues, threads, delivery
  <1>1. PICK t \in Threads, l \in {"finish", "uncaught", "exited", "forward"} :
            /\ Unmoved /\ UNCHANGED <<keysInFlight, current>>
            /\ pc' = [pc EXCEPT ![t] = l]
            /\ \/ pc[t] = "taken" /\ l = "finish"
               \/ pc[t] = "take" /\ l \in {"uncaught", "exited"}
               \/ pc[t] = "deliver" /\ l \in {"forward", "finish"}
    <2>1. CASE \E t \in Dispatchers : Discard(t)
      BY <2>1 DEF Discard, Unmoved, Goto
    <2>2. CASE \E c \in CacheThreads : CacheInterrupted(c)
      <3>1. PICK c \in CacheThreads : /\ Unmoved /\ UNCHANGED <<keysInFlight, current>>
                                      /\ pc[c] = "take" /\ Goto(c, "uncaught")
        BY <2>2, Zenon DEF CacheInterrupted, Unmoved
      <3>2. QED
        BY <3>1 DEF Goto
    <2>3. CASE \E n \in NetThreads : NetInterrupted(n)
      <3>1. PICK n \in NetThreads : /\ Unmoved /\ UNCHANGED <<keysInFlight, current>>
                                    /\ pc[n] = "take" /\ Goto(n, "exited")
        BY <2>3, Zenon DEF NetInterrupted, Unmoved
      <3>2. QED
        BY <3>1 DEF Goto
    <2>4. CASE \E n \in NetThreads : NetNotModified(n)
      BY <2>4 DEF NetNotModified, Unmoved, Goto
    <2>5. CASE Deliver
      BY <2>5 DEF Deliver, Unmoved, Goto
    <2>6. QED
      BY <2>1, <2>2, <2>3, <2>4, <2>5 DEF Relabelling
  <1>2. Working' = Working
    BY <1>1, Relabelled DEF Unmoved, PlaceInv
  <1>3. QED
    BY <1>1, <1>2, UnmovedAfter DEF Unmoved

LEMMA AddCurrentMoves ==
    ASSUME PlaceInv, NEW r \in Requests, AddCurrent(r)
    PROVE  /\ UNCHANGED <<keysInFlight, waiting>>
           /\ current' = current \cup {r}
           /\ After(adding \cup {r}, Staged, cacheQueue, networkQueue, Posted, Held, Working)
  <1> USE DEF tracking, queues, threads, delivery, PlaceInv, OnePlace
  <1>1. HeldOnce' /\ Held' = Held /\ PostedOnce' /\ Posted' = Posted /\ Working' = Working
    BY SameHeld, SamePosted, SamePc DEF AddCurrent
  <1>2. Staged' = Staged
    BY SameStaged DEF AddCurrent
  <1>3. QED
    BY <1>1, <1>2 DEF AddCurrent, After

LEMMA AddUncacheableMoves ==
    ASSUME PlaceInv, NEW r \in Requests, AddUncacheable(r)
    PROVE  /\ UNCHANGED <<seq, keysInFlight, waiting, current>>
           /\ r \in adding
           /\ After(adding \ {r}, Staged, cacheQueue, networkQueue \cup {r}, Posted, Held, Working)
  <1> USE DEF tracking, queues, threads, delivery, PlaceInv, OnePlace
  <1>1. HeldOnce' /\ Held' = Held /\ PostedOnce' /\ Posted' = Posted /\ Working' = Working
    BY SameHeld, SamePosted, SamePc DEF AddUncacheable
  <1>2. Staged' = Staged
    BY SameStaged DEF AddUncacheable
  <1>3. QED
    BY <1>1, <1>2 DEF AddUncacheable, After

LEMMA AddFirstMoves ==
    ASSUME PlaceInv, NEW r \in Requests, AddFirst(r)
    PROVE  /\ UNCHANGED <<seq, waiting, current>>
           /\ r \in adding
           /\ After(adding \ {r}, Staged, cacheQueue \cup {r}, networkQueue, Posted, Held, Working)
  <1> USE DEF tracking, queues, threads, delivery, PlaceInv, OnePlace
  <1>1. HeldOnce' /\ Held' = Held /\ PostedOnce' /\ Posted' = Posted /\ Working' = Working
    BY SameHeld, SamePosted, SamePc DEF AddFirst
  <1>2. Staged' = Staged
    BY SameStaged DEF AddFirst
  <1>3. QED
    BY <1>1, <1>2 DEF AddFirst, After

LEMMA AddStagedMoves ==
    ASSUME PlaceInv, NEW r \in Requests, AddStaged(r)
    PROVE  /\ UNCHANGED <<seq, keysInFlight, current>>
           /\ r \in adding
           /\ After(adding \ {r}, Staged \cup {r}, cacheQueue, networkQueue, Posted, Held, Working)
  <1> USE DEF tracking, queues, threads, delivery, PlaceInv, OnePlace
  <1>1. HeldOnce' /\ Held' = Held /\ PostedOnce' /\ Posted' = Posted /\ Working' = Working
    BY SameHeld, SamePosted, SamePc DEF AddStaged
  <1>2. Staged' = Staged \cup {r}
    BY Staging DEF AddStaged
  <1>3. QED
    BY <1>1, <1>2 DEF AddStaged, After

LEMMA CacheTakeMoves ==
    ASSUME PlaceInv, NEW c \in CacheThreads, CacheTake(c)
    PROVE  /\ UNCHANGED <<seq, keysInFlight, waiting, current>>
           /\ \E r \in cacheQueue :
                  After(adding, Staged, cacheQueue \ {r}, networkQueue, Posted, Held \cup {r}, Working \cup {r})
  <1> USE DEF tracking, queues, threads, delivery, PlaceInv, OnePlace
  <1>1. PICK r \in cacheQueue : cacheQueue' = cacheQueue \ {r} /\ req' = [req EXCEPT ![c] = r]
    BY DEF CacheTake
  <1>2. req[c] = NoRequest /\ r \in Requests /\ r \notin Held
    BY <1>1 DEF CacheTake, TypeInv, TypeOK, HoldsWhenBusy, BusyLabels, PlacesDisjoint
  <1>3. HeldOnce' /\ Held' = Held \cup {r} /\ Working' = Working \cup {r}
    BY <1>1, <1>2, TakingHolds DEF CacheTake, Goto
  <1>4. Posted' = Posted /\ PostedOnce' /\ Staged' = Staged
    BY SamePosted, SameStaged DEF CacheTake
  <1>5. QED
    BY <1>1, <1>3, <1>4 DEF CacheTake, After

LEMMA NetTakeMoves ==
    ASSUME PlaceInv, NEW n \in NetThreads, NetTake(n)
    PROVE  /\ UNCHANGED <<seq, keysInFlight, waiting, current>>
           /\ \E r \in networkQueue :
                  After(adding, Staged, cacheQueue, networkQueue \ {r}, Posted, Held \cup {r}, Working \cup {r})
  <1> USE DEF tracking, queues, threads, delivery, PlaceInv, OnePlace
  <1>1. PICK r \in networkQueue : networkQueue' = networkQueue \ {r} /\ req' = [req EXCEPT ![n] = r]
    BY DEF NetTake
  <1>2. req[n] = NoRequest /\ r \in Requests /\ r \notin Held
    BY <1>1 DEF NetTake, TypeInv, TypeOK, HoldsWhenBusy, BusyLabels, PlacesDisjoint
  <1>3. HeldOnce' /\ Held' = Held \cup {r} /\ Working' = Working \cup {r}
    BY <1>1, <1>2, TakingHolds DEF NetTake, Goto
  <1>4. Posted' = Posted /\ PostedOnce' /\ Staged' = Staged
    BY SamePosted, SameStaged DEF NetTake
  <1>5. QED
    BY <1>1, <1>3, <1>4 DEF NetTake, After

LEMMA CacheMissMoves ==
    ASSUME PlaceInv, NEW c \in CacheThreads, CacheMiss(c)
    PROVE  /\ UNCHANGED <<seq, keysInFlight, waiting, current>>
           /\ req[c] \in Requests \cap Held /\ req[c] \in Working
           /\ After(adding, Staged, cacheQueue, networkQueue \cup {req[c]}, Posted, Held \ {req[c]}, Working \ {req[c]})
  <1> USE DEF tracking, queues, threads, delivery, PlaceInv, OnePlace
  <1>1. HeldOnce' /\ Held' = Held \ {req[c]} /\ Working' = Working \ {req[c]}
        /\ req[c] \in Requests \cap Held /\ req[c] \in Working
    BY DroppingFrees DEF CacheMiss, BusyLabels
  <1>3. Posted' = Posted /\ PostedOnce' /\ Staged' = Staged
    BY SamePosted, SameStaged DEF CacheMiss
  <1>4. QED
    BY <1>1, <1>3 DEF CacheMiss, After

LEMMA CacheHitMoves ==
    ASSUME PlaceInv, NEW c \in CacheThreads, CacheHit(c)
    PROVE  /\ UNCHANGED <<seq, keysInFlight, waiting, current>>
           /\ req[c] \in Requests \cap Held /\ req[c] \in Working
           /\ After(adding, Staged, cacheQueue, networkQueue, Posted \cup {req[c]}, Held \ {req[c]}, Working \ {req[c]})
  <1> USE DEF tracking, queues, threads, delivery, PlaceInv, OnePlace
  <1>1. HeldOnce' /\ Held' = Held \ {req[c]} /\ Working' = Working \ {req[c]}
        /\ req[c] \in Requests \cap Held /\ req[c] \in Working
    BY DroppingFrees DEF CacheHit, BusyLabels
  <1>2. /\ req[c] \notin Posted
        /\ \E kind \in Kinds : Post(req[c], kind)
    BY <1>1 DEF CacheHit, PlacesDisjoint, Kinds, Provisional
  <1>3. Posted' = Posted \cup {req[c]} /\ PostedOnce' /\ Staged' = Staged
    BY <1>1, <1>2, Posting, SameStaged DEF CacheHit
  <1>4. QED
    BY <1>1, <1>3 DEF CacheHit, After

LEMMA CacheHitRefreshMoves ==
    ASSUME PlaceInv, NEW c \in CacheThreads, CacheHitRefresh(c)
    PROVE  /\ UNCHANGED <<seq, keysInFlight, waiting, current>>
           /\ req[c] \in Requests \cap Held /\ req[c] \in Working
           /\ After(adding, Staged, cacheQueue, networkQueue, Posted \cup {req[c]}, Held \ {req[c]}, Working \ {req[c]})
  <1> USE DEF tracking, queues, threads, delivery, PlaceInv, OnePlace
  <1>1. HeldOnce' /\ Held' = Held \ {req[c]} /\ Working' = Working \ {req[c]}
        /\ req[c] \in Requests \cap Held /\ req[c] \in Working
    BY DroppingFrees DEF CacheHitRefresh, BusyLabels
  <1>2. /\ req[c] \notin Posted
        /\ \E kind \in Kinds : Post(req[c], kind)
    BY <1>1 DEF CacheHitRefresh, PlacesDisjoint, Kinds, Provisional
  <1>3. Posted' = Posted \cup {req[c]} /\ PostedOnce' /\ Staged' = Staged
    BY <1>1, <1>2, Posting, SameStaged DEF CacheHitRefresh
  <1>4. QED
    BY <1>1, <1>3 DEF CacheHitRefresh, After

LEMMA CacheHitThrowsMoves ==
    ASSUME PlaceInv, NEW c \in CacheThreads, CacheHitThrows(c)
    PROVE  /\ UNCHANGED <<seq, keysInFlight, waiting, current>>
           /\ req[c] \in Requests \cap Held /\ req[c] \in Working
           /\ After(adding, Staged, cacheQueue, networkQueue, Posted, Held \ {req[c]}, Working \ {req[c]})
  <1> USE DEF tracking, queues, threads, delivery, PlaceInv, OnePlace
  <1>1. HeldOnce' /\ Held' = Held \ {req[c]} /\ Working' = Working \ {req[c]}
        /\ req[c] \in Requests \cap Held /\ req[c] \in Working
    BY DroppingFrees DEF CacheHitThrows, BusyLabels
  <1>3. Posted' = Posted /\ PostedOnce' /\ Staged' = Staged
    BY SamePosted, SameStaged DEF CacheHitThrows
  <1>4. QED
    BY <1>1, <1>3 DEF CacheHitThrows, After

LEMMA NetErrorMoves ==
    ASSUME PlaceInv, NEW n \in NetThreads, NetError(n)
    PROVE  /\ UNCHANGED <<seq, keysInFlight, waiting, current>>
           /\ req[n] \in Requests \cap Held /\ req[n] \in Working
           /\ After(adding, Staged, cacheQueue, networkQueue, Posted \cup {req[n]}, Held \ {req[n]}, Working \ {req[n]})
  <1> USE DEF tracking, queues, threads, delivery, PlaceInv, OnePlace
  <1>1. HeldOnce' /\ Held' = Held \ {req[n]} /\ Working' = Working \ {req[n]}
        /\ req[n] \in Requests \cap Held /\ req[n] \in Working
    BY DroppingFrees DEF NetError, BusyLabels
  <1>2. req[n] \notin Posted /\ Post(req[n], "error")
    BY <1>1 DEF NetError, PlacesDisjoint
  <1>3. Posted' = Posted \cup {req[n]} /\ PostedOnce' /\ Staged' = Staged
    BY <1>1, <1>2, Posting, SameStaged DEF NetError, Kinds
  <1>4. QED
    BY <1>1, <1>3 DEF NetError, After

LEMMA NetResponseMoves ==
    ASSUME PlaceInv, NEW n \in NetThreads, NEW e \in Freshness, NetResponse(n, e)
    PROVE  /\ UNCHANGED <<seq, keysInFlight, waiting, current>>
           /\ req[n] \in Requests \cap Held /\ req[n] \in Working
           /\ After(adding, Staged, cacheQueue, networkQueue, Posted \cup {req[n]}, Held \ {req[n]}, Working \ {req[n]})
  <1> USE DEF tracking, queues, threads, delivery, PlaceInv, OnePlace
  <1>1. HeldOnce' /\ Held' = Held \ {req[n]} /\ Working' = Working \ {req[n]}
        /\ req[n] \in Requests \cap Held /\ req[n] \in Working
    BY DroppingFrees DEF NetResponse, BusyLabels
  <1>2. req[n] \notin Posted /\ Post(req[n], "response")
    BY <1>1 DEF NetResponse, PlacesDisjoint
  <1>3. Posted' = Posted \cup {req[n]} /\ PostedOnce' /\ Staged' = Staged
    BY <1>1, <1>2, Posting, SameStaged DEF NetResponse, Kinds
  <1>4. QED
    BY <1>1, <1>3 DEF NetResponse, After

LEMMA ForwardMoves ==
    ASSUME PlaceInv, Forward
    PROVE  /\ UNCHANGED <<seq, keysInFlight, waiting, current>>
           /\ req[Main] \in Requests \cap Held /\ req[Main] \in Working
           /\ After(adding, Staged, cacheQueue, networkQueue \cup {req[Main]}, Posted, Held \ {req[Main]}, Working \ {req[Main]})
  <1> USE DEF tracking, queues, threads, delivery, PlaceInv, OnePlace
  <1>1. HeldOnce' /\ Held' = Held \ {req[Main]} /\ Working' = Working \ {req[Main]}
        /\ req[Main] \in Requests \cap Held /\ req[Main] \in Working
    BY DroppingFrees DEF Forward, BusyLabels
  <1>2. Posted' = Posted /\ PostedOnce' /\ Staged' = Staged
    BY SamePosted, SameStaged DEF Forward
  <1>3. QED
    BY <1>1, <1>2 DEF Forward, After

LEMMA DeliveryRunMoves ==
    ASSUME PlaceInv, DeliveryRun
    PROVE  /\ UNCHANGED <<seq, keysInFlight, waiting, current>>
           /\ \E r \in Posted \cap Requests :
                  After(adding, Staged, cacheQueue, networkQueue, Posted \ {r}, Held \cup {r}, Working \cup {r})
  <1> USE DEF tracking, queues, threads, delivery, PlaceInv, OnePlace
  <1> DEFINE r == Head(looper).req
  <1>1. looper # <<>> /\ looper' = Tail(looper) /\ req' = [req EXCEPT ![Main] = r]
    BY DEF DeliveryRun
  <1>2. Posted' = Posted \ {r} /\ PostedOnce' /\ r \in Posted \cap Requests
    BY <1>1, Running
  <1>3. req[Main] = NoRequest /\ r \notin Held
    BY <1>2 DEF DeliveryRun, TypeInv, TypeOK, HoldsWhenBusy, BusyLabels, PlacesDisjoint
  <1>4. PICK l \in {"taken", "deliver", "finish"} : pc' = [pc EXCEPT ![Main] = l]
    BY DEF DeliveryRun, Goto
  <1>5. HeldOnce' /\ Held' = Held \cup {r} /\ Working' = Working \cup {r}
    BY <1>1, <1>2, <1>3, <1>4, TakingHolds
  <1>6. Staged' = Staged
    BY SameStaged DEF DeliveryRun
  <1>7. QED
    BY <1>2, <1>5, <1>6 DEF DeliveryRun, After

LEMMA FinishMoves ==
    ASSUME PlaceInv, NEW t \in Threads, Finish(t)
    PROVE  /\ UNCHANGED <<seq, keysInFlight, waiting>>
           /\ req[t] \in Requests \cap Held /\ current' = current \ {req[t]}
           /\ \/ After(adding, Staged, cacheQueue, networkQueue, Posted, Held, Working \ {req[t]})
              \/ /\ req[t] \notin Cacheable
                 /\ After(adding, Staged, cacheQueue, networkQueue, Posted, Held \ {req[t]}, Working \ {req[t]})
  <1> USE DEF tracking, queues, threads, delivery, PlaceInv, OnePlace
  <1>1. Posted' = Posted /\ PostedOnce' /\ Staged' = Staged
    BY SamePosted, SameStaged DEF Finish
  <1>2. CASE req[t] \in Cacheable
    <2>1. pc[t] = "finish" /\ req' = req /\ pc' = [pc EXCEPT ![t] = "release"]
      BY <1>2 DEF Finish, Goto
    <2>2. /\ HeldOnce' /\ Held' = Held /\ Working' = Working \ {req[t]}
          /\ req[t] \in Requests \cap Held
      BY <2>1, BeginningRelease
    <2>3. QED
      BY <1>1, <2>2 DEF Finish, After
  <1>3. CASE req[t] \notin Cacheable
    <2>1. pc[t] = "finish" /\ NextTask(t)
      BY <1>3 DEF Finish
    <2>2. /\ HeldOnce' /\ Held' = Held \ {req[t]} /\ Working' = Working \ {req[t]}
          /\ req[t] \in Requests \cap Held
      BY <2>1, DroppingFrees DEF BusyLabels
    <2>3. QED
      BY <1>1, <1>3, <2>2 DEF Finish, After
  <1>4. QED
    BY <1>2, <1>3

LEMMA ReleaseMoves ==
    ASSUME PlaceInv, NEW t \in Threads, Release(t)
    PROVE  LET W == waiting[KeyOf[req[t]]] IN
           /\ UNCHANGED <<seq, current>> /\ W \subseteq Staged
           /\ req[t] \in Requests \cap Held
           /\ After(adding, Staged \ W, cacheQueue \cup W, networkQueue, Posted, Held \ {req[t]}, Working)
  <1> USE DEF tracking, queues, threads, delivery, PlaceInv, OnePlace
  <1>1. /\ HeldOnce' /\ Held' = Held \ {req[t]} /\ Working' = Working \ {req[t]}
        /\ req[t] \in Requests \cap Held
    BY DroppingFrees DEF Release, BusyLabels
  <1>2. KeyOf[req[t]] \in Keys /\ waiting' = [waiting EXCEPT ![KeyOf[req[t]]] = {}]
    BY <1>1 DEF Release
  <1>3. Staged' = Staged \ waiting[KeyOf[req[t]]] /\ waiting[KeyOf[req[t]]] \subseteq Staged
    BY <1>2, Unstaging
  <1>4. Posted' = Posted /\ PostedOnce'
    BY SamePosted DEF Release
  <1>5. req[t] \notin Working
    <2>1. pc[t] = "release" /\ req[t] \in Requests
      BY <1>1 DEF Release
    <2>2. QED
      BY <2>1 DEF Working, HeldOnce
  <1>6. Working' = Working
    BY <1>1, <1>5
  <1>7. QED
    BY <1>1, <1>3, <1>4, <1>6 DEF Release, After

-----------------------------------------------------------------------------
(* A request is in at most one place.  The induction needs to know that      *)
(* waiting requests are filed under their own key, so that releasing a key   *)
(* removes all it releases, and that a request that is somewhere has been    *)
(* numbered, so that a new one is nowhere.                                   *)

LEMMA PlaceInit == Init => PlaceInv
  <1> SUFFICES ASSUME Init PROVE PlaceInv
    OBVIOUS
  <1>1. TypeInv
    BY TypeInit
  <1>2. adding = {} /\ Staged = {} /\ cacheQueue = {} /\ networkQueue = {}
        /\ Posted = {} /\ Held = {}
    BY DEF Init, Staged, Posted, Held
  <1>3. OnePlace
    BY <1>2 DEF Init, OnePlace, PlacesDisjoint, HeldOnce, PostedOnce, InFlight
  <1>4. WaitingKeyed /\ Numbered
    BY <1>2 DEF Init, WaitingKeyed, Numbered, InFlight
  <1>5. QED
    BY <1>1, <1>3, <1>4 DEF PlaceInv

LEMMA PlaceStep == PlaceInv /\ [Next]_vars => PlaceInv'
  <1> SUFFICES ASSUME PlaceInv, [Next]_vars PROVE PlaceInv'
    OBVIOUS
  <1>a. TypeInv'
    BY TypeStep DEF PlaceInv
  <1> DEFINE Goal == PlacesDisjoint' /\ HeldOnce' /\ PostedOnce' /\ WaitingKeyed' /\ Numbered'
  <1>b. Goal => PlaceInv'
    BY <1>a DEF PlaceInv, OnePlace
  <1> USE DEF After, PlaceInv, OnePlace, PlacesDisjoint, InFlight, Numbered, WaitingKeyed
  <1> HIDE DEF PlaceInv
  <1>c. TypeInv /\ PlacesDisjoint /\ HeldOnce /\ PostedOnce /\ WaitingKeyed /\ Numbered
    BY DEF PlaceInv
  <1>1. CASE \E r \in Requests : AddCurrent(r)
    <2>1. PICK r \in Requests : AddCurrent(r)
      BY <1>1
    <2>2. r \notin adding \cup Staged \cup InFlight
      BY <2>1, <1>c DEF AddCurrent
    <2>5. PlacesDisjoint' /\ HeldOnce' /\ PostedOnce'
      BY <2>1, <2>2, <1>c, AddCurrentMoves
    <2>6. adding' \cup Staged' \cup InFlight' = adding \cup Staged \cup InFlight \cup {r}
      BY <2>1, <1>c, AddCurrentMoves
    <2>7. \A q \in Requests : seq'[q] = IF q = r THEN lastSeq + 1 ELSE seq[q]
      BY <2>1, <1>c DEF AddCurrent, TypeInv, TypeOK
    <2>8. adding \cup Staged \cup InFlight \subseteq Requests /\ lastSeq \in Nat
      BY <1>c, PlacesTyped DEF TypeInv, TypeOK
    <2>9. Numbered'
      BY <2>6, <2>7, <2>8, <1>c
    <2>3. WaitingKeyed'
      BY <2>1, <1>c, AddCurrentMoves
    <2>4. QED
      BY <1>b, <2>3, <2>5, <2>9
  <1>2. CASE \E r \in Requests : AddUncacheable(r)
    <2>1. PICK r \in Requests : AddUncacheable(r)
      BY <1>2
    <2>2. PlacesDisjoint' /\ HeldOnce' /\ PostedOnce' /\ Numbered'
      BY <2>1, <1>c, AddUncacheableMoves
    <2>3. WaitingKeyed'
      BY <2>1, <1>c, AddUncacheableMoves
    <2>4. QED
      BY <1>b, <2>2, <2>3
  <1>3. CASE \E r \in Requests : AddFirst(r)
    <2>1. PICK r \in Requests : AddFirst(r)
      BY <1>3
    <2>2. PlacesDisjoint' /\ HeldOnce' /\ PostedOnce' /\ Numbered'
      BY <2>1, <1>c, AddFirstMoves
    <2>3. WaitingKeyed'
      BY <2>1, <1>c, AddFirstMoves
    <2>4. QED
      BY <1>b, <2>2, <2>3
  <1>4. CASE \E r \in Requests : AddStaged(r)
    <2>1. PICK r \in Requests : AddStaged(r)
      BY <1>4
    <2>2. PlacesDisjoint' /\ HeldOnce' /\ PostedOnce' /\ Numbered'
      BY <2>1, <1>c, AddStagedMoves
    <2>3. WaitingKeyed'
      BY <2>1, <1>c, AddStagedMoves DEF AddStaged, TypeInv, TypeOK
    <2>4. QED
      BY <1>b, <2>2, <2>3
  <1>5. CASE \E c \in CacheThreads : CacheTake(c)
    <2>1. PICK c \in CacheThreads : CacheTake(c)
      BY <1>5
    <2>2. PlacesDisjoint' /\ HeldOnce' /\ PostedOnce' /\ Numbered'
      BY <2>1, <1>c, CacheTakeMoves
    <2>3. WaitingKeyed'
      BY <2>1, <1>c, CacheTakeMoves
    <2>4. QED
      BY <1>b, <2>2, <2>3
  <1>6. CASE \E c \in CacheThreads : CacheMiss(c)
    <2>1. PICK c \in CacheThreads : CacheMiss(c)
      BY <1>6
    <2>2. PlacesDisjoint' /\ HeldOnce' /\ PostedOnce' /\ Numbered'
      BY <2>1, <1>c, CacheMissMoves
    <2>3. WaitingKeyed'
      BY <2>1, <1>c, CacheMissMoves
    <2>4. QED
      BY <1>b, <2>2, <2>3
  <1>7. CASE \E c \in CacheThreads : CacheHit(c)
    <2>1. PICK c \in CacheThreads : CacheHit(c)
      BY <1>7
    <2>2. PlacesDisjoint' /\ HeldOnce' /\ PostedOnce' /\ Numbered'
      BY <2>1, <1>c, CacheHitMoves
    <2>3. WaitingKeyed'
      BY <2>1, <1>c, CacheHitMoves
    <2>4. QED
      BY <1>b, <2>2, <2>3
  <1>8. CASE \E c \in CacheThreads : CacheHitRefresh(c)
    <2>1. PICK c \in CacheThreads : CacheHitRefresh(c)
      BY <1>8
    <2>2. PlacesDisjoint' /\ HeldOnce' /\ PostedOnce' /\ Numbered'
      BY <2>1, <1>c, CacheHitRefreshMoves
    <2>3. WaitingKeyed'
      BY <2>1, <1>c, CacheHitRefreshMoves
    <2>4. QED
      BY <1>b, <2>2, <2>3
  <1>9. CASE \E c \in CacheThreads : CacheHitThrows(c)
    <2>1. PICK c \in CacheThreads : CacheHitThrows(c)
      BY <1>9
    <2>2. PlacesDisjoint' /\ HeldOnce' /\ PostedOnce' /\ Numbered'
      BY <2>1, <1>c, CacheHitThrowsMoves
    <2>3. WaitingKeyed'
      BY <2>1, <1>c, CacheHitThrowsMoves
    <2>4. QED
      BY <1>b, <2>2, <2>3
  <1>10. CASE \E n \in NetThreads : NetTake(n)
    <2>1. PICK n \in NetThreads : NetTake(n)
      BY <1>10
    <2>2. PlacesDisjoint' /\ HeldOnce' /\ PostedOnce' /\ Numbered'
      BY <2>1, <1>c, NetTakeMoves
    <2>3. WaitingKeyed'
      BY <2>1, <1>c, NetTakeMoves
    <2>4. QED
      BY <1>b, <2>2, <2>3
  <1>11. CASE \E n \in NetThreads : NetError(n)
    <2>1. PICK n \in NetThreads : NetError(n)
      BY <1>11
    <2>2. PlacesDisjoint' /\ HeldOnce' /\ PostedOnce' /\ Numbered'
      BY <2>1, <1>c, NetErrorMoves
    <2>3. WaitingKeyed'
      BY <2>1, <1>c, NetErrorMoves
    <2>4. QED
      BY <1>b, <2>2, <2>3
  <1>12. CASE \E n \in NetThreads, e \in Freshness : NetResponse(n, e)
    <2>1. PICK n \in NetThreads, e \in Freshness : NetResponse(n, e)
      BY <1>12
    <2>2. PlacesDisjoint' /\ HeldOnce' /\ PostedOnce' /\ Numbered'
      BY <2>1, <1>c, NetResponseMoves
    <2>3. WaitingKeyed'
      BY <2>1, <1>c, NetResponseMoves
    <2>4. QED
      BY <1>b, <2>2, <2>3
  <1>13. CASE \E t \in Threads : Finish(t)
    <2>1. PICK t \in Threads : Finish(t)
      BY <1>13
    <2>2. PlacesDisjoint' /\ HeldOnce' /\ PostedOnce' /\ Numbered'
      BY <2>1, <1>c, FinishMoves
    <2>3. WaitingKeyed'
      BY <2>1, <1>c, FinishMoves
    <2>4. QED
      BY <1>b, <2>2, <2>3
  <1>14. CASE \E t \in Threads : Release(t)
    <2>1. PICK t \in Threads : Release(t)
      BY <1>14
    <2>2. PlacesDisjoint' /\ HeldOnce' /\ PostedOnce' /\ Numbered'
      BY <2>1, <1>c, ReleaseMoves
    <2>3. WaitingKeyed'
      BY <2>1, <1>c, ReleaseMoves DEF Release, TypeInv, TypeOK
    <2>4. QED
      BY <1>b, <2>2, <2>3
  <1>15. CASE DeliveryRun
    <2>2. PlacesDisjoint' /\ HeldOnce' /\ PostedOnce' /\ Numbered'
      BY <1>15, <1>c, DeliveryRunMoves
    <2>3. WaitingKeyed'
      BY <1>15, <1>c, DeliveryRunMoves
    <2>4. QED
      BY <1>b, <2>2, <2>3
  <1>16. CASE Forward
    <2>2. PlacesDisjoint' /\ HeldOnce' /\ PostedOnce' /\ Numbered'
      BY <1>16, <1>c, ForwardMoves
    <2>3. WaitingKeyed'
      BY <1>16, <1>c, ForwardMoves
    <2>4. QED
      BY <1>b, <2>2, <2>3
  <1>17. CASE Start
    <2>2. PlacesDisjoint' /\ HeldOnce' /\ PostedOnce' /\ Numbered'
      BY <1>17, <1>c, StartMoves
    <2>3. WaitingKeyed'
      BY <1>17, <1>c, StartMoves
    <2>4. QED
      BY <1>b, <2>2, <2>3
  <1>18. CASE Quiet
    <2>2. PlacesDisjoint' /\ HeldOnce' /\ PostedOnce' /\ Numbered'
      BY <1>18, <1>c, QuietMoves
    <2>3. WaitingKeyed'
      BY <1>18, <1>c, QuietMoves
    <2>4. QED
      BY <1>b, <2>2, <2>3
  <1>19. CASE Relabelling
    <2>2. PlacesDisjoint' /\ HeldOnce' /\ PostedOnce' /\ Numbered'
      BY <1>19, <1>c, RelabellingMoves
    <2>3. WaitingKeyed'
      BY <1>19, <1>c, RelabellingMoves
    <2>4. QED
      BY <1>b, <2>2, <2>3
  <1>20. QED
    BY NextCases, <1>1, <1>2, <1>3, <1>4, <1>5, <1>6, <1>7, <1>8, <1>9, <1>10, <1>11, <1>12, <1>13, <1>14, <1>15, <1>16, <1>17, <1>18, <1>19, Zenon DEF Quiet, Relabelling

\* No request is in two hands: it is in at most one queue, runnable or thread
\* at a time, whatever is cancelled, stopped, restarted or thrown.
THEOREM OnePlaceAlways == Spec => []OnePlace
  <1>1. PlaceInv => OnePlace
    BY DEF PlaceInv
  <1>2. QED
    BY <1>1, PlaceInit, PlaceStep, PTL DEF Spec
-----------------------------------------------------------------------------
(* The two tracking structures of RequestQueue.  Both facts need a parser    *)
(* that does not throw on cached data: the exception is swallowed by the     *)
(* cache thread, which then never finishes the request.                      *)

TrackInv == PlaceInv /\ CurrentIsExact /\ KeyMeansInFlight

LEMMA TrackInit == Init => TrackInv
  <1> SUFFICES ASSUME Init PROVE TrackInv
    OBVIOUS
  <1>1. PlaceInv
    BY PlaceInit
  <1>2. Staged = {} /\ Posted = {} /\ Held = {} /\ Working = {}
    <2>1. \A t \in Threads : req[t] = NoRequest /\ pc[t] \in {"take", "unborn"}
      BY DEF Init
    <2>2. Held = {} /\ Working = {}
      BY <2>1 DEF Held, Working
    <2>3. Posted = {}
      BY DEF Init, Posted
    <2>4. Staged = {}
      BY DEF Init, Staged
    <2>5. QED
      BY <2>2, <2>3, <2>4
  <1>3. CurrentIsExact /\ KeyMeansInFlight
    BY <1>2 DEF Init, CurrentIsExact, KeyMeansInFlight, InFlight
  <1>4. QED
    BY <1>1, <1>3 DEF TrackInv

LEMMA KeysKept ==
    ASSUME KeyMeansInFlight, InFlight \subseteq InFlight',
           UNCHANGED <<keysInFlight, waiting>>
    PROVE  KeyMeansInFlight'
  BY DEF KeyMeansInFlight

LEMMA TrackStep == "exception" \notin CacheParses /\ TrackInv /\ [Next]_vars => TrackInv'
  <1> SUFFICES ASSUME "exception" \notin CacheParses, TrackInv, [Next]_vars PROVE TrackInv'
    OBVIOUS
  <1>a. PlaceInv'
    BY PlaceStep DEF TrackInv
  <1>b. PlaceInv /\ KeyMeansInFlight /\ CurrentIsExact /\ PlacesDisjoint
    BY DEF TrackInv, PlaceInv, OnePlace
  <1> DEFINE Goal == CurrentIsExact' /\ KeyMeansInFlight'
  <1>c. Goal => TrackInv'
    BY <1>a DEF TrackInv
  <1> USE DEF After, CurrentIsExact, InFlight
  <1> HIDE DEF Goal
  <1>1. CASE \E r \in Requests : AddCurrent(r)
    <2>1. PICK r \in Requests : AddCurrent(r)
      BY <1>1
    <2>2. CurrentIsExact'
      BY <2>1, <1>b, AddCurrentMoves
    <2>3. InFlight \subseteq InFlight' /\ UNCHANGED <<keysInFlight, waiting>>
      BY <2>1, <1>b, AddCurrentMoves
    <2>4. QED
      BY <1>b, <1>c, <2>2, <2>3, KeysKept DEF Goal
  <1>2. CASE \E r \in Requests : AddUncacheable(r)
    <2>1. PICK r \in Requests : AddUncacheable(r)
      BY <1>2
    <2>2. CurrentIsExact'
      BY <2>1, <1>b, AddUncacheableMoves
    <2>3. InFlight \subseteq InFlight' /\ UNCHANGED <<keysInFlight, waiting>>
      BY <2>1, <1>b, AddUncacheableMoves
    <2>4. QED
      BY <1>b, <1>c, <2>2, <2>3, KeysKept DEF Goal
  <1>3. CASE \E c \in CacheThreads : CacheTake(c)
    <2>1. PICK c \in CacheThreads : CacheTake(c)
      BY <1>3
    <2>2. CurrentIsExact'
      BY <2>1, <1>b, CacheTakeMoves
    <2>3. InFlight \subseteq InFlight' /\ UNCHANGED <<keysInFlight, waiting>>
      BY <2>1, <1>b, CacheTakeMoves
    <2>4. QED
      BY <1>b, <1>c, <2>2, <2>3, KeysKept DEF Goal
  <1>4. CASE \E c \in CacheThreads : CacheMiss(c)
    <2>1. PICK c \in CacheThreads : CacheMiss(c)
      BY <1>4
    <2>2. CurrentIsExact'
      BY <2>1, <1>b, CacheMissMoves
    <2>3. InFlight \subseteq InFlight' /\ UNCHANGED <<keysInFlight, waiting>>
      BY <2>1, <1>b, CacheMissMoves
    <2>4. QED
      BY <1>b, <1>c, <2>2, <2>3, KeysKept DEF Goal
  <1>5. CASE \E c \in CacheThreads : CacheHit(c)
    <2>1. PICK c \in CacheThreads : CacheHit(c)
      BY <1>5
    <2>2. CurrentIsExact'
      BY <2>1, <1>b, CacheHitMoves
    <2>3. InFlight \subseteq InFlight' /\ UNCHANGED <<keysInFlight, waiting>>
      BY <2>1, <1>b, CacheHitMoves
    <2>4. QED
      BY <1>b, <1>c, <2>2, <2>3, KeysKept DEF Goal
  <1>6. CASE \E c \in CacheThreads : CacheHitRefresh(c)
    <2>1. PICK c \in CacheThreads : CacheHitRefresh(c)
      BY <1>6
    <2>2. CurrentIsExact'
      BY <2>1, <1>b, CacheHitRefreshMoves
    <2>3. InFlight \subseteq InFlight' /\ UNCHANGED <<keysInFlight, waiting>>
      BY <2>1, <1>b, CacheHitRefreshMoves
    <2>4. QED
      BY <1>b, <1>c, <2>2, <2>3, KeysKept DEF Goal
  <1>7. CASE \E n \in NetThreads : NetTake(n)
    <2>1. PICK n \in NetThreads : NetTake(n)
      BY <1>7
    <2>2. CurrentIsExact'
      BY <2>1, <1>b, NetTakeMoves
    <2>3. InFlight \subseteq InFlight' /\ UNCHANGED <<keysInFlight, waiting>>
      BY <2>1, <1>b, NetTakeMoves
    <2>4. QED
      BY <1>b, <1>c, <2>2, <2>3, KeysKept DEF Goal
  <1>8. CASE \E n \in NetThreads : NetError(n)
    <2>1. PICK n \in NetThreads : NetError(n)
      BY <1>8
    <2>2. CurrentIsExact'
      BY <2>1, <1>b, NetErrorMoves
    <2>3. InFlight \subseteq InFlight' /\ UNCHANGED <<keysInFlight, waiting>>
      BY <2>1, <1>b, NetErrorMoves
    <2>4. QED
      BY <1>b, <1>c, <2>2, <2>3, KeysKept DEF Goal
  <1>9. CASE \E n \in NetThreads, e \in Freshness : NetResponse(n, e)
    <2>1. PICK n \in NetThreads, e \in Freshness : NetResponse(n, e)
      BY <1>9
    <2>2. CurrentIsExact'
      BY <2>1, <1>b, NetResponseMoves
    <2>3. InFlight \subseteq InFlight' /\ UNCHANGED <<keysInFlight, waiting>>
      BY <2>1, <1>b, NetResponseMoves
    <2>4. QED
      BY <1>b, <1>c, <2>2, <2>3, KeysKept DEF Goal
  <1>10. CASE DeliveryRun
    <2>2. CurrentIsExact'
      BY <1>10, <1>b, DeliveryRunMoves
    <2>3. InFlight \subseteq InFlight' /\ UNCHANGED <<keysInFlight, waiting>>
      BY <1>10, <1>b, DeliveryRunMoves
    <2>4. QED
      BY <1>b, <1>c, <2>2, <2>3, KeysKept DEF Goal
  <1>11. CASE Forward
    <2>2. CurrentIsExact'
      BY <1>11, <1>b, ForwardMoves
    <2>3. InFlight \subseteq InFlight' /\ UNCHANGED <<keysInFlight, waiting>>
      BY <1>11, <1>b, ForwardMoves
    <2>4. QED
      BY <1>b, <1>c, <2>2, <2>3, KeysKept DEF Goal
  <1>12. CASE Start
    <2>2. CurrentIsExact'
      BY <1>12, <1>b, StartMoves
    <2>3. InFlight \subseteq InFlight' /\ UNCHANGED <<keysInFlight, waiting>>
      BY <1>12, <1>b, StartMoves
    <2>4. QED
      BY <1>b, <1>c, <2>2, <2>3, KeysKept DEF Goal
  <1>13. CASE Quiet
    <2>2. CurrentIsExact'
      BY <1>13, <1>b, QuietMoves
    <2>3. InFlight \subseteq InFlight' /\ UNCHANGED <<keysInFlight, waiting>>
      BY <1>13, <1>b, QuietMoves
    <2>4. QED
      BY <1>b, <1>c, <2>2, <2>3, KeysKept DEF Goal
  <1>14. CASE Relabelling
    <2>2. CurrentIsExact'
      BY <1>14, <1>b, RelabellingMoves
    <2>3. InFlight \subseteq InFlight' /\ UNCHANGED <<keysInFlight, waiting>>
      BY <1>14, <1>b, RelabellingMoves
    <2>4. QED
      BY <1>b, <1>c, <2>2, <2>3, KeysKept DEF Goal
  <1>15. CASE \E r \in Requests : AddFirst(r)
    <2>1. PICK r \in Requests : AddFirst(r)
      BY <1>15
    <2>2. CurrentIsExact'
      BY <2>1, <1>b, AddFirstMoves
    <2>3. InFlight' = InFlight \cup {r} /\ waiting' = waiting
      BY <2>1, <1>b, AddFirstMoves
    <2>4. keysInFlight' = keysInFlight \cup {KeyOf[r]} /\ r \in Cacheable
      BY <2>1 DEF AddFirst
    <2>5. KeyMeansInFlight'
      BY <1>b, <2>3, <2>4 DEF KeyMeansInFlight
    <2>6. QED
      BY <1>c, <2>2, <2>5 DEF Goal
  <1>16. CASE \E r \in Requests : AddStaged(r)
    <2>1. PICK r \in Requests : AddStaged(r)
      BY <1>16
    <2>2. CurrentIsExact'
      BY <2>1, <1>b, AddStagedMoves
    <2>3. InFlight' = InFlight /\ keysInFlight' = keysInFlight
      BY <2>1, <1>b, AddStagedMoves
    <2>4. /\ KeyOf[r] \in keysInFlight
          /\ \A k \in Keys : k # KeyOf[r] => waiting'[k] = waiting[k]
      BY <2>1, <1>b DEF AddStaged, PlaceInv, TypeInv, TypeOK
    <2>5. KeyMeansInFlight'
      BY <1>b, <2>3, <2>4 DEF KeyMeansInFlight
    <2>6. QED
      BY <1>c, <2>2, <2>5 DEF Goal
  <1>17. CASE \E t \in Threads : Finish(t)
    <2>1. PICK t \in Threads : Finish(t)
      BY <1>17
    <2>2. req[t] \notin adding \cup Staged \cup cacheQueue \cup networkQueue \cup Posted
      BY <2>1, <1>b, FinishMoves DEF PlacesDisjoint
    <2>3. CurrentIsExact'
      BY <2>1, <2>2, <1>b, FinishMoves
    <2>4. /\ UNCHANGED <<keysInFlight, waiting>>
          /\ InFlight \cap Cacheable \subseteq InFlight'
      BY <2>1, <1>b, FinishMoves
    <2>5. KeyMeansInFlight'
      BY <1>b, <2>4 DEF KeyMeansInFlight
    <2>6. QED
      BY <1>c, <2>3, <2>5 DEF Goal
  <1>18. CASE \E t \in Threads : Release(t)
    <2>1. PICK t \in Threads : Release(t)
      BY <1>18
    <2>2. CurrentIsExact'
      BY <2>1, <1>b, ReleaseMoves
    <2>3. InFlight \ {req[t]} \subseteq InFlight' /\ req[t] \in Requests
      BY <2>1, <1>b, ReleaseMoves
    <2>4. /\ keysInFlight' = keysInFlight \ {KeyOf[req[t]]}
          /\ waiting'[KeyOf[req[t]]] = {}
          /\ \A k \in Keys : k # KeyOf[req[t]] => waiting'[k] = waiting[k]
      BY <2>1, <2>3, <1>b DEF Release, PlaceInv, TypeInv, TypeOK
    <2>5. KeyMeansInFlight'
      BY <1>b, <2>3, <2>4 DEF KeyMeansInFlight
    <2>6. QED
      BY <1>c, <2>2, <2>5 DEF Goal
  <1>19. CASE \E c \in CacheThreads : CacheHitThrows(c)
    BY <1>19 DEF CacheHitThrows
  <1>20. QED
    BY NextCases, <1>1, <1>2, <1>3, <1>4, <1>5, <1>6, <1>7, <1>8, <1>9, <1>10, <1>11, <1>12, <1>13, <1>14, <1>15, <1>16, <1>17, <1>18, <1>19, Zenon DEF Quiet, Relabelling

\* mCurrentRequests is exact, whatever the interleaving: cancelAll reaches every
\* request that is under way, and none is leaked.
THEOREM CurrentExactAlways ==
    ASSUME "exception" \notin CacheParses PROVE Spec => []CurrentIsExact
  <1>1. TrackInv => CurrentIsExact
    BY DEF TrackInv
  <1>2. TrackInv /\ [Next]_vars => TrackInv'
    BY TrackStep
  <1>3. QED
    BY <1>1, <1>2, TrackInit, PTL DEF Spec

\* The comment on mWaitingRequests is right: a key is in the map only while a
\* cacheable request with that key is in flight, so no request waits for one
\* that will never come back to release it.
THEOREM KeysAlwaysInFlight ==
    ASSUME "exception" \notin CacheParses PROVE Spec => []KeyMeansInFlight
  <1>1. TrackInv => KeyMeansInFlight
    BY DEF TrackInv
  <1>2. TrackInv /\ [Next]_vars => TrackInv'
    BY TrackStep
  <1>3. QED
    BY <1>1, <1>2, TrackInit, PTL DEF Spec

-----------------------------------------------------------------------------
(* The end of a request.                                                   *)

\* Where a request is that will still be finished.
Live == adding \cup Staged \cup cacheQueue \cup networkQueue \cup Posted \cup Working

\* A finished request was added, and is nowhere but with the thread that
\* finishes it.
EndedIsGone ==
    \A r \in Requests : finished[r] > 0 => seq[r] # 0 /\ r \notin Live \cup current

EndInv == PlaceInv /\ EndedIsGone

\* What a step does to the requests that are under way.
Passing == Live' \subseteq Live /\ UNCHANGED <<current, seq, finished>>

LEMMA LiveSteps ==
    ASSUME PlaceInv, [Next]_vars
    PROVE  \/ \E r \in Requests : AddCurrent(r)
           \/ \E t \in Threads : Finish(t)
           \/ Passing
<1> USE DEF After, Live
<1>1. CASE \E r \in Requests : AddUncacheable(r)
    <2>1. PICK r \in Requests : AddUncacheable(r)
        BY <1>1
    <2>2. finished' = finished
        BY <2>1 DEF AddUncacheable, observed
    <2> QED BY <2>1, <2>2, AddUncacheableMoves DEF Passing
<1>2. CASE \E r \in Requests : AddFirst(r)
    <2>1. PICK r \in Requests : AddFirst(r)
        BY <1>2
    <2>2. finished' = finished
        BY <2>1 DEF AddFirst, observed
    <2> QED BY <2>1, <2>2, AddFirstMoves DEF Passing
<1>3. CASE \E r \in Requests : AddStaged(r)
    <2>1. PICK r \in Requests : AddStaged(r)
        BY <1>3
    <2>2. finished' = finished
        BY <2>1 DEF AddStaged, observed
    <2> QED BY <2>1, <2>2, AddStagedMoves DEF Passing
<1>4. CASE \E c \in CacheThreads : CacheTake(c)
    <2>1. PICK c \in CacheThreads : CacheTake(c)
        BY <1>4
    <2>2. finished' = finished
        BY <2>1 DEF CacheTake, observed
    <2> QED BY <2>1, <2>2, CacheTakeMoves DEF Passing
<1>5. CASE \E c \in CacheThreads : CacheMiss(c)
    <2>1. PICK c \in CacheThreads : CacheMiss(c)
        BY <1>5
    <2>2. finished' = finished
        BY <2>1 DEF CacheMiss, observed
    <2> QED BY <2>1, <2>2, CacheMissMoves DEF Passing
<1>6. CASE \E c \in CacheThreads : CacheHit(c)
    <2>1. PICK c \in CacheThreads : CacheHit(c)
        BY <1>6
    <2>2. finished' = finished
        BY <2>1 DEF CacheHit, observed
    <2> QED BY <2>1, <2>2, CacheHitMoves DEF Passing
<1>7. CASE \E c \in CacheThreads : CacheHitRefresh(c)
    <2>1. PICK c \in CacheThreads : CacheHitRefresh(c)
        BY <1>7
    <2>2. finished' = finished
        BY <2>1 DEF CacheHitRefresh, observed
    <2> QED BY <2>1, <2>2, CacheHitRefreshMoves DEF Passing
<1>8. CASE \E c \in CacheThreads : CacheHitThrows(c)
    <2>1. PICK c \in CacheThreads : CacheHitThrows(c)
        BY <1>8
    <2>2. finished' = finished
        BY <2>1 DEF CacheHitThrows, observed
    <2> QED BY <2>1, <2>2, CacheHitThrowsMoves DEF Passing
<1>9. CASE \E n \in NetThreads : NetTake(n)
    <2>1. PICK n \in NetThreads : NetTake(n)
        BY <1>9
    <2>2. finished' = finished
        BY <2>1 DEF NetTake, observed
    <2> QED BY <2>1, <2>2, NetTakeMoves DEF Passing
<1>10. CASE \E n \in NetThreads : NetError(n)
    <2>1. PICK n \in NetThreads : NetError(n)
        BY <1>10
    <2>2. finished' = finished
        BY <2>1 DEF NetError, observed
    <2> QED BY <2>1, <2>2, NetErrorMoves DEF Passing
<1>11. CASE \E n \in NetThreads, e \in Freshness : NetResponse(n, e)
    <2>1. PICK n \in NetThreads, e \in Freshness : NetResponse(n, e)
        BY <1>11
    <2>2. finished' = finished
        BY <2>1 DEF NetResponse, observed
    <2> QED BY <2>1, <2>2, NetResponseMoves DEF Passing
<1>12. CASE \E t \in Threads : Release(t)
    <2>1. PICK t \in Threads : Release(t)
        BY <1>12
    <2>2. finished' = finished
        BY <2>1 DEF Release, observed
    <2> QED BY <2>1, <2>2, ReleaseMoves DEF Passing
<1>13. CASE Forward
    <2>1. finished' = finished
        BY <1>13 DEF Forward, observed
    <2> QED BY <1>13, <2>1, ForwardMoves DEF Passing
<1>14. CASE DeliveryRun
    <2>1. finished' = finished
        BY <1>14 DEF DeliveryRun, observed
    <2> QED BY <1>14, <2>1, DeliveryRunMoves DEF Passing
<1>15. CASE Start
    <2>1. finished' = finished
        BY <1>15 DEF Start, observed
    <2> QED BY <1>15, <2>1, StartMoves DEF Passing
<1>16. CASE Quiet
    <2>1. finished' = finished
        BY <1>16 DEF Quiet, Stop, Cancel, CancelAll, CacheAges, CacheEvicts, vars, observed
    <2> QED BY <1>16, <2>1, QuietMoves DEF Passing
<1>17. CASE Relabelling
    <2>1. finished' = finished
        BY <1>17 DEF Relabelling, Discard, CacheInterrupted, NetInterrupted, NetNotModified,
                  Deliver, observed
    <2> QED BY <1>17, <2>1, RelabellingMoves DEF Passing
<1> QED BY NextCases, <1>1, <1>2, <1>3, <1>4, <1>5, <1>6, <1>7, <1>8, <1>9, <1>10, <1>11,
           <1>12, <1>13, <1>14, <1>15, <1>16, <1>17, Zenon
           DEF Quiet, Relabelling

LEMMA EndInit == Init => EndInv
BY PlaceInit DEF Init, EndInv, EndedIsGone

LEMMA EndStep == EndInv /\ [Next]_vars => EndInv'
<1> SUFFICES ASSUME EndInv, [Next]_vars PROVE EndInv'
    OBVIOUS
<1>1. PlaceInv' /\ PlaceInv /\ EndedIsGone
    BY PlaceStep DEF EndInv
<1>2. CASE \E r \in Requests : AddCurrent(r)
    <2>1. PICK r \in Requests : AddCurrent(r)
        BY <1>2
    <2>2. Live' = Live \cup {r} /\ current' = current \cup {r}
        BY <1>1, <2>1, AddCurrentMoves DEF After, Live
    <2>3. /\ finished' = finished /\ seq[r] = 0 /\ lastSeq \in Nat
          /\ \A q \in Requests : seq'[q] = IF q = r THEN lastSeq + 1 ELSE seq[q]
        BY <1>1, <2>1 DEF AddCurrent, observed, PlaceInv, TypeInv, TypeOK
    <2> QED BY <1>1, <2>2, <2>3 DEF EndInv, EndedIsGone
<1>3. CASE \E t \in Threads : Finish(t)
    <2>1. PICK t \in Threads : Finish(t)
        BY <1>3
    <2>2. req[t] \in Requests \cap Held /\ seq' = seq
        BY <1>1, <2>1, FinishMoves
    <2>3. req[t] \notin adding \cup Staged \cup cacheQueue \cup networkQueue \cup Posted
        BY <1>1, <2>2 DEF PlaceInv, OnePlace, PlacesDisjoint, InFlight
    <2>4. Live' = Live \ {req[t]} /\ current' = current \ {req[t]}
        BY <1>1, <2>1, <2>3, FinishMoves DEF After, Live
    <2>5. \A q \in Requests : q # req[t] => finished'[q] = finished[q]
        BY <1>1, <2>1 DEF Finish, PlaceInv, TypeInv, TypeOK
    <2>6. seq[req[t]] # 0
        BY <1>1, <2>2 DEF PlaceInv, Numbered, InFlight
    <2> QED BY <1>1, <2>2, <2>4, <2>5, <2>6 DEF EndInv, EndedIsGone
<1>4. CASE Passing
    BY <1>1, <1>4 DEF Passing, EndInv, EndedIsGone
<1> QED BY <1>1, <1>2, <1>3, <1>4, LiveSteps

\* What a thread works on is not finished.
LEMMA WorkingIsPending ==
    ASSUME EndInv, NEW t \in Threads, pc[t] \in {"taken", "deliver", "forward", "finish"}
    PROVE  /\ req[t] \in Requests /\ req[t] \in Live
           /\ finished[req[t]] = 0 /\ seq[req[t]] > 0
<1>1. PlaceInv /\ EndedIsGone /\ TypeOK /\ HoldsWhenBusy
    BY DEF EndInv, PlaceInv, TypeInv
<1>2. req[t] \in Requests /\ req[t] \in Live
    BY <1>1 DEF TypeOK, HoldsWhenBusy, BusyLabels, Live, Working
<1>3. req[t] \in Held
    BY <1>2 DEF Held
<1>4. seq[req[t]] # 0
    BY <1>1, <1>3 DEF PlaceInv, Numbered, InFlight
<1>5. finished[req[t]] \in Nat /\ seq[req[t]] \in Nat
    BY <1>1, <1>2 DEF TypeOK
<1> QED BY <1>1, <1>2, <1>4, <1>5 DEF EndedIsGone

LEMMA AnswersChange ==
    ASSUME EndInv, [Next]_vars
    PROVE  answers' = answers \/ Deliver
BY NextCases DEF Start, Stop, AddCurrent, AddUncacheable, AddFirst, AddStaged, Cancel, CancelAll,
    Finish, Release, Discard, CacheTake, CacheInterrupted, CacheMiss, CacheHit, CacheHitRefresh,
    CacheHitThrows, NetTake, NetInterrupted, NetNotModified, NetError, NetResponse, DeliveryRun,
    Forward, CacheAges, CacheEvicts, vars, observed

\* A finished request is never answered, queued or listed again, also when
\* requests are cancelled from any thread, dispatchers are stopped and started
\* again, or a parser throws.
THEOREM FinishedIsAlwaysFinal == Spec => FinishedIsFinal
<1> DEFINE Final ==
        \A r \in Requests : finished[r] > 0 =>
            /\ answers'[r] = answers[r]
            /\ r \notin (current \cup adding \cup Staged \cup cacheQueue
                           \cup networkQueue \cup Posted)'
<1>1. EndInv /\ [Next]_vars => [Final]_vars
    <2> SUFFICES ASSUME EndInv, [Next]_vars, NEW r \in Requests, finished[r] > 0
                 PROVE  /\ answers'[r] = answers[r]
                        /\ r \notin (current \cup adding \cup Staged \cup cacheQueue
                                       \cup networkQueue \cup Posted)'
        BY Zenon DEF Final
    <2>1. answers'[r] = answers[r]
        <3>1. CASE Deliver
            <4>1. finished[req[Main]] = 0
                BY <3>1, WorkingIsPending DEF Deliver
            <4> QED BY <3>1, <4>1 DEF Deliver, EndInv, PlaceInv, TypeInv, TypeOK
        <3> QED BY <3>1, AnswersChange
    <2>2. EndInv'
        BY EndStep
    <2>3. finished'[r] > 0
        <3>1. finished' = finished \/ \E t \in Threads : Finish(t)
            BY LiveSteps DEF EndInv, Passing, AddCurrent, observed
        <3>2. finished \in [Requests -> Nat]
            BY DEF EndInv, PlaceInv, TypeInv, TypeOK
        <3>3. CASE \E t \in Threads : Finish(t)
            <4>1. PICK t \in Threads : finished' = [finished EXCEPT ![req[t]] = @ + 1]
                BY <3>3 DEF Finish
            <4> QED BY <3>2, <4>1
        <3> QED BY <3>1, <3>3
    <2> QED BY <2>1, <2>2, <2>3 DEF EndInv, EndedIsGone, Live
<1>2. EndInv /\ [Next]_vars => EndInv'
    BY EndStep
<1> QED BY <1>1, <1>2, EndInit, PTL DEF Spec, FinishedIsFinal

-----------------------------------------------------------------------------
(* The answers of a request, by where it is.                               *)

Unheard(r)    == answers[r] = <<>> /\ r \notin delivered
Refreshing(r) == Unheard(r) \/ \E first \in Provisional : answers[r] = <<first>>

CanTell(r, kind) ==
    \/ answers[r] = <<>>
    \/ /\ \E first \in Provisional : answers[r] = <<first>>
       /\ kind \notin Provisional

\* The runnables that are posted.
Messages == {looper[i] : i \in DOMAIN looper}

\* Nothing has been told or is about to be before the cache thread decides;
\* on its way to the network a request has at most its provisional answer.
QueuesFit ==
    /\ \A r \in Requests : seq[r] = 0 => Unheard(r)
    /\ \A r \in adding \cup Staged \cup cacheQueue : Unheard(r)
    /\ \A r \in networkQueue : Refreshing(r)

MessagesFit == \A m \in Messages : CanTell(m.req, m.kind)

\* A request is only finished with an answer, or when it is cancelled.
ThreadFits(t) ==
    /\ pc[t] = "taken" => IF t \in CacheThreads THEN Unheard(req[t]) ELSE Refreshing(req[t])
    /\ pc[t] = "deliver" => t = Main /\ CanTell(req[t], message)
    /\ pc[t] = "forward" => \E first \in Provisional : answers[req[t]] = <<first>>
    /\ pc[t] = "finish" => answers[req[t]] # <<>> \/ req[t] \in cancelled

ThreadsFit == \A t \in Threads : ThreadFits(t)

AnswersFit == QueuesFit /\ MessagesFit /\ ThreadsFit

\* The main thread looks at the canceled flag right before the callback.
NotSilenced == pc[Main] = "deliver" => req[Main] \notin cancelled

PromiseInv == EndInv /\ AnswersFit /\ NotSilenced
-----------------------------------------------------------------------------
(* Steps of one thread touch the answers of the request it holds only, and  *)
(* nothing else refers to that request.                                    *)

OnlyActs(t) ==
    /\ \A q \in Requests \ {req[t]} :
           answers'[q] = answers[q] /\ (q \in delivered' <=> q \in delivered)
    /\ \A u \in Threads \ {t} : pc'[u] = pc[u] /\ req'[u] = req[u]
    /\ seq' = seq /\ cancelled' = cancelled
    /\ message' = message \/ t = Main

LEMMA Elsewhere ==
    ASSUME PlaceInv, NEW t \in Threads, req[t] # NoRequest
    PROVE  /\ req[t] \in Requests /\ seq[req[t]] # 0
           /\ req[t] \notin adding \cup Staged \cup cacheQueue \cup networkQueue \cup Posted
           /\ \A u \in Threads \ {t} : req[u] # req[t]
<1>1. req[t] \in Requests /\ req[t] \in Held
    BY DEF PlaceInv, TypeInv, TypeOK, Held
<1> QED BY <1>1 DEF PlaceInv, OnePlace, PlacesDisjoint, HeldOnce, Numbered, InFlight

LEMMA MessagesTyped ==
    ASSUME TypeInv, NEW m \in Messages
    PROVE  m \in Message /\ m.req \in Requests /\ m.req \in Posted
<1>1. PICK i \in DOMAIN looper : m = looper[i]
    BY DEF Messages
<1>2. m \in Message
    BY <1>1 DEF TypeInv, TypeOK
<1> QED BY <1>1, <1>2 DEF Message, Posted

LEMMA PostedMessages ==
    ASSUME TypeInv, NEW r \in Requests, NEW kind \in Kinds, Post(r, kind)
    PROVE  \A m \in Messages' : m \in Messages \/ m = [req |-> r, kind |-> kind]
<1> DEFINE n == [req |-> r, kind |-> kind]
<1>1. looper \in Seq(Message) /\ n \in Message
    BY DEF TypeInv, TypeOK, Message
<1>2. /\ looper' = Append(looper, n)
      /\ \A i \in 1 .. Len(looper) : looper'[i] = looper[i]
      /\ looper'[Len(looper) + 1] = n
      /\ DOMAIN looper = 1 .. Len(looper)
      /\ DOMAIN looper' = 1 .. (Len(looper) + 1)
      /\ Len(looper) \in Nat
    BY <1>1 DEF Post
<1> HIDE DEF n
<1>3. \A i \in DOMAIN looper' : i \in DOMAIN looper \/ i = Len(looper) + 1
    BY <1>2
<1>4. \A m \in Messages' : m \in Messages \/ m = n
    BY <1>2, <1>3 DEF Messages
<1> QED BY <1>4 DEF n

LEMMA RunMessages ==
    ASSUME TypeInv, looper # <<>>, looper' = Tail(looper)
    PROVE  Head(looper) \in Messages /\ Messages' \subseteq Messages
<1>1. looper \in Seq(Message)
    BY DEF TypeInv, TypeOK
<1>2. /\ Len(looper) \in Nat \ {0}
      /\ Head(looper) = looper[1]
      /\ \A i \in 1 .. (Len(looper) - 1) : looper'[i] = looper[i + 1]
      /\ DOMAIN looper = 1 .. Len(looper)
      /\ DOMAIN looper' = 1 .. (Len(looper) - 1)
    BY <1>1, HeadTailProperties
<1>3. \A i \in DOMAIN looper' : i + 1 \in DOMAIN looper
    BY <1>2
<1> QED BY <1>2, <1>3 DEF Messages

LEMMA ActorStep ==
    ASSUME PlaceInv, AnswersFit, NEW t \in Threads, OnlyActs(t), ThreadFits(t)',
           adding' \cup Staged' \cup cacheQueue' \subseteq adding \cup Staged \cup cacheQueue,
           \A q \in networkQueue' : q \in networkQueue \/ Refreshing(q)',
           \A m \in Messages' : m \in Messages \/ CanTell(m.req, m.kind)'
    PROVE  AnswersFit'
<1>1. TypeInv /\ QueuesFit /\ MessagesFit /\ ThreadsFit
    BY DEF PlaceInv, AnswersFit
<1>2. adding \cup Staged \cup cacheQueue \cup networkQueue \subseteq Requests
    BY <1>1, PlacesTyped DEF InFlight
<1>3. ASSUME NEW q \in Requests, q # req[t]
      PROVE  (Unheard(q)' <=> Unheard(q)) /\ (Refreshing(q)' <=> Refreshing(q))
             /\ \A k : CanTell(q, k)' <=> CanTell(q, k)
    BY <1>3 DEF OnlyActs, Unheard, Refreshing, CanTell
<1>4. /\ \A q \in adding \cup Staged \cup cacheQueue \cup networkQueue : q # req[t]
      /\ \A m \in Messages : m.req # req[t]
      /\ \A q \in Requests : seq[q] = 0 => q # req[t]
    BY <1>1, <1>2, Elsewhere, MessagesTyped
<1>5. QueuesFit'
    BY <1>1, <1>2, <1>3, <1>4 DEF QueuesFit, OnlyActs
<1>6. MessagesFit'
    BY <1>1, <1>3, <1>4, MessagesTyped DEF MessagesFit
<1>7. ASSUME NEW u \in Threads, u # t
      PROVE  ThreadFits(u)'
    <2>1. pc'[u] = pc[u] /\ req'[u] = req[u] /\ ThreadFits(u)
        BY <1>1, <1>7 DEF OnlyActs, ThreadsFit
    <2>2. CASE pc[u] \notin BusyLabels
        BY <2>1, <2>2 DEF ThreadFits, BusyLabels
    <2>3. CASE pc[u] \in BusyLabels
        <3>1. req[u] # req[t] /\ req[u] \in Requests
            BY <1>1, <1>7, <2>3, Elsewhere DEF TypeInv, TypeOK, HoldsWhenBusy
        <3>2. answers'[req[u]] = answers[req[u]]
            BY <3>1 DEF OnlyActs
        <3>3. pc[u] = "deliver" => message' = message
            BY <1>7, <2>1 DEF OnlyActs, ThreadFits
        <3> QED BY <1>3, <2>1, <3>1, <3>2, <3>3 DEF ThreadFits, OnlyActs
    <2> QED BY <2>2, <2>3
<1>8. ThreadsFit'
    BY <1>7 DEF ThreadsFit
<1> QED BY <1>5, <1>6, <1>8 DEF AnswersFit

\* A step of a caller or of the cache: no thread gets anything to do.
LEMMA CallerStep ==
    ASSUME PlaceInv, AnswersFit, UNCHANGED <<answers, delivered, looper, message, req>>,
           cancelled \subseteq cancelled', QueuesFit',
           \A t \in Threads : pc'[t] = pc[t] \/ pc'[t] = "take"
    PROVE  AnswersFit'
<1>1. MessagesFit'
    BY DEF AnswersFit, MessagesFit, Messages, CanTell
<1>2. ASSUME NEW t \in Threads
      PROVE  ThreadFits(t)'
    <2>1. ThreadFits(t)
        BY DEF AnswersFit, ThreadsFit
    <2> QED BY <2>1 DEF ThreadFits, Unheard, Refreshing, CanTell
<1> QED BY <1>1, <1>2 DEF AnswersFit, ThreadsFit
-----------------------------------------------------------------------------
(* The steps of the threads.                                               *)

LEMMA SameMessages == ASSUME looper' = looper PROVE Messages' = Messages
BY DEF Messages

\* A thread drops its request or goes on with it, and posts nothing.
LEMMA SilentStep ==
    ASSUME EndInv, AnswersFit, NEW t \in Threads,
           NEW l \in {"take", "finish", "release", "uncaught", "exited"},
           req' = req \/ req' = [req EXCEPT ![t] = NoRequest], pc' = [pc EXCEPT ![t] = l],
           UNCHANGED <<seq, adding, waiting, cacheQueue, looper, message, cancelled, delivered, answers>>,
           \A q \in networkQueue' : q \in networkQueue \/ Refreshing(q)',
           l = "finish" => req' = req /\ (answers[req[t]] # <<>> \/ req[t] \in cancelled)
    PROVE  AnswersFit'
<1>1. PlaceInv /\ TypeOK
    BY DEF EndInv, PlaceInv, TypeInv
<1>2. OnlyActs(t)
    BY <1>1 DEF OnlyActs, TypeOK
<1>3. ThreadFits(t)'
    BY <1>1 DEF ThreadFits, TypeOK
<1>4. Staged' = Staged /\ Messages' = Messages
    BY SameStaged, SameMessages
<1> QED BY <1>1, <1>2, <1>3, <1>4, ActorStep

\* A dispatcher posts the answer to its request.
LEMMA PostStep ==
    ASSUME EndInv, AnswersFit, NEW t \in Dispatchers, NEW kind \in Kinds,
           pc[t] = "taken", Post(req[t], kind), NextTask(t),
           delivered' = delivered \/ delivered' = delivered \cup {req[t]},
           UNCHANGED <<seq, adding, waiting, cacheQueue, networkQueue, message, cancelled, answers>>,
           CanTell(req[t], kind)
    PROVE  AnswersFit'
<1>1. PlaceInv /\ TypeInv /\ TypeOK
    BY DEF EndInv, PlaceInv, TypeInv
<1>2. OnlyActs(t)
    BY <1>1 DEF OnlyActs, TypeOK, NextTask, Goto
<1>3. ThreadFits(t)'
    BY <1>1 DEF ThreadFits, TypeOK, NextTask, Goto
<1>4. Staged' = Staged
    BY SameStaged
<1>5. \A m \in Messages' : m \in Messages \/ CanTell(m.req, m.kind)'
    <2>1. PICK r \in Requests : r = req[t]
        BY WorkingIsPending
    <2>2. \A m \in Messages' : m \in Messages \/ m = [req |-> r, kind |-> kind]
        BY <1>1, <2>1, PostedMessages
    <2>3. CanTell(r, kind)'
        BY <2>1 DEF CanTell
    <2> QED BY <2>2, <2>3
<1> QED BY <1>1, <1>2, <1>3, <1>4, <1>5, ActorStep

\* What a dispatcher may tell of the request it has taken.
LEMMA Taken ==
    ASSUME EndInv, AnswersFit, NEW t \in Dispatchers, pc[t] = "taken"
    PROVE  /\ t \in CacheThreads => Unheard(req[t])
           /\ Refreshing(req[t])
           /\ CanTell(req[t], "response") /\ CanTell(req[t], "error")
<1>1. ThreadFits(t)
    BY DEF AnswersFit, ThreadsFit
<1> QED BY <1>1 DEF ThreadFits, Unheard, Refreshing, CanTell, Provisional

LEMMA FitEnds ==
    ASSUME EndInv, AnswersFit, NEW t \in Threads, Finish(t) \/ Release(t)
    PROVE  AnswersFit'
<1> USE DEF tracking, queues, delivery, flags, observed, NextTask, Goto
<1>1. CASE Finish(t)
    BY <1>1, SilentStep DEF Finish
<1>2. CASE Release(t)
    <2>1. PlaceInv /\ TypeOK
        BY DEF EndInv, PlaceInv, TypeInv
    <2>2. /\ adding' = adding /\ networkQueue' = networkQueue
          /\ Staged' \cup cacheQueue' \subseteq Staged \cup cacheQueue
        BY <1>2, <2>1, ReleaseMoves DEF After
    <2>3. OnlyActs(t) /\ Messages' = Messages
        BY <1>2, <2>1, SameMessages DEF OnlyActs, Release, TypeOK
    <2>4. ThreadFits(t)'
        BY <1>2, <2>1 DEF ThreadFits, Release, TypeOK
    <2> QED BY <2>1, <2>2, <2>3, <2>4, ActorStep
<1> QED BY <1>1, <1>2

LEMMA FitCacheSteps ==
    ASSUME EndInv, AnswersFit, NEW c \in CacheThreads, CacheStep(c)
    PROVE  AnswersFit'
<1> USE DEF tracking, queues, delivery, flags, observed, NextTask, Goto
<1>1. PlaceInv /\ TypeInv /\ TypeOK
    BY DEF EndInv, PlaceInv, TypeInv
<1>2. CASE CacheTake(c)
    <2>1. PICK r \in cacheQueue : /\ cacheQueue' = cacheQueue \ {r}
                                  /\ req' = [req EXCEPT ![c] = r]
                                  /\ pc' = [pc EXCEPT ![c] = "taken"]
        BY <1>2 DEF CacheTake
    <2>2. Unheard(r)
        BY DEF AnswersFit, QueuesFit
    <2>3. OnlyActs(c)
        BY <1>1, <1>2, <2>1 DEF OnlyActs, CacheTake, TypeOK
    <2>4. ThreadFits(c)'
        BY <1>1, <1>2, <2>1, <2>2 DEF ThreadFits, CacheTake, TypeOK, Unheard
    <2>5. Staged' = Staged /\ Messages' = Messages /\ networkQueue' = networkQueue
        BY <1>2, SameStaged, SameMessages DEF CacheTake
    <2> QED BY <1>1, <1>2, <2>1, <2>3, <2>4, <2>5, ActorStep DEF CacheTake
<1>3. CASE CacheInterrupted(c)
    BY <1>3, SilentStep DEF CacheInterrupted
<1>4. CASE Discard(c)
    BY <1>4, SilentStep DEF Discard
<1>5. CASE CacheMiss(c)
    <2>1. PICK r \in Requests : r = req[c]
        BY <1>5, WorkingIsPending DEF CacheMiss
    <2>2. Refreshing(r)'
        BY <1>5, <2>1, Taken DEF CacheMiss, Refreshing, Unheard
    <2>3. \A q \in networkQueue' : q \in networkQueue \/ q = r
        BY <1>5, <2>1 DEF CacheMiss
    <2> QED BY <1>5, <2>2, <2>3, SilentStep DEF CacheMiss
<1>6. CASE CacheHit(c)
    BY <1>6, Taken, PostStep DEF CacheHit, Kinds
<1>7. CASE CacheHitRefresh(c)
    <2>1. PICK kind \in Provisional : Post(req[c], kind)
        BY <1>7 DEF CacheHitRefresh, Provisional
    <2>2. CanTell(req[c], kind)
        BY <1>7, Taken DEF CacheHitRefresh, CanTell, Unheard
    <2> QED BY <1>7, <2>1, <2>2, PostStep DEF CacheHitRefresh, Kinds
<1>8. CASE CacheHitThrows(c)
    BY <1>8, SilentStep DEF CacheHitThrows
<1> QED BY <1>2, <1>3, <1>4, <1>5, <1>6, <1>7, <1>8, FitEnds DEF CacheStep

LEMMA FitNetSteps ==
    ASSUME EndInv, AnswersFit, NEW n \in NetThreads, NetStep(n)
    PROVE  AnswersFit'
<1> USE DEF tracking, queues, delivery, flags, observed, NextTask, Goto
<1>1. PlaceInv /\ TypeInv /\ TypeOK
    BY DEF EndInv, PlaceInv, TypeInv
<1>2. CASE NetTake(n)
    <2>1. PICK r \in networkQueue : /\ networkQueue' = networkQueue \ {r}
                                    /\ req' = [req EXCEPT ![n] = r]
                                    /\ pc' = [pc EXCEPT ![n] = "taken"]
        BY <1>2 DEF NetTake
    <2>2. Refreshing(r)
        BY DEF AnswersFit, QueuesFit
    <2>3. OnlyActs(n)
        BY <1>1, <1>2, <2>1 DEF OnlyActs, NetTake, TypeOK
    <2>4. ThreadFits(n)'
        BY <1>1, <1>2, <2>1, <2>2 DEF ThreadFits, NetTake, TypeOK, Refreshing, Unheard
    <2>5. Staged' = Staged /\ Messages' = Messages /\ cacheQueue' = cacheQueue
        BY <1>2, SameStaged, SameMessages DEF NetTake
    <2> QED BY <1>1, <1>2, <2>1, <2>3, <2>4, <2>5, ActorStep DEF NetTake
<1>3. CASE NetInterrupted(n)
    BY <1>3, SilentStep DEF NetInterrupted
<1>4. CASE Discard(n)
    BY <1>4, SilentStep DEF Discard
<1>5. CASE NetNotModified(n)
    <2>1. answers[req[n]] # <<>>
        BY <1>5, Taken DEF NetNotModified, Refreshing, Unheard
    <2> QED BY <1>5, <2>1, SilentStep DEF NetNotModified
<1>6. CASE NetError(n)
    BY <1>6, Taken, PostStep DEF NetError, Kinds
<1>7. CASE \E entry \in {"none", "fresh", "expired"} : NetResponse(n, entry)
    BY <1>7, Taken, PostStep DEF NetResponse, Kinds
<1> QED BY <1>2, <1>3, <1>4, <1>5, <1>6, <1>7, FitEnds DEF NetStep

LEMMA AppendTells ==
    ASSUME NEW s \in Seq(Kinds), NEW kind \in Kinds
    PROVE  Append(s, kind) # <<>> /\ (s = <<>> => Append(s, kind) = <<kind>>)
<1>1. Append(s, kind) # <<>>
    BY AppendProperties
<1>2. Append(<<>>, kind) = <<kind>>
    OBVIOUS
<1> QED BY <1>1, <1>2

LEMMA FitMainSteps ==
    ASSUME EndInv, AnswersFit, MainStep
    PROVE  AnswersFit'
<1> USE DEF tracking, queues, delivery, flags, observed, NextTask, Goto
<1>1. PlaceInv /\ TypeInv /\ TypeOK
    BY DEF EndInv, PlaceInv, TypeInv
<1>2. ThreadFits(Main)
    BY DEF AnswersFit, ThreadsFit
<1>3. CASE DeliveryRun
    <2>1. Head(looper) \in Messages /\ Messages' \subseteq Messages
        BY <1>1, <1>3, RunMessages DEF DeliveryRun
    <2>2. PICK m \in Messages : m = Head(looper)
        BY <2>1
    <2>3. CanTell(m.req, m.kind)
        BY DEF AnswersFit, MessagesFit
    <2>4. /\ req' = [req EXCEPT ![Main] = m.req] /\ message' = m.kind
          /\ pc' = [pc EXCEPT ![Main] = IF m.req \in cancelled THEN "finish" ELSE "deliver"]
        BY <1>3, <2>2 DEF DeliveryRun
    <2>5. OnlyActs(Main)
        BY <1>1, <1>3, <2>4 DEF OnlyActs, DeliveryRun, TypeOK
    <2>6. ThreadFits(Main)'
        BY <1>1, <1>3, <2>3, <2>4 DEF ThreadFits, DeliveryRun, TypeOK, CanTell
    <2>7. Staged' = Staged
        BY <1>3, SameStaged DEF DeliveryRun
    <2> QED BY <1>1, <1>3, <2>1, <2>5, <2>6, <2>7, ActorStep DEF DeliveryRun
<1>4. CASE Deliver
    <2>1. PICK r \in Requests : r = req[Main]
        BY <1>4, WorkingIsPending DEF Deliver
    <2>2. CanTell(r, message) /\ message \in Kinds
        BY <1>1, <1>2, <1>4, <2>1 DEF Deliver, ThreadFits, TypeOK
    <2>3. answers' = [answers EXCEPT ![r] = Append(@, message)] /\ answers[r] \in Seq(Kinds)
        BY <1>1, <1>4, <2>1 DEF Deliver, TypeOK
    <2>4. /\ answers'[r] # <<>>
          /\ message \in Provisional => answers'[r] = <<message>>
        <3>1. answers'[r] = Append(answers[r], message)
            BY <1>1, <2>3 DEF TypeOK
        <3> QED BY <2>2, <2>3, <3>1, AppendTells DEF CanTell
    <2>5. OnlyActs(Main)
        BY <1>1, <1>4, <2>1, <2>3 DEF OnlyActs, Deliver, TypeOK
    <2>6. /\ req'[Main] = r
          /\ pc'[Main] = IF message \in Provisional THEN "forward" ELSE "finish"
        BY <1>1, <1>4, <2>1 DEF Deliver, TypeOK
    <2>7. ThreadFits(Main)'
        BY <2>4, <2>6 DEF ThreadFits
    <2>8. Staged' = Staged /\ Messages' = Messages
        BY <1>4, SameStaged, SameMessages DEF Deliver
    <2> QED BY <1>1, <1>4, <2>5, <2>7, <2>8, ActorStep DEF Deliver
<1>5. CASE Forward
    <2>1. PICK r \in Requests : r = req[Main]
        BY <1>5, WorkingIsPending DEF Forward
    <2>2. Refreshing(r)'
        BY <1>2, <1>5, <2>1 DEF Forward, ThreadFits, Refreshing
    <2>3. \A q \in networkQueue' : q \in networkQueue \/ q = r
        BY <1>5, <2>1 DEF Forward
    <2> QED BY <1>5, <2>2, <2>3, SilentStep DEF Forward
<1> QED BY <1>3, <1>4, <1>5, FitEnds DEF MainStep

-----------------------------------------------------------------------------
(* The steps of callers and of the cache.                                  *)

LEMMA FitCallerSteps ==
    ASSUME EndInv, AnswersFit,
           Caller \/ (\E k \in Keys : CacheAges(k) \/ CacheEvicts(k)) \/ UNCHANGED vars
    PROVE  AnswersFit'
<1> USE DEF tracking, queues, delivery, flags, threads, observed
<1>1. PlaceInv /\ TypeInv /\ TypeOK /\ QueuesFit
    BY DEF EndInv, PlaceInv, TypeInv, AnswersFit
<1>2. ASSUME UNCHANGED <<answers, delivered, seq, adding, waiting, queues>> PROVE QueuesFit'
    BY <1>1, <1>2, SameStaged DEF QueuesFit, Unheard, Refreshing
<1>3. CASE Start
    BY <1>1, <1>2, <1>3, CallerStep DEF Start
<1>4. CASE Stop
    BY <1>1, <1>2, <1>4, CallerStep DEF Stop
<1>5. CASE \E r \in Requests : AddCurrent(r)
    <2>1. PICK r \in Requests : AddCurrent(r)
        BY <1>5
    <2>2. \A q \in Requests : seq'[q] = 0 => seq[q] = 0
        BY <1>1, <2>1 DEF AddCurrent, TypeOK
    <2>3. QueuesFit'
        BY <1>1, <2>1, <2>2, SameStaged DEF AddCurrent, QueuesFit, Unheard, Refreshing
    <2> QED BY <1>1, <2>1, <2>3, CallerStep DEF AddCurrent
<1>6. CASE \E r \in Requests : AddUncacheable(r)
    <2>1. PICK r \in Requests : AddUncacheable(r)
        BY <1>6
    <2>2. QueuesFit'
        BY <1>1, <2>1, SameStaged DEF AddUncacheable, QueuesFit, Unheard, Refreshing
    <2> QED BY <1>1, <2>1, <2>2, CallerStep DEF AddUncacheable
<1>7. CASE \E r \in Requests : AddFirst(r)
    <2>1. PICK r \in Requests : AddFirst(r)
        BY <1>7
    <2>2. QueuesFit'
        BY <1>1, <2>1, SameStaged DEF AddFirst, QueuesFit, Unheard, Refreshing
    <2> QED BY <1>1, <2>1, <2>2, CallerStep DEF AddFirst
<1>8. CASE \E r \in Requests : AddStaged(r)
    <2>1. PICK r \in Requests : AddStaged(r)
        BY <1>8
    <2>2. Staged' = Staged \cup {r}
        BY <1>1, <2>1, Staging DEF AddStaged
    <2>3. QueuesFit'
        BY <1>1, <2>1, <2>2 DEF AddStaged, QueuesFit, Unheard, Refreshing
    <2> QED BY <1>1, <2>1, <2>3, CallerStep DEF AddStaged
<1>9. CASE \E r \in Requests : Cancel(r)
    BY <1>1, <1>2, <1>9, CallerStep DEF Cancel
<1>10. CASE \E tag \in {TagOf[r] : r \in Requests} : CancelAll(tag)
    BY <1>1, <1>2, <1>10, CallerStep DEF CancelAll
<1>11. CASE \E k \in Keys : CacheAges(k) \/ CacheEvicts(k)
    BY <1>1, <1>2, <1>11, CallerStep DEF CacheAges, CacheEvicts
<1>12. CASE UNCHANGED vars
    BY <1>1, <1>2, <1>12, CallerStep DEF vars
<1> QED BY <1>3, <1>4, <1>5, <1>6, <1>7, <1>8, <1>9, <1>10, <1>11, <1>12, Zenon
           DEF Caller, Enqueue

LEMMA FitInit == Init => AnswersFit
<1> SUFFICES ASSUME Init PROVE AnswersFit
    OBVIOUS
<1>1. adding = {} /\ Staged = {} /\ cacheQueue = {} /\ networkQueue = {} /\ Messages = {}
    BY DEF Init, Staged, Messages
<1>2. \A t \in Threads : pc[t] \in {"take", "unborn"}
    BY DEF Init
<1> QED BY <1>1, <1>2 DEF Init, AnswersFit, QueuesFit, MessagesFit, ThreadsFit, ThreadFits, Unheard

LEMMA FitStep == EndInv /\ AnswersFit /\ [Next]_vars => AnswersFit'
BY FitCallerSteps, FitCacheSteps, FitNetSteps, FitMainSteps, Zenon DEF Next
-----------------------------------------------------------------------------
(* The refinement.                                                         *)

\* With cancel() on the main thread, the flag the runnable has tested does not
\* change before its callback.
LEMMA SilenceStep ==
    ASSUME ~OffMainCancel, EndInv, NotSilenced, [Next]_vars
    PROVE  NotSilenced'
<1> USE DEF tracking, queues, delivery, flags, threads, observed, NextTask, Goto
<1>1. TypeOK
    BY DEF EndInv, PlaceInv, TypeInv
<1>2. CASE DeliveryRun
    BY <1>1, <1>2 DEF DeliveryRun, NotSilenced, TypeOK
<1>3. CASE (\E r \in Requests : Cancel(r)) \/ (\E tag \in {TagOf[r] : r \in Requests} : CancelAll(tag))
    BY <1>3 DEF Cancel, CancelAll, CallerMayCancel, NotSilenced
<1>4. ASSUME cancelled' = cancelled,
             (pc'[Main] = pc[Main] /\ req'[Main] = req[Main]) \/ pc'[Main] # "deliver"
      PROVE  NotSilenced'
    BY <1>4 DEF NotSilenced
<1>5. ASSUME NEW t \in Threads, Finish(t) \/ Release(t)
      PROVE  NotSilenced'
    BY <1>1, <1>4, <1>5 DEF Finish, Release, TypeOK
<1>6. ASSUME NEW c \in CacheThreads, CacheStep(c)
      PROVE  NotSilenced'
    BY <1>1, <1>4, <1>5, <1>6 DEF CacheStep, CacheTake, CacheInterrupted, Discard, CacheMiss,
        CacheHit, CacheHitRefresh, CacheHitThrows, TypeOK
<1>7. ASSUME NEW n \in NetThreads, NetStep(n)
      PROVE  NotSilenced'
    BY <1>1, <1>4, <1>5, <1>7 DEF NetStep, NetTake, NetInterrupted, Discard, NetNotModified,
        NetResponse, NetError, TypeOK
<1>8. CASE Deliver \/ Forward
    BY <1>1, <1>4, <1>8 DEF Deliver, Forward, TypeOK
<1>9. CASE Start \/ Stop
    BY <1>1, <1>4, <1>9 DEF Start, Stop, TypeOK
<1>10. CASE \E r \in Requests : AddCurrent(r) \/ Enqueue(r)
    BY <1>4, <1>10 DEF AddCurrent, Enqueue, AddUncacheable, AddFirst, AddStaged
<1>11. CASE (\E k \in Keys : CacheAges(k) \/ CacheEvicts(k)) \/ UNCHANGED vars
    BY <1>4, <1>11 DEF CacheAges, CacheEvicts, vars
<1> QED BY <1>2, <1>3, <1>5, <1>6, <1>7, <1>8, <1>9, <1>10, <1>11, Zenon
           DEF Next, Caller, MainStep

LEMMA PromiseInit == Init => PromiseInv /\ Service!Init
<1> SUFFICES ASSUME Init PROVE PromiseInv /\ Service!Init
    OBVIOUS
<1>1. PromiseInv
    BY EndInit, FitInit DEF Init, PromiseInv, NotSilenced
<1>2. Service!Init
    BY DEF Init, Service!Init, ServiceStatus
<1> QED BY <1>1, <1>2

LEMMA StatusChanges ==
    ASSUME NEW r \in Requests,
           \A q \in Requests \ {r} : seq'[q] = seq[q] /\ finished'[q] = finished[q]
    PROVE  /\ finished'[r] > 0 => ServiceStatus' = [ServiceStatus EXCEPT ![r] = "done"]
           /\ ~(finished'[r] > 0) /\ seq'[r] > 0 =>
                  ServiceStatus' = [ServiceStatus EXCEPT ![r] = "pending"]
<1>1. \A q \in Requests \ {r} : ServiceStatus'[q] = ServiceStatus[q]
    BY DEF ServiceStatus
<1>2. /\ finished'[r] > 0 => ServiceStatus'[r] = "done"
      /\ ~(finished'[r] > 0) /\ seq'[r] > 0 => ServiceStatus'[r] = "pending"
    BY DEF ServiceStatus
<1>3. /\ ServiceStatus = [q \in Requests |-> ServiceStatus[q]]
      /\ ServiceStatus' = [q \in Requests |-> ServiceStatus'[q]]
    BY DEF ServiceStatus
<1> HIDE DEF ServiceStatus
<1> QED BY <1>1, <1>2, <1>3

\* Every step of a thread or a caller is one of the service, or none.
LEMMA ServiceStep ==
    ASSUME PromiseInv, [Next]_vars
    PROVE  [Service!Next]_(Service!vars)
<1>1. TypeOK /\ EndInv
    BY DEF PromiseInv, EndInv, PlaceInv, TypeInv
<1>2. ASSUME NEW t \in Threads, pc[t] \in {"deliver", "finish"}
      PROVE  req[t] \in Requests /\ ServiceStatus[req[t]] = "pending" /\ ThreadFits(t)
    <2>1. req[t] \in Requests /\ finished[req[t]] = 0 /\ seq[req[t]] > 0
        BY <1>1, <1>2, WorkingIsPending
    <2>2. ThreadFits(t)
        BY DEF PromiseInv, AnswersFit, ThreadsFit
    <2> QED BY <2>1, <2>2 DEF ServiceStatus
<1>3. CASE \E r \in Requests : AddCurrent(r)
    <2>1. PICK r \in Requests : AddCurrent(r)
        BY <1>3
    <2>2. /\ seq[r] = 0 /\ seq' = [seq EXCEPT ![r] = lastSeq + 1]
          /\ UNCHANGED <<finished, answers, cancelled>>
        BY <2>1 DEF AddCurrent, observed, flags
    <2>3. finished[r] = 0
        BY <1>1, <2>2 DEF EndInv, EndedIsGone, TypeOK
    <2>4. ServiceStatus[r] = "new" /\ ServiceStatus' = [ServiceStatus EXCEPT ![r] = "pending"]
        <3>1. \A q \in Requests : seq'[q] = IF q = r THEN lastSeq + 1 ELSE seq[q]
            BY <1>1, <2>2 DEF TypeOK
        <3>2. lastSeq + 1 > 0
            BY <1>1 DEF TypeOK
        <3>3. ServiceStatus[r] = "new"
            BY <2>2, <2>3 DEF ServiceStatus
        <3> QED BY <2>2, <2>3, <3>1, <3>2, <3>3, StatusChanges
    <2> QED BY <2>2, <2>4 DEF Service!Next, Service!Add
<1>4. CASE \E t \in Threads : Finish(t)
    <2>1. PICK t \in Threads : Finish(t)
        BY <1>4
    <2>2. PICK r \in Requests : r = req[t]
        BY <1>2, <2>1 DEF Finish
    <2>3. /\ finished' = [finished EXCEPT ![r] = @ + 1]
          /\ UNCHANGED <<seq, answers, cancelled>>
        BY <2>1, <2>2 DEF Finish, flags
    <2>4. ServiceStatus[r] = "pending" /\ (answers[r] # <<>> \/ r \in cancelled)
        BY <1>2, <2>1, <2>2 DEF Finish, ThreadFits
    <2>5. ServiceStatus' = [ServiceStatus EXCEPT ![r] = "done"]
        <3>1. \A q \in Requests : finished'[q] = IF q = r THEN finished[q] + 1 ELSE finished[q]
            BY <1>1, <2>3 DEF TypeOK
        <3>2. finished[r] + 1 > 0
            BY <1>1 DEF TypeOK
        <3> QED BY <2>3, <3>1, <3>2, StatusChanges
    <2> QED BY <2>3, <2>4, <2>5 DEF Service!Next, Service!End
<1>5. CASE Deliver
    <2>1. PICK r \in Requests : r = req[Main]
        BY <1>2, <1>5 DEF Deliver
    <2>2. /\ answers' = [answers EXCEPT ![r] = Append(@, message)]
          /\ UNCHANGED <<seq, finished, cancelled>> /\ pc[Main] = "deliver"
        BY <1>5, <2>1 DEF Deliver, flags
    <2>3. ServiceStatus[r] = "pending" /\ r \notin cancelled /\ CanTell(r, message)
        BY <1>2, <2>1, <2>2 DEF ThreadFits, PromiseInv, NotSilenced
    <2>4. ServiceStatus' = ServiceStatus
        BY <2>2 DEF ServiceStatus
    <2>5. message \in Service!Provisional \cup {"response", "error"}
        BY <1>1 DEF TypeOK, Kinds, Provisional, Service!Provisional
    <2>6. Service!Answer(r, message)
        BY <2>2, <2>3, <2>4 DEF Service!Answer, CanTell, Provisional, Service!Provisional
    <2> QED BY <2>5, <2>6 DEF Service!Next
<1>6. CASE \E r \in Requests : Cancel(r)
    <2>1. PICK r \in Requests : Cancel(r)
        BY <1>6
    <2>2. cancelled' = cancelled \cup {r} /\ UNCHANGED <<seq, finished, answers>>
        BY <2>1 DEF Cancel, observed
    <2>3. {r} \in SUBSET Requests /\ ServiceStatus' = ServiceStatus
        BY <2>2 DEF ServiceStatus
    <2> QED BY <2>2, <2>3 DEF Service!Next, Service!Cancel
<1>7. CASE \E tag \in {TagOf[r] : r \in Requests} : CancelAll(tag)
    <2>1. PICK tag \in {TagOf[r] : r \in Requests} : CancelAll(tag)
        BY <1>7
    <2> DEFINE some == {r \in current : TagOf[r] = tag}
    <2>2. cancelled' = cancelled \cup some /\ UNCHANGED <<seq, finished, answers>>
        BY <2>1 DEF CancelAll, observed
    <2>3. some \in SUBSET Requests /\ ServiceStatus' = ServiceStatus
        BY <1>1, <2>2 DEF ServiceStatus, TypeOK
    <2> QED BY <2>2, <2>3 DEF Service!Next, Service!Cancel
<1>8. ASSUME UNCHANGED <<seq, finished, answers, cancelled>>
      PROVE  UNCHANGED Service!vars
    BY <1>8 DEF Service!vars, ServiceStatus
<1>9. CASE \E c \in CacheThreads : CacheStep(c)
    BY <1>4, <1>8, <1>9 DEF CacheStep, CacheTake, CacheInterrupted, Discard, CacheMiss, CacheHit,
        CacheHitRefresh, CacheHitThrows, Release, flags, observed
<1>10. CASE \E n \in NetThreads : NetStep(n)
    BY <1>4, <1>8, <1>10 DEF NetStep, NetTake, NetInterrupted, Discard, NetNotModified,
        NetResponse, NetError, Release, flags, observed
<1>11. CASE DeliveryRun \/ Forward \/ Release(Main) \/ Start \/ Stop
    BY <1>8, <1>11 DEF DeliveryRun, Forward, Release, Start, Stop, flags, observed
<1>12. CASE \E r \in Requests : Enqueue(r)
    BY <1>8, <1>12 DEF Enqueue, AddUncacheable, AddFirst, AddStaged, flags, observed
<1>13. CASE (\E k \in Keys : CacheAges(k) \/ CacheEvicts(k)) \/ UNCHANGED vars
    BY <1>8, <1>13 DEF CacheAges, CacheEvicts, vars, flags, observed
<1> QED BY <1>3, <1>4, <1>5, <1>6, <1>7, <1>9, <1>10, <1>11, <1>12, <1>13, Zenon
           DEF Next, Caller, MainStep

\* The queue, its dispatchers and the delivery keep the promise of
\* RequestService: answers in order, none after a cancel or the end, no end
\* without an answer or a cancel.  It holds for all threads, keys and contents
\* of the cache, with stop() and start() at any time, if cancel() is called on
\* the main thread.
THEOREM PromiseAlwaysKept == ~OffMainCancel => (Spec => KeepsPromise)
<1> SUFFICES ASSUME ~OffMainCancel PROVE Spec => KeepsPromise
    OBVIOUS
<1>1. PromiseInv /\ [Next]_vars => PromiseInv'
    BY EndStep, FitStep, SilenceStep DEF PromiseInv
<1>2. PromiseInv /\ [Next]_vars => [Service!Next]_(Service!vars)
    BY ServiceStep
<1> QED BY <1>1, <1>2, PromiseInit, PTL DEF Spec, KeepsPromise, Service!Spec
-----------------------------------------------------------------------------
(* RequestFuture, which stands on the service: for any number of threads   *)
(* that wait in get().                                                     *)

\* The answers the request has had.
had == heard[Request]

FutureTypeInv ==
    /\ FutureTypeOK
    /\ heard \in [{Request} -> Seq(AnswerKinds)]
    /\ Len(had) \in Answers

\* Where the fields come from: the result is an answer that is no error, the
\* error one that is; what is being delivered is the last answer.
FieldsFit ==
    /\ mResult # 0 => mResult <= Len(had) /\ had[mResult] \notin Errors
    /\ mException # 0 => mException <= Len(had) /\ had[mException] \in Errors
    /\ delivering # None => Len(had) # 0 /\ had[Len(had)] = delivering

\* What has been told is in the fields still.
ToldFits == told <= IF mException # 0 THEN mException ELSE mResult

FutureInv == FutureTypeInv /\ FieldsFit /\ ToldFits /\ NoLostWakeup /\ OutcomesAreAnswers

LEMMA FutureInvInit == FutureInit => FutureInv
<1> SUFFICES ASSUME FutureInit PROVE FutureInv
    OBVIOUS
<1>1. had = <<>> /\ heard \in [{Request} -> Seq(AnswerKinds)]
    BY DEF FutureInit, Http!Init, had
<1>2. FutureTypeInv
    <2>1. FutureTypeOK
        <3>1. hasRequest \in BOOLEAN
            BY Zenon DEF FutureInit
        <3>2. /\ delivering \in AnswerKinds \cup {None}
              /\ mResult \in Answers /\ mException \in Answers /\ told \in Answers
            BY DEF FutureInit, Answers
        <3>3. /\ stage \in [Getters -> {"start", "waiting", "woken", "back"}]
              /\ outcome \in [Getters -> Outcomes \cup {None}]
            BY Zenon DEF FutureInit
        <3> QED BY <3>1, <3>2, <3>3 DEF FutureTypeOK
    <2>2. Len(had) = 0
        BY <1>1
    <2> QED BY <1>1, <2>1, <2>2 DEF FutureTypeInv, Answers
<1>3. FieldsFit /\ ToldFits /\ NoLostWakeup
    BY DEF FutureInit, FieldsFit, ToldFits, NoLostWakeup
<1>4. OutcomesAreAnswers
    BY DEF FutureInit, OutcomesAreAnswers
<1> QED BY <1>2, <1>3, <1>4 DEF FutureInv

\* A step of the HTTP layer that is no answer.
LEMMA FutureInvQuiet ==
    ASSUME FutureInv, UNCHANGED <<heard, future, calls>>
    PROVE  FutureInv'
BY DEF FutureInv, FutureTypeInv, FutureTypeOK, FieldsFit, ToldFits, NoLostWakeup, OutcomesAreAnswers,
       had, future, calls

LEMMA FutureInvAnswer ==
    ASSUME FutureInv, NEW kind \in AnswerKinds, Answer(kind)
    PROVE  FutureInv'
<1> USE DEF FutureInv
<1>1. /\ delivering = None /\ delivering' = kind
      /\ heard' = [heard EXCEPT ![Request] = Append(@, kind)]
      /\ had = <<>> \/ \E first \in AnswerKinds : had = <<first>>
      /\ UNCHANGED <<hasRequest, mResult, mException, stage, outcome, told>>
    BY DEF Answer, Http!Answer, Http!Provisional, AnswerKinds, Results, Errors, calls, had
<1>2. heard' \in [{Request} -> Seq(AnswerKinds)] /\ had' = Append(had, kind)
    BY <1>1 DEF FutureTypeInv, had
<1>3. /\ Len(had) \in Answers /\ had \in Seq(AnswerKinds)
      /\ Len(had) = 0 \/ Len(had) = 1
    <2>1. Len(had) \in Answers /\ had \in Seq(AnswerKinds)
        BY DEF FutureTypeInv, had
    <2>2. CASE had = <<>>
        BY <2>1, <2>2
    <2>3. CASE \E first \in AnswerKinds : had = <<first>>
        BY <2>1, <2>3
    <2> QED BY <1>1, <2>1, <2>2, <2>3
<1>4. /\ Len(had') = Len(had) + 1 /\ had'[Len(had) + 1] = kind
      /\ \A n \in 1 .. Len(had) : had'[n] = had[n]
    BY <1>2, <1>3
<1>5. FutureTypeInv'
    <2>1. FutureTypeOK'
        BY <1>1 DEF FutureTypeInv, FutureTypeOK
    <2>2. Len(had') \in Answers
        BY <1>3, <1>4 DEF Answers
    <2> QED BY <1>2, <2>1, <2>2 DEF FutureTypeInv
<1>7. FieldsFit'
    <2>1. mResult \in Nat /\ mException \in Nat
        BY DEF FutureTypeInv, FutureTypeOK, Answers
    <2>2. /\ mResult # 0 => mResult \in 1 .. Len(had) /\ had'[mResult] \notin Errors
          /\ mException # 0 => mException \in 1 .. Len(had) /\ had'[mException] \in Errors
        <3>1. /\ mResult # 0 => mResult \in 1 .. Len(had) /\ had[mResult] \notin Errors
              /\ mException # 0 => mException \in 1 .. Len(had) /\ had[mException] \in Errors
            BY <1>3, <2>1 DEF FieldsFit, Answers
        <3> QED BY <1>4, <3>1
    <2>3. Len(had') # 0 /\ had'[Len(had')] = kind
        BY <1>3, <1>4
    <2> QED BY <1>1, <1>3, <1>4, <2>2, <2>3 DEF FieldsFit
<1>8. ToldFits' /\ NoLostWakeup'
    BY <1>1 DEF ToldFits, NoLostWakeup
<1>9. OutcomesAreAnswers'
    <2> SUFFICES ASSUME NEW g \in Getters, outcome[g] # None, outcome[g].answer # 0
                 PROVE  /\ outcome[g].answer <= Len(had')
                        /\ outcome[g].how = "ExecutionException"
                               <=> had'[outcome[g].answer] \in Errors
        BY <1>1 DEF OutcomesAreAnswers, had
    <2>1. /\ outcome[g].answer <= Len(had)
          /\ outcome[g].how = "ExecutionException" <=> had[outcome[g].answer] \in Errors
        BY DEF OutcomesAreAnswers, had
    <2>2. outcome[g].answer \in 1 .. 2
        BY DEF FutureTypeInv, FutureTypeOK, Outcomes, Answers
    <2> QED BY <1>3, <1>4, <2>1, <2>2
<1> QED BY <1>5, <1>7, <1>8, <1>9

\* The two callbacks: the answer delivered becomes the result or the error.
LEMMA FutureInvCallback ==
    ASSUME FutureInv, onResponse \/ onErrorResponse
    PROVE  FutureInv'
<1> USE DEF FutureInv
<1>1. /\ delivering \in AnswerKinds /\ delivering' = None
      /\ UNCHANGED <<heard, hasRequest, outcome, told>> /\ had' = had
      /\ \A g \in Getters : stage'[g] # "waiting"
      /\ stage' \in [Getters -> {"start", "waiting", "woken", "back"}]
    BY DEF onResponse, onErrorResponse, notifyAll, http, had, AnswerKinds, FutureTypeInv, FutureTypeOK
<1>2. Len(had) \in 1 .. 2 /\ had[Len(had)] = delivering
    BY <1>1, FutureAssumption DEF FieldsFit, FutureTypeInv, Answers
<1>3. \/ /\ delivering \notin Errors /\ mResult' = Len(had) /\ UNCHANGED mException
      \/ /\ delivering \in Errors /\ mException' = Len(had) /\ UNCHANGED mResult
    BY DEF onResponse, onErrorResponse, Results, Errors, had
<1>4. FutureTypeInv'
    BY <1>1, <1>2, <1>3 DEF FutureTypeInv, FutureTypeOK, Answers
<1>5. FieldsFit'
    BY <1>1, <1>2, <1>3 DEF FieldsFit, FutureTypeInv, FutureTypeOK, Answers
<1>6. ToldFits'
    <2>1. told \in Nat /\ mResult \in Nat /\ mException \in Nat
        BY DEF FutureTypeInv, FutureTypeOK, Answers
    <2>2. /\ mException # 0 => mException <= Len(had)
          /\ mResult # 0 => mResult <= Len(had)
        BY DEF FieldsFit
    <2>3. told <= IF mException # 0 THEN mException ELSE mResult
        BY DEF ToldFits
    <2> QED BY <1>1, <1>2, <1>3, <2>1, <2>2, <2>3 DEF ToldFits
<1>7. NoLostWakeup' /\ OutcomesAreAnswers'
    BY <1>1 DEF NoLostWakeup, OutcomesAreAnswers, had
<1> QED BY <1>4, <1>5, <1>6, <1>7

\* A get() that ends with what the fields say.
LEMMA FutureInvLeaves ==
    ASSUME FutureInv, NEW g \in Getters, NEW how, NEW answer, Leaves(g, how, answer),
           UNCHANGED <<http, future>>,
           [how |-> how, answer |-> answer] \in Outcomes,
           \/ answer = 0
           \/ answer = mException /\ how = "ExecutionException"
           \/ answer = mResult /\ mException = 0 /\ how = "returned"
    PROVE  FutureInv'
<1> USE DEF FutureInv
<1>1. /\ UNCHANGED <<heard, delivering, hasRequest, mResult, mException>> /\ had' = had
      /\ stage' = [stage EXCEPT ![g] = "back"]
      /\ outcome' = [outcome EXCEPT ![g] = [how |-> how, answer |-> answer]]
      /\ told' = IF answer > told THEN answer ELSE told
    BY DEF Leaves, http, future, had
<1>2. answer \in Answers
    BY DEF Outcomes, Answers
<1>3. FutureTypeInv'
    BY <1>1, <1>2 DEF FutureTypeInv, FutureTypeOK
<1>4. FieldsFit'
    BY <1>1 DEF FieldsFit
<1>5. ToldFits'
    BY <1>1, <1>2 DEF ToldFits, FutureTypeInv, FutureTypeOK, Answers
<1>6. NoLostWakeup'
    BY <1>1 DEF NoLostWakeup, FutureTypeInv, FutureTypeOK
<1>7. OutcomesAreAnswers'
    <2> SUFFICES ASSUME NEW h \in Getters, outcome'[h] # None, outcome'[h].answer # 0
                 PROVE  /\ outcome'[h].answer <= Len(had)
                        /\ outcome'[h].how = "ExecutionException"
                               <=> had[outcome'[h].answer] \in Errors
        BY <1>1 DEF OutcomesAreAnswers, had
    <2>1. CASE h # g
        <3>1. outcome'[h] = outcome[h]
            BY <1>1, <2>1 DEF FutureTypeInv, FutureTypeOK
        <3> QED BY <3>1 DEF OutcomesAreAnswers, had
    <2>2. CASE h = g
        <3>1. outcome'[h] = [how |-> how, answer |-> answer]
            BY <1>1, <2>2 DEF FutureTypeInv, FutureTypeOK
        <3>2. /\ answer # 0
              /\ outcome'[h].how = how /\ outcome'[h].answer = answer
            BY <3>1
        <3>3. CASE answer = mException /\ how = "ExecutionException"
            BY <3>2, <3>3, <1>2 DEF FieldsFit, FutureTypeInv, FutureTypeOK, Answers
        <3>4. CASE answer = mResult /\ mException = 0 /\ how = "returned"
            BY <3>2, <3>4 DEF FieldsFit
        <3> QED BY <3>2, <3>3, <3>4
    <2> QED BY <2>1, <2>2
<1> QED BY <1>3, <1>4, <1>5, <1>6, <1>7

\* What Answered and TimesOut tell.
LEMMA AnsweredTells ==
    ASSUME FutureInv, NEW g \in Getters, Answered(g) \/ TimesOut(g)
    PROVE  \E how, answer :
               /\ Leaves(g, how, answer)
               /\ [how |-> how, answer |-> answer] \in Outcomes
               /\ answer = IF mException # 0 THEN mException ELSE mResult
               /\ \/ answer = 0
                  \/ answer = mException /\ how = "ExecutionException"
                  \/ answer = mResult /\ mException = 0 /\ how = "returned"
<1> USE DEF FutureInv, FutureTypeInv, FutureTypeOK, Outcomes, Answers
<1>1. CASE mException # 0 /\ Leaves(g, "ExecutionException", mException)
    BY <1>1
<1>2. CASE mException = 0 /\ mResult # 0 /\ Leaves(g, "returned", mResult)
    BY <1>2
<1>3. CASE TimesOut(g)
    BY <1>3 DEF TimesOut
<1> QED BY <1>1, <1>2, <1>3 DEF Answered

LEMMA FutureInvNext == FutureInv /\ [FutureNext]_futureVars => FutureInv'
<1> SUFFICES ASSUME FutureInv, [FutureNext]_futureVars PROVE FutureInv'
    OBVIOUS
<1>1. CASE Add
    BY <1>1, FutureInvQuiet DEF Add, Http!Add
<1>2. CASE Ends
    BY <1>2, FutureInvQuiet DEF Ends, Http!End
<1>3. CASE CancelFuture
    BY <1>3, FutureInvQuiet DEF CancelFuture, Http!Cancel
<1>4. CASE CancelElsewhere
    BY <1>4, FutureInvQuiet DEF CancelElsewhere, Http!Cancel
<1>5. CASE SetRequest
    BY <1>5 DEF SetRequest, http, calls, FutureInv, FutureTypeInv, FutureTypeOK, FieldsFit, ToldFits,
                NoLostWakeup, OutcomesAreAnswers, had
<1>6. CASE \E kind \in AnswerKinds : Answer(kind)
    BY <1>6, FutureInvAnswer
<1>7. CASE onResponse \/ onErrorResponse
    BY <1>7, FutureInvCallback
<1>8. ASSUME NEW g \in Getters, Get(g) PROVE FutureInv'
    <2>1. CASE Answered(g) \/ TimesOut(g)
        BY <1>8, <2>1, AnsweredTells, FutureInvLeaves DEF Get
    <2>2. CASE /\ mException = 0 /\ mResult = 0
               /\ stage' = [stage EXCEPT ![g] = "waiting"] /\ UNCHANGED <<outcome, told>>
        BY <1>8, <2>2 DEF Get, http, future, FutureInv, FutureTypeInv, FutureTypeOK, FieldsFit, ToldFits,
                          NoLostWakeup, OutcomesAreAnswers, had
    <2> QED BY <1>8, <2>1, <2>2 DEF Get
<1>9. ASSUME NEW g \in Getters, WakesUp(g) PROVE FutureInv'
    BY <1>9 DEF WakesUp, http, future, FutureInv, FutureTypeInv, FutureTypeOK, FieldsFit, ToldFits,
                NoLostWakeup, OutcomesAreAnswers, had
<1>10. ASSUME NEW g \in Getters, Interrupted(g) PROVE FutureInv'
    <2>1. [how |-> "InterruptedException", answer |-> 0] \in Outcomes
        BY DEF Outcomes
    <2> QED BY <1>10, <2>1, FutureInvLeaves DEF Interrupted
<1>11. ASSUME NEW g \in Getters, Resumes(g) PROVE FutureInv'
    BY <1>11, AnsweredTells, FutureInvLeaves DEF Resumes
<1>12. CASE UNCHANGED futureVars
    BY <1>12, FutureInvQuiet DEF futureVars, http
<1> QED BY <1>1, <1>2, <1>3, <1>4, <1>5, <1>6, <1>7, <1>8, <1>9, <1>10, <1>11, <1>12 DEF FutureNext

THEOREM FutureInvAlways == FutureSpec => []FutureInv
BY FutureInvInit, FutureInvNext, PTL DEF FutureSpec, FutureSafety

\* However many threads wait, and although wait() is called once and outside of
\* any loop, none sleeps on after an answer.
THEOREM NoWakeupIsLost == FutureSpec => []NoLostWakeup
<1>1. FutureInv => NoLostWakeup
    BY DEF FutureInv
<1> QED BY <1>1, FutureInvAlways, PTL

\* Every get() tells an answer the request has had, in its kind.
THEOREM OutcomesAlwaysAnswers == FutureSpec => []OutcomesAreAnswers
<1>1. FutureInv => OutcomesAreAnswers
    BY DEF FutureInv
<1> QED BY <1>1, FutureInvAlways, PTL

LEMMA StepNeverGoesBack ==
    ASSUME FutureInv, [FutureNext]_futureVars, NEW g \in Getters, outcome'[g] # outcome[g],
           outcome'[g].how # "InterruptedException"
    PROVE  outcome'[g].answer >= told
<1>1. PICK h \in Getters : Get(h) \/ Interrupted(h) \/ Resumes(h)
    BY DEF FutureNext, futureVars, calls, Add, SetRequest, Answer, Ends, onResponse, onErrorResponse,
           CancelFuture, CancelElsewhere, WakesUp
<1>2. ASSUME NEW how, NEW answer, Leaves(h, how, answer)
      PROVE  g = h /\ outcome'[g].how = how /\ outcome'[g].answer = answer
    BY <1>2 DEF Leaves, FutureInv, FutureTypeInv, FutureTypeOK
<1>3. ~Interrupted(h)
    BY <1>2 DEF Interrupted
<1>4. Answered(h) \/ TimesOut(h)
    BY <1>1, <1>3 DEF Get, Resumes
<1>5. PICK how, answer : /\ Leaves(h, how, answer)
                         /\ answer = IF mException # 0 THEN mException ELSE mResult
    BY <1>4, AnsweredTells
<1>6. outcome'[g].answer = IF mException # 0 THEN mException ELSE mResult
    BY <1>2, <1>5
<1> QED BY <1>6 DEF FutureInv, ToldFits, FutureTypeInv, FutureTypeOK, Answers

\* No get() tells an older answer than one that ended before it.
THEOREM GetsNeverGoBackAlways == FutureSpec => GetsNeverGoBack
<1>1. FutureInv /\ [FutureNext]_futureVars =>
          [\A g \in Getters :
              outcome'[g] # outcome[g] /\ outcome'[g].how # "InterruptedException"
                  => outcome'[g].answer >= told]_futureVars
    BY StepNeverGoesBack
<1> QED BY <1>1, FutureInvAlways, PTL DEF FutureSpec, FutureSafety, GetsNeverGoBack
===============================================================================
