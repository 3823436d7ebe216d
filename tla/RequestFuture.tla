---------------------------- MODULE RequestFuture ----------------------------
(***************************************************************************)
(* A future for one request (com.android.volley.toolbox.RequestFuture): it *)
(* is the listener of the request, threads wait in get() for its answer,   *)
(* and anybody may cancel.  The HTTP layer behind it is RequestService,    *)
(* the abstraction that RequestQueue is checked to implement.  Every       *)
(* method but setRequest and isCancelled holds the lock of the future, and *)
(* get() gives it up in wait().                                            *)
(***************************************************************************)
EXTENDS Naturals, Sequences

CONSTANTS
    Getters,    \* the threads that call get()
    Timed,      \* those of them that call it with a timeout
    Request,    \* the request
    None

VARIABLES
    status, heard, silenced,    \* of the HTTP layer
    delivering,     \* the kind of answer on its way from ExecutorDelivery's
                    \* test of the canceled flag to the listener, None if none
    hasRequest,     \* mRequest # null
    mResult,        \* which answer is the result, 0 before mResultReceived
    mException,     \* which answer is the error, 0 if there is none
    stage,          \* of each getter: "start", "waiting", "woken" or "back"
    outcome,        \* what its get() returned or threw
    told            \* history: the latest answer a get() has told so far

http       == <<status, heard, silenced>>
future     == <<delivering, hasRequest, mResult, mException>>
calls      == <<stage, outcome, told>>
futureVars == <<http, future, calls>>

Http == INSTANCE RequestService WITH Requests <- {Request}

Results     == {"intermediate", "response"}
Errors      == {"intermediateError", "error"}
AnswerKinds == Results \cup Errors
Answers     == 0 .. 2      \* a provisional answer and a final one
Outcomes    == [how : {"returned", "ExecutionException"}, answer : Answers \ {0}]
               \cup [how : {"TimeoutException", "InterruptedException"}, answer : {0}]

ASSUME FutureAssumption ==
    Timed \subseteq Getters /\ None \notin AnswerKinds /\ None \notin Outcomes

FutureTypeOK ==
    /\ delivering \in AnswerKinds \cup {None}
    /\ hasRequest \in BOOLEAN
    /\ mResult \in Answers /\ mException \in Answers
    /\ stage \in [Getters -> {"start", "waiting", "woken", "back"}]
    /\ outcome \in [Getters -> Outcomes \cup {None}]
    /\ told \in Answers

FutureInit ==
    /\ Http!Init
    /\ delivering = None /\ hasRequest = FALSE
    /\ mResult = 0 /\ mException = 0
    /\ stage = [g \in Getters |-> "start"]
    /\ outcome = [g \in Getters |-> None]
    /\ told = 0
-----------------------------------------------------------------------------
(* The request and its answers, on the main thread.                        *)

Add ==
    /\ Http!Add(Request)
    /\ UNCHANGED <<future, calls>>

SetRequest ==
    /\ status[Request] # "new" /\ ~hasRequest
    /\ hasRequest' = TRUE
    /\ UNCHANGED <<http, delivering, mResult, mException, calls>>

\* ExecutorDelivery finds the request not cancelled and is about to call the
\* listener; a cancel() may come in between.
Answer(kind) ==
    /\ delivering = None
    /\ Http!Answer(Request, kind)
    /\ delivering' = kind
    /\ UNCHANGED <<hasRequest, mResult, mException, calls>>

Ends ==
    /\ delivering = None
    /\ Http!End(Request)
    /\ UNCHANGED <<future, calls>>

\* Faulty variant: notify() instead of notifyAll().
notifyOne ==
    \/ \E g \in Getters : stage[g] = "waiting" /\ stage' = [stage EXCEPT ![g] = "woken"]
    \/ (\A g \in Getters : stage[g] # "waiting") /\ UNCHANGED stage

notifyAll == stage' = [g \in Getters |-> IF stage[g] = "waiting" THEN "woken" ELSE stage[g]]

onResponse ==
    /\ delivering \in Results
    /\ mResult' = Len(heard[Request])
    /\ notifyAll
    /\ delivering' = None
    /\ UNCHANGED <<http, hasRequest, mException, outcome, told>>

\* Faulty variant: nobody is woken for an error.
onErrorResponseSilent ==
    /\ delivering \in Errors
    /\ mException' = Len(heard[Request])
    /\ delivering' = None
    /\ UNCHANGED <<http, hasRequest, mResult, calls>>

\* Faulty variant: the error is taken for a result.
onErrorResponseAsResult ==
    /\ delivering \in Errors
    /\ mResult' = Len(heard[Request])
    /\ notifyAll
    /\ delivering' = None
    /\ UNCHANGED <<http, hasRequest, mException, outcome, told>>

onErrorResponse ==
    /\ delivering \in Errors
    /\ mException' = Len(heard[Request])
    /\ notifyAll
    /\ delivering' = None
    /\ UNCHANGED <<http, hasRequest, mResult, outcome, told>>
-----------------------------------------------------------------------------
(* Cancelling.                                                             *)

isDone == mResult # 0 \/ mException # 0 \/ (hasRequest /\ Request \in silenced)

\* cancel() of the future, where it returns true; nobody is notified.
CancelFuture ==
    /\ hasRequest /\ ~isDone
    /\ Http!Cancel({Request})
    /\ UNCHANGED <<future, calls>>

\* cancel() of the request or of the queue.
CancelElsewhere ==
    /\ status[Request] # "new"
    /\ Http!Cancel({Request})
    /\ UNCHANGED <<future, calls>>
-----------------------------------------------------------------------------
(* doGet(): up to wait(), and from there on.                               *)

Leaves(g, how, answer) ==
    /\ stage' = [stage EXCEPT ![g] = "back"]
    /\ outcome' = [outcome EXCEPT ![g] = [how |-> how, answer |-> answer]]
    /\ told' = IF answer > told THEN answer ELSE told

\* The tests that doGet() makes before and after wait().
Answered(g) ==
    \/ mException # 0 /\ Leaves(g, "ExecutionException", mException)
    \/ mException = 0 /\ mResult # 0 /\ Leaves(g, "returned", mResult)

TimesOut(g) ==
    mException = 0 /\ mResult = 0 /\ Leaves(g, "TimeoutException", 0)

\* The request was added before; a timeout of zero does not wait.
Get(g) ==
    /\ status[Request] # "new" /\ stage[g] = "start"
    /\ \/ Answered(g)
       \/ g \in Timed /\ TimesOut(g)
       \/ /\ mException = 0 /\ mResult = 0
          /\ stage' = [stage EXCEPT ![g] = "waiting"]
          /\ UNCHANGED <<outcome, told>>
    /\ UNCHANGED <<http, future>>

\* The timeout is over, or wait() returns for no reason.
WakesUp(g) ==
    /\ stage[g] = "waiting"
    /\ stage' = [stage EXCEPT ![g] = "woken"]
    /\ UNCHANGED <<http, future, outcome, told>>

Interrupted(g) ==
    /\ stage[g] \in {"waiting", "woken"}
    /\ Leaves(g, "InterruptedException", 0)
    /\ UNCHANGED <<http, future>>

\* Faulty variant: after wait(), a result is looked for before an error.
ResumesResultFirst(g) ==
    /\ stage[g] = "woken"
    /\ \/ mResult # 0 /\ Leaves(g, "returned", mResult)
       \/ mResult = 0 /\ (Answered(g) \/ TimesOut(g))
    /\ UNCHANGED <<http, future>>

\* get() without a timeout throws the TimeoutException as an AssertionError.
Resumes(g) ==
    /\ stage[g] = "woken"
    /\ Answered(g) \/ TimesOut(g)
    /\ UNCHANGED <<http, future>>
-----------------------------------------------------------------------------
FutureNext ==
    \/ Add \/ SetRequest \/ (\E kind \in AnswerKinds : Answer(kind)) \/ Ends
    \/ onResponse \/ onErrorResponse
    \/ CancelFuture \/ CancelElsewhere
    \/ \E g \in Getters : Get(g) \/ WakesUp(g) \/ Interrupted(g) \/ Resumes(g)

FutureSafety == FutureInit /\ [][FutureNext]_futureVars

\* The HTTP layer answers and the main thread runs what is posted to it; a
\* thread that was woken gets the lock, which is never held for long; and the
\* clock of a timed wait goes on.
FutureFairness ==
    /\ WF_futureVars(\E kind \in AnswerKinds : heard[Request] = <<>> /\ Answer(kind))
    /\ WF_futureVars(onResponse \/ onErrorResponse)
    /\ \A g \in Getters : WF_futureVars(Resumes(g))
    /\ \A g \in Timed : WF_futureVars(WakesUp(g))

FutureSpec == FutureSafety /\ FutureFairness
-----------------------------------------------------------------------------
(* Properties.                                                             *)

\* wait() is not in a loop and is called once: no getter sleeps while there is
\* something it could return.
NoLostWakeup ==
    \A g \in Getters : stage[g] = "waiting" => mResult = 0 /\ mException = 0

\* A request with a cached answer that is soon stale is answered twice.  No
\* get() that ends later than another tells an older answer, or a timeout after
\* an answer, in whichever order the getters wake up.
GetsNeverGoBack ==
    [][\A g \in Getters :
          outcome'[g] # outcome[g] /\ outcome'[g].how # "InterruptedException"
              => outcome'[g].answer >= told]_futureVars

\* What a get() tells is an answer of the request, in its kind.
OutcomesAreAnswers ==
    \A g \in Getters :
        outcome[g] # None /\ outcome[g].answer # 0 =>
            /\ outcome[g].answer <= Len(heard[Request])
            /\ outcome[g].how = "ExecutionException"
                   <=> heard[Request][outcome[g].answer] \in Errors

\* Every get() comes back, by its timeout at the latest; one without a timeout
\* may wait for ever, but only for a request that was cancelled, because cancel()
\* wakes nobody.  FutureFairness takes for granted that the request is answered:
\* EveryRequestFinishes without CacheHitThrows.  A request that the catch-all of
\* the cache dispatcher drops leaves an untimed get() waiting as well.
EveryGetReturns ==
    \A g \in Getters :
        stage[g] = "waiting" ~> \/ stage[g] = "back"
                                \/ g \notin Timed /\ Request \in silenced
=============================================================================
