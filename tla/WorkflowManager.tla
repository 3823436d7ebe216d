--------------------------- MODULE WorkflowManager ---------------------------
(***************************************************************************)
(* The workflow protocol of the library (IntegrationApiManager and         *)
(* RequestManager).  The host application starts a workflow for a user;    *)
(* the manager loads the configuration, asks for the status of a pending   *)
(* workflow or starts a new one, hands each pending activity to the host,  *)
(* sends the host's answer, and reports the outcome to the process         *)
(* listener.  Everything runs on the main thread: a host call or the       *)
(* handling of one response is one action.  Requests go through a queue of *)
(* network threads, so their responses come back in any order.  One set of *)
(* fields (key, salt, user, type) serves every workflow.                   *)
(*                                                                         *)
(* A callback that ends its handler returns to the main loop: what a host  *)
(* calls inside it is the next step.  onConfigLoaded does not end its      *)
(* handler: while frame holds a response the host runs inside it.          *)
(*                                                                         *)
(* A workflow type that a method captures in the listener of its request   *)
(* is part of the request; a listener that reads the field reads it when   *)
(* the response comes.                                                     *)
(***************************************************************************)
EXTENDS Sequences, FiniteSets

CONSTANTS
    Runs,           \* the workflows the host may start, each at most once;
                    \* also the instance key the server gives each of them
    UserOf,         \* the user each is started for
    TypeOf,         \* its workflow type
    Checked,        \* those started with checkPendingActivities
    Resets,         \* those the host may also start by resetPassword
    DeviceBased,    \* those the server flags as device based
    Definition,     \* the key of a workflow definition
    Nothing,        \* null
    HostMay,        \* what the host does beyond one workflow at a time
    ServerMay       \* what the server does beyond serving workflows

ASSUME WorkflowAssumption ==
    /\ Checked \cup Resets \cup DeviceBased \subseteq Runs
    /\ Checked \cap Resets = {}
    /\ Nothing \notin Runs /\ Definition \notin Runs /\ Nothing # Definition
    /\ DOMAIN UserOf = Runs /\ DOMAIN TypeOf = Runs
    /\ Nothing \notin {UserOf[r] : r \in Runs} \cup {TypeOf[r] : r \in Runs}
    /\ HostMay \subseteq {"overlap", "detach", "cancelEarly", "cancelInside"}
    /\ ServerMay \subseteq {"configFails", "configMalformed", "otherTasks"}

VARIABLES
    listener,       \* whether mProccessListener is set
    workflowKey,    \* mWorkflowKey
    secret,         \* the workflow serverPublicKey and mSecretSalt came with
    userName,       \* mUserName
    workflowType,   \* mWorkflowType
    sessionKey,     \* mSessionKey, by the workflow whose completion gave it
    calls,          \* requests under way, with the reply once there is one
    frame,          \* the configuration response whose onConfigLoaded runs
    server,         \* the status of each workflow on the server
    started,        \* the workflows the host has started
    reset,          \* those of them it started by resetPassword
    current,        \* the one it started last
    event,          \* the callback to the process listener in the last step
    heard,          \* workflows with a callback since the host last acted
    asked,          \* workflows that have asked the host for an activity
    outcomes,       \* the outcomes reported for each workflow
    swallowed,      \* workflows an exception in a response handler ended
    aborting,       \* workflows the host cancelled with cancelWorkflow
    silenced        \* workflows the host left with cancelAllRequests

fields == <<workflowKey, secret, userName, workflowType, sessionKey>>
seen   == <<heard, asked, outcomes, swallowed>>
host   == <<listener, started, reset, current, aborting, silenced>>
vars   == <<fields, calls, frame, server, event, seen, host>>

NoEvent == [what |-> "none", run |-> Nothing, user |-> Nothing, type |-> Nothing]

\* A step without a callback to the process listener.
Silent == event' = NoEvent

Status == {"process", "done", "fail", "abort"}
Final  == {"completed", "aborted", "failed"}
Kinds  == {"config", "status", "start", "process", "complete", "abort", "score"}

\* A reply: whether it is an error, the workflow it is about, its status, and
\* whether it holds what is looked for in it (a workflow key, a pending task
\* of the expected type, a session key).  An "unreadable" configuration has a
\* licence without provider or system, an "uncoded" one a workflow without code.
Reply == [what : {"ok", "error", "notFound", "unreadable", "uncoded"}, run : Runs,
          status : Status, has : BOOLEAN]

ASSUME NothingAssumption == Nothing \notin Reply

WorkflowTypes == {TypeOf[r] : r \in Runs} \cup {Nothing}

\* type is the one the listener of the request has captured, if it has.
Call == [kind : Kinds, run : Runs, type : WorkflowTypes,
         key : Runs \cup {Definition, Nothing}, secret : Runs \cup {Nothing},
         failed : BOOLEAN, session : BOOLEAN,
         reply : Reply \cup {Nothing}, live : BOOLEAN]

TypeOK ==
    /\ listener \in BOOLEAN
    /\ workflowKey \in Runs \cup {Definition, Nothing}
    /\ secret \in Runs \cup {Nothing}
    /\ userName \in {UserOf[r] : r \in Runs} \cup {Nothing}
    /\ workflowType \in WorkflowTypes
    /\ sessionKey \in Runs \cup {Nothing}
    /\ calls \subseteq Call
    /\ frame \in Call \cup {Nothing}
    /\ server \in [Runs -> Status \cup {"absent"}]
    /\ current \in Runs \cup {Nothing}
    /\ event.run \in Runs \cup {Nothing}
    /\ started \cup reset \cup aborting \cup silenced \subseteq Runs
    /\ heard \cup asked \cup swallowed \subseteq Runs
    /\ outcomes \in [Runs -> Seq(Final)]

Init ==
    /\ listener = TRUE
    /\ workflowKey = Nothing /\ secret = Nothing /\ sessionKey = Nothing
    /\ userName = Nothing /\ workflowType = Nothing
    /\ calls = {} /\ frame = Nothing
    \* start gives a workflow that is not checked its status
    /\ server \in {f \in [Runs -> {"absent", "process", "done"}] :
                      \A r \in Runs \ Checked : f[r] = "absent"}
    /\ started = {} /\ reset = {} /\ current = Nothing
    /\ event = NoEvent
    /\ heard = {} /\ asked = {} /\ swallowed = {}
    /\ aborting = {} /\ silenced = {}
    /\ outcomes = [r \in Runs |-> <<>>]
-----------------------------------------------------------------------------
(* Requests and callbacks.                                                 *)

Request(kind, r, type) ==
    [kind |-> kind, run |-> r, type |-> type, key |-> Nothing, secret |-> Nothing,
     failed |-> FALSE, session |-> FALSE, reply |-> Nothing, live |-> TRUE]

Keyed(kind, r, type, key) == [Request(kind, r, type) EXCEPT !.key = key]

IsStepUp(type) == type = "STEP-UP"

\* Faulty variant: a failed workflow asks for a session too.
CompletionAlwaysSession(r, key, type, failed) ==
    [Keyed("complete", r, type, key) EXCEPT !.failed = failed,
                                      !.session = ~IsStepUp(type)]

Completion(r, key, type, failed) ==
    [Keyed("complete", r, type, key) EXCEPT !.failed = failed,
                                      !.session = ~IsStepUp(type) /\ ~failed]

\* A callback to the process listener, if there is one.  onContinueEnroll has
\* no user.
Tell(what, r, type) ==
    IF listener
    THEN /\ event' = [what |-> what, run |-> r, type |-> type,
                      user |-> IF what = "continue" THEN Nothing ELSE userName]
         /\ heard' = heard \cup {r}
         /\ asked' = IF what = "continue" THEN asked \cup {r} ELSE asked
         /\ outcomes' = IF what \in Final THEN [outcomes EXCEPT ![r] = Append(@, what)]
                                          ELSE outcomes
         /\ UNCHANGED swallowed
    ELSE Silent /\ UNCHANGED seen

\* The main thread handles c, which has a reply and still has its listener.
Handling(c) == c \in calls /\ frame = Nothing /\ c.live /\ c.reply # Nothing

\* A request of the workflow or its onConfigLoaded is under way.
Busy(r) ==
    \/ \E c \in calls : c.live /\ c.run = r /\ c.kind # "score"
    \/ frame # Nothing /\ frame.run = r
-----------------------------------------------------------------------------
(* Calls of the host.                                                      *)

\* What a well-behaved host waits for before it starts a workflow.
MayStart(r) ==
    /\ r \notin started
    /\ "overlap" \in HostMay \/ \A s \in Runs : ~Busy(s)

\* startWorkflow -> loadConfiguration
StartWorkflow(r) ==
    /\ MayStart(r)
    /\ started' = started \cup {r} /\ current' = r
    /\ calls' = calls \cup {Request("config", r, TypeOf[r])}
    /\ UNCHANGED <<fields, frame, server, seen, listener, reset, aborting, silenced>>
    /\ Silent

\* resetPassword -> startWorkflow with a key of the host
ResetPassword(r) ==
    /\ MayStart(r) /\ r \in Resets
    /\ started' = started \cup {r} /\ reset' = reset \cup {r} /\ current' = r
    /\ workflowType' = TypeOf[r]
    /\ workflowKey' = Definition
    /\ calls' = calls \cup {Keyed("start", r, TypeOf[r], Definition)}
    /\ UNCHANGED <<secret, userName, sessionKey, frame, server, seen, listener,
                   aborting, silenced>>
    /\ Silent

\* processActivityData -> sendEnrollData: the answer to the pending activity
ProcessActivity(r) ==
    /\ r \in asked /\ outcomes[r] = <<>> /\ ~Busy(r)
    /\ r = current \/ "overlap" \in HostMay
    /\ calls' = calls \cup {[Keyed("process", r, Nothing, workflowKey)
                                 EXCEPT !.secret = secret]}
    /\ heard' = heard \ {r}
    /\ silenced' = silenced \ {r}
    /\ UNCHANGED <<fields, frame, server, asked, outcomes, swallowed, listener,
                   started, reset, current, aborting>>
    /\ Silent

\* cancelWorkflow -> abortWorkflow
CancelWorkflow(r) ==
    /\ r = current /\ r \notin aborting /\ outcomes[r] = <<>>
    /\ r \in asked \/ "cancelEarly" \in HostMay
    /\ calls' = calls \cup {Keyed("abort", r, Nothing, workflowKey)}
    /\ aborting' = aborting \cup {r}
    /\ heard' = heard \ {r} /\ swallowed' = swallowed \ {r}
    /\ silenced' = silenced \ {r}
    /\ UNCHANGED <<fields, frame, server, asked, outcomes, listener, started,
                   reset, current>>
    /\ Silent

\* calculateUserScore; without a session key it only calls the score listener.
CalculateUserScore(r) ==
    /\ r = current /\ sessionKey # Nothing
    /\ \A c \in calls : c.kind # "score"
    /\ calls' = calls \cup {Keyed("score", r, Nothing, sessionKey)}
    /\ UNCHANGED <<fields, frame, server, seen, host>>
    /\ Silent

\* Faulty variant: only requests that have no response yet are cancelled.
CancelAllQueued ==
    /\ frame = Nothing \/ "cancelInside" \in HostMay
    /\ calls' = {[c EXCEPT !.live = c.reply # Nothing] : c \in calls}
    /\ silenced' = silenced \cup {r \in Runs : Busy(r)}
    /\ UNCHANGED <<fields, frame, server, seen, listener, started, reset, current,
                   aborting>>
    /\ Silent

\* cancelAllRequests: no listener of a request is called any more; the server
\* may still serve those that have left.
CancelAllRequests ==
    /\ frame = Nothing \/ "cancelInside" \in HostMay
    /\ calls' = {[c EXCEPT !.live = FALSE] : c \in {d \in calls : d.reply = Nothing}}
    /\ silenced' = silenced \cup {r \in Runs : Busy(r)}
    /\ UNCHANGED <<fields, frame, server, seen, listener, started, reset, current,
                   aborting>>
    /\ Silent

\* setProccessListener, between two workflows unless the host may "detach".
SetProcessListener ==
    /\ "detach" \in HostMay \/ \A r \in Runs : r = current => outcomes[r] # <<>>
    /\ listener' = ~listener
    /\ UNCHANGED <<fields, calls, frame, server, seen, started, reset, current,
                   aborting, silenced>>
    /\ Silent

Host ==
    \/ \E r \in Runs : \/ StartWorkflow(r) \/ ResetPassword(r) \/ ProcessActivity(r)
                       \/ CancelWorkflow(r) \/ CalculateUserScore(r)
    \/ CancelAllRequests
    \/ SetProcessListener
-----------------------------------------------------------------------------
(* The server and the network.                                             *)

\* The response of a cancelled request goes nowhere.
Answered(c, reply) ==
    calls' = (calls \ {c}) \cup (IF c.live THEN {[c EXCEPT !.reply = reply]} ELSE {})

ReplyOf(what, r, status, has) ==
    [what |-> what, run |-> r, status |-> status, has |-> has]

\* The request is lost, or its response is, or the server refuses it.
Fails(c) == Answered(c, ReplyOf("error", c.run, "process", FALSE))

\* The workflow w is now in some status.  A workflow in progress has a task of
\* the expected type, a finished one none.
Advances(c, w, statuses) ==
    \E s \in statuses, has \in BOOLEAN :
        /\ server' = [server EXCEPT ![w] = s]
        /\ has => s = "process"
        /\ s = "process" /\ "otherTasks" \notin ServerMay => has
        /\ Answered(c, ReplyOf("ok", w, s, has)) \/ Fails(c)

Serve(c) ==
    /\ c \in calls /\ c.reply = Nothing
    /\ \/ /\ c.kind = "config" /\ UNCHANGED server
          /\ \/ Answered(c, ReplyOf("ok", c.run, "process", TRUE))
             \/ "configFails" \in ServerMay
                /\ \/ Answered(c, ReplyOf("ok", c.run, "process", FALSE))
                   \/ Fails(c)
             \/ "configMalformed" \in ServerMay
                /\ \E what \in {"unreadable", "uncoded"} :
                       Answered(c, ReplyOf(what, c.run, "process", FALSE))
       \/ /\ c.kind = "status" /\ server[c.run] = "absent" /\ UNCHANGED server
          /\ Answered(c, ReplyOf("notFound", c.run, "process", FALSE))
       \/ /\ c.kind = "status" /\ server[c.run] # "absent"
          /\ Advances(c, c.run, {server[c.run]})
       \/ c.kind = "start" /\ Advances(c, c.run, Status)
       \/ /\ c.kind = "process" /\ c.key \in Runs /\ server[c.key] = "process"
          /\ Advances(c, c.key, Status)
       \/ /\ c.kind = "complete" /\ c.key \in Runs /\ server[c.key] \in {"done", "fail"}
          /\ UNCHANGED server
          /\ Answered(c, ReplyOf("ok", c.key, server[c.key], c.session))
       \/ /\ c.kind = "abort" /\ c.key \in Runs /\ server[c.key] = "process"
          /\ Advances(c, c.key, {"abort"})
       \/ /\ c.kind = "score" /\ UNCHANGED server
          /\ Answered(c, ReplyOf("ok", c.run, "done", FALSE))
       \/ c.kind \notin {"config", "score"} /\ UNCHANGED server /\ Fails(c)
    /\ UNCHANGED <<fields, frame, seen, host>>
    /\ Silent
-----------------------------------------------------------------------------
(* Responses.                                                              *)

\* The request that follows the configuration.
AfterConfig(c) == IF c.run \in Checked THEN Request("status", c.run, c.type)
                  ELSE Keyed("start", c.run, c.type, Definition)

\* Faulty variant: checkStatus does not record the user.
ConfigContinuesUnnamed(c, rest) ==
    /\ workflowKey' = Definition
    /\ calls' = rest \cup {AfterConfig(c)}
    /\ workflowType' = c.type
    /\ UNCHANGED <<userName, secret, sessionKey, server, seen, host>>
    /\ Silent

\* The configuration handler after onConfigLoaded has returned.  getWorkflowKey
\* throws a NullPointerException at a workflow without code: it leaves the
\* handler and goes no further than the catch-all of BasePostRequest.
ConfigContinues(c, rest) ==
    /\ \/ /\ c.reply.what = "uncoded"
          /\ calls' = rest /\ swallowed' = swallowed \cup {c.run} /\ Silent
          /\ UNCHANGED <<workflowKey, userName, workflowType, heard, asked, outcomes>>
       \/ /\ c.reply.what = "ok" /\ ~c.reply.has
          /\ workflowKey' = Nothing
          /\ calls' = rest /\ Tell("error", c.run, workflowType)
          /\ UNCHANGED <<userName, workflowType>>
       \/ /\ c.reply.what = "ok" /\ c.reply.has
          /\ workflowKey' = Definition
          /\ userName' = UserOf[c.run] /\ workflowType' = c.type
          /\ calls' = rest \cup {AfterConfig(c)} /\ Silent /\ UNCHANGED seen
    /\ UNCHANGED <<secret, sessionKey, server, host>>

\* ConfigurationResponse.parse throws a NullPointerException, which the same
\* catch-all swallows: neither onSuccess nor onError is called.
OnConfigUnreadable(c) ==
    /\ Handling(c) /\ c.kind = "config" /\ c.reply.what = "unreadable"
    /\ calls' = calls \ {c} /\ swallowed' = swallowed \cup {c.run}
    /\ UNCHANGED <<fields, frame, server, heard, asked, outcomes, host>>
    /\ Silent

\* loadConfiguration, onSuccess.  onConfigLoaded has neither user nor type.
OnConfig(c) ==
    /\ Handling(c) /\ c.kind = "config" /\ c.reply.what \in {"ok", "uncoded"}
    /\ IF listener
       THEN /\ frame' = c
            /\ calls' = calls \ {c}
            /\ event' = [what |-> "config", run |-> c.run, user |-> Nothing,
                         type |-> Nothing]
            /\ UNCHANGED <<fields, server, seen, host>>
       ELSE ConfigContinues(c, calls \ {c}) /\ UNCHANGED frame

OnConfigLoadedReturns ==
    /\ frame # Nothing
    /\ frame' = Nothing
    /\ ConfigContinues(frame, calls)

\* Faulty variant: the instance key is not taken over.
UpdateKeepsKey(reply) ==
    /\ secret' = reply.run
    /\ UNCHANGED <<workflowKey, userName, sessionKey>>

UpdateWorkflowData(reply) ==
    /\ secret' = reply.run
    /\ workflowKey' = reply.run
    /\ UNCHANGED <<userName, sessionKey>>

\* Faulty variant: the missing return after sendComplete for a failure.
HandleTwice(c, type) ==
    /\ UpdateWorkflowData(c.reply)
    /\ IF c.reply.status = "abort" /\ listener
       THEN Tell("aborted", c.run, type) /\ calls' = calls \ {c}
       ELSE IF c.reply.status = "fail"
       THEN /\ Tell("failed", c.run, type)
            /\ calls' = (calls \ {c}) \cup {Completion(c.run, c.reply.run, type, TRUE)}
       ELSE IF c.reply.status = "done" \/ ~c.reply.has
       THEN Tell("completed", c.run, type) /\ calls' = calls \ {c}
       ELSE Tell("continue", c.run, type) /\ calls' = calls \ {c}

\* handleWorkflowProcessResponse.  Without a listener an aborted workflow is
\* not returned on and is treated as the rest.
HandleWorkflowProcessResponse(c, type) ==
    LET rest == calls \ {c}
        send(failed) == calls' = rest \cup {Completion(c.run, c.reply.run, type, failed)}
        over == c.reply.status = "done" \/ ~c.reply.has
        told == c.reply.status = "abort" /\ listener
    IN  /\ UpdateWorkflowData(c.reply)
        /\ \/ told /\ Tell("aborted", c.run, type) /\ calls' = rest
           \/ c.reply.status = "fail" /\ send(TRUE) /\ Silent /\ UNCHANGED seen
           \/ /\ ~told /\ c.reply.status # "fail" /\ over
              /\ c.reply.run \in DeviceBased
              /\ send(FALSE) /\ Silent /\ UNCHANGED seen
           \/ /\ ~told /\ c.reply.status # "fail" /\ over
              /\ c.reply.run \notin DeviceBased
              /\ Tell("completed", c.run, type) /\ calls' = rest
           \/ /\ ~told /\ c.reply.status # "fail" /\ ~over
              /\ Tell("continue", c.run, type) /\ calls' = rest

\* onSuccess of checkStatus, startWorkflow and sendEnrollData.  The last one
\* passes the type field, not the type of its workflow.  sendComplete writes
\* the type it is given.
OnWorkflowResponse(c) ==
    /\ Handling(c) /\ c.kind \in {"status", "start", "process"} /\ c.reply.what = "ok"
    /\ LET type == IF c.kind = "process" THEN workflowType ELSE c.type IN
        /\ HandleWorkflowProcessResponse(c, type)
        /\ workflowType' = IF \E d \in calls' \ calls : d.kind = "complete"
                           THEN type ELSE workflowType
    /\ UNCHANGED <<frame, server, host>>

\* Faulty variant: an unknown workflow is only logged.
OnWorkflowNotFoundLogged(c) ==
    /\ Handling(c) /\ c.reply.what = "notFound"
    /\ calls' = calls \ {c}
    /\ UNCHANGED <<fields, frame, server, seen, host>>
    /\ Silent

\* onError of checkStatus with WORKFLOW_NOT_FOUND: start a new one.
OnWorkflowNotFound(c) ==
    /\ Handling(c) /\ c.reply.what = "notFound"
    /\ workflowType' = c.type
    /\ calls' = (calls \ {c}) \cup {Keyed("start", c.run, c.type, workflowKey)}
    /\ UNCHANGED <<workflowKey, secret, userName, sessionKey, frame, server,
                   seen, host>>
    /\ Silent

\* Faulty variant: completeAfterFailed is not looked at.
OnCompleteUnchecked(c) ==
    /\ Handling(c) /\ c.kind = "complete" /\ c.reply.what = "ok"
    /\ sessionKey' = IF c.reply.has THEN c.reply.run ELSE Nothing
    /\ Tell("completed", c.run, c.type)
    /\ calls' = calls \ {c}
    /\ UNCHANGED <<workflowKey, secret, userName, workflowType, frame, server, host>>

\* sendComplete, onSuccess.  (Without a listener the failed case throws a
\* NullPointerException, which the catch-all of BasePostRequest swallows.)
OnComplete(c) ==
    /\ Handling(c) /\ c.kind = "complete" /\ c.reply.what = "ok"
    /\ sessionKey' = IF c.reply.has THEN c.reply.run ELSE Nothing
    /\ Tell(IF c.failed THEN "failed" ELSE "completed", c.run, c.type)
    /\ calls' = calls \ {c}
    /\ UNCHANGED <<workflowKey, secret, userName, workflowType, frame, server, host>>

\* abortWorkflow, onSuccess.
OnAbort(c) ==
    /\ Handling(c) /\ c.kind = "abort" /\ c.reply.what = "ok"
    /\ Tell("aborted", c.run, workflowType)
    /\ calls' = calls \ {c}
    /\ UNCHANGED <<fields, frame, server, host>>

\* onError of any request of a workflow, onHandleError.
OnError(c) ==
    /\ Handling(c) /\ c.kind # "score" /\ c.reply.what = "error"
    /\ Tell("error", c.run, workflowType)
    /\ calls' = calls \ {c}
    /\ UNCHANGED <<fields, frame, server, host>>

\* The score goes to the listener of the call itself.
OnScore(c) ==
    /\ Handling(c) /\ c.kind = "score"
    /\ calls' = calls \ {c}
    /\ UNCHANGED <<fields, frame, server, seen, host>>
    /\ Silent

Response(c) ==
    \/ OnConfigUnreadable(c) \/ OnConfig(c) \/ OnWorkflowResponse(c) \/ OnWorkflowNotFound(c)
    \/ OnComplete(c) \/ OnAbort(c) \/ OnError(c) \/ OnScore(c)

Next ==
    \/ Host
    \/ \E c \in calls : Serve(c) \/ Response(c)
    \/ OnConfigLoadedReturns

Spec == Init /\ [][Next]_vars

\* Every request of a workflow gets a response or times out, every response is
\* handled, and onConfigLoaded returns.
FairSpec ==
    /\ Spec
    /\ \A r \in Runs :
           WF_vars(\E c \in calls : c.live /\ c.run = r /\ c.kind # "score"
                                   /\ (Serve(c) \/ Response(c)))
    /\ WF_vars(OnConfigLoadedReturns)
-----------------------------------------------------------------------------
(* Properties.                                                             *)

\* IWorkflowProccessListener: a callback carries the "name of user, for which
\* the process was started" and the type of that workflow, although both are
\* fields that every workflow overwrites and one workflow follows another.
\* (resetPassword records no user, and an error before the first activity may
\* come before the user is recorded.)
CallbacksNameTheirWorkflow ==
    /\ event.run \in Runs \ reset /\ event.what # "config"
    /\ event.what = "error" => event.run \in asked
    => /\ event.type = TypeOf[event.run]
       /\ event.what # "continue" => event.user = UserOf[event.run]

\* onWorkflowCompleted is called "when workflow process completes
\* successfully": the server has recorded the workflow as done.
CompletedIsDone ==
    \A r \in Runs : \A i \in DOMAIN outcomes[r] :
        outcomes[r][i] = "completed" => server[r] = "done"

\* An activity's answer and a cancelWorkflow reach the workflow that asked for
\* them: they are sent under its instance key, the answer encrypted for its
\* salt and public key, although one field holds the definition's key first.
AnswersOwnWorkflow ==
    \A c \in calls :
        /\ c.kind \in {"process", "abort"} => c.key = c.run
        /\ c.kind = "process" => c.secret = c.run

\* calculateUserScore can be executed "only after successful completed
\* workflow": the session a score is asked for is one of a workflow that
\* succeeded, also when failed workflows are completed on the server too.
ScoreNeedsSuccess ==
    \A c \in calls : c.kind = "score" => server[c.key] = "done"

\* cancelAllRequests cancels all: until the host acts on a workflow again, no
\* request of one it left behind is under way.
CancelAllSilences == \A c \in calls : c.live => c.run \notin silenced \/ c.kind = "score"

\* A workflow that was not cancelled has one outcome, and nothing is heard of
\* it afterwards.
OutcomeIsFinal ==
    [][\A r \in Runs \ aborting : outcomes[r] # <<>> =>
          outcomes'[r] = outcomes[r] /\ event'.run # r]_vars

\* Every step of the host is answered by a callback, however long the chain
\* of requests it sets off, unless there is no listener to call; the one case
\* that leaves the host waiting is an exception that BasePostRequest swallows.
EveryStepAnswered ==
    \A r \in Runs :
        r = current ~> \/ r \in heard \cup silenced \cup swallowed
                       \/ r # current \/ ~listener
=============================================================================
