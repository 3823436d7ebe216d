----------------------- MODULE WorkflowManagerProofs -----------------------
(***************************************************************************)
(* Theorems about the workflow protocol for any workflows, users and       *)
(* types, whether the host overlaps workflows, detaches its listener or    *)
(* cancels early, with requests lost, refused or answered late.            *)
(***************************************************************************)
EXTENDS WorkflowManager, Naturals, TLAPS

Starter(c) == c.kind \in {"config", "status", "start"}
Answer(c)  == c.reply # Nothing /\ c.reply.what = "ok"

\* What a request under way says about the states s of the server.
Sound(c, s) ==
    /\ c.kind = "config" /\ c.run \notin Checked => s[c.run] = "absent"
    /\ c.kind = "start" /\ c.reply = Nothing => s[c.run] = "absent"
    /\ c.reply # Nothing /\ c.reply.what = "notFound" =>
           c.kind = "status" /\ s[c.run] = "absent"
    /\ c.kind \in {"status", "start", "process"} /\ Answer(c) =>
           /\ c.reply.status \in {"done", "abort"} => s[c.reply.run] = c.reply.status
           /\ c.reply.status = "process" => c.reply.has
    /\ c.kind \in {"status", "start"} /\ Answer(c) => c.reply.run = c.run
    /\ c.kind \in {"process", "complete"} /\ Answer(c) => c.reply.run = c.key
    /\ c.kind = "complete" =>
           /\ c.key \in Runs
           /\ c.session => ~c.failed
           /\ ~c.failed => s[c.key] \in {"done", "abort"}
           /\ Answer(c) /\ ~c.failed => s[c.key] = "done"
           /\ Answer(c) => c.reply.has = c.session
    /\ c.kind = "score" => c.key \in Runs /\ s[c.key] = "done"

ServerFits ==
    /\ \A c \in calls : Sound(c, server)
    /\ sessionKey # Nothing => server[sessionKey] = "done"

\* A workflow is started on the server by one request at most: it comes out
\* of one chain, the configuration, the status, the start.
OneChain ==
    /\ \A c, d \in calls : Starter(c) /\ Starter(d) /\ c.run = d.run => c = d
    /\ frame # Nothing => \A c \in calls : Starter(c) => c.run # frame.run

\* The server does not know what is not started, unless it is checked first.
NotYetThere ==
    /\ frame # Nothing /\ frame.run \notin Checked => server[frame.run] = "absent"
    /\ \A r \in Runs \ (started \cup Checked) : server[r] = "absent"

\* Nothing is under way for a workflow that was not started.
AllStarted ==
    /\ \A c \in calls : c.run \in started
    /\ frame # Nothing => frame.run \in started
    /\ silenced \cup asked \subseteq started
    /\ current # Nothing => current \in started

FlowInv == TypeOK /\ AllStarted /\ OneChain /\ NotYetThere /\ ServerFits

\* cancelAllRequests leaves nothing of a workflow behind.
LeftAlone ==
    /\ CancelAllSilences
    /\ frame # Nothing => frame.run \notin silenced

\* What a request says of the workflow cur the host started last and of those
\* in ask, which have asked for an activity.
Own(c, cur, ask) ==
    /\ c.live /\ c.kind # "score" => c.run = cur
    /\ c.kind = "config" => c.run \notin ask
    /\ c.kind \in {"process", "abort", "complete"} => c.key = c.run
    /\ c.kind = "process" => c.secret = c.run /\ c.run \in ask

\* One workflow at a time: the fields are those of the one that has asked.
OneAtATime ==
    /\ \A c \in calls : Own(c, current, asked)
    /\ frame # Nothing => frame.run = current /\ frame.run \notin asked
    /\ current \in asked => workflowKey = current /\ secret = current

\* The types that do not depend on what the other variables are.
FieldTypes ==
    /\ listener \in BOOLEAN
    /\ workflowKey \in Runs \cup {Definition, Nothing}
    /\ secret \in Runs \cup {Nothing}
    /\ userName \in {UserOf[r] : r \in Runs} \cup {Nothing}
    /\ workflowType \in WorkflowTypes
    /\ sessionKey \in Runs \cup {Nothing}
    /\ current \in Runs \cup {Nothing}
SeenTypes ==
    /\ event.run \in Runs \cup {Nothing}
    /\ started \cup reset \cup aborting \cup silenced \subseteq Runs
    /\ heard \cup asked \cup swallowed \subseteq Runs
    /\ outcomes \in [Runs -> Seq(Final)]
CallTypes ==
    /\ calls \subseteq Call
    /\ frame \in Call \cup {Nothing}
    /\ server \in [Runs -> Status \cup {"absent"}]

LEMMA Types == TypeOK <=> FieldTypes /\ SeenTypes /\ CallTypes
BY DEF TypeOK, FieldTypes, SeenTypes, CallTypes
-----------------------------------------------------------------------------
(* The requests that are made.                                             *)

LEMMA NamesOfTypes ==
    Nothing \in WorkflowTypes /\ \A r \in Runs : TypeOf[r] \in WorkflowTypes
BY DEF WorkflowTypes

LEMMA RequestType ==
    ASSUME NEW kind \in Kinds, NEW r \in Runs, NEW type \in WorkflowTypes
    PROVE  /\ Request(kind, r, type) \in Call
           /\ Request(kind, r, type).kind = kind /\ Request(kind, r, type).run = r
           /\ Request(kind, r, type).reply = Nothing
           /\ Request(kind, r, type).type = type
BY DEF Request, Call

LEMMA KeyedType ==
    ASSUME NEW kind \in Kinds, NEW r \in Runs, NEW type \in WorkflowTypes,
           NEW key \in Runs \cup {Definition, Nothing}
    PROVE  LET d == Keyed(kind, r, type, key) IN
           /\ d \in Call /\ d.kind = kind /\ d.run = r /\ d.key = key
           /\ d.reply = Nothing /\ d.type = type
BY DEF Keyed, Request, Call

LEMMA CompletionType ==
    ASSUME NEW r \in Runs, NEW key \in Runs, NEW type \in WorkflowTypes,
           NEW failed \in BOOLEAN
    PROVE  LET d == Completion(r, key, type, failed) IN
           /\ d \in Call /\ d.kind = "complete" /\ d.run = r /\ d.key = key
           /\ d.reply = Nothing /\ d.failed = failed /\ (d.session => ~failed)
           /\ d.type = type
BY DEF Completion, IsStepUp, Keyed, Request, Call, Kinds

LEMMA RepliedType ==
    ASSUME NEW c \in Call, NEW y \in Reply
    PROVE  LET d == [c EXCEPT !.reply = y] IN
           /\ d \in Call /\ d.kind = c.kind /\ d.run = c.run /\ d.key = c.key
           /\ d.session = c.session /\ d.failed = c.failed /\ d.secret = c.secret
           /\ d.live = c.live /\ d.reply = y /\ d.type = c.type
BY DEF Call

LEMMA DeadType ==
    ASSUME NEW c \in Call
    PROVE  LET d == [c EXCEPT !.live = FALSE] IN
           /\ d \in Call /\ d.kind = c.kind /\ d.run = c.run /\ d.key = c.key
           /\ d.session = c.session /\ d.failed = c.failed /\ d.secret = c.secret
           /\ d.live = FALSE /\ d.reply = c.reply /\ d.type = c.type
BY DEF Call

LEMMA TellTypes ==
    ASSUME TypeOK, NEW what, NEW r \in Runs, NEW type, Tell(what, r, type)
    PROVE  /\ event'.run \in Runs \cup {Nothing}
           /\ heard' \subseteq Runs /\ asked' \subseteq Runs /\ swallowed' = swallowed
           /\ outcomes' \in [Runs -> Seq(Final)]
           /\ asked' \subseteq asked \cup {r}
<1> USE DEF TypeOK
<1>1. CASE listener
    <2>1. event'.run = r /\ heard' = heard \cup {r}
        BY <1>1 DEF Tell
    <2>2. asked' \in {asked, asked \cup {r}}
        BY <1>1 DEF Tell
    <2>3. outcomes' \in [Runs -> Seq(Final)]
        <3>1. CASE what \in Final
            <4>1. Append(outcomes[r], what) \in Seq(Final)
                BY <3>1
            <4> QED BY <1>1, <3>1, <4>1 DEF Tell
        <3>2. CASE what \notin Final
            BY <1>1, <3>2 DEF Tell
        <3> QED BY <3>1, <3>2
    <2>4. swallowed' = swallowed
        BY <1>1 DEF Tell
    <2> QED BY <2>1, <2>2, <2>3, <2>4
<1>2. CASE ~listener
    BY <1>2 DEF Tell, Silent, NoEvent, seen
<1> QED BY <1>1, <1>2

LEMMA SilentType == Silent => event'.run \in Runs \cup {Nothing}
BY DEF Silent, NoEvent
-----------------------------------------------------------------------------
(* What the server does.                                                   *)

\* The server only gives another status to a workflow in progress, and to one
\* it did not know when it serves its start.
Moves(c) ==
    /\ server' \in [Runs -> Status \cup {"absent"}]
    /\ \A w \in Runs : \/ server'[w] = server[w] \/ server[w] = "process"
                       \/ server[w] = "absent" /\ c.kind = "start" /\ c.run = w

Replied(c, y) ==
    /\ calls' \subseteq (calls \ {c}) \cup {[c EXCEPT !.reply = y]}
    /\ Sound([c EXCEPT !.reply = y], server')
    /\ Moves(c)

LEMMA ReplyType ==
    ASSUME NEW what \in {"ok", "error", "notFound", "unreadable", "uncoded"}, NEW r \in Runs,
           NEW s \in Status, NEW has \in BOOLEAN
    PROVE  LET y == ReplyOf(what, r, s, has) IN
           /\ y \in Reply /\ y # Nothing
           /\ y.what = what /\ y.run = r /\ y.status = s /\ y.has = has
BY NothingAssumption DEF ReplyOf, Reply

LEMMA FailsShape ==
    ASSUME NEW c \in calls, c.run \in Runs, Fails(c)
    PROVE  \E y \in Reply : /\ calls' \subseteq (calls \ {c}) \cup {[c EXCEPT !.reply = y]}
                            /\ y # Nothing /\ y.what = "error"
<1>0. PICK has \in BOOLEAN : has = FALSE
    OBVIOUS
<1> DEFINE y == ReplyOf("error", c.run, "process", has)
<1>1. y \in Reply /\ y # Nothing /\ y.what = "error"
    BY ReplyType DEF Status
<1>2. calls' \subseteq (calls \ {c}) \cup {[c EXCEPT !.reply = y]}
    BY <1>0 DEF Fails, Answered
<1> HIDE DEF y
<1> QED BY <1>1, <1>2

LEMMA AnsweredShape ==
    ASSUME NEW c \in calls, NEW y, Answered(c, y)
    PROVE  calls' \subseteq (calls \ {c}) \cup {[c EXCEPT !.reply = y]}
BY DEF Answered

LEMMA AdvancesShape ==
    ASSUME TypeOK, "otherTasks" \notin ServerMay, NEW c \in calls, NEW w \in Runs,
           NEW statuses \in SUBSET Status, Advances(c, w, statuses)
    PROVE  \E s \in statuses, y \in Reply :
              /\ server' = [server EXCEPT ![w] = s]
              /\ calls' \subseteq (calls \ {c}) \cup {[c EXCEPT !.reply = y]}
              /\ y # Nothing
              /\ \/ y.what = "error"
                 \/ /\ y.what = "ok" /\ y.run = w /\ y.status = s
                    /\ s = "process" => y.has
<1>1. PICK s \in statuses, has \in BOOLEAN :
         /\ server' = [server EXCEPT ![w] = s]
         /\ s = "process" => has
         /\ Answered(c, ReplyOf("ok", w, s, has)) \/ Fails(c)
    BY DEF Advances
<1>2. c.run \in Runs
    BY DEF TypeOK, Call
<1>3. CASE Answered(c, ReplyOf("ok", w, s, has))
    <2> DEFINE y == ReplyOf("ok", w, s, has)
    <2>1. y \in Reply /\ y # Nothing /\ y.what = "ok" /\ y.run = w /\ y.status = s /\ y.has = has
        BY ReplyType
    <2>2. calls' \subseteq (calls \ {c}) \cup {[c EXCEPT !.reply = y]}
        BY <1>3, AnsweredShape
    <2> HIDE DEF y
    <2> QED BY <1>1, <2>1, <2>2
<1>4. CASE Fails(c)
    BY <1>1, <1>2, <1>4, FailsShape
<1> QED BY <1>1, <1>3, <1>4

LEMMA MovesNone ==
    ASSUME TypeOK, NEW c, UNCHANGED server
    PROVE  Moves(c)
BY DEF Moves, TypeOK

\* An error says nothing about the server.
LEMMA ErrorSound ==
    ASSUME NEW c \in Call, NEW y \in Reply, y # Nothing, y.what = "error",
           NEW s, c.kind \notin {"status", "start", "process", "abort"} => Sound(c, s)
    PROVE  Sound([c EXCEPT !.reply = y], s)
<1> DEFINE d == [c EXCEPT !.reply = y]
<1>1. /\ d.kind = c.kind /\ d.run = c.run /\ d.key = c.key
      /\ d.session = c.session /\ d.failed = c.failed /\ d.reply = y
    BY RepliedType
<1> HIDE DEF d
<1>2. Sound(d, s)
    BY <1>1 DEF Sound, Answer
<1> QED BY <1>2 DEF d

LEMMA ServeShape ==
    ASSUME FlowInv, "otherTasks" \notin ServerMay, NEW c \in calls, Serve(c)
    PROVE  /\ c.reply = Nothing
           /\ \E y \in Reply : Replied(c, y)
           /\ UNCHANGED <<fields, frame, seen, host>> /\ Silent
<1> USE DEF FlowInv
<1>1. /\ c.reply = Nothing /\ UNCHANGED <<fields, frame, seen, host>> /\ Silent
      /\ c \in Call /\ c.run \in Runs /\ Sound(c, server)
    BY DEF Serve, TypeOK, Call, ServerFits
<1> SUFFICES \E y \in Reply : Replied(c, y)
    BY <1>1
<1>2. ASSUME NEW y \in Reply, y # Nothing, y.what = "error", UNCHANGED server,
             calls' \subseteq (calls \ {c}) \cup {[c EXCEPT !.reply = y]}
      PROVE  Replied(c, y)
    <2>1. Sound(c, server')
        BY <1>1, <1>2
    <2>2. Sound([c EXCEPT !.reply = y], server')
        BY <1>1, <1>2, <2>1, ErrorSound
    <2> QED BY <1>2, <2>2, MovesNone DEF Replied
<1>3. ASSUME Fails(c), UNCHANGED server
      PROVE  \E y \in Reply : Replied(c, y)
    BY <1>1, <1>2, <1>3, FailsShape
<1>4. ASSUME NEW w \in Runs, NEW statuses \in SUBSET Status, Advances(c, w, statuses),
             c.kind \in {"status", "start", "process", "abort"},
             \/ server[w] = "process"
             \/ server[w] \in Status /\ statuses = {server[w]}
             \/ server[w] = "absent" /\ c.kind = "start" /\ c.run = w,
             w = IF c.kind \in {"process", "abort"} THEN c.key ELSE c.run
      PROVE  \E y \in Reply : Replied(c, y)
    <2>1. PICK s \in statuses, y \in Reply :
              /\ server' = [server EXCEPT ![w] = s]
              /\ calls' \subseteq (calls \ {c}) \cup {[c EXCEPT !.reply = y]}
              /\ y # Nothing
              /\ \/ y.what = "error"
                 \/ /\ y.what = "ok" /\ y.run = w /\ y.status = s
                    /\ s = "process" => y.has
        BY <1>4, AdvancesShape
    <2>2. Moves(c) /\ server'[w] = s
        <3>1. /\ s \in Status
              /\ \/ server[w] \in {"process", s}
                 \/ server[w] = "absent" /\ c.kind = "start" /\ c.run = w
            BY <1>4
        <3>2. TypeOK /\ server' = [server EXCEPT ![w] = s]
            BY <2>1
        <3> QED BY <3>1, <3>2 DEF Moves, TypeOK
    <2>3. CASE y.what = "error"
        BY <1>1, <1>4, <2>1, <2>2, <2>3, ErrorSound DEF Replied
    <2>4. CASE y.what = "ok" /\ y.run = w /\ y.status = s /\ (s = "process" => y.has)
        <3> DEFINE d == [c EXCEPT !.reply = y]
        <3>1. d.kind = c.kind /\ d.run = c.run /\ d.key = c.key /\ d.reply = y
            BY <1>1, RepliedType
        <3> HIDE DEF d
        <3>2. Sound(d, server')
            BY <1>4, <2>1, <2>2, <2>4, <3>1 DEF Sound, Answer
        <3> QED BY <2>1, <2>2, <3>2 DEF Replied, d
    <2> QED BY <2>1, <2>3, <2>4
<1>5. ASSUME NEW what \in {"ok", "notFound", "unreadable", "uncoded"}, NEW r \in Runs, NEW s \in Status, NEW has \in BOOLEAN,
             Answered(c, ReplyOf(what, r, s, has)), UNCHANGED server,
             \/ c.kind = "config" /\ what # "notFound"
             \/ c.kind = "score" /\ what = "ok"
             \/ c.kind = "status" /\ what = "notFound" /\ server[c.run] = "absent"
             \/ /\ c.kind = "complete" /\ what = "ok" /\ r = c.key /\ has = c.session
                /\ server[r] \in {"done", "fail"}
      PROVE  \E y \in Reply : Replied(c, y)
    <2> DEFINE y == ReplyOf(what, r, s, has)
               d == [c EXCEPT !.reply = y]
    <2>1. y \in Reply /\ y # Nothing /\ y.what = what /\ y.run = r /\ y.has = has
        BY ReplyType
    <2>2. calls' \subseteq (calls \ {c}) \cup {d}
        BY <1>5, AnsweredShape
    <2> HIDE DEF y
    <2>3. /\ d.kind = c.kind /\ d.run = c.run /\ d.key = c.key /\ d.session = c.session
          /\ d.failed = c.failed /\ d.reply = y
        BY <1>1, <2>1, RepliedType
    <2> HIDE DEF d
    <2>4. Sound(d, server')
        BY <1>1, <1>5, <2>1, <2>3 DEF Sound, Answer
    <2> QED BY <1>5, <2>1, <2>2, <2>4, MovesNone DEF Replied, d
<1>6. CASE c.kind = "config"
    <2>1. UNCHANGED server
        BY <1>6 DEF Serve
    <2>2. \/ \E what \in {"ok", "unreadable", "uncoded"}, has \in BOOLEAN :
                 Answered(c, ReplyOf(what, c.run, "process", has))
          \/ Fails(c)
        BY <1>6 DEF Serve
    <2> QED BY <1>1, <1>3, <1>5, <1>6, <2>1, <2>2 DEF Status
<1>7. CASE c.kind = "score"
    <2>1. UNCHANGED server /\ Answered(c, ReplyOf("ok", c.run, "done", FALSE))
        BY <1>7 DEF Serve
    <2> QED BY <1>1, <1>5, <1>7, <2>1 DEF Status
<1>8. CASE c.kind = "status"
    <2>1. \/ /\ server[c.run] = "absent" /\ UNCHANGED server
             /\ Answered(c, ReplyOf("notFound", c.run, "process", FALSE))
          \/ server[c.run] # "absent" /\ Advances(c, c.run, {server[c.run]})
          \/ UNCHANGED server /\ Fails(c)
        BY <1>8 DEF Serve
    <2>2. server[c.run] \in Status \cup {"absent"}
        BY <1>1 DEF TypeOK
    <2>3. CASE /\ server[c.run] = "absent" /\ UNCHANGED server
               /\ Answered(c, ReplyOf("notFound", c.run, "process", FALSE))
        BY <1>1, <1>5, <1>8, <2>3 DEF Status
    <2>4. CASE server[c.run] # "absent" /\ Advances(c, c.run, {server[c.run]})
        <3> DEFINE only == {server[c.run]}
        <3>1. only \in SUBSET Status /\ server[c.run] \in Status
            BY <2>2, <2>4
        <3>2. Advances(c, c.run, only)
            BY <2>4
        <3>3. only = {server[c.run]}
            OBVIOUS
        <3> HIDE DEF only
        <3> QED BY <1>1, <1>4, <1>8, <3>1, <3>2, <3>3
    <2> QED BY <1>3, <2>1, <2>3, <2>4
<1>9. CASE c.kind = "start"
    <2>1. Advances(c, c.run, Status) \/ (UNCHANGED server /\ Fails(c))
        BY <1>9 DEF Serve
    <2>2. server[c.run] = "absent"
        BY <1>1, <1>9 DEF Sound
    <2> QED BY <1>1, <1>3, <1>4, <1>9, <2>1, <2>2
<1>10. CASE c.kind \in {"process", "abort"}
    <2>1. \/ /\ c.key \in Runs /\ server[c.key] = "process"
             /\ Advances(c, c.key, IF c.kind = "process" THEN Status ELSE {"abort"})
          \/ UNCHANGED server /\ Fails(c)
        BY <1>10 DEF Serve
    <2> DEFINE next == IF c.kind = "process" THEN Status ELSE {"abort"}
    <2>2. next \in SUBSET Status
        BY DEF Status
    <2>3. \/ c.key \in Runs /\ server[c.key] = "process" /\ Advances(c, c.key, next)
          \/ UNCHANGED server /\ Fails(c)
        BY <2>1
    <2> HIDE DEF next
    <2> QED BY <1>3, <1>4, <1>10, <2>2, <2>3
<1>11. CASE c.kind = "complete"
    <2>1. \/ /\ c.key \in Runs /\ server[c.key] \in {"done", "fail"} /\ UNCHANGED server
             /\ Answered(c, ReplyOf("ok", c.key, server[c.key], c.session))
          \/ UNCHANGED server /\ Fails(c)
        BY <1>11 DEF Serve
    <2>2. c.session \in BOOLEAN
        BY <1>1 DEF Call
    <2>3. CASE /\ c.key \in Runs /\ server[c.key] \in {"done", "fail"} /\ UNCHANGED server
               /\ Answered(c, ReplyOf("ok", c.key, server[c.key], c.session))
        <3>1. server[c.key] \in Status
            BY <2>3 DEF Status
        <3> DEFINE ended == server[c.key]
                   given == c.session
        <3>2. /\ ended \in Status /\ given \in BOOLEAN /\ given = c.session
              /\ server[c.key] \in {"done", "fail"}
              /\ Answered(c, ReplyOf("ok", c.key, ended, given))
            BY <2>2, <2>3, <3>1
        <3> HIDE DEF ended, given
        <3> QED BY <1>5, <1>11, <2>3, <3>2
    <2>4. UNCHANGED server /\ Fails(c) => \E y \in Reply : Replied(c, y)
        BY <1>3
    <2> QED BY <2>1, <2>3, <2>4
<1>12. c.kind \in Kinds
    BY <1>1 DEF Call
<1> QED BY <1>1, <1>6, <1>7, <1>8, <1>9, <1>10, <1>11, <1>12 DEF Kinds

\* What the other requests say about the server stays true.
LEMMA SoundMoves ==
    ASSUME FlowInv, NEW c \in calls, c.reply = Nothing, Moves(c), NEW e \in calls, e # c
    PROVE  Sound(e, server')
<1> USE DEF FlowInv
<1>1. e \in Call /\ e.run \in Runs /\ Sound(e, server)
    BY DEF TypeOK, Call, ServerFits
<1>2. e.reply # Nothing => e.reply.run \in Runs
    BY <1>1 DEF Call, Reply
<1>3. \A w \in Runs : server[w] \in {"done", "abort"} => server'[w] = server[w]
    BY DEF Moves
<1>4. Starter(e) /\ server[e.run] = "absent" => server'[e.run] = "absent"
    <2> SUFFICES ASSUME Starter(e), server[e.run] = "absent", server'[e.run] # "absent"
                 PROVE  FALSE
        OBVIOUS
    <2>1. c.kind = "start" /\ c.run = e.run
        BY <1>1 DEF Moves
    <2> QED BY <2>1 DEF OneChain, Starter
<1> QED BY <1>1, <1>2, <1>3, <1>4 DEF Sound, Answer, Starter
-----------------------------------------------------------------------------
(* What the main thread does with a response.                              *)

\* The request is gone, or another one of its workflow has taken its place.
Follows(n, c) ==
    \/ n = c
    \/ n.kind \in {"status", "start"}
    \/ /\ n.kind = "complete" /\ n.key = c.reply.run
       /\ c.kind \in {"status", "start", "process"} /\ Answer(c)

Responds(c) ==
    \E n \in Call :
        /\ calls' \subseteq (calls \ {c}) \cup {n}
        /\ n.run = c.run /\ Sound(n, server) /\ Follows(n, c)
        /\ Starter(n) => Starter(c)
        /\ c.kind = "score" => n.kind = "score"

LEMMA JustGone ==
    ASSUME FlowInv, NEW c \in calls, calls' = calls \ {c}
    PROVE  Responds(c)
<1>1. c \in Call /\ Sound(c, server)
    BY DEF FlowInv, TypeOK, ServerFits
<1> QED BY <1>1 DEF Responds, Follows

LEMMA AfterConfigType ==
    ASSUME NEW c \in Call
    PROVE  LET n == AfterConfig(c) IN
           /\ n \in Call /\ n.run = c.run /\ n.reply = Nothing /\ n.type = c.type
           /\ n.kind = IF c.run \in Checked THEN "status" ELSE "start"
<1>1. c.run \in Runs /\ c.type \in WorkflowTypes
    BY DEF Call
<1>2. CASE c.run \in Checked
    BY <1>1, <1>2, RequestType DEF AfterConfig, Kinds
<1>3. CASE c.run \notin Checked
    BY <1>1, <1>3, KeyedType DEF AfterConfig, Kinds
<1> QED BY <1>2, <1>3

\* The three ways in which the handler of a configuration ends.
LEMMA ConfigCases ==
    ASSUME NEW c, NEW rest, ConfigContinues(c, rest)
    PROVE  /\ \/ /\ calls' = rest /\ swallowed' = swallowed \cup {c.run} /\ Silent
                 /\ UNCHANGED <<workflowKey, userName, workflowType, heard, asked, outcomes>>
              \/ /\ workflowKey' = Nothing
                 /\ calls' = rest /\ Tell("error", c.run, workflowType)
                 /\ UNCHANGED <<userName, workflowType>>
              \/ /\ workflowKey' = Definition
                 /\ userName' = UserOf[c.run] /\ workflowType' = c.type
                 /\ calls' = rest \cup {AfterConfig(c)} /\ Silent /\ UNCHANGED seen
           /\ UNCHANGED <<secret, sessionKey, server, host>>
BY DEF ConfigContinues

\* What onConfigLoaded is followed by.
LEMMA ConfigShape ==
    ASSUME FlowInv, NEW c \in Call, NEW rest, ConfigContinues(c, rest),
           c.run \notin Checked => server[c.run] = "absent"
    PROVE  /\ \/ calls' = rest
              \/ \E n \in Call : /\ calls' = rest \cup {n} /\ n = AfterConfig(c)
                                 /\ n.run = c.run /\ Sound(n, server)
                                 /\ n.kind \in {"status", "start"}
           /\ FieldTypes' /\ SeenTypes' /\ UNCHANGED <<asked, outcomes>>
           /\ UNCHANGED <<server, host, sessionKey>>
<1>1. c.run \in Runs /\ c.type \in WorkflowTypes /\ FieldTypes /\ SeenTypes
    BY Types DEF FlowInv, Call
<1>2. UNCHANGED <<secret, sessionKey, server, host>>
    BY ConfigCases
<1>3. CASE /\ calls' = rest /\ swallowed' = swallowed \cup {c.run} /\ Silent
           /\ UNCHANGED <<workflowKey, userName, workflowType, heard, asked, outcomes>>
    <2>1. SeenTypes'
        BY <1>1, <1>2, <1>3, SilentType DEF SeenTypes, host
    <2>2. FieldTypes'
        BY <1>1, <1>2, <1>3 DEF FieldTypes, host
    <2> QED BY <1>2, <1>3, <2>1, <2>2
<1>4. CASE /\ workflowKey' = Nothing
           /\ calls' = rest /\ Tell("error", c.run, workflowType)
           /\ UNCHANGED <<userName, workflowType>>
    <2>1. SeenTypes' /\ UNCHANGED <<asked, outcomes>>
        BY <1>1, <1>2, <1>4, TellTypes DEF FlowInv, SeenTypes, host, Tell, seen, Final
    <2>2. FieldTypes'
        BY <1>1, <1>2, <1>4 DEF FieldTypes, host
    <2> QED BY <1>2, <1>4, <2>1, <2>2
<1>5. CASE /\ workflowKey' = Definition
           /\ userName' = UserOf[c.run] /\ workflowType' = c.type
           /\ calls' = rest \cup {AfterConfig(c)} /\ Silent /\ UNCHANGED seen
    <2>1. PICK n \in Call : /\ n = AfterConfig(c) /\ n.run = c.run /\ n.reply = Nothing
                           /\ n.kind = IF c.run \in Checked THEN "status" ELSE "start"
        BY AfterConfigType
    <2>2. Sound(n, server)
        BY <2>1 DEF Sound, Answer
    <2>3. SeenTypes' /\ UNCHANGED <<asked, outcomes>>
        BY <1>1, <1>2, <1>5, SilentType DEF SeenTypes, seen, host
    <2>4. FieldTypes'
        <3>1. userName' \in {UserOf[r] : r \in Runs}
            BY <1>1, <1>5
        <3> QED BY <1>1, <1>2, <1>5, <3>1 DEF FieldTypes, host
    <2> QED BY <1>2, <1>5, <2>1, <2>2, <2>3, <2>4
<1> QED BY <1>3, <1>4, <1>5, ConfigCases

LEMMA OnConfigShape ==
    ASSUME FlowInv, NEW c \in calls, OnConfig(c)
    PROVE  /\ \/ UNCHANGED frame /\ Responds(c)
              \/ frame' = c /\ frame = Nothing /\ c.kind = "config" /\ calls' = calls \ {c}
           /\ FieldTypes' /\ SeenTypes' /\ asked' \subseteq asked \cup {c.run}
           /\ UNCHANGED <<server, host, sessionKey>>
<1>1. /\ c \in Call /\ c.run \in Runs /\ FieldTypes /\ SeenTypes
      /\ c.run \notin Checked => server[c.run] = "absent"
      /\ c.kind = "config" /\ frame = Nothing
    BY Types DEF FlowInv, Call, TypeOK, ServerFits, Sound, OnConfig, Handling
<1>2. CASE listener
    <2>1. /\ frame' = c /\ calls' = calls \ {c} /\ event'.run = c.run
          /\ UNCHANGED <<fields, server, seen, host>>
        BY <1>2 DEF OnConfig
    <2>2. FieldTypes' /\ SeenTypes' /\ asked' \subseteq asked \cup {c.run}
        BY <1>1, <2>1 DEF FieldTypes, SeenTypes, fields, seen, host
    <2> QED BY <1>1, <2>1, <2>2 DEF fields
<1>3. CASE ~listener
    <2> DEFINE rest == calls \ {c}
    <2>1. ConfigContinues(c, rest) /\ UNCHANGED frame
        BY <1>3 DEF OnConfig
    <2> HIDE DEF rest
    <2>2. /\ \/ calls' = rest
             \/ \E n \in Call : /\ calls' = rest \cup {n} /\ n = AfterConfig(c)
                                /\ n.run = c.run /\ Sound(n, server)
                                /\ n.kind \in {"status", "start"}
          /\ FieldTypes' /\ SeenTypes' /\ UNCHANGED asked
          /\ UNCHANGED <<server, host, sessionKey>>
        BY <1>1, <2>1, ConfigShape
    <2>3. Responds(c)
        <3>1. CASE calls' = rest
            BY <3>1, JustGone DEF rest
        <3>2. CASE calls' # rest
            BY <1>1, <2>2, <3>2 DEF Responds, Follows, Starter, rest
        <3> QED BY <3>1, <3>2
    <2> QED BY <2>1, <2>2, <2>3
<1> QED BY <1>2, <1>3

\* handleWorkflowProcessResponse asks for a session only if the server has
\* recorded the workflow as done, or as aborted while nobody listens.
LEMMA HandleShape ==
    ASSUME FlowInv, NEW c \in calls, NEW type \in WorkflowTypes,
           c.kind \in {"status", "start", "process"},
           Answer(c), HandleWorkflowProcessResponse(c, type), UNCHANGED host
    PROVE  Responds(c) /\ SeenTypes' /\ asked' \subseteq asked \cup {c.run}
<1>1. /\ c \in Call /\ c.run \in Runs /\ c.reply \in Reply /\ SeenTypes
      /\ c.reply.run \in Runs /\ c.reply.status \in Status /\ Sound(c, server)
    BY Types DEF FlowInv, TypeOK, Call, Reply, ServerFits, Answer
<1>2. ASSUME NEW failed \in BOOLEAN,
             calls' = (calls \ {c}) \cup {Completion(c.run, c.reply.run, type, failed)},
             failed \/ server[c.reply.run] \in {"done", "abort"}, Silent, UNCHANGED seen
      PROVE  Responds(c) /\ SeenTypes' /\ asked' \subseteq asked \cup {c.run}
    <2> DEFINE n == Completion(c.run, c.reply.run, type, failed)
    <2>1. /\ n \in Call /\ n.kind = "complete" /\ n.run = c.run /\ n.key = c.reply.run
          /\ n.reply = Nothing /\ n.failed = failed /\ (n.session => ~failed)
        BY <1>1, CompletionType
    <2>2. calls' = (calls \ {c}) \cup {n}
        BY <1>2
    <2> HIDE DEF n
    <2>3. Sound(n, server)
        BY <1>1, <1>2, <2>1 DEF Sound, Answer
    <2>4. SeenTypes' /\ asked' \subseteq asked \cup {c.run}
        BY <1>1, <1>2, SilentType DEF SeenTypes, seen, host
    <2>5. Responds(c)
        BY <2>1, <2>2, <2>3 DEF Responds, Follows, Starter
    <2> QED BY <2>4, <2>5
<1>3. ASSUME NEW what, Tell(what, c.run, type), calls' = calls \ {c}
      PROVE  Responds(c) /\ SeenTypes' /\ asked' \subseteq asked \cup {c.run}
    BY <1>1, <1>3, TellTypes, JustGone DEF FlowInv, SeenTypes, host
<1> DEFINE over == c.reply.status = "done" \/ ~c.reply.has
           told == c.reply.status = "abort" /\ listener
<1>4. CASE told /\ Tell("aborted", c.run, type) /\ calls' = calls \ {c}
    BY <1>3, <1>4
<1>5. CASE /\ c.reply.status = "fail" /\ Silent /\ UNCHANGED seen
           /\ calls' = (calls \ {c}) \cup {Completion(c.run, c.reply.run, type, TRUE)}
    <2>1. PICK failed \in BOOLEAN : failed = TRUE
        OBVIOUS
    <2> QED BY <1>2, <1>5, <2>1
<1>6. CASE /\ ~told /\ c.reply.status # "fail" /\ over /\ Silent /\ UNCHANGED seen
           /\ calls' = (calls \ {c}) \cup {Completion(c.run, c.reply.run, type, FALSE)}
    <2>1. PICK failed \in BOOLEAN : failed = FALSE
        OBVIOUS
    <2>2. server[c.reply.run] \in {"done", "abort"}
        BY <1>1, <1>6 DEF Sound, Status
    <2> QED BY <1>2, <1>6, <2>1, <2>2
<1>7. CASE Tell("completed", c.run, type) /\ calls' = calls \ {c}
    BY <1>3, <1>7
<1>8. CASE Tell("continue", c.run, type) /\ calls' = calls \ {c}
    BY <1>3, <1>8
<1> QED BY <1>4, <1>5, <1>6, <1>7, <1>8 DEF HandleWorkflowProcessResponse

LEMMA ResponseShape ==
    ASSUME FlowInv, NEW c \in calls, Response(c)
    PROVE  /\ \/ UNCHANGED frame /\ Responds(c)
              \/ frame' = c /\ frame = Nothing /\ c.kind = "config" /\ calls' = calls \ {c}
           /\ FieldTypes' /\ SeenTypes' /\ asked' \subseteq asked \cup {c.run}
           /\ sessionKey' # Nothing => server[sessionKey'] = "done"
           /\ UNCHANGED <<server, host>>
           /\ c.live
<1>1. /\ c \in Call /\ c.run \in Runs /\ FieldTypes /\ SeenTypes /\ Sound(c, server)
      /\ sessionKey # Nothing => server[sessionKey] = "done"
      /\ c.reply # Nothing => c.reply \in Reply /\ c.reply.run \in Runs
    BY Types DEF FlowInv, TypeOK, Call, Reply, ServerFits
<1>2. c.live
    BY DEF Response, OnConfigUnreadable, OnConfig, OnWorkflowResponse, OnWorkflowNotFound, OnComplete, OnAbort,
           OnError, OnScore, Handling
<1>3. CASE OnConfig(c)
    BY <1>1, <1>2, <1>3, OnConfigShape
<1>4. CASE OnWorkflowResponse(c)
    <2> DEFINE type == IF c.kind = "process" THEN workflowType ELSE c.type
    <2>1. /\ c.kind \in {"status", "start", "process"} /\ Answer(c)
          /\ HandleWorkflowProcessResponse(c, type)
          /\ workflowType' \in {type, workflowType}
          /\ UNCHANGED <<frame, server, host>>
        BY <1>4 DEF OnWorkflowResponse, Handling, Answer
    <2>2. type \in WorkflowTypes
        BY <1>1 DEF FieldTypes, Call
    <2> HIDE DEF type
    <2>3. Responds(c) /\ SeenTypes' /\ asked' \subseteq asked \cup {c.run}
        BY <2>1, <2>2, HandleShape
    <2>4. secret' = c.reply.run /\ workflowKey' = c.reply.run /\ UNCHANGED <<userName, sessionKey>>
        BY <2>1 DEF HandleWorkflowProcessResponse, UpdateWorkflowData
    <2>5. FieldTypes'
        BY <1>1, <2>1, <2>2, <2>4 DEF FieldTypes, Answer, host
    <2> QED BY <1>1, <1>2, <2>1, <2>3, <2>4, <2>5
<1>5. CASE OnWorkflowNotFound(c)
    <2> DEFINE n == Keyed("start", c.run, c.type, workflowKey)
    <2>1. /\ c.kind = "status" /\ server[c.run] = "absent"
          /\ workflowType' = c.type /\ calls' = (calls \ {c}) \cup {n}
          /\ UNCHANGED <<workflowKey, secret, userName, sessionKey, frame, server, seen, host>>
          /\ Silent
        BY <1>1, <1>5 DEF OnWorkflowNotFound, Handling, Sound
    <2>2. n \in Call /\ n.kind = "start" /\ n.run = c.run /\ n.reply = Nothing
        BY <1>1, KeyedType DEF FieldTypes, Kinds, Call
    <2> HIDE DEF n
    <2>3. Responds(c)
        <3>1. Sound(n, server)
            BY <2>1, <2>2 DEF Sound, Answer
        <3> QED BY <2>1, <2>2, <3>1 DEF Responds, Follows, Starter
    <2>4. FieldTypes'
        BY <1>1, <2>1 DEF FieldTypes, host, Call
    <2>5. SeenTypes' /\ asked' \subseteq asked \cup {c.run}
        BY <1>1, <2>1, SilentType DEF SeenTypes, seen, host
    <2> QED BY <1>1, <1>2, <2>1, <2>3, <2>4, <2>5
<1>6. CASE OnComplete(c)
    <2>1. /\ c.kind = "complete" /\ Answer(c)
          /\ sessionKey' = IF c.reply.has THEN c.reply.run ELSE Nothing
          /\ calls' = calls \ {c}
          /\ UNCHANGED <<workflowKey, secret, userName, workflowType, frame, server, host>>
        BY <1>6 DEF OnComplete, Handling, Answer
    <2>2. \E what : Tell(what, c.run, c.type)
        BY <1>6 DEF OnComplete
    <2>3. SeenTypes' /\ asked' \subseteq asked \cup {c.run}
        BY <1>1, <2>1, <2>2, TellTypes DEF FlowInv, SeenTypes, host
    <2>4. FieldTypes' /\ (sessionKey' # Nothing => server[sessionKey'] = "done")
        BY <1>1, <2>1 DEF FieldTypes, Sound, Answer, host
    <2> QED BY <1>2, <2>1, <2>3, <2>4, JustGone
<1>7. CASE OnAbort(c) \/ OnError(c)
    <2>1. calls' = calls \ {c} /\ UNCHANGED <<fields, frame, server, host>>
        BY <1>7 DEF OnAbort, OnError
    <2>2. \E what : Tell(what, c.run, workflowType)
        BY <1>7 DEF OnAbort, OnError
    <2>3. SeenTypes' /\ asked' \subseteq asked \cup {c.run}
        BY <1>1, <2>1, <2>2, TellTypes DEF FlowInv, SeenTypes, host
    <2>4. FieldTypes' /\ (sessionKey' # Nothing => server[sessionKey'] = "done")
        BY <1>1, <2>1 DEF FieldTypes, fields, host
    <2> QED BY <1>2, <2>1, <2>3, <2>4, JustGone
<1>8. CASE OnScore(c)
    <2>1. calls' = calls \ {c} /\ UNCHANGED <<fields, frame, server, seen, host>> /\ Silent
        BY <1>8 DEF OnScore
    <2>2. SeenTypes' /\ asked' \subseteq asked \cup {c.run}
        BY <1>1, <2>1, SilentType DEF SeenTypes, seen, host
    <2>3. FieldTypes' /\ (sessionKey' # Nothing => server[sessionKey'] = "done")
        BY <1>1, <2>1 DEF FieldTypes, fields, host
    <2> QED BY <1>2, <2>1, <2>2, <2>3, JustGone
<1>9. CASE OnConfigUnreadable(c)
    <2>1. /\ calls' = calls \ {c} /\ swallowed' = swallowed \cup {c.run} /\ Silent
          /\ UNCHANGED <<fields, frame, server, heard, asked, outcomes, host>>
        BY <1>9 DEF OnConfigUnreadable
    <2>2. SeenTypes' /\ asked' \subseteq asked \cup {c.run}
        BY <1>1, <2>1, SilentType DEF SeenTypes, host
    <2>3. FieldTypes' /\ (sessionKey' # Nothing => server[sessionKey'] = "done")
        BY <1>1, <2>1 DEF FieldTypes, fields, host
    <2> QED BY <1>2, <2>1, <2>2, <2>3, JustGone
<1> QED BY <1>3, <1>4, <1>5, <1>6, <1>7, <1>8, <1>9 DEF Response
-----------------------------------------------------------------------------
(* Steps.                                                                  *)

Quiet == AllStarted /\ OneChain /\ NotYetThere /\ ServerFits

\* The host makes a request.
LEMMA AddKeeps ==
    ASSUME FlowInv, NEW n \in Call, calls' = calls \cup {n}, Sound(n, server),
           n.run \in started', started \subseteq started',
           Starter(n) => n.run \notin started,
           silenced' \subseteq silenced, n.kind = "score" \/ n.run \notin silenced',
           current' # Nothing => current' \in started',
           UNCHANGED <<server, frame, sessionKey, asked>>
    PROVE  CallTypes' /\ Quiet' /\ (LeftAlone => LeftAlone')
<1> USE DEF FlowInv
<1>1. CallTypes'
    BY DEF TypeOK, CallTypes
<1>2. AllStarted'
    BY DEF AllStarted
<1>3. OneChain'
    BY DEF OneChain, AllStarted
<1>4. NotYetThere' /\ ServerFits'
    BY DEF NotYetThere, ServerFits
<1>5. LeftAlone => LeftAlone'
    BY DEF LeftAlone, CancelAllSilences
<1> QED BY <1>1, <1>2, <1>3, <1>4, <1>5 DEF Quiet

\* A response is handled and onConfigLoaded is not called.
LEMMA RespondsKeeps ==
    ASSUME FlowInv, NEW c \in calls, Responds(c), c.live,
           sessionKey' # Nothing => server[sessionKey'] = "done",
           asked' \subseteq asked \cup {c.run},
           UNCHANGED <<server, frame, started, silenced, current>>
    PROVE  CallTypes' /\ Quiet' /\ (LeftAlone => LeftAlone')
<1> USE DEF FlowInv
<1>1. PICK n \in Call :
        /\ calls' \subseteq (calls \ {c}) \cup {n}
        /\ n.run = c.run /\ Sound(n, server) /\ Follows(n, c)
        /\ Starter(n) => Starter(c)
        /\ c.kind = "score" => n.kind = "score"
    BY DEF Responds
<1>2. CallTypes'
    BY <1>1 DEF TypeOK, CallTypes
<1>3. AllStarted'
    BY <1>1 DEF AllStarted
<1>4. OneChain'
    <2>1. ASSUME NEW d \in calls', NEW e \in calls', Starter(d), Starter(e), d.run = e.run
          PROVE  d = e
        BY <1>1, <2>1 DEF OneChain
    <2>2. ASSUME frame' # Nothing, NEW d \in calls', Starter(d)
          PROVE  d.run # frame'.run
        BY <1>1, <2>2 DEF OneChain
    <2> QED BY <2>1, <2>2 DEF OneChain
<1>5. NotYetThere' /\ ServerFits'
    BY <1>1 DEF NotYetThere, ServerFits
<1>6. LeftAlone => LeftAlone'
    BY <1>1 DEF LeftAlone, CancelAllSilences
<1> QED BY <1>2, <1>3, <1>4, <1>5, <1>6 DEF Quiet

LEMMA ResponseKeeps ==
    ASSUME FlowInv, NEW c \in calls, Response(c)
    PROVE  FlowInv' /\ (LeftAlone => LeftAlone')
<1>1. /\ \/ UNCHANGED frame /\ Responds(c)
         \/ frame' = c /\ frame = Nothing /\ c.kind = "config" /\ calls' = calls \ {c}
      /\ FieldTypes' /\ SeenTypes' /\ asked' \subseteq asked \cup {c.run}
      /\ sessionKey' # Nothing => server[sessionKey'] = "done"
      /\ UNCHANGED <<server, host>> /\ c.live
    BY ResponseShape
<1>2. UNCHANGED <<started, silenced, current>>
    BY <1>1 DEF host
<1>3. CASE UNCHANGED frame /\ Responds(c)
    <2>1. CallTypes' /\ Quiet' /\ (LeftAlone => LeftAlone')
        BY <1>1, <1>2, <1>3, RespondsKeeps
    <2>2. TypeOK'
        BY <1>1, <2>1 DEF TypeOK, FieldTypes, SeenTypes, CallTypes
    <2> QED BY <2>1, <2>2 DEF FlowInv, Quiet
<1>4. CASE frame' = c /\ frame = Nothing /\ c.kind = "config" /\ calls' = calls \ {c}
    <2> USE DEF FlowInv
    <2>1. TypeOK'
        <3>1. CallTypes'
            BY <1>1, <1>4 DEF TypeOK, CallTypes
        <3> QED BY <1>1, <3>1 DEF TypeOK, FieldTypes, SeenTypes, CallTypes
    <2>2. AllStarted'
        BY <1>1, <1>2, <1>4 DEF AllStarted
    <2>3. OneChain'
        BY <1>4 DEF OneChain, Starter
    <2>4. NotYetThere' /\ ServerFits'
        BY <1>1, <1>2, <1>4 DEF NotYetThere, ServerFits, Sound
    <2>5. LeftAlone => LeftAlone'
        BY <1>1, <1>2, <1>4 DEF LeftAlone, CancelAllSilences
    <2> QED BY <2>1, <2>2, <2>3, <2>4, <2>5
<1> QED BY <1>1, <1>3, <1>4

LEMMA ReturnKeeps ==
    ASSUME FlowInv, OnConfigLoadedReturns
    PROVE  FlowInv' /\ (LeftAlone => LeftAlone')
<1> USE DEF FlowInv
<1>1. /\ frame # Nothing /\ frame' = Nothing /\ ConfigContinues(frame, calls)
      /\ frame \in Call /\ frame.run \in started
      /\ frame.run \notin Checked => server[frame.run] = "absent"
    BY DEF OnConfigLoadedReturns, TypeOK, AllStarted, NotYetThere
<1>2. PICK c \in Call : c = frame
    BY <1>1
<1>3. /\ \/ calls' = calls
         \/ \E n \in Call : /\ calls' = calls \cup {n}
                            /\ n.run = c.run /\ Sound(n, server)
                            /\ n.kind \in {"status", "start"}
      /\ FieldTypes' /\ SeenTypes' /\ UNCHANGED asked
      /\ UNCHANGED <<server, host, sessionKey>>
    BY <1>1, <1>2, ConfigShape
<1>4. PICK new \in SUBSET Call :
          /\ calls' = calls \cup new
          /\ \A n \in new : n.run = c.run /\ Sound(n, server)
          /\ \A n, m \in new : n = m
    <2>1. CASE calls' = calls
        <3>1. calls' = calls \cup {} /\ {} \in SUBSET Call
            BY <2>1
        <3> QED BY <3>1
    <2>2. CASE calls' # calls
        <3>1. PICK n \in Call : calls' = calls \cup {n} /\ n.run = c.run /\ Sound(n, server)
            BY <1>3, <2>2
        <3>2. {n} \in SUBSET Call
            BY <3>1
        <3> QED BY <3>1, <3>2
    <2> QED BY <2>1, <2>2
<1>5. UNCHANGED <<started, silenced, current>>
    BY <1>3 DEF host
<1>6. TypeOK'
    <2>1. CallTypes'
        BY <1>1, <1>3, <1>4 DEF TypeOK, CallTypes
    <2> QED BY <1>3, <2>1 DEF TypeOK, FieldTypes, SeenTypes, CallTypes
<1>7. AllStarted'
    BY <1>1, <1>2, <1>3, <1>4, <1>5 DEF AllStarted
<1>8. OneChain'
    BY <1>1, <1>2, <1>4 DEF OneChain
<1>9. NotYetThere' /\ ServerFits'
    BY <1>1, <1>3, <1>4, <1>5 DEF NotYetThere, ServerFits
<1>10. LeftAlone => LeftAlone'
    BY <1>1, <1>2, <1>4, <1>5 DEF LeftAlone, CancelAllSilences
<1> QED BY <1>6, <1>7, <1>8, <1>9, <1>10

LEMMA ServeKeeps ==
    ASSUME FlowInv, "otherTasks" \notin ServerMay, NEW c \in calls, Serve(c)
    PROVE  FlowInv' /\ (LeftAlone => LeftAlone')
<1>1. /\ c.reply = Nothing /\ UNCHANGED <<fields, frame, seen, host>> /\ Silent
    BY ServeShape
<1>2. PICK y \in Reply : Replied(c, y)
    BY ServeShape
<1> DEFINE d == [c EXCEPT !.reply = y]
<1>3. c \in Call
    BY DEF FlowInv, TypeOK
<1>4. /\ d \in Call /\ d.kind = c.kind /\ d.run = c.run /\ d.live = c.live
    BY <1>3, RepliedType
<1>5. calls' \subseteq (calls \ {c}) \cup {d} /\ Sound(d, server') /\ Moves(c)
    BY <1>2 DEF Replied
<1> HIDE DEF d
<1>6. \A e \in calls : e # c => Sound(e, server')
    BY <1>1, <1>5, SoundMoves
<1>7. UNCHANGED <<started, silenced, current, sessionKey>>
    BY <1>1 DEF host, fields
<1> USE DEF FlowInv
<1>8. TypeOK'
    <2>1. CallTypes'
        BY <1>1, <1>4, <1>5 DEF TypeOK, CallTypes, Moves
    <2>2. FieldTypes /\ SeenTypes
        BY Types
    <2>3. FieldTypes' /\ SeenTypes'
        BY <1>1, <2>2, SilentType DEF FieldTypes, SeenTypes, fields, seen, host
    <2> QED BY <2>1, <2>3 DEF TypeOK, FieldTypes, SeenTypes, CallTypes
<1>9. AllStarted'
    BY <1>1, <1>4, <1>5, <1>7 DEF AllStarted, seen
<1>10. OneChain'
    <2>1. ASSUME NEW a \in calls', NEW e \in calls', Starter(a), Starter(e), a.run = e.run
          PROVE  a = e
        BY <1>4, <1>5, <2>1 DEF OneChain, Starter
    <2>2. ASSUME frame' # Nothing, NEW a \in calls', Starter(a)
          PROVE  a.run # frame'.run
        BY <1>1, <1>4, <1>5, <2>2 DEF OneChain, Starter
    <2> QED BY <2>1, <2>2 DEF OneChain
<1>11. NotYetThere'
    <2>1. \A w \in Runs : w # c.run \/ c.kind # "start" =>
              (server[w] = "absent" => server'[w] = "absent")
        BY <1>5 DEF Moves
    <2>2. ASSUME frame' # Nothing, frame'.run \notin Checked PROVE server'[frame'.run] = "absent"
        <3>1. server[frame.run] = "absent" /\ frame.run \in Runs
            BY <1>1, <2>2 DEF NotYetThere, TypeOK, Call
        <3>2. c.kind = "start" => c.run # frame.run
            BY <1>1, <2>2 DEF OneChain, Starter
        <3> QED BY <1>1, <2>1, <3>1, <3>2
    <2>3. ASSUME NEW r \in Runs \ (started' \cup Checked) PROVE server'[r] = "absent"
        BY <1>7, <2>1 DEF NotYetThere, AllStarted
    <2> QED BY <2>2, <2>3 DEF NotYetThere
<1>12. ServerFits'
    <2>1. sessionKey' # Nothing => server'[sessionKey'] = "done"
        BY <1>5, <1>7 DEF ServerFits, Moves, TypeOK
    <2> QED BY <1>5, <1>6, <2>1 DEF ServerFits
<1>13. LeftAlone => LeftAlone'
    BY <1>1, <1>4, <1>5, <1>7 DEF LeftAlone, CancelAllSilences
<1> QED BY <1>8, <1>9, <1>10, <1>11, <1>12, <1>13

LEMMA HostKeeps ==
    ASSUME FlowInv, Host
    PROVE  FlowInv' /\ (LeftAlone /\ "cancelInside" \notin HostMay => LeftAlone')
<1> USE DEF FlowInv
<1>1. FieldTypes /\ SeenTypes /\ CallTypes
    BY Types
<1>2. ASSUME FieldTypes', SeenTypes', CallTypes', Quiet'
      PROVE  FlowInv'
    BY <1>2 DEF Quiet, TypeOK, FieldTypes, SeenTypes, CallTypes
<1>3. ASSUME NEW r \in Runs, StartWorkflow(r)
      PROVE  FlowInv' /\ (LeftAlone => LeftAlone')
    <2> DEFINE n == Request("config", r, TypeOf[r])
    <2>1. /\ r \notin started /\ started' = started \cup {r} /\ current' = r
          /\ calls' = calls \cup {n} /\ Silent
          /\ UNCHANGED <<fields, frame, server, seen, listener, reset, aborting, silenced>>
        BY <1>3 DEF StartWorkflow, MayStart
    <2>2. n \in Call /\ n.kind = "config" /\ n.run = r /\ n.reply = Nothing
        BY RequestType, NamesOfTypes DEF Kinds
    <2> HIDE DEF n
    <2>3. Sound(n, server)
        BY <2>1, <2>2 DEF Sound, NotYetThere, Answer
    <2>4. CallTypes' /\ Quiet' /\ (LeftAlone => LeftAlone')
        BY <2>1, <2>2, <2>3, AddKeeps DEF fields, seen, AllStarted
    <2>5. FieldTypes' /\ SeenTypes'
        BY <1>1, <2>1, SilentType DEF FieldTypes, SeenTypes, fields, seen
    <2> QED BY <1>2, <2>4, <2>5
<1>4. ASSUME NEW r \in Runs, ResetPassword(r)
      PROVE  FlowInv' /\ (LeftAlone => LeftAlone')
    <2> DEFINE n == Keyed("start", r, TypeOf[r], Definition)
    <2>1. /\ r \notin started /\ started' = started \cup {r} /\ reset' = reset \cup {r}
          /\ current' = r /\ workflowType' = TypeOf[r] /\ workflowKey' = Definition
          /\ calls' = calls \cup {n} /\ Silent
          /\ UNCHANGED <<secret, userName, sessionKey, frame, server, seen, listener,
                         aborting, silenced>>
        BY <1>4 DEF ResetPassword, MayStart
    <2>2. n \in Call /\ n.kind = "start" /\ n.run = r /\ n.reply = Nothing
        BY KeyedType, NamesOfTypes DEF Kinds
    <2> HIDE DEF n
    <2>3. server[r] = "absent"
        BY <1>4, <2>1, WorkflowAssumption DEF ResetPassword, NotYetThere
    <2>4. Sound(n, server)
        BY <2>2, <2>3 DEF Sound, Answer
    <2>5. CallTypes' /\ Quiet' /\ (LeftAlone => LeftAlone')
        BY <2>1, <2>2, <2>4, AddKeeps DEF seen, AllStarted
    <2>6. FieldTypes' /\ SeenTypes'
        BY <1>1, <2>1, SilentType, NamesOfTypes DEF FieldTypes, SeenTypes, seen
    <2> QED BY <1>2, <2>5, <2>6
<1>5. ASSUME NEW r \in Runs, ProcessActivity(r)
      PROVE  FlowInv' /\ (LeftAlone => LeftAlone')
    <2> DEFINE n == [Keyed("process", r, Nothing, workflowKey) EXCEPT !.secret = secret]
    <2>1. /\ calls' = calls \cup {n} /\ heard' = heard \ {r} /\ silenced' = silenced \ {r}
          /\ UNCHANGED <<fields, frame, server, asked, outcomes, swallowed, listener, started,
                         reset, current, aborting>>
          /\ Silent
        BY <1>5 DEF ProcessActivity
    <2>2. n \in Call /\ n.kind = "process" /\ n.run = r /\ n.reply = Nothing
        BY <1>1, NamesOfTypes DEF Keyed, Request, Call, Kinds, FieldTypes
    <2>3. r \in started
        BY <1>5 DEF ProcessActivity, AllStarted
    <2> HIDE DEF n
    <2>4. Sound(n, server)
        BY <2>2 DEF Sound, Answer
    <2>5. CallTypes' /\ Quiet' /\ (LeftAlone => LeftAlone')
        BY <2>1, <2>2, <2>3, <2>4, AddKeeps DEF fields, AllStarted, Starter
    <2>6. FieldTypes' /\ SeenTypes'
        BY <1>1, <2>1, SilentType DEF FieldTypes, SeenTypes, fields
    <2> QED BY <1>2, <2>5, <2>6
<1>6. ASSUME NEW r \in Runs, CancelWorkflow(r)
      PROVE  FlowInv' /\ (LeftAlone => LeftAlone')
    <2> DEFINE n == Keyed("abort", r, Nothing, workflowKey)
    <2>1. /\ r = current /\ calls' = calls \cup {n}
          /\ heard' = heard \ {r} /\ silenced' = silenced \ {r} /\ aborting' = aborting \cup {r}
          /\ swallowed' = swallowed \ {r}
          /\ UNCHANGED <<fields, frame, server, asked, outcomes, listener, started, reset, current>>
          /\ Silent
        BY <1>6 DEF CancelWorkflow
    <2>2. n \in Call /\ n.kind = "abort" /\ n.run = r /\ n.reply = Nothing
        BY <1>1, KeyedType, NamesOfTypes DEF Kinds, FieldTypes
    <2> HIDE DEF n
    <2>3. Sound(n, server) /\ r \in started
        BY <2>1, <2>2, WorkflowAssumption DEF Sound, Answer, AllStarted
    <2>4. CallTypes' /\ Quiet' /\ (LeftAlone => LeftAlone')
        BY <2>1, <2>2, <2>3, AddKeeps DEF fields, AllStarted, Starter
    <2>5. FieldTypes' /\ SeenTypes'
        BY <1>1, <2>1, SilentType DEF FieldTypes, SeenTypes, fields
    <2> QED BY <1>2, <2>4, <2>5
<1>7. ASSUME NEW r \in Runs, CalculateUserScore(r)
      PROVE  FlowInv' /\ (LeftAlone => LeftAlone')
    <2> DEFINE n == Keyed("score", r, Nothing, sessionKey)
    <2>1. /\ r = current /\ sessionKey # Nothing /\ calls' = calls \cup {n}
          /\ UNCHANGED <<fields, frame, server, seen, host>> /\ Silent
        BY <1>7 DEF CalculateUserScore
    <2>2. /\ n \in Call /\ n.kind = "score" /\ n.run = r /\ n.reply = Nothing
          /\ n.key = sessionKey
        BY <1>1, KeyedType, NamesOfTypes DEF Kinds, FieldTypes
    <2> HIDE DEF n
    <2>3. Sound(n, server) /\ r \in started
        BY <1>1, <2>1, <2>2, WorkflowAssumption
        DEF Sound, Answer, AllStarted, ServerFits, FieldTypes
    <2>4. CallTypes' /\ Quiet' /\ (LeftAlone => LeftAlone')
        BY <2>1, <2>2, <2>3, AddKeeps DEF fields, seen, host, AllStarted, Starter
    <2>5. FieldTypes' /\ SeenTypes'
        BY <1>1, <2>1, SilentType DEF FieldTypes, SeenTypes, fields, seen, host
    <2> QED BY <1>2, <2>4, <2>5
<1>8. CASE CancelAllRequests
    <2> DEFINE dead(c) == [c EXCEPT !.live = FALSE]
    <2>1. /\ calls' = {dead(c) : c \in {d \in calls : d.reply = Nothing}}
          /\ silenced' = silenced \cup {r \in Runs : Busy(r)}
          /\ UNCHANGED <<fields, frame, server, seen, listener, started, reset, current, aborting>>
          /\ Silent
          /\ frame = Nothing \/ "cancelInside" \in HostMay
        BY <1>8 DEF CancelAllRequests
    <2>2. \A c \in Call :
             /\ dead(c) \in Call /\ dead(c).kind = c.kind /\ dead(c).run = c.run
             /\ dead(c).key = c.key /\ dead(c).session = c.session
             /\ dead(c).failed = c.failed /\ dead(c).secret = c.secret
             /\ dead(c).live = FALSE /\ dead(c).reply = c.reply
        BY DeadType
    <2> HIDE DEF dead
    <2>3. \A d \in calls' : \E c \in calls : d = dead(c) /\ c \in Call
        BY <1>1, <2>1 DEF CallTypes
    <2>4. CallTypes'
        BY <1>1, <2>1, <2>2, <2>3 DEF CallTypes
    <2>5. FieldTypes' /\ SeenTypes'
        BY <1>1, <2>1, SilentType DEF FieldTypes, SeenTypes, fields, seen
    <2>6. AllStarted'
        <3>1. \A r \in Runs : Busy(r) => r \in started
            BY DEF Busy, AllStarted
        <3> QED BY <2>1, <2>2, <2>3, <3>1 DEF AllStarted, seen
    <2>7. OneChain'
        <3>1. ASSUME NEW a \in calls', NEW e \in calls', Starter(a), Starter(e), a.run = e.run
              PROVE  a = e
            <4>1. PICK c \in calls : a = dead(c) /\ c \in Call
                BY <2>3
            <4>2. PICK d \in calls : e = dead(d) /\ d \in Call
                BY <2>3
            <4>3. c = d
                BY <2>2, <3>1, <4>1, <4>2 DEF OneChain, Starter
            <4> QED BY <4>1, <4>2, <4>3
        <3>2. ASSUME frame' # Nothing, NEW a \in calls', Starter(a)
              PROVE  a.run # frame'.run
            BY <2>1, <2>2, <2>3, <3>2 DEF OneChain, Starter
        <3> QED BY <3>1, <3>2 DEF OneChain
    <2>8. NotYetThere'
        BY <2>1 DEF NotYetThere
    <2>9. ServerFits'
        <3>1. ASSUME NEW a \in calls' PROVE Sound(a, server')
            <4>1. PICK c \in calls : a = dead(c) /\ c \in Call
                BY <2>3
            <4>2. Sound(c, server)
                BY DEF ServerFits
            <4> QED BY <2>1, <2>2, <4>1, <4>2 DEF Sound, Answer
        <3> QED BY <2>1, <3>1 DEF ServerFits, fields
    <2>10. "cancelInside" \notin HostMay => LeftAlone'
        BY <2>1, <2>2, <2>3 DEF LeftAlone, CancelAllSilences
    <2> QED BY <1>2, <2>4, <2>5, <2>6, <2>7, <2>8, <2>9, <2>10 DEF Quiet
<1>9. CASE SetProcessListener
    <2>1. /\ listener' = ~listener /\ Silent
          /\ UNCHANGED <<fields, calls, frame, server, seen, started, reset, current, aborting, silenced>>
        BY <1>9 DEF SetProcessListener
    <2>2. FieldTypes' /\ SeenTypes' /\ CallTypes'
        BY <1>1, <2>1, SilentType DEF FieldTypes, SeenTypes, CallTypes, fields, seen
    <2>3. Quiet' /\ (LeftAlone => LeftAlone')
        BY <2>1 DEF Quiet, AllStarted, OneChain, NotYetThere, ServerFits, fields, seen,
                    LeftAlone, CancelAllSilences
    <2> QED BY <1>2, <2>2, <2>3
<1> QED BY <1>3, <1>4, <1>5, <1>6, <1>7, <1>8, <1>9 DEF Host
-----------------------------------------------------------------------------
LEMMA FlowInit == Init => FlowInv /\ LeftAlone
<1> SUFFICES ASSUME Init PROVE FlowInv /\ LeftAlone
    OBVIOUS
<1>1. FieldTypes
    BY NamesOfTypes DEF Init, FieldTypes
<1>2. SeenTypes
    BY DEF Init, SeenTypes, NoEvent
<1>3. CallTypes
    BY DEF Init, CallTypes, Status
<1>4. AllStarted /\ OneChain /\ LeftAlone
    BY DEF Init, AllStarted, OneChain, LeftAlone, CancelAllSilences
<1>5. NotYetThere /\ ServerFits
    BY DEF Init, NotYetThere, ServerFits
<1> QED BY <1>1, <1>2, <1>3, <1>4, <1>5, Types DEF FlowInv

LEMMA StutterKeeps ==
    ASSUME FlowInv, UNCHANGED vars
    PROVE  FlowInv' /\ (LeftAlone => LeftAlone')
<1> USE DEF vars, fields, seen, host
<1>1. TypeOK'
    BY DEF FlowInv, TypeOK
<1>2. AllStarted' /\ OneChain' /\ NotYetThere' /\ ServerFits'
    BY DEF FlowInv, AllStarted, OneChain, NotYetThere, ServerFits
<1>3. LeftAlone => LeftAlone'
    BY DEF LeftAlone, CancelAllSilences
<1> QED BY <1>1, <1>2, <1>3 DEF FlowInv

LEMMA FlowStep ==
    ASSUME FlowInv, [Next]_vars, "otherTasks" \notin ServerMay
    PROVE  FlowInv' /\ (LeftAlone /\ "cancelInside" \notin HostMay => LeftAlone')
BY HostKeeps, ServeKeeps, ResponseKeeps, ReturnKeeps, StutterKeeps DEF Next

\* The invariant of the protocol: types, the one chain of requests that starts
\* a workflow on the server, and what each request and each response under way
\* says about the server, for a server that gives a workflow in progress a task
\* of the expected type.
THEOREM FlowAlways == "otherTasks" \notin ServerMay => (Spec => []FlowInv)
<1> SUFFICES ASSUME "otherTasks" \notin ServerMay PROVE Spec => []FlowInv
    OBVIOUS
<1>1. FlowInv /\ [Next]_vars => FlowInv'
    BY FlowStep
<1>2. Init => FlowInv
    BY FlowInit
<1> QED BY <1>1, <1>2, PTL DEF Spec

\* The session a score is asked for is one of a workflow the server recorded as
\* done, however many workflows overlap, whichever of them fail, and whatever
\* the host cancels or detaches.
THEOREM ScoreAlwaysNeedsSuccess ==
    "otherTasks" \notin ServerMay => (Spec => []ScoreNeedsSuccess)
<1> SUFFICES ASSUME "otherTasks" \notin ServerMay PROVE Spec => []ScoreNeedsSuccess
    OBVIOUS
<1>1. FlowInv => ScoreNeedsSuccess
    BY DEF FlowInv, ServerFits, Sound, ScoreNeedsSuccess
<1>2. Spec => []FlowInv
    BY FlowAlways
<1> QED BY <1>1, <1>2, PTL

\* cancelAllRequests leaves no request of a workflow that could still call back,
\* with any number of workflows at a time, unless it is called from inside
\* onConfigLoaded, whose handler goes on and makes one.
THEOREM CancelAllAlwaysSilences ==
    "otherTasks" \notin ServerMay /\ "cancelInside" \notin HostMay
        => (Spec => []CancelAllSilences)
<1> SUFFICES ASSUME "otherTasks" \notin ServerMay, "cancelInside" \notin HostMay
             PROVE  Spec => []CancelAllSilences
    OBVIOUS
<1>1. FlowInv /\ LeftAlone /\ [Next]_vars => (FlowInv /\ LeftAlone)'
    BY FlowStep
<1>2. LeftAlone => CancelAllSilences
    BY DEF LeftAlone
<1> QED BY <1>1, <1>2, FlowInit, PTL DEF Spec
-----------------------------------------------------------------------------
(* One workflow at a time.                                                 *)

WellBehaved == HostMay \cap {"overlap", "cancelEarly"} = {}

LEMMA OwnHost ==
    ASSUME FlowInv, OneAtATime, WellBehaved, Host
    PROVE  OneAtATime'
<1> USE DEF FlowInv, OneAtATime, Own, WellBehaved
<1>1. FieldTypes /\ \A c \in calls : c \in Call /\ c.run \in Runs
    BY Types DEF CallTypes, Call
<1>2. ASSUME NEW r \in Runs, MayStart(r)
      PROVE  /\ r \notin asked /\ frame = Nothing
             /\ \A c \in calls : ~c.live \/ c.kind = "score"
    <2>1. \A t \in Runs : ~Busy(t)
        BY <1>2 DEF MayStart
    <2>2. \A c \in calls : ~c.live \/ c.kind = "score"
        BY <1>1, <2>1 DEF Busy
    <2>3. frame = Nothing
        <3>1. frame # Nothing => frame.run \in Runs
            BY DEF TypeOK, Call
        <3> QED BY <2>1, <3>1 DEF Busy
    <2> QED BY <1>2, <2>2, <2>3 DEF MayStart, AllStarted
<1>3. ASSUME NEW r \in Runs, StartWorkflow(r)
      PROVE  OneAtATime'
    <2> DEFINE n == Request("config", r, TypeOf[r])
    <2>1. /\ MayStart(r) /\ current' = r /\ calls' = calls \cup {n}
          /\ UNCHANGED <<fields, frame, seen>>
        BY <1>3 DEF StartWorkflow
    <2>2. n.kind = "config" /\ n.run = r
        BY RequestType, NamesOfTypes DEF Kinds
    <2> HIDE DEF n
    <2>3. r \notin asked /\ frame = Nothing /\ \A c \in calls : ~c.live \/ c.kind = "score"
        BY <1>2, <2>1
    <2> QED BY <2>1, <2>2, <2>3 DEF fields, seen
<1>4. ASSUME NEW r \in Runs, ResetPassword(r)
      PROVE  OneAtATime'
    <2> DEFINE n == Keyed("start", r, TypeOf[r], Definition)
    <2>1. /\ MayStart(r) /\ current' = r /\ calls' = calls \cup {n}
          /\ UNCHANGED <<frame, seen>>
        BY <1>4 DEF ResetPassword
    <2>2. n.kind = "start" /\ n.run = r
        BY KeyedType, NamesOfTypes DEF Kinds
    <2> HIDE DEF n
    <2>3. r \notin asked /\ frame = Nothing /\ \A c \in calls : ~c.live \/ c.kind = "score"
        BY <1>2, <2>1
    <2> QED BY <2>1, <2>2, <2>3 DEF seen
<1>5. ASSUME NEW r \in Runs, ProcessActivity(r)
      PROVE  OneAtATime'
    <2> DEFINE n == [Keyed("process", r, Nothing, workflowKey) EXCEPT !.secret = secret]
    <2>1. /\ calls' = calls \cup {n} /\ r = current /\ r \in asked
          /\ UNCHANGED <<fields, frame, asked, current>>
        BY <1>5 DEF ProcessActivity
    <2>2. n.kind = "process" /\ n.run = r /\ n.key = workflowKey /\ n.secret = secret
        BY <1>1 DEF Keyed, Request
    <2> HIDE DEF n
    <2> QED BY <2>1, <2>2 DEF fields
<1>6. ASSUME NEW r \in Runs, CancelWorkflow(r)
      PROVE  OneAtATime'
    <2> DEFINE n == Keyed("abort", r, Nothing, workflowKey)
    <2>1. /\ calls' = calls \cup {n} /\ r = current /\ r \in asked
          /\ UNCHANGED <<fields, frame, asked, current>>
        BY <1>6 DEF CancelWorkflow
    <2>2. n.kind = "abort" /\ n.run = r /\ n.key = workflowKey
        BY <1>1, KeyedType, NamesOfTypes DEF Kinds, FieldTypes
    <2> HIDE DEF n
    <2> QED BY <2>1, <2>2 DEF fields
<1>7. ASSUME NEW r \in Runs, CalculateUserScore(r)
      PROVE  OneAtATime'
    <2> DEFINE n == Keyed("score", r, Nothing, sessionKey)
    <2>1. calls' = calls \cup {n} /\ UNCHANGED <<fields, frame, seen, host>>
        BY <1>7 DEF CalculateUserScore
    <2>2. n.kind = "score"
        BY <1>1, KeyedType, NamesOfTypes DEF Kinds, FieldTypes
    <2> HIDE DEF n
    <2> QED BY <2>1, <2>2 DEF fields, seen, host
<1>8. CASE CancelAllRequests
    <2> DEFINE dead(c) == [c EXCEPT !.live = FALSE]
    <2>1. /\ calls' = {dead(c) : c \in {d \in calls : d.reply = Nothing}}
          /\ UNCHANGED <<fields, frame, seen, current>>
        BY <1>8 DEF CancelAllRequests
    <2>2. \A c \in Call :
             /\ dead(c).kind = c.kind /\ dead(c).run = c.run
             /\ dead(c).key = c.key /\ dead(c).secret = c.secret /\ dead(c).live = FALSE
        BY DeadType
    <2> HIDE DEF dead
    <2>3. \A d \in calls' : \E c \in calls : d = dead(c) /\ c \in Call
        BY <1>1, <2>1
    <2> QED BY <2>1, <2>2, <2>3 DEF fields, seen
<1>9. CASE SetProcessListener
    BY <1>9 DEF SetProcessListener, fields, seen
<1> QED BY <1>3, <1>4, <1>5, <1>6, <1>7, <1>8, <1>9 DEF Host

LEMMA OwnServe ==
    ASSUME FlowInv, OneAtATime, "otherTasks" \notin ServerMay, NEW c \in calls, Serve(c)
    PROVE  OneAtATime'
<1>1. UNCHANGED <<fields, frame, seen, host>>
    BY ServeShape
<1>2. PICK y \in Reply : Replied(c, y)
    BY ServeShape
<1> DEFINE d == [c EXCEPT !.reply = y]
<1>3. /\ d.kind = c.kind /\ d.run = c.run /\ d.key = c.key
      /\ d.secret = c.secret /\ d.live = c.live
    BY RepliedType DEF FlowInv, TypeOK
<1>4. calls' \subseteq (calls \ {c}) \cup {d}
    BY <1>2 DEF Replied
<1> HIDE DEF d
<1> QED BY <1>1, <1>3, <1>4 DEF OneAtATime, Own, fields, seen, host

\* What a response does to the key and the secret.
LEMMA ResponseKeys ==
    ASSUME NEW c \in calls, Response(c)
    PROVE  /\ frame = Nothing /\ c.live /\ asked \subseteq asked'
           /\ \/ /\ c.kind \in {"status", "start", "process"} /\ Answer(c)
                 /\ workflowKey' = c.reply.run /\ secret' = c.reply.run
              \/ UNCHANGED <<workflowKey, secret, asked>>
              \/ c.kind = "config" /\ UNCHANGED asked
<1>1. CASE OnConfig(c) \/ OnConfigUnreadable(c)
    BY <1>1 DEF OnConfig, OnConfigUnreadable, ConfigContinues, Handling, Tell, Silent, seen
<1>2. CASE OnWorkflowResponse(c)
    BY <1>2 DEF OnWorkflowResponse, HandleWorkflowProcessResponse, UpdateWorkflowData,
                Handling, Answer, Tell, seen
<1>3. CASE OnWorkflowNotFound(c) \/ OnScore(c)
    BY <1>3 DEF OnWorkflowNotFound, OnScore, Handling, fields, seen
<1>4. CASE OnComplete(c)
    BY <1>4 DEF OnComplete, Handling, Tell, seen
<1>5. CASE OnAbort(c) \/ OnError(c)
    BY <1>5 DEF OnAbort, OnError, Handling, Tell, fields, seen
<1> QED BY <1>1, <1>2, <1>3, <1>4, <1>5 DEF Response

LEMMA OwnResponse ==
    ASSUME FlowInv, OneAtATime, NEW c \in calls, Response(c)
    PROVE  OneAtATime'
<1> USE DEF FlowInv
<1>1. /\ \/ UNCHANGED frame /\ Responds(c)
         \/ frame' = c /\ frame = Nothing /\ c.kind = "config" /\ calls' = calls \ {c}
      /\ asked' \subseteq asked \cup {c.run}
      /\ UNCHANGED current
    BY ResponseShape DEF host
<1>2. /\ frame = Nothing /\ c.live /\ asked \subseteq asked'
      /\ \/ /\ c.kind \in {"status", "start", "process"} /\ Answer(c)
            /\ workflowKey' = c.reply.run /\ secret' = c.reply.run
         \/ UNCHANGED <<workflowKey, secret, asked>>
         \/ c.kind = "config" /\ UNCHANGED asked
    BY ResponseKeys
<1>3. /\ Own(c, current, asked)
      /\ c.kind \in {"status", "start", "process"} /\ Answer(c) => c.reply.run = c.run
    BY DEF OneAtATime, Own, ServerFits, Sound
<1>4. c.kind # "score" => c.run = current
    BY <1>2, <1>3 DEF Own
<1>5. current \in asked' => workflowKey' = current /\ secret' = current
    BY <1>1, <1>2, <1>3, <1>4 DEF OneAtATime, Own
<1>6. ASSUME NEW e \in calls, e # c
      PROVE  Own(e, current, asked')
    <2>1. Own(e, current, asked)
        BY DEF OneAtATime
    <2>2. e.kind = "config" => e.run \notin asked'
        <3>1. CASE asked' \subseteq asked
            BY <2>1, <3>1 DEF Own
        <3>2. CASE Starter(c) /\ e.kind = "config"
            BY <1>1, <1>6, <2>1, <3>2 DEF OneChain, Starter, Own
        <3>3. CASE c.kind = "process"
            BY <1>1, <1>3, <2>1, <3>3 DEF Own
        <3> QED BY <1>2, <3>1, <3>2, <3>3 DEF Starter
    <2>3. e.kind = "process" => e.run \in asked'
        BY <1>2, <2>1 DEF Own
    <2> QED BY <2>1, <2>2, <2>3 DEF Own
<1>7. ASSUME Responds(c)
      PROVE  \A e \in calls' : Own(e, current, asked')
    <2>1. PICK n \in Call :
            /\ calls' \subseteq (calls \ {c}) \cup {n}
            /\ n.run = c.run /\ Follows(n, c)
            /\ c.kind = "score" => n.kind = "score"
        BY <1>7 DEF Responds
    <2>2. CASE n # c
        BY <1>3, <1>4, <1>6, <2>1, <2>2 DEF Follows, Own
    <2>3. CASE n = c
        <3>1. Own(c, current, asked')
            BY <1>2, <1>3 DEF Own
        <3> QED BY <1>6, <2>1, <2>3, <3>1
    <2> QED BY <2>2, <2>3
<1>8. CASE UNCHANGED frame /\ Responds(c)
    BY <1>1, <1>2, <1>5, <1>7, <1>8 DEF OneAtATime
<1>9. CASE frame' = c /\ c.kind = "config" /\ calls' = calls \ {c}
    BY <1>1, <1>2, <1>3, <1>4, <1>5, <1>6, <1>9 DEF OneAtATime, Own
<1> QED BY <1>1, <1>8, <1>9

LEMMA OwnReturn ==
    ASSUME FlowInv, OneAtATime, OnConfigLoadedReturns
    PROVE  OneAtATime'
<1>1. /\ frame # Nothing /\ frame' = Nothing /\ ConfigContinues(frame, calls)
      /\ frame \in Call /\ frame.run = current /\ current \notin asked
      /\ frame.run \notin Checked => server[frame.run] = "absent"
    BY DEF FlowInv, OnConfigLoadedReturns, TypeOK, NotYetThere, OneAtATime
<1>2. PICK c \in Call : c = frame
    BY <1>1
<1>3. /\ \/ calls' = calls
         \/ \E n \in Call : /\ calls' = calls \cup {n}
                            /\ n.run = c.run /\ Sound(n, server)
                            /\ n.kind \in {"status", "start"}
      /\ UNCHANGED asked /\ UNCHANGED <<server, host, sessionKey>>
    BY <1>1, <1>2, ConfigShape
<1> QED BY <1>1, <1>2, <1>3 DEF OneAtATime, Own, host

LEMMA OwnStep ==
    ASSUME FlowInv, OneAtATime, WellBehaved, "otherTasks" \notin ServerMay, [Next]_vars
    PROVE  OneAtATime'
<1>1. CASE UNCHANGED vars
    BY <1>1 DEF OneAtATime, Own, vars, fields, seen, host
<1> QED BY <1>1, OwnHost, OwnServe, OwnResponse, OwnReturn DEF Next

\* What an outcome is reported on.
LEMMA ResponseOutcome ==
    ASSUME FlowInv, OneAtATime, "otherTasks" \notin ServerMay, NEW c \in calls, Response(c),
           NEW r \in Runs
    PROVE  \/ outcomes'[r] = outcomes[r]
           \/ \E what \in Final :
                 /\ outcomes'[r] = Append(outcomes[r], what)
                 /\ what = "completed" => server[r] = "done"
<1>1. /\ c \in Call /\ c.run \in Runs /\ outcomes \in [Runs -> Seq(Final)]
      /\ c.reply # Nothing => c.reply \in Reply
    BY DEF FlowInv, TypeOK, Call
<1>2. Sound(c, server) /\ Own(c, current, asked)
    BY DEF FlowInv, ServerFits, OneAtATime
<1>3. ASSUME NEW what, NEW type, Tell(what, c.run, type),
             what = "completed" /\ listener => server[c.run] = "done"
      PROVE  \/ outcomes'[r] = outcomes[r]
             \/ \E w \in Final : /\ outcomes'[r] = Append(outcomes[r], w)
                                 /\ w = "completed" => server[r] = "done"
    <2>1. CASE listener /\ what \in Final /\ r = c.run
        BY <1>1, <1>3, <2>1 DEF Tell
    <2>2. CASE ~(listener /\ what \in Final /\ r = c.run)
        BY <1>1, <1>3, <2>2 DEF Tell, seen
    <2> QED BY <2>1, <2>2
<1>4. CASE OnConfig(c) \/ OnConfigUnreadable(c)
    <2>1. outcomes' = outcomes
        BY <1>4 DEF OnConfig, OnConfigUnreadable, ConfigContinues, Tell, Silent, seen, Final
    <2> QED BY <2>1
<1>5. CASE OnWorkflowResponse(c)
    <2> DEFINE type == IF c.kind = "process" THEN workflowType ELSE c.type
               over == c.reply.status = "done" \/ ~c.reply.has
               told == c.reply.status = "abort" /\ listener
    <2>1. /\ c.kind \in {"status", "start", "process"} /\ Answer(c)
          /\ HandleWorkflowProcessResponse(c, type)
        BY <1>5 DEF OnWorkflowResponse, Handling, Answer
    <2>2. \/ Tell("aborted", c.run, type) \/ UNCHANGED seen
          \/ ~told /\ c.reply.status # "fail" /\ over /\ Tell("completed", c.run, type)
          \/ Tell("continue", c.run, type)
        BY <2>1 DEF HandleWorkflowProcessResponse
    <2>3. ~told /\ c.reply.status # "fail" /\ over /\ listener => server[c.run] = "done"
        <3>1. c.reply.status \in Status /\ c.reply.run = c.run
            BY <1>1, <1>2, <2>1 DEF Reply, Sound, Own, Answer
        <3>2. /\ c.reply.status \in {"done", "abort"} => server[c.run] = c.reply.status
              /\ c.reply.status = "process" => c.reply.has
            BY <1>2, <2>1, <3>1 DEF Sound
        <3> QED BY <3>1, <3>2 DEF Status
    <2> HIDE DEF type, over, told
    <2>4. CASE UNCHANGED seen
        BY <2>4 DEF seen
    <2>5. CASE Tell("aborted", c.run, type) \/ Tell("continue", c.run, type)
        BY <1>3, <2>5
    <2>6. CASE ~told /\ c.reply.status # "fail" /\ over /\ Tell("completed", c.run, type)
        BY <1>3, <2>3, <2>6
    <2> QED BY <2>2, <2>4, <2>5, <2>6
<1>6. CASE OnWorkflowNotFound(c) \/ OnScore(c)
    BY <1>6 DEF OnWorkflowNotFound, OnScore, seen
<1>7. CASE OnComplete(c)
    <2>1. /\ c.kind = "complete" /\ Answer(c)
          /\ Tell(IF c.failed THEN "failed" ELSE "completed", c.run, c.type)
        BY <1>7 DEF OnComplete, Handling, Answer
    <2>2. ~c.failed => server[c.run] = "done"
        BY <1>2, <2>1 DEF Sound, Own
    <2>3. CASE c.failed
        BY <1>3, <2>1, <2>3
    <2>4. CASE ~c.failed
        BY <1>3, <2>1, <2>2, <2>4
    <2> QED BY <2>3, <2>4
<1>8. CASE OnAbort(c) \/ OnError(c)
    BY <1>3, <1>8 DEF OnAbort, OnError
<1> QED BY <1>4, <1>5, <1>6, <1>7, <1>8 DEF Response

LEMMA CompletedStep ==
    ASSUME FlowInv, OneAtATime, CompletedIsDone, "otherTasks" \notin ServerMay, [Next]_vars
    PROVE  CompletedIsDone'
<1>1. outcomes \in [Runs -> Seq(Final)]
    BY DEF FlowInv, TypeOK
<1>2. CASE UNCHANGED <<outcomes, server>>
    BY <1>2 DEF CompletedIsDone
<1>3. ASSUME NEW c \in calls, Response(c)
      PROVE  CompletedIsDone'
    <2>1. UNCHANGED server
        BY <1>3, ResponseShape
    <2>2. SUFFICES ASSUME NEW r \in Runs, NEW i \in DOMAIN outcomes'[r],
                          outcomes'[r][i] = "completed"
                   PROVE  server[r] = "done"
        BY <2>1 DEF CompletedIsDone
    <2>3. CASE outcomes'[r] = outcomes[r]
        BY <2>2, <2>3 DEF CompletedIsDone
    <2>4. ASSUME NEW what \in Final, outcomes'[r] = Append(outcomes[r], what),
                 what = "completed" => server[r] = "done"
          PROVE  server[r] = "done"
        <3>1. outcomes[r] \in Seq(Final)
            BY <1>1
        <3>2. CASE i = Len(outcomes[r]) + 1
            BY <2>2, <2>4, <3>1, <3>2
        <3>3. CASE i # Len(outcomes[r]) + 1
            <4>1. i \in DOMAIN outcomes[r] /\ outcomes[r][i] = "completed"
                BY <2>2, <2>4, <3>1, <3>3
            <4> QED BY <4>1 DEF CompletedIsDone
        <3> QED BY <3>2, <3>3
    <2> QED BY <1>3, <2>3, <2>4, ResponseOutcome
<1>4. ASSUME NEW c \in calls, Serve(c)
      PROVE  CompletedIsDone'
    <2>1. UNCHANGED outcomes /\ \E y \in Reply : Replied(c, y)
        BY <1>4, ServeShape DEF seen
    <2>2. Moves(c)
        BY <2>1 DEF Replied
    <2> QED BY <2>1, <2>2 DEF CompletedIsDone, Moves
<1>5. CASE Host
    <2>1. UNCHANGED <<outcomes, server>>
        BY <1>5 DEF Host, StartWorkflow, ResetPassword, ProcessActivity, CancelWorkflow,
               CalculateUserScore, CancelAllRequests, SetProcessListener, seen
    <2> QED BY <1>2, <2>1
<1>6. CASE OnConfigLoadedReturns
    <2>1. UNCHANGED <<outcomes, server>>
        BY <1>6 DEF OnConfigLoadedReturns, ConfigContinues, Tell, seen, Final
    <2> QED BY <1>2, <2>1
<1>7. CASE UNCHANGED vars
    BY <1>2, <1>7 DEF vars, seen
<1> QED BY <1>3, <1>4, <1>5, <1>6, <1>7 DEF Next

LEMMA OwnInit == Init => OneAtATime /\ CompletedIsDone
<1> SUFFICES ASSUME Init PROVE OneAtATime /\ CompletedIsDone
    OBVIOUS
<1>1. OneAtATime
    BY DEF Init, OneAtATime
<1>2. CompletedIsDone
    BY DEF Init, CompletedIsDone
<1> QED BY <1>1, <1>2

LEMMA OwnAlways ==
    "otherTasks" \notin ServerMay /\ WellBehaved
        => (Spec => [](FlowInv /\ OneAtATime /\ CompletedIsDone))
<1> SUFFICES ASSUME "otherTasks" \notin ServerMay, WellBehaved
             PROVE  Spec => [](FlowInv /\ OneAtATime /\ CompletedIsDone)
    OBVIOUS
<1> DEFINE I == FlowInv /\ OneAtATime /\ CompletedIsDone
<1>1. I /\ [Next]_vars => I'
    BY FlowStep, OwnStep, CompletedStep
<1>2. Init => I
    BY FlowInit, OwnInit
<1> QED BY <1>1, <1>2, PTL DEF Spec

\* Although one set of fields serves all workflows, an activity's answer and a
\* cancelWorkflow are sent under the instance key of the workflow that asked,
\* and with its secret, if the host runs one workflow at a time and cancels none
\* that has not asked yet.
THEOREM AlwaysAnswersOwnWorkflow ==
    "otherTasks" \notin ServerMay /\ WellBehaved => (Spec => []AnswersOwnWorkflow)
<1> SUFFICES ASSUME "otherTasks" \notin ServerMay, WellBehaved
             PROVE  Spec => []AnswersOwnWorkflow
    OBVIOUS
<1>1. OneAtATime => AnswersOwnWorkflow
    BY DEF OneAtATime, Own, AnswersOwnWorkflow
<1>2. Spec => [](FlowInv /\ OneAtATime /\ CompletedIsDone)
    BY OwnAlways
<1> QED BY <1>1, <1>2, PTL

\* For the same hosts: a workflow is only reported as completed when the server
\* has recorded it as done, whatever is lost, cancelled or answered late.
THEOREM CompletedAlwaysDone ==
    "otherTasks" \notin ServerMay /\ WellBehaved => (Spec => []CompletedIsDone)
<1> SUFFICES ASSUME "otherTasks" \notin ServerMay, WellBehaved
             PROVE  Spec => []CompletedIsDone
    OBVIOUS
<1>1. Spec => [](FlowInv /\ OneAtATime /\ CompletedIsDone)
    BY OwnAlways
<1> QED BY <1>1, PTL
-----------------------------------------------------------------------------
(* The names in the callbacks.                                             *)

\* The user u and the type t are those of r.  resetPassword records no user.
Named(r, u, t) == r \in reset \/ (u = UserOf[r] /\ t = TypeOf[r])

\* What the listener of a request has captured is the type of its workflow.
Typed(c) == c.kind \in {"config", "status", "start", "complete"} =>
                c.run \in reset \/ c.type = TypeOf[c.run]

\* The fields name the workflow whose requests are under way once its
\* configuration is there, and the one that has asked for an activity.
FieldsName ==
    /\ \A c \in calls : Typed(c)
    /\ frame # Nothing => Typed(frame) /\ frame.kind = "config"
    /\ \A c \in calls : c.live /\ c.kind \notin {"config", "score"} =>
           Named(c.run, userName, workflowType)
    /\ current \in asked => Named(current, userName, workflowType)

NamesInv == FieldsName /\ CallbacksNameTheirWorkflow

\* A step without a callback has no callback with a wrong name.
LEMMA SilentNames == Silent => CallbacksNameTheirWorkflow'
BY WorkflowAssumption DEF Silent, NoEvent, CallbacksNameTheirWorkflow

\* A callback tells the user in the field and the type it is given.
LEMMA TellNames ==
    ASSUME NEW what, NEW r, NEW type, Tell(what, r, type), UNCHANGED reset,
           Named(r, userName, type) \/ (what = "error" /\ r \notin asked)
    PROVE  CallbacksNameTheirWorkflow'
<1>1. CASE listener
    <2>1. /\ event'.what = what /\ event'.run = r /\ event'.type = type
          /\ what # "continue" => event'.user = userName
          /\ what = "error" => asked' = asked
        BY <1>1 DEF Tell
    <2> QED BY <2>1 DEF Named, CallbacksNameTheirWorkflow
<1>2. CASE ~listener
    BY <1>2, SilentNames DEF Tell
<1> QED BY <1>1, <1>2

LEMMA NamesHost ==
    ASSUME FlowInv, OneAtATime, WellBehaved, FieldsName, Host
    PROVE  NamesInv'
<1>1. FieldTypes /\ \A c \in calls : c \in Call /\ c.run \in Runs
    BY Types DEF CallTypes, Call, FlowInv
<1>2. CallbacksNameTheirWorkflow'
    BY SilentNames DEF Host, StartWorkflow, ResetPassword, ProcessActivity, CancelWorkflow,
                       CalculateUserScore, CancelAllRequests, SetProcessListener
<1>3. ASSUME NEW r \in Runs, MayStart(r)
      PROVE  r \notin asked /\ \A c \in calls : ~c.live \/ c.kind = "score"
    <2>1. \A t \in Runs : ~Busy(t)
        BY <1>3 DEF MayStart, WellBehaved
    <2> QED BY <1>1, <1>3, <2>1 DEF MayStart, Busy, FlowInv, AllStarted
<1>4. ASSUME NEW r \in Runs, StartWorkflow(r)
      PROVE  FieldsName'
    <2> DEFINE n == Request("config", r, TypeOf[r])
    <2>1. /\ MayStart(r) /\ current' = r /\ calls' = calls \cup {n}
          /\ UNCHANGED <<fields, seen, reset, frame>>
        BY <1>4 DEF StartWorkflow
    <2>2. n.kind = "config" /\ n.run = r /\ n.type = TypeOf[r]
        BY RequestType, NamesOfTypes DEF Kinds
    <2> HIDE DEF n
    <2>3. Typed(n)
        BY <2>2 DEF Typed
    <2> QED BY <1>3, <2>1, <2>2, <2>3 DEF fields, seen, FieldsName, Typed
<1>5. ASSUME NEW r \in Runs, ResetPassword(r)
      PROVE  FieldsName'
    <2> DEFINE n == Keyed("start", r, TypeOf[r], Definition)
    <2>1. /\ MayStart(r) /\ reset' = reset \cup {r} /\ current' = r /\ calls' = calls \cup {n}
          /\ UNCHANGED <<seen, frame>>
        BY <1>5 DEF ResetPassword
    <2>2. n.run = r
        BY KeyedType, NamesOfTypes DEF Kinds
    <2> HIDE DEF n
    <2> QED BY <1>3, <2>1, <2>2 DEF seen, FieldsName, Named, Typed
<1>6. ASSUME NEW n, calls' = calls \cup {n}, n.kind \in {"score", "process", "abort"},
             n.kind = "score" \/ (n.run = current /\ current \in asked),
             UNCHANGED <<fields, asked, reset, current, frame>>
      PROVE  FieldsName'
    BY <1>6 DEF fields, FieldsName, Named, Typed
<1>7. ASSUME NEW r \in Runs, ProcessActivity(r)
      PROVE  FieldsName'
    <2> DEFINE n == [Keyed("process", r, Nothing, workflowKey) EXCEPT !.secret = secret]
    <2>1. /\ calls' = calls \cup {n} /\ r = current /\ r \in asked
          /\ UNCHANGED <<fields, asked, reset, current, frame>>
        BY <1>7 DEF ProcessActivity, WellBehaved
    <2>2. n.run = r /\ n.kind = "process"
        BY DEF Keyed, Request
    <2> HIDE DEF n
    <2> QED BY <1>6, <2>1, <2>2
<1>8. ASSUME NEW r \in Runs, CancelWorkflow(r)
      PROVE  FieldsName'
    <2> DEFINE n == Keyed("abort", r, Nothing, workflowKey)
    <2>1. /\ calls' = calls \cup {n} /\ r = current /\ r \in asked
          /\ UNCHANGED <<fields, asked, reset, current, frame>>
        BY <1>8 DEF CancelWorkflow, WellBehaved
    <2>2. n.run = r /\ n.kind = "abort"
        BY DEF Keyed, Request
    <2> HIDE DEF n
    <2> QED BY <1>6, <2>1, <2>2
<1>9. ASSUME NEW r \in Runs, CalculateUserScore(r)
      PROVE  FieldsName'
    <2> DEFINE n == Keyed("score", r, Nothing, sessionKey)
    <2>1. calls' = calls \cup {n} /\ UNCHANGED <<fields, seen, host, frame>>
        BY <1>9 DEF CalculateUserScore
    <2>2. n.kind = "score"
        BY DEF Keyed, Request
    <2> HIDE DEF n
    <2> QED BY <1>6, <2>1, <2>2 DEF seen, host
<1>10. ASSUME CancelAllRequests PROVE FieldsName'
    <2> DEFINE dead(c) == [c EXCEPT !.live = FALSE]
    <2>1. /\ calls' = {dead(c) : c \in {d \in calls : d.reply = Nothing}}
          /\ UNCHANGED <<fields, seen, reset, current, frame>>
        BY <1>10 DEF CancelAllRequests
    <2>2. \A c \in Call : /\ dead(c).live = FALSE /\ dead(c).kind = c.kind
                          /\ dead(c).run = c.run /\ dead(c).type = c.type
        BY DeadType
    <2> HIDE DEF dead
    <2>3. \A d \in calls' : ~d.live /\ Typed(d)
        BY <1>1, <2>1, <2>2 DEF FieldsName, Typed
    <2> QED BY <2>1, <2>3 DEF fields, seen, FieldsName, Typed, Named
<1>11. ASSUME SetProcessListener PROVE FieldsName'
    BY <1>11 DEF SetProcessListener, fields, seen, FieldsName, Typed, Named
<1>12. FieldsName'
    BY <1>4, <1>5, <1>7, <1>8, <1>9, <1>10, <1>11 DEF Host
<1> QED BY <1>2, <1>12 DEF NamesInv

LEMMA NamesServe ==
    ASSUME FlowInv, FieldsName, "otherTasks" \notin ServerMay, NEW c \in calls, Serve(c)
    PROVE  NamesInv'
<1>1. UNCHANGED <<fields, frame, seen, host>> /\ Silent
    BY ServeShape
<1>2. PICK y \in Reply : Replied(c, y)
    BY ServeShape
<1> DEFINE d == [c EXCEPT !.reply = y]
<1>3. d.kind = c.kind /\ d.run = c.run /\ d.live = c.live /\ d.type = c.type
    BY RepliedType DEF FlowInv, TypeOK
<1>4. calls' \subseteq (calls \ {c}) \cup {d}
    BY <1>2 DEF Replied
<1> HIDE DEF d
<1>5. Typed(d) /\ (d.live /\ d.kind \notin {"config", "score"} =>
                       Named(d.run, userName, workflowType))
    BY <1>3 DEF FieldsName, Typed
<1>6. FieldsName'
    BY <1>1, <1>4, <1>5 DEF FieldsName, fields, seen, host, Typed, Named
<1> QED BY <1>1, <1>6, SilentNames DEF NamesInv

\* The configuration's handler records user and type before it asks for more.
LEMMA NamesConfig ==
    ASSUME FlowInv, OneAtATime, FieldsName, NEW c \in Call, c.run = current, c.run \notin asked,
           Typed(c), c.kind = "config", frame' = Nothing,
           NEW rest \in SUBSET calls, ConfigContinues(c, rest)
    PROVE  NamesInv'
<1>1. UNCHANGED <<server, reset, current>>
    BY ConfigCases DEF host
<1>2. CASE /\ calls' = rest /\ Silent
           /\ UNCHANGED <<userName, workflowType, asked>>
    BY <1>1, <1>2, SilentNames DEF FieldsName, NamesInv, Typed, Named
<1>3. CASE /\ calls' = rest /\ Tell("error", c.run, workflowType)
           /\ UNCHANGED <<userName, workflowType>>
    <2>1. UNCHANGED asked
        BY <1>3 DEF Tell, seen
    <2>2. CallbacksNameTheirWorkflow'
        BY <1>1, <1>3, TellNames
    <2> QED BY <1>1, <1>3, <2>1, <2>2 DEF FieldsName, NamesInv, Typed, Named
<1>4. CASE /\ userName' = UserOf[c.run] /\ workflowType' = c.type
           /\ calls' = rest \cup {AfterConfig(c)} /\ Silent /\ UNCHANGED seen
    <2> DEFINE n == AfterConfig(c)
    <2>1. n.run = c.run /\ n.type = c.type
        BY AfterConfigType
    <2>2. calls' = rest \cup {n}
        BY <1>4
    <2> HIDE DEF n
    <2>3. Named(current, userName', workflowType')
        BY <1>4 DEF Named, Typed
    <2>4. \A e \in calls' : e.live /\ e.kind \notin {"config", "score"} => e.run = current
        BY <2>1, <2>2 DEF OneAtATime, Own
    <2>5. \A e \in calls' : Typed(e)
        <3>1. Typed(n)
            BY <2>1 DEF Typed
        <3> QED BY <2>2, <3>1 DEF FieldsName
    <2>6. FieldsName'
        BY <1>1, <1>4, <2>3, <2>4, <2>5 DEF FieldsName, Typed, Named
    <2> QED BY <1>4, <2>6, SilentNames DEF NamesInv
<1> QED BY <1>2, <1>3, <1>4, ConfigCases

LEMMA NamesReturn ==
    ASSUME FlowInv, OneAtATime, FieldsName, OnConfigLoadedReturns
    PROVE  NamesInv'
<1>1. /\ frame # Nothing /\ frame' = Nothing /\ ConfigContinues(frame, calls)
      /\ frame \in Call
    BY DEF OnConfigLoadedReturns, FlowInv, TypeOK
<1>2. frame.run = current /\ frame.run \notin asked /\ Typed(frame) /\ frame.kind = "config"
    BY <1>1 DEF OneAtATime, FieldsName
<1> QED BY <1>1, <1>2, NamesConfig

LEMMA NamesResponse ==
    ASSUME FlowInv, OneAtATime, FieldsName, NEW c \in calls, Response(c)
    PROVE  NamesInv'
<1>1. /\ \/ UNCHANGED frame /\ Responds(c)
         \/ frame' = c /\ c.kind = "config" /\ calls' = calls \ {c}
      /\ asked' \subseteq asked \cup {c.run} /\ UNCHANGED <<current, reset>> /\ c.live
      /\ frame = Nothing /\ c \in Call
    BY ResponseShape, ResponseKeys DEF host, FlowInv, TypeOK
<1>2. /\ c.kind # "score" => c.run = current
      /\ c.kind = "config" => c.run \notin asked
      /\ c.kind \notin {"config", "score"} => Named(c.run, userName, workflowType)
      /\ Typed(c)
    BY <1>1 DEF OneAtATime, Own, FieldsName
<1>3. \A e \in calls' : e \in calls \/ e.run = c.run
    BY <1>1 DEF Responds
<1>4. ASSUME c.kind \notin {"config", "score"}, UNCHANGED userName,
             Named(c.run, userName, workflowType'), \A e \in calls' : Typed(e)
      PROVE  FieldsName'
    <2>1. \A e \in calls' : e.live /\ e.kind \notin {"config", "score"} => e.run = current
        BY <1>2, <1>3, <1>4 DEF OneAtATime, Own
    <2>2. Named(current, userName', workflowType')
        BY <1>2, <1>4
    <2>3. frame' = Nothing
        BY <1>1, <1>4
    <2> QED BY <1>1, <1>4, <2>1, <2>2, <2>3 DEF FieldsName, Named, Typed
<1>5. ASSUME calls' = calls \ {c}, UNCHANGED <<fields, asked>>,
             frame' = Nothing \/ (frame' = c /\ c.kind = "config")
      PROVE  FieldsName'
    BY <1>1, <1>2, <1>5 DEF FieldsName, fields, Named, Typed
<1>6. CASE OnConfig(c)
    <2>1. c.kind = "config"
        BY <1>6 DEF OnConfig
    <2>2. CASE listener
        <3>1. /\ calls' = calls \ {c} /\ frame' = c /\ UNCHANGED <<fields, asked>>
              /\ event'.what = "config"
            BY <1>6, <2>2 DEF OnConfig, seen
        <3>2. FieldsName'
            BY <1>5, <2>1, <3>1
        <3> QED BY <3>1, <3>2 DEF NamesInv, CallbacksNameTheirWorkflow
    <2>3. CASE ~listener
        <3> DEFINE rest == calls \ {c}
        <3>1. ConfigContinues(c, rest) /\ rest \in SUBSET calls /\ frame' = Nothing
            BY <1>1, <1>6, <2>3 DEF OnConfig
        <3> HIDE DEF rest
        <3> QED BY <1>1, <1>2, <2>1, <3>1, NamesConfig
    <2> QED BY <2>2, <2>3
<1>7. CASE OnWorkflowResponse(c)
    <2> DEFINE type == IF c.kind = "process" THEN workflowType ELSE c.type
    <2>1. /\ c.kind \in {"status", "start", "process"}
          /\ HandleWorkflowProcessResponse(c, type)
          /\ workflowType' \in {type, workflowType}
        BY <1>7 DEF OnWorkflowResponse
    <2>2. Named(c.run, userName, type) /\ Named(c.run, userName, workflowType)
        BY <1>2, <2>1 DEF Named, Typed
    <2> HIDE DEF type
    <2>3. UNCHANGED userName /\ (Silent \/ \E what : Tell(what, c.run, type))
        BY <2>1 DEF HandleWorkflowProcessResponse, UpdateWorkflowData
    <2>4. CallbacksNameTheirWorkflow'
        BY <1>1, <2>2, <2>3, SilentNames, TellNames
    <2>5. \A e \in calls' : Typed(e)
        <3>1. \/ calls' = calls \ {c}
              \/ \E failed \in BOOLEAN :
                     calls' = (calls \ {c}) \cup {Completion(c.run, c.reply.run, type, failed)}
            BY <2>1 DEF HandleWorkflowProcessResponse
        <3>2. ASSUME NEW failed \in BOOLEAN PROVE Typed(Completion(c.run, c.reply.run, type, failed))
            <4> DEFINE n == Completion(c.run, c.reply.run, type, failed)
            <4>1. n.run = c.run /\ n.type = type
                BY DEF Completion, Keyed, Request
            <4> HIDE DEF n
            <4>2. Typed(n)
                BY <2>2, <4>1 DEF Typed, Named
            <4> QED BY <4>2 DEF n
        <3> QED BY <3>1, <3>2 DEF FieldsName
    <2>6. FieldsName'
        BY <1>4, <2>1, <2>2, <2>3, <2>5
    <2> QED BY <2>4, <2>6 DEF NamesInv
<1>8. CASE OnWorkflowNotFound(c)
    <2> DEFINE n == Keyed("start", c.run, c.type, workflowKey)
    <2>1. /\ c.kind = "status" /\ workflowType' = c.type /\ UNCHANGED userName /\ Silent
          /\ calls' = (calls \ {c}) \cup {n}
        BY <1>8 DEF OnWorkflowNotFound, Handling, FlowInv, ServerFits, Sound
    <2>2. n.run = c.run /\ n.type = c.type
        BY DEF Keyed, Request
    <2> HIDE DEF n
    <2>3. Named(c.run, userName, workflowType')
        BY <1>2, <2>1 DEF Named, Typed
    <2>4. Typed(n)
        BY <1>2, <2>1, <2>2 DEF Typed
    <2>5. \A e \in calls' : Typed(e)
        BY <2>1, <2>4 DEF FieldsName
    <2> QED BY <1>4, <2>1, <2>3, <2>5, SilentNames DEF NamesInv
<1>9. CASE OnComplete(c)
    <2>1. c.kind = "complete" /\ calls' = calls \ {c} /\ UNCHANGED <<userName, workflowType>>
        BY <1>9 DEF OnComplete
    <2>2. \E what : Tell(what, c.run, c.type)
        BY <1>9 DEF OnComplete
    <2>3. Named(c.run, userName, workflowType) /\ Named(c.run, userName, c.type)
        BY <1>2, <2>1 DEF Named, Typed
    <2>4. FieldsName'
        BY <1>4, <2>1, <2>3 DEF FieldsName
    <2> QED BY <1>1, <2>2, <2>3, <2>4, TellNames DEF NamesInv
<1>10. CASE OnAbort(c) \/ OnError(c)
    <2>1. /\ c.kind # "score" /\ calls' = calls \ {c} /\ UNCHANGED <<fields, frame>>
          /\ \/ c.kind # "config" /\ \E what : Tell(what, c.run, workflowType)
             \/ Tell("error", c.run, workflowType)
        BY <1>10 DEF OnAbort, OnError
    <2>2. CallbacksNameTheirWorkflow'
        BY <1>1, <1>2, <2>1, TellNames
    <2>3. FieldsName'
        <3>1. CASE c.kind = "config"
            <4>1. Tell("error", c.run, workflowType)
                BY <2>1, <3>1
            <4>2. UNCHANGED asked
                BY <4>1 DEF Tell, seen
            <4> QED BY <1>1, <1>5, <2>1, <4>2
        <3>2. CASE c.kind # "config"
            BY <1>2, <1>4, <2>1, <3>2 DEF fields, FieldsName
        <3> QED BY <3>1, <3>2
    <2> QED BY <2>2, <2>3 DEF NamesInv
<1>11. CASE OnScore(c) \/ OnConfigUnreadable(c)
    <2>1. calls' = calls \ {c} /\ UNCHANGED <<fields, asked, frame>> /\ Silent
        BY <1>11 DEF OnScore, OnConfigUnreadable, seen
    <2> QED BY <1>1, <1>5, <2>1, SilentNames DEF NamesInv
<1> QED BY <1>6, <1>7, <1>8, <1>9, <1>10, <1>11 DEF Response

LEMMA NamesStep ==
    ASSUME FlowInv, OneAtATime, WellBehaved, "otherTasks" \notin ServerMay, NamesInv, [Next]_vars
    PROVE  NamesInv'
<1>1. CASE UNCHANGED vars
    BY <1>1 DEF NamesInv, FieldsName, CallbacksNameTheirWorkflow, Typed, Named,
               vars, fields, seen, host
<1> QED BY <1>1, NamesHost, NamesServe, NamesResponse, NamesReturn DEF Next, NamesInv

\* Every callback carries the user and the type its workflow was started with,
\* although both are fields that every workflow overwrites, if the host runs one
\* workflow at a time: responses of an earlier one come to nothing.
THEOREM CallbacksAlwaysNameTheirWorkflow ==
    "otherTasks" \notin ServerMay /\ WellBehaved => (Spec => []CallbacksNameTheirWorkflow)
<1> SUFFICES ASSUME "otherTasks" \notin ServerMay, WellBehaved
             PROVE  Spec => []CallbacksNameTheirWorkflow
    OBVIOUS
<1>1. Spec => [](FlowInv /\ OneAtATime /\ CompletedIsDone)
    BY OwnAlways
<1>2. Init => NamesInv
    BY WorkflowAssumption DEF Init, NamesInv, FieldsName, CallbacksNameTheirWorkflow, NoEvent
<1>3. FlowInv /\ OneAtATime /\ NamesInv /\ [Next]_vars => NamesInv'
    BY NamesStep
<1>4. NamesInv => CallbacksNameTheirWorkflow
    BY DEF NamesInv
<1> QED BY <1>1, <1>2, <1>3, <1>4, PTL DEF Spec
-----------------------------------------------------------------------------
(* One outcome.                                                            *)

Flows(c) == c.live /\ c.kind # "score"

\* A workflow that was not cancelled goes on in one request, or in the host's
\* onConfigLoaded; one with an outcome does not go on.
OneFlow ==
    /\ \A c, d \in calls :
           Flows(c) /\ Flows(d) /\ c.run = d.run /\ c.run \notin aborting => c = d
    /\ frame # Nothing /\ frame.run \notin aborting =>
           \A c \in calls : Flows(c) => c.run # frame.run
    /\ \A r \in Runs \ aborting :
           outcomes[r] # <<>> =>
               /\ r \in started
               /\ \A c \in calls : Flows(c) => c.run # r
               /\ frame # Nothing => frame.run # r

\* A response either leads on or gives an outcome, for its own workflow.
LEMMA ResponseEnds ==
    ASSUME FlowInv, NEW c \in calls, Response(c)
    PROVE  /\ outcomes' = outcomes \/ calls' = calls \ {c}
           /\ \A r \in Runs : r # c.run => outcomes'[r] = outcomes[r]
           /\ event'.run \in {c.run, Nothing}
           /\ c.kind = "score" => UNCHANGED outcomes /\ event'.run = Nothing
           /\ c.kind = "config" => UNCHANGED outcomes
           /\ frame = Nothing /\ c.live
<1>0. /\ outcomes \in [Runs -> Seq(Final)] /\ c.run \in Runs
    BY DEF FlowInv, TypeOK, Call
<1>1. ASSUME NEW what, NEW type, Tell(what, c.run, type)
      PROVE  /\ \A r \in Runs : r # c.run => outcomes'[r] = outcomes[r]
             /\ event'.run \in {c.run, Nothing}
             /\ what \notin Final => UNCHANGED outcomes
    <2>1. CASE listener
        BY <1>0, <1>1, <2>1 DEF Tell
    <2>2. CASE ~listener
        BY <1>1, <2>2 DEF Tell, Silent, NoEvent, seen
    <2> QED BY <2>1, <2>2
<1>2. ASSUME Silent
      PROVE  event'.run = Nothing
    BY <1>2 DEF Silent, NoEvent
<1>3. frame = Nothing /\ c.live
    BY ResponseKeys
<1>4. CASE OnConfig(c)
    <2>1. c.kind = "config"
        BY <1>4 DEF OnConfig
    <2>2. CASE listener
        BY <1>3, <1>4, <2>1, <2>2 DEF OnConfig, seen
    <2>3. CASE ~listener
        <3>1. Tell("error", c.run, workflowType) \/ (Silent /\ UNCHANGED outcomes)
            BY <1>4, <2>3 DEF OnConfig, ConfigContinues, seen
        <3> QED BY <1>1, <1>2, <1>3, <2>1, <3>1 DEF Final
    <2> QED BY <2>2, <2>3
<1>5. CASE OnWorkflowResponse(c)
    <2> DEFINE type == IF c.kind = "process" THEN workflowType ELSE c.type
    <2>1. c.kind \notin {"score", "config"} /\ HandleWorkflowProcessResponse(c, type)
        BY <1>5 DEF OnWorkflowResponse
    <2> HIDE DEF type
    <2>2. \/ Silent /\ UNCHANGED seen
          \/ /\ calls' = calls \ {c}
             /\ \E what \in {"aborted", "completed", "continue"} : Tell(what, c.run, type)
        BY <2>1 DEF HandleWorkflowProcessResponse
    <2> QED BY <1>1, <1>2, <1>3, <2>1, <2>2 DEF seen
<1>6. CASE OnWorkflowNotFound(c) \/ OnConfigUnreadable(c)
    BY <1>2, <1>3, <1>6 DEF OnWorkflowNotFound, OnConfigUnreadable, seen
<1>7. CASE OnScore(c)
    BY <1>2, <1>3, <1>7 DEF OnScore, seen
<1>8. CASE OnComplete(c)
    <2>1. /\ c.kind = "complete" /\ calls' = calls \ {c}
          /\ \E what : Tell(what, c.run, c.type)
        BY <1>8 DEF OnComplete
    <2> QED BY <1>1, <1>3, <2>1
<1>9. CASE OnAbort(c)
    <2>1. /\ c.kind = "abort" /\ calls' = calls \ {c}
          /\ Tell("aborted", c.run, workflowType)
        BY <1>9 DEF OnAbort
    <2> QED BY <1>1, <1>3, <2>1
<1>10. CASE OnError(c)
    <2>1. /\ c.kind # "score" /\ calls' = calls \ {c}
          /\ Tell("error", c.run, workflowType)
        BY <1>10 DEF OnError
    <2> QED BY <1>1, <1>3, <2>1 DEF Final
<1> QED BY <1>4, <1>5, <1>6, <1>7, <1>8, <1>9, <1>10 DEF Response

LEMMA FinalStep ==
    ASSUME FlowInv, OneFlow, "otherTasks" \notin ServerMay, Next
    PROVE  \A r \in Runs \ aborting : outcomes[r] # <<>> =>
               outcomes'[r] = outcomes[r] /\ event'.run # r
<1> SUFFICES ASSUME NEW r \in Runs \ aborting, outcomes[r] # <<>>
             PROVE  outcomes'[r] = outcomes[r] /\ event'.run # r
    OBVIOUS
<1>1. /\ \A c \in calls : Flows(c) => c.run # r
      /\ frame # Nothing => frame.run # r
    BY DEF OneFlow
<1>2. CASE UNCHANGED outcomes /\ Silent
    BY <1>2, WorkflowAssumption DEF Silent, NoEvent
<1>3. CASE Host
    BY <1>2, <1>3 DEF Host, StartWorkflow, ResetPassword, ProcessActivity, CancelWorkflow,
           CalculateUserScore, CancelAllRequests, SetProcessListener, seen
<1>4. ASSUME NEW c \in calls, Serve(c)
      PROVE  outcomes'[r] = outcomes[r] /\ event'.run # r
    BY <1>2, <1>4, ServeShape DEF seen
<1>5. ASSUME NEW c \in calls, Response(c)
      PROVE  outcomes'[r] = outcomes[r] /\ event'.run # r
    <2>1. CASE c.kind = "score"
        BY <1>5, <2>1, ResponseEnds, WorkflowAssumption
    <2>2. CASE c.kind # "score"
        <3>1. c.run # r
            BY <1>1, <1>5, <2>2, ResponseEnds DEF Flows
        <3> QED BY <1>5, <3>1, ResponseEnds, WorkflowAssumption
    <2> QED BY <2>1, <2>2
<1>6. CASE OnConfigLoadedReturns
    <2>1. /\ frame.run # r /\ frame \in Call /\ frame.run \in Runs
          /\ Tell("error", frame.run, workflowType) \/ (Silent /\ UNCHANGED outcomes)
        BY <1>1, <1>6 DEF OnConfigLoadedReturns, ConfigContinues, FlowInv, TypeOK, Call, seen
    <2>2. UNCHANGED outcomes /\ event'.run \in {frame.run, Nothing}
        BY <2>1 DEF Tell, Silent, NoEvent, seen, Final
    <2> QED BY <2>1, <2>2, WorkflowAssumption
<1> QED BY <1>3, <1>4, <1>5, <1>6 DEF Next

LEMMA FlowsHost ==
    ASSUME FlowInv, OneFlow, Host
    PROVE  OneFlow'
<1> USE DEF FlowInv, OneFlow, Flows
<1>1. /\ FieldTypes /\ \A c \in calls : c \in Call /\ c.run \in Runs /\ c.run \in started
      /\ frame # Nothing => frame.run \in Runs /\ frame.run \in started
    BY Types DEF TypeOK, CallTypes, Call, AllStarted
<1>2. ASSUME NEW r \in Runs, NEW n, n.run = r, r \notin started, started' = started \cup {r},
             calls' = calls \cup {n}, UNCHANGED <<frame, outcomes, aborting>>
      PROVE  OneFlow'
    BY <1>1, <1>2
<1>3. ASSUME NEW r \in Runs, StartWorkflow(r) PROVE OneFlow'
    <2> DEFINE n == Request("config", r, TypeOf[r])
    <2>1. /\ r \notin started /\ started' = started \cup {r} /\ calls' = calls \cup {n}
          /\ UNCHANGED <<frame, outcomes, aborting>>
        BY <1>3 DEF StartWorkflow, MayStart, seen
    <2>2. n.run = r
        BY RequestType, NamesOfTypes DEF Kinds
    <2> HIDE DEF n
    <2> QED BY <1>2, <2>1, <2>2
<1>4. ASSUME NEW r \in Runs, ResetPassword(r) PROVE OneFlow'
    <2> DEFINE n == Keyed("start", r, TypeOf[r], Definition)
    <2>1. /\ r \notin started /\ started' = started \cup {r} /\ calls' = calls \cup {n}
          /\ UNCHANGED <<frame, outcomes, aborting>>
        BY <1>4 DEF ResetPassword, MayStart, seen
    <2>2. n.run = r
        BY KeyedType, NamesOfTypes DEF Kinds
    <2> HIDE DEF n
    <2> QED BY <1>2, <2>1, <2>2
<1>5. ASSUME NEW r \in Runs, ProcessActivity(r) PROVE OneFlow'
    <2> DEFINE n == [Keyed("process", r, Nothing, workflowKey) EXCEPT !.secret = secret]
    <2>1. /\ calls' = calls \cup {n} /\ outcomes[r] = <<>> /\ ~Busy(r)
          /\ UNCHANGED <<frame, outcomes, aborting, started>>
        BY <1>5 DEF ProcessActivity
    <2>2. n.run = r
        BY DEF Keyed, Request
    <2> HIDE DEF n
    <2>3. /\ \A c \in calls : c.live /\ c.kind # "score" => c.run # r
          /\ frame # Nothing => frame.run # r
        BY <2>1 DEF Busy
    <2> QED BY <1>1, <2>1, <2>2, <2>3
<1>6. ASSUME NEW r \in Runs, CancelWorkflow(r) PROVE OneFlow'
    <2> DEFINE n == Keyed("abort", r, Nothing, workflowKey)
    <2>1. /\ calls' = calls \cup {n} /\ aborting' = aborting \cup {r}
          /\ UNCHANGED <<frame, outcomes, started>>
        BY <1>6 DEF CancelWorkflow
    <2>2. n.run = r
        BY <1>1, KeyedType, NamesOfTypes DEF Kinds, FieldTypes
    <2> HIDE DEF n
    <2> QED BY <1>1, <2>1, <2>2
<1>7. ASSUME NEW r \in Runs, CalculateUserScore(r) PROVE OneFlow'
    <2> DEFINE n == Keyed("score", r, Nothing, sessionKey)
    <2>1. calls' = calls \cup {n} /\ UNCHANGED <<frame, outcomes, started, aborting>>
        BY <1>7 DEF CalculateUserScore, seen, host
    <2>2. n.kind = "score"
        BY <1>1, KeyedType, NamesOfTypes DEF Kinds, FieldTypes
    <2> HIDE DEF n
    <2> QED BY <1>1, <2>1, <2>2
<1>8. CASE CancelAllRequests
    <2> DEFINE dead(c) == [c EXCEPT !.live = FALSE]
    <2>1. /\ calls' = {dead(c) : c \in {d \in calls : d.reply = Nothing}}
          /\ UNCHANGED <<frame, outcomes, started, aborting>>
        BY <1>8 DEF CancelAllRequests, seen
    <2>2. \A c \in Call : dead(c).live = FALSE
        BY DeadType
    <2> HIDE DEF dead
    <2>3. \A d \in calls' : d.live = FALSE
        BY <1>1, <2>1, <2>2
    <2> QED BY <2>1, <2>3
<1>9. CASE SetProcessListener
    BY <1>9 DEF SetProcessListener, seen
<1> QED BY <1>3, <1>4, <1>5, <1>6, <1>7, <1>8, <1>9 DEF Host

\* A request that flows is replaced by at most one of its workflow.
LEMMA FlowsReplaced ==
    ASSUME OneFlow, NEW c \in calls, NEW n, calls' \subseteq (calls \ {c}) \cup {n},
           n.run = c.run, Flows(n) => Flows(c),
           UNCHANGED <<frame, outcomes, aborting, started>>
    PROVE  OneFlow'
<1>1. ASSUME NEW d \in calls', NEW e \in calls', Flows(d), Flows(e), d.run = e.run,
             d.run \notin aborting'
      PROVE  d = e
    BY <1>1 DEF OneFlow
<1>2. ASSUME frame' # Nothing, frame'.run \notin aborting', NEW d \in calls', Flows(d)
      PROVE  d.run # frame'.run
    BY <1>2 DEF OneFlow
<1>3. ASSUME NEW r \in Runs \ aborting', outcomes'[r] # <<>>
      PROVE  /\ r \in started'
             /\ \A d \in calls' : Flows(d) => d.run # r
             /\ frame' # Nothing => frame'.run # r
    BY <1>3 DEF OneFlow
<1> QED BY <1>1, <1>2, <1>3 DEF OneFlow

LEMMA FlowsServe ==
    ASSUME FlowInv, OneFlow, "otherTasks" \notin ServerMay, NEW c \in calls, Serve(c)
    PROVE  OneFlow'
<1>1. UNCHANGED <<frame, outcomes, aborting, started>>
    BY ServeShape DEF seen, host
<1>2. PICK y \in Reply : Replied(c, y)
    BY ServeShape
<1> DEFINE d == [c EXCEPT !.reply = y]
<1>3. d.kind = c.kind /\ d.run = c.run /\ d.live = c.live
    BY RepliedType DEF FlowInv, TypeOK
<1>4. calls' \subseteq (calls \ {c}) \cup {d}
    BY <1>2 DEF Replied
<1> HIDE DEF d
<1> QED BY <1>1, <1>3, <1>4, FlowsReplaced DEF Flows

LEMMA FlowsResponse ==
    ASSUME FlowInv, OneFlow, NEW c \in calls, Response(c)
    PROVE  OneFlow'
<1>1. /\ outcomes' = outcomes \/ calls' = calls \ {c}
      /\ \A r \in Runs : r # c.run => outcomes'[r] = outcomes[r]
      /\ c.kind \in {"score", "config"} => UNCHANGED outcomes
      /\ frame = Nothing /\ c.live
    BY ResponseEnds
<1>2. /\ \/ UNCHANGED frame /\ Responds(c)
         \/ frame' = c /\ frame = Nothing /\ c.kind = "config" /\ calls' = calls \ {c}
      /\ UNCHANGED <<aborting, started>>
    BY ResponseShape DEF host
<1>3. c.run \in started /\ outcomes' \in [Runs -> Seq(Final)]
    BY ResponseShape DEF FlowInv, AllStarted, SeenTypes
<1>4. CASE UNCHANGED frame /\ outcomes' = outcomes /\ Responds(c)
    <2>1. PICK n \in Call :
            /\ calls' \subseteq (calls \ {c}) \cup {n} /\ n.run = c.run
            /\ c.kind = "score" => n.kind = "score"
        BY <1>4 DEF Responds
    <2> QED BY <1>1, <1>2, <1>4, <2>1, FlowsReplaced DEF Flows
<1>5. CASE calls' = calls \ {c} /\ c.kind # "score"
    <2>1. \A d \in calls' : Flows(d) => d.run # c.run \/ c.run \in aborting
        BY <1>1, <1>5 DEF OneFlow, Flows
    <2>2. frame' # Nothing => frame' = c /\ UNCHANGED outcomes
        <3>1. CASE UNCHANGED frame
            BY <1>1, <3>1
        <3>2. CASE c.kind = "config"
            BY <1>1, <1>2, <3>2
        <3> QED BY <1>2, <3>1, <3>2
    <2>3. frame' # Nothing /\ c.run \notin aborting => outcomes[c.run] = <<>>
        BY <1>1, <1>5 DEF OneFlow, Flows, FlowInv, TypeOK, Call
    <2> QED BY <1>1, <1>2, <1>3, <1>5, <2>1, <2>2, <2>3 DEF OneFlow
<1> QED BY <1>1, <1>2, <1>4, <1>5

LEMMA FlowsReturn ==
    ASSUME FlowInv, OneFlow, OnConfigLoadedReturns
    PROVE  OneFlow'
<1>1. /\ frame # Nothing /\ frame' = Nothing /\ ConfigContinues(frame, calls)
      /\ frame \in Call /\ frame.run \in Runs
      /\ frame.run \notin Checked => server[frame.run] = "absent"
    BY DEF FlowInv, OnConfigLoadedReturns, TypeOK, NotYetThere, Call
<1>2. PICK c \in Call : c = frame
    BY <1>1
<1>3. /\ \/ calls' = calls
         \/ \E n \in Call : calls' = calls \cup {n} /\ n.run = c.run
      /\ UNCHANGED host
    BY <1>1, <1>2, ConfigShape
<1>4. UNCHANGED outcomes
    BY <1>1 DEF ConfigContinues, Tell, seen, Final
<1>5. UNCHANGED <<aborting, started>>
    BY <1>3 DEF host
<1>6. CASE calls' = calls
    BY <1>1, <1>4, <1>5, <1>6 DEF OneFlow
<1>7. ASSUME NEW n, calls' = calls \cup {n}, n.run = c.run PROVE OneFlow'
    <2>1. \A d, e \in calls' :
             Flows(d) /\ Flows(e) /\ d.run = e.run /\ d.run \notin aborting => d = e
        BY <1>1, <1>2, <1>7 DEF OneFlow
    <2>2. \A r \in Runs \ aborting : outcomes[r] # <<>> =>
             r \in started /\ \A d \in calls' : Flows(d) => d.run # r
        BY <1>1, <1>2, <1>7 DEF OneFlow
    <2> QED BY <1>1, <1>4, <1>5, <2>1, <2>2 DEF OneFlow
<1> QED BY <1>3, <1>6, <1>7

LEMMA FlowsStep ==
    ASSUME FlowInv, OneFlow, "otherTasks" \notin ServerMay, [Next]_vars
    PROVE  OneFlow'
<1>1. CASE UNCHANGED vars
    BY <1>1 DEF OneFlow, vars, seen, host
<1> QED BY <1>1, FlowsHost, FlowsServe, FlowsResponse, FlowsReturn DEF Next

\* A workflow the host has not cancelled is reported to end once, and nothing
\* is heard of it afterwards: no second outcome, no error, no activity.  It
\* holds for every host, also for one that overlaps workflows or detaches.
THEOREM OutcomeAlwaysFinal ==
    "otherTasks" \notin ServerMay => (Spec => OutcomeIsFinal)
<1> SUFFICES ASSUME "otherTasks" \notin ServerMay PROVE Spec => OutcomeIsFinal
    OBVIOUS
<1> DEFINE Stays == \A r \in Runs \ aborting : outcomes[r] # <<>> =>
                        outcomes'[r] = outcomes[r] /\ event'.run # r
<1>1. Init => FlowInv /\ OneFlow
    <2>1. Init => OneFlow
        BY DEF Init, OneFlow
    <2> QED BY <2>1, FlowInit
<1>2. FlowInv /\ OneFlow /\ [Next]_vars => (FlowInv /\ OneFlow)'
    BY FlowStep, FlowsStep
<1>3. FlowInv /\ OneFlow /\ [Next]_vars => [Stays]_vars
    BY FinalStep
<1> QED BY <1>1, <1>2, <1>3, PTL DEF Spec, OutcomeIsFinal
=============================================================================
