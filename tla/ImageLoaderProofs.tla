-------------------------- MODULE ImageLoaderProofs --------------------------
(***************************************************************************)
(* Theorems about the image loader for any number of images and callers:   *)
(* whose answer is whose, and that the batched delivery, disturbed by      *)
(* cancels and listeners, calls nobody twice.                              *)
(***************************************************************************)
EXTENDS ImageLoader, SequenceTheorems, FiniteSetTheorems, TLAPS

-----------------------------------------------------------------------------
(* Sequences.                                                              *)

LEMMA Updated ==
    ASSUME NEW S, NEW s \in Seq(S), NEW i \in DOMAIN s, NEW e \in S, NEW t,
           t = [s EXCEPT ![i] = e]
    PROVE  /\ t \in Seq(S) /\ Len(t) = Len(s) /\ DOMAIN t = DOMAIN s
           /\ t[i] = e /\ \A j \in DOMAIN s : j # i => t[j] = s[j]
BY ExceptSeq

LEMMA Appended ==
    ASSUME NEW S, NEW s \in Seq(S), NEW e \in S, NEW t, t = Append(s, e)
    PROVE  /\ t \in Seq(S) /\ Len(t) = Len(s) + 1
           /\ DOMAIN t = DOMAIN s \cup {Len(t)} /\ Len(t) \notin DOMAIN s
           /\ t[Len(t)] = e /\ \A j \in DOMAIN s : t[j] = s[j]
<1>1. /\ t \in Seq(S) /\ Len(t) = Len(s) + 1
      /\ \A j \in 1..Len(s) : t[j] = s[j]
      /\ t[Len(s) + 1] = e
    BY AppendProperties
<1>2. DOMAIN s = 1..Len(s) /\ Len(s) \in Nat /\ DOMAIN t = 1..(Len(s) + 1)
    BY <1>1
<1> QED BY <1>1, <1>2

LEMMA Narrowed ==
    ASSUME NEW s \in Seq(Nat), NEW S, \A i \in DOMAIN s : s[i] \in S
    PROVE  s \in Seq(S)
<1>1. PICK n \in Nat : s \in [1..n -> Nat]
    BY SeqDef
<1>2. s \in [1..n -> S]
    BY <1>1
<1> QED BY <1>2, SeqDef

\* t is s without its p-th element.
IsCut(t, s, p) ==
    /\ Len(t) = Len(s) - 1
    /\ \A i \in 1..(p - 1) : t[i] = s[i]
    /\ \A i \in p..(Len(s) - 1) : t[i] = s[i + 1]

LEMMA CutAt ==
    ASSUME NEW s \in Seq(Nat), NEW p \in 1..Len(s), NEW t,
           t = SubSeq(s, 1, p - 1) \o SubSeq(s, p + 1, Len(s))
    PROVE  t \in Seq(Nat) /\ IsCut(t, s, p)
<1>0. PICK n \in Nat : n = Len(s)
    OBVIOUS
<1>10. p \in 1..n /\ t = SubSeq(s, 1, p - 1) \o SubSeq(s, p + 1, n)
    BY <1>0
<1> DEFINE a == SubSeq(s, 1, p - 1)
           b == SubSeq(s, p + 1, n)
<1>1. \A i \in 1..n : s[i] \in Nat
    BY <1>0
<1>2. /\ a \in Seq(Nat) /\ Len(a) = p - 1
      /\ \A i \in 1..(p - 1) : a[i] = s[i]
    <2>1. \A i \in 1..(p - 1) : s[i] \in Nat
        BY <1>1, <1>10
    <2>2. a \in Seq(Nat)
        BY <1>10, <2>1, SubSeqProperties
    <2>3. Len(a) = p - 1
        BY <1>10, SubSeqProperties
    <2>4. \A i \in 1..(p - 1) : a[i] = s[i]
        BY <1>10, SubSeqProperties
    <2> QED BY <2>2, <2>3, <2>4
<1>3. /\ b \in Seq(Nat) /\ Len(b) = n - p
      /\ \A i \in 1..(n - p) : b[i] = s[p + i]
    <2>1. \A i \in (p + 1)..n : s[i] \in Nat
        BY <1>1, <1>10
    <2>2. b \in Seq(Nat)
        BY <1>10, <2>1, SubSeqProperties
    <2>3. Len(b) = n - p
        BY <1>10, SubSeqProperties
    <2>4. \A i \in 1..(n - p) : b[i] = s[p + i]
        BY <1>10, SubSeqProperties
    <2> QED BY <2>2, <2>3, <2>4
<1> HIDE DEF a, b
<1>4. /\ a \o b \in Seq(Nat)
      /\ Len(a \o b) = Len(a) + Len(b)
      /\ \A i \in 1 .. Len(a) + Len(b) : (a \o b)[i] =
                  IF i <= Len(a) THEN a[i] ELSE b[i - Len(a)]
    <2>1. a \in Seq(Nat) /\ b \in Seq(Nat)
        BY <1>2, <1>3
    <2> QED BY <2>1, ConcatProperties, Zenon
<1>5. t = a \o b
    BY <1>10 DEF a, b
<1>6. /\ t \in Seq(Nat) /\ Len(t) = Len(a) + Len(b)
      /\ \A i \in 1 .. Len(a) + Len(b) : t[i] =
                  IF i <= Len(a) THEN a[i] ELSE b[i - Len(a)]
    BY <1>4, <1>5, Zenon
<1>7. /\ t \in Seq(Nat) /\ Len(t) = n - 1
      /\ \A i \in 1..(n - 1) : t[i] =
                  IF i <= p - 1 THEN a[i] ELSE b[i - (p - 1)]
    <2>1. Len(a) = p - 1 /\ Len(b) = n - p
        BY <1>2, <1>3, <1>10
    <2>2. p \in Nat /\ Len(a) + Len(b) = n - 1
        BY <1>10, <2>1
    <2> QED BY <1>6, <2>1, <2>2, Zenon
<1>8. ASSUME NEW i \in 1..(p - 1) PROVE t[i] = s[i]
    <2>1. i \in 1..(n - 1) /\ i <= p - 1
        BY <1>10
    <2> QED BY <1>2, <1>7, <2>1, Zenon
<1>9. ASSUME NEW i \in p..(n - 1) PROVE t[i] = s[i + 1]
    <2>1. i \in 1..(n - 1) /\ ~(i <= p - 1)
        BY <1>10
    <2>2. i - (p - 1) \in 1..(n - p) /\ p + (i - (p - 1)) = i + 1
        BY <1>10
    <2>3. t[i] = b[i - (p - 1)]
        BY <1>7, <2>1, Zenon
    <2> QED BY <1>3, <2>2, <2>3, Zenon
<1> QED BY <1>0, <1>7, <1>8, <1>9 DEF IsCut

\* Nothing is in s twice.
Distinct(s) == \A i, j \in DOMAIN s : s[i] = s[j] => i = j

LEMMA Removed ==
    ASSUME NEW s \in Seq(Nat), Distinct(s), NEW c, NEW t, t = RemoveFirst(s, c)
    PROVE  /\ t \in Seq(Nat)
           /\ \/ t = s /\ \A i \in DOMAIN s : s[i] # c
              \/ \E p \in 1..Len(s) : s[p] = c /\ IsCut(t, s, p)
<1>1. CASE \A i \in 1..Len(s) : s[i] # c
    <2>1. t = s
        BY <1>1 DEF RemoveFirst
    <2>2. DOMAIN s = 1..Len(s)
        OBVIOUS
    <2> QED BY <1>1, <2>1, <2>2, Zenon
<1>2. CASE \E i \in 1..Len(s) : s[i] = c
    <2>1. PICK p \in 1..Len(s) : s[p] = c
        BY <1>2
    <2>2. {i \in 1..Len(s) : s[i] = c} = {p}
        BY <2>1 DEF Distinct
    <2>3. p \in Nat /\ p <= p
        OBVIOUS
    <2>4. Min({p}) = p
        BY <2>3 DEF Min
    <2>5. SelectInSeq(s, LAMBDA v : v = c) = p
        BY <2>2, <2>4 DEF SelectInSeq
    <2>6. t = SubSeq(s, 1, p - 1) \o SubSeq(s, p + 1, Len(s))
        BY <1>2, <2>5 DEF RemoveFirst, RemoveAt
    <2>7. t \in Seq(Nat) /\ IsCut(t, s, p)
        BY <2>6, CutAt, Zenon
    <2> QED BY <2>1, <2>7, Zenon
<1> QED BY <1>1, <1>2

\* What remains of s when c goes.
Rest(t, s, c) ==
    /\ t \in Seq(Nat) /\ Distinct(t)
    /\ \A i \in DOMAIN t : \E j \in DOMAIN s : t[i] = s[j]
    /\ (\A i \in DOMAIN s : s[i] # c) => t = s

LEMMA RemovedFits ==
    ASSUME NEW s \in Seq(Nat), Distinct(s), NEW c, NEW t, t = RemoveFirst(s, c)
    PROVE  Rest(t, s, c)
<1>1. t \in Seq(Nat)
    BY Removed
<1>2. CASE t = s
    BY <1>1, <1>2 DEF Rest
<1>3. CASE \E p \in 1..Len(s) : s[p] = c /\ IsCut(t, s, p)
    <2>1. PICK n \in Nat : n = Len(s) /\ DOMAIN s = 1..n
        OBVIOUS
    <2>2. PICK p \in 1..n : /\ s[p] = c /\ Len(t) = n - 1
                            /\ \A i \in 1..(p - 1) : t[i] = s[i]
                            /\ \A i \in p..(n - 1) : t[i] = s[i + 1]
        BY <1>3, <2>1 DEF IsCut
    <2>3. DOMAIN t = 1..(n - 1)
        BY <1>1, <2>2
    <2> DEFINE at(i) == IF i < p THEN i ELSE i + 1
    <2>4. ASSUME NEW i \in 1..(n - 1) PROVE at(i) \in 1..n /\ t[i] = s[at(i)]
        BY <2>2
    <2>5. \A i, j \in 1..(n - 1) : at(i) = at(j) => i = j
        OBVIOUS
    <2> HIDE DEF at
    <2>6. Distinct(t)
        <3> SUFFICES ASSUME NEW i \in 1..(n - 1), NEW j \in 1..(n - 1), t[i] = t[j]
                     PROVE  i = j
            BY <2>3, Zenon DEF Distinct
        <3>1. s[at(i)] = s[at(j)] /\ at(i) \in DOMAIN s /\ at(j) \in DOMAIN s
            BY <2>1, <2>4, Zenon
        <3> QED BY <2>5, <3>1, Zenon DEF Distinct
    <2>7. \A i \in DOMAIN t : \E j \in DOMAIN s : t[i] = s[j]
        BY <2>1, <2>3, <2>4
    <2> QED BY <1>1, <2>1, <2>2, <2>6, <2>7 DEF Rest
<1> QED BY <1>2, <1>3, Removed, Zenon

-----------------------------------------------------------------------------
(* Types.                                                                  *)

USE LoaderAssumption DEF ContainerIds, RequestIds

\* A container is in the list of its own request only, and once.
Belong(r) ==
    LET list == requests[r].list IN
    /\ Distinct(list)
    /\ \A i \in DOMAIN list : list[i] \in DOMAIN containers /\ containers[list[i]].req = r

TypeInv ==
    /\ TypeOK /\ Len(requests) <= Len(containers)
    /\ \A c \in DOMAIN containers : containers[c].req \in 0..Len(requests)
    /\ \A r \in DOMAIN requests : Belong(r)
    /\ \A j \in DOMAIN run.todo : run.todo[j] \in DOMAIN requests

LEMMA TypeInit == Init => TypeInv
<1> SUFFICES ASSUME Init PROVE TypeInv
    OBVIOUS
<1>1. containers = <<>> /\ requests = <<>>
    BY DEF Init
<1>2. containers \in Seq(Container) /\ requests \in Seq(Request)
    BY <1>1
<1>3. Len(containers) = 0 /\ Len(requests) = 0 /\ DOMAIN containers = {} /\ DOMAIN requests = {}
    BY <1>1
<1>4. run \in [todo : Seq(RequestIds), at : Nat, listChanged : BOOLEAN, mapChanged : BOOLEAN]
    BY DEF Init, NotRunning
<1>5. ~Running
    BY DEF Init, Running, Idle
<1>6. inFlight \in [Keys -> 0..Len(requests)] /\ batched \in [Keys -> 0..Len(requests)]
    BY <1>3 DEF Init
<1>7. TypeOK
    <2>1. Len(containers) <= MaxContainers /\ Len(requests) <= MaxContainers
        BY <1>3
    <2> QED BY <1>2, <1>4, <1>5, <1>6, <2>1 DEF Init, TypeOK
<1>8. DOMAIN run.todo = {}
    BY DEF Init, NotRunning
<1> QED BY <1>3, <1>7, <1>8 DEF TypeInv

\* What no step undoes.
ContainersKept ==
    \A c \in DOMAIN containers :
        c \in DOMAIN containers' /\ containers'[c].req = containers[c].req

\* There is a new container.
Made(r, b, v) ==
    /\ containers' \in Seq(Container) /\ Len(containers') <= MaxContainers
    /\ Len(containers') = Len(containers) + 1
    /\ DOMAIN containers' = DOMAIN containers \cup {Len(containers')}
    /\ Len(containers') \notin DOMAIN containers
    /\ containers'[Len(containers')] = [req |-> r, cancelled |-> b, called |-> v]
    /\ \A c \in DOMAIN containers : containers'[c] = containers[c]
    /\ ContainersKept

LEMMA ContainerMade ==
    ASSUME TypeInv, NEW r \in 0..MaxContainers, NEW b \in BOOLEAN, NEW v \in {"no", "image", "error"},
           NewContainer(r, b, v)
    PROVE  Made(r, b, v)
<1> DEFINE e == [req |-> r, cancelled |-> b, called |-> v]
<1>1. e \in Container
    BY DEF Container
<1>2. containers \in Seq(Container) /\ Len(containers) < MaxContainers /\ containers' = Append(containers, e)
    BY DEF TypeInv, TypeOK, NewContainer
<1> HIDE DEF e
<1>3. /\ containers' \in Seq(Container) /\ Len(containers') = Len(containers) + 1
      /\ DOMAIN containers' = DOMAIN containers \cup {Len(containers')}
      /\ Len(containers') \notin DOMAIN containers
      /\ containers'[Len(containers')] = e
      /\ \A c \in DOMAIN containers : containers'[c] = containers[c]
    BY <1>1, <1>2, Appended
<1>4. Len(containers) + 1 <= MaxContainers
    BY <1>2
<1> QED BY <1>3, <1>4 DEF e, Made, ContainersKept

LEMMA BelongKept ==
    ASSUME ContainersKept, NEW r, Belong(r), requests'[r].list = requests[r].list
    PROVE  Belong(r)'
BY DEF ContainersKept, Belong

LEMMA RequestTyped ==
    ASSUME TypeInv, NEW r \in DOMAIN requests
    PROVE  requests[r] \in Request /\ r \in RequestIds
<1>1. requests \in Seq(Request) /\ Len(requests) <= MaxContainers
    BY DEF TypeInv, TypeOK
<1> QED BY <1>1

LEMMA RequestChanged ==
    ASSUME TypeInv, NEW r \in DOMAIN requests, NEW q \in Request,
           requests' = [requests EXCEPT ![r] = q]
    PROVE  /\ requests' \in Seq(Request) /\ Len(requests') = Len(requests)
           /\ DOMAIN requests' = DOMAIN requests
           /\ requests'[r] = q /\ \A j \in DOMAIN requests : j # r => requests'[j] = requests[j]
<1>1. requests \in Seq(Request)
    BY DEF TypeInv, TypeOK
<1> QED BY <1>1, Updated

\* The new container joins the request r.
JoinedBy(r) ==
    /\ requests' \in Seq(Request) /\ Len(requests') = Len(requests)
    /\ DOMAIN requests' = DOMAIN requests
    /\ requests'[r] = [requests[r] EXCEPT !.list = Append(@, Len(containers'))]
    /\ \A j \in DOMAIN requests : j # r => requests'[j] = requests[j]

LEMMA JoinEffect ==
    ASSUME TypeInv, NEW k \in Keys, NEW early \in BOOLEAN, GetJoins(k, early),
           NEW r, r = inFlight[k]
    PROVE  r \in DOMAIN requests /\ JoinedBy(r) /\ Made(r, early, "no")
<1>1. r \in DOMAIN requests
    BY DEF TypeInv, TypeOK, GetJoins
<1>2. NewContainer(r, early, "no")
    BY DEF GetJoins
<1>3. r \in 0..MaxContainers
    BY <1>1, RequestTyped
<1>4. Len(containers') = Len(containers) + 1 /\ Len(containers') \in ContainerIds
    <2>1. Len(containers') = Len(containers) + 1 /\ Len(containers') <= MaxContainers
        BY <1>2, <1>3, ContainerMade DEF Made
    <2>2. Len(containers) \in Nat
        BY DEF TypeInv, TypeOK
    <2> QED BY <2>1, <2>2
<1> DEFINE n == Len(containers')
           q == [requests[r] EXCEPT !.list = Append(@, n)]
<1>5. q \in Request
    <2>1. requests[r] \in Request
        BY <1>1, RequestTyped
    <2>2. Append(requests[r].list, n) \in Seq(ContainerIds)
        BY <1>4, <2>1, Appended DEF Request
    <2> QED BY <2>1, <2>2 DEF Request
<1>6. requests' = [requests EXCEPT ![r] = q]
    BY <1>1, <1>4 DEF GetJoins
<1> HIDE DEF q
<1>7. /\ requests' \in Seq(Request) /\ Len(requests') = Len(requests)
      /\ DOMAIN requests' = DOMAIN requests
      /\ requests'[r] = q /\ \A j \in DOMAIN requests : j # r => requests'[j] = requests[j]
    BY <1>1, <1>5, <1>6, RequestChanged
<1>8. Made(r, early, "no")
    BY <1>2, <1>3, ContainerMade
<1> QED BY <1>1, <1>7, <1>8 DEF q, JoinedBy

\* The new container starts the request r.
StartedAs(r, k) ==
    /\ requests' \in Seq(Request) /\ Len(requests') = r
    /\ DOMAIN requests' = DOMAIN requests \cup {r} /\ r \notin DOMAIN requests
    /\ requests'[r] = [key |-> k, list |-> <<Len(containers')>>, error |-> FALSE,
                       by |-> 0, state |-> "live"]
    /\ \A j \in DOMAIN requests : requests'[j] = requests[j]

LEMMA StartEffect ==
    ASSUME TypeInv, NEW k \in Keys, NEW early \in BOOLEAN, GetRequests(k, early),
           NEW r, r = Len(requests) + 1
    PROVE  StartedAs(r, k) /\ Made(r, early, "no") /\ r \in 1..MaxContainers
<1>1. /\ requests \in Seq(Request) /\ Len(requests) \in Nat /\ Len(containers) \in Nat
      /\ Len(requests) <= Len(containers)
    BY DEF TypeInv, TypeOK
<1>2. NewContainer(r, early, "no") /\ Len(containers) < MaxContainers
    BY DEF GetRequests, NewContainer
<1>3. r \in 1..MaxContainers
    BY <1>1, <1>2
<1>4. Len(containers') = Len(containers) + 1 /\ Len(containers') \in ContainerIds
    <2>1. r \in 0..MaxContainers
        BY <1>3
    <2>2. Len(containers') = Len(containers) + 1 /\ Len(containers') <= MaxContainers
        BY <1>2, <2>1, ContainerMade DEF Made
    <2> QED BY <1>1, <2>2
<1> DEFINE q == [key |-> k, list |-> <<Len(containers')>>, error |-> FALSE,
             by |-> 0, state |-> "live"]
<1>5. q \in Request
    BY <1>4 DEF Request
<1>6. requests' = Append(requests, q)
    BY <1>4 DEF GetRequests
<1> HIDE DEF q
<1>7. /\ requests' \in Seq(Request) /\ Len(requests') = r
      /\ DOMAIN requests' = DOMAIN requests \cup {r} /\ r \notin DOMAIN requests
      /\ requests'[r] = q /\ \A j \in DOMAIN requests : requests'[j] = requests[j]
    BY <1>1, <1>5, <1>6, Appended
<1>8. Made(r, early, "no")
    <2>1. r \in 0..MaxContainers
        BY <1>3
    <2> QED BY <1>2, <2>1, ContainerMade
<1> QED BY <1>3, <1>7, <1>8 DEF q, StartedAs

\* The container c leaves the request r.
LeftBy(c, r) ==
    LET list == requests[r].list
        rest == requests'[r].list IN
    /\ requests' \in Seq(Request) /\ Len(requests') = Len(requests)
    /\ DOMAIN requests' = DOMAIN requests
    /\ \A j \in DOMAIN requests : j # r => requests'[j] = requests[j]
    /\ requests'[r].key = requests[r].key /\ requests'[r].error = requests[r].error
    /\ requests'[r].by = requests[r].by
    /\ requests'[r].state = IF rest = <<>> /\ requests[r].state \in Open THEN "cancelled"
                            ELSE requests[r].state
    /\ Distinct(rest)
    /\ \A i \in DOMAIN rest : \E j \in DOMAIN list : rest[i] = list[j]
    /\ c \notin ToSet(list) => rest = list

LEMMA WithoutEffect ==
    ASSUME TypeInv, NEW r \in DOMAIN requests, NEW c, requests' = Without(c, r)
    PROVE  LeftBy(c, r)
<1>0. PICK rest : rest = RemoveFirst(requests[r].list, c)
    OBVIOUS
<1> DEFINE q == [requests[r] EXCEPT
                  !.list = rest,
                  !.state = IF rest = <<>> /\ @ \in Open THEN "cancelled" ELSE @]
<1>1. requests[r] \in Request
    BY RequestTyped
<1>2. requests[r].list \in Seq(ContainerIds) /\ requests[r].list \in Seq(Nat)
    BY <1>1 DEF Request
<1>3. Distinct(requests[r].list)
    BY DEF TypeInv, Belong
<1>4. /\ rest \in Seq(Nat) /\ Distinct(rest)
      /\ \A i \in DOMAIN rest : \E j \in DOMAIN requests[r].list : rest[i] = requests[r].list[j]
      /\ (\A i \in DOMAIN requests[r].list : requests[r].list[i] # c) => rest = requests[r].list
    <2>1. PICK s \in Seq(Nat) : s = requests[r].list
        BY <1>2
    <2>2. Distinct(s) /\ rest = RemoveFirst(s, c)
        BY <1>0, <1>3, <2>1
    <2>3. Rest(rest, s, c)
        BY <2>2, RemovedFits, Zenon
    <2> QED BY <2>1, <2>3 DEF Rest
<1>5. rest \in Seq(ContainerIds)
    <2>1. \A j \in DOMAIN requests[r].list : requests[r].list[j] \in ContainerIds
        BY <1>2
    <2>2. \A i \in DOMAIN rest : rest[i] \in ContainerIds
        BY <1>4, <2>1, Zenon
    <2> QED BY <1>4, <2>2, Narrowed, Zenon
<1>6. q \in Request
    BY <1>1, <1>5 DEF Request
<1>7. requests' = [requests EXCEPT ![r] = q]
    BY <1>0 DEF Without
<1>10. /\ q.key = requests[r].key /\ q.error = requests[r].error /\ q.list = rest
      /\ q.by = requests[r].by
      /\ q.state = IF rest = <<>> /\ requests[r].state \in Open THEN "cancelled"
                   ELSE requests[r].state
    BY <1>1 DEF Request
<1> HIDE DEF q
<1>8. /\ requests' \in Seq(Request) /\ Len(requests') = Len(requests)
      /\ DOMAIN requests' = DOMAIN requests
      /\ requests'[r] = q /\ \A j \in DOMAIN requests : j # r => requests'[j] = requests[j]
    BY <1>6, <1>7, RequestChanged
<1>9. c \notin ToSet(requests[r].list) => rest = requests[r].list
    <2>1. c \notin ToSet(requests[r].list) =>
              \A i \in DOMAIN requests[r].list : requests[r].list[i] # c
        BY <1>2 DEF ToSet
    <2> QED BY <1>4, <2>1, Zenon
<1> QED BY <1>4, <1>8, <1>9, <1>10 DEF LeftBy

\* The container c changes to v.
ChangedTo(c, v) ==
    /\ containers' \in Seq(Container) /\ Len(containers') = Len(containers)
    /\ DOMAIN containers' = DOMAIN containers
    /\ containers'[c] = v
    /\ \A d \in DOMAIN containers : d # c => containers'[d] = containers[d]
    /\ ContainersKept

LEMMA ContainerChanged ==
    ASSUME TypeInv, NEW c \in DOMAIN containers, NEW v \in Container,
           v.req = containers[c].req, containers' = [containers EXCEPT ![c] = v]
    PROVE  ChangedTo(c, v)
<1>1. containers \in Seq(Container)
    BY DEF TypeInv, TypeOK
<1>2. /\ containers' \in Seq(Container) /\ Len(containers') = Len(containers)
      /\ DOMAIN containers' = DOMAIN containers
      /\ containers'[c] = v
      /\ \A d \in DOMAIN containers : d # c => containers'[d] = containers[d]
    BY <1>1, Updated
<1> QED BY <1>2 DEF ContainersKept, ChangedTo

\* Nobody comes and nobody is called.
SameCalls ==
    /\ containers' \in Seq(Container) /\ Len(containers') = Len(containers)
    /\ DOMAIN containers' = DOMAIN containers
    /\ \A d \in DOMAIN containers : /\ containers'[d].req = containers[d].req
                                    /\ containers'[d].called = containers[d].called
    /\ ContainersKept

LEMMA CancelMarks ==
    ASSUME TypeInv, NEW c \in DOMAIN containers, Cancel(c)
    PROVE  /\ SameCalls
           /\ containers[c].req \in DOMAIN requests
           /\ requests[containers[c].req].key \in Keys
<1>1. containers[c] \in Container
    BY DEF TypeInv, TypeOK
<1> DEFINE v == [containers[c] EXCEPT !.cancelled = TRUE]
<1>2. v \in Container /\ v.req = containers[c].req /\ v.called = containers[c].called
    BY <1>1 DEF Container
<1>3. containers' = [containers EXCEPT ![c] = v]
    BY DEF Cancel
<1> HIDE DEF v
<1>4. containers[c].req \in DOMAIN requests
    BY DEF Cancel, TypeInv, TypeOK
<1>5. requests[containers[c].req] \in Request
    BY <1>4, RequestTyped
<1>6. requests[containers[c].req].key \in Keys
    BY <1>5 DEF Request
<1>7. ChangedTo(c, v)
    BY <1>2, <1>3, ContainerChanged, Zenon
<1> QED BY <1>2, <1>4, <1>6, <1>7 DEF SameCalls, ChangedTo

\* The container c, the i-th of the batch r, changes to v by being called.
CallsAs(r, i, c, v) ==
    /\ r = Head(run.todo) /\ i = run.at + 1 /\ c = requests[r].list[i]
    /\ v = [containers[c] EXCEPT !.called = IF requests[r].error THEN "error" ELSE "image"]

LEMMA CallEffect ==
    ASSUME TypeInv, RunCalls, NEW r \in DOMAIN requests, NEW i, NEW c, NEW v, CallsAs(r, i, c, v)
    PROVE  /\ i \in DOMAIN requests[r].list
           /\ c \in DOMAIN containers /\ containers[c].req = r
           /\ ChangedTo(c, v)
<1> USE DEF CallsAs
<1>1. run.at \in Nat /\ run.at < Len(requests[r].list)
    BY DEF RunCalls, ListHasNext, Current, TypeInv, TypeOK
<1>2. requests[r] \in Request
    BY RequestTyped
<1>3. i \in DOMAIN requests[r].list
    BY <1>1, <1>2 DEF Request
<1>4. c \in DOMAIN containers /\ containers[c].req = r
    BY <1>3 DEF TypeInv, Belong
<1>5. containers[c] \in Container
    BY <1>4 DEF TypeInv, TypeOK
<1>6. v \in Container /\ v.req = containers[c].req
    BY <1>5 DEF Container
<1>7. containers' = [containers EXCEPT ![c] = v]
    BY DEF RunCalls, Current
<1>8. ChangedTo(c, v)
    BY <1>4, <1>6, <1>7, ContainerChanged, Zenon
<1> QED BY <1>3, <1>4, <1>8

\* The answer of r, looked up by its key.
MarkedBy(r, error, after) ==
    /\ requests' \in Seq(Request) /\ Len(requests') = Len(requests)
    /\ DOMAIN requests' = DOMAIN requests
    /\ \A q \in DOMAIN requests :
          /\ requests'[q].key = requests[q].key /\ requests'[q].list = requests[q].list
          /\ requests'[q].state = IF q = r THEN after ELSE requests[q].state
          /\ requests'[q].error = IF q = inFlight[requests[r].key] THEN error
                                  ELSE requests[q].error
          /\ requests'[q].by = IF q = inFlight[requests[r].key] THEN r
                               ELSE requests[q].by

LEMMA AnswerEffect ==
    ASSUME TypeInv, NEW r \in DOMAIN requests, NEW error \in BOOLEAN,
           NEW after \in {"refreshing", "answered"}, requests' = Marked(r, error, after)
    PROVE  MarkedBy(r, error, after)
<1>1. requests \in Seq(Request)
    BY DEF TypeInv, TypeOK
<1>2. PICK n \in Nat : n = Len(requests) /\ DOMAIN requests = 1..n
    BY <1>1
<1>3. \A q \in 1..n : requests[q] \in Request
    BY <1>2, RequestTyped
<1> DEFINE m(q) == [requests[q] EXCEPT
                !.state = IF q = r THEN after ELSE @,
                !.error = IF q = inFlight[requests[r].key] THEN error ELSE @,
                !.by    = IF q = inFlight[requests[r].key] THEN r ELSE @]
<1>4. requests' = [q \in 1..n |-> m(q)]
    BY <1>2 DEF Marked
<1>5. \A q \in 1..n : /\ m(q) \in Request
                      /\ m(q).key = requests[q].key /\ m(q).list = requests[q].list
                      /\ m(q).state = IF q = r THEN after ELSE requests[q].state
                      /\ m(q).error = IF q = inFlight[requests[r].key] THEN error
                                      ELSE requests[q].error
                      /\ m(q).by = IF q = inFlight[requests[r].key] THEN r
                                   ELSE requests[q].by
    <2>1. r \in 0..MaxContainers
        BY RequestTyped
    <2> SUFFICES ASSUME NEW q \in 1..n
                 PROVE  /\ m(q) \in Request
                        /\ m(q).key = requests[q].key /\ m(q).list = requests[q].list
                        /\ m(q).state = IF q = r THEN after ELSE requests[q].state
                        /\ m(q).error = IF q = inFlight[requests[r].key] THEN error
                                        ELSE requests[q].error
                        /\ m(q).by = IF q = inFlight[requests[r].key] THEN r
                                     ELSE requests[q].by
        BY Zenon
    <2>2. PICK e \in Request : e = requests[q]
        BY <1>3
    <2>3. PICK x \in {"live", "refreshing", "answered", "cancelled"} :
              x = IF q = r THEN after ELSE e.state
        BY <2>2 DEF Request
    <2>4. PICK y \in BOOLEAN : y = IF q = inFlight[requests[r].key] THEN error ELSE e.error
        BY <2>2 DEF Request
    <2>5. PICK z \in 0..MaxContainers : z = IF q = inFlight[requests[r].key] THEN r ELSE e.by
        BY <2>1, <2>2 DEF Request
    <2>6. m(q) = [e EXCEPT !.state = x, !.error = y, !.by = z]
        BY <2>2, <2>3, <2>4, <2>5 DEF Request
    <2>7. /\ m(q) \in Request /\ m(q).key = e.key /\ m(q).list = e.list
          /\ m(q).state = x /\ m(q).error = y /\ m(q).by = z
        BY <2>2, <2>6 DEF Request
    <2> QED BY <2>2, <2>3, <2>4, <2>5, <2>7, Zenon
<1> HIDE DEF m
<1>6. requests' \in [1..n -> Request] /\ \A q \in 1..n : requests'[q] = m(q)
    BY <1>4, <1>5
<1>7. requests' \in Seq(Request) /\ DOMAIN requests' = 1..n
    BY <1>6, SeqDef
<1>8. Len(requests') = n
    BY <1>7
<1> QED BY <1>2, <1>5, <1>6, <1>7, <1>8 DEF MarkedBy

LEMMA RunKept ==
    ASSUME TypeInv, run' = run, DOMAIN requests \subseteq DOMAIN requests'
    PROVE  \A j \in DOMAIN run'.todo : run'.todo[j] \in DOMAIN requests'
BY DEF TypeInv

LEMMA MapsTyped ==
    ASSUME TypeInv
    PROVE  /\ inFlight \in [Keys -> 0..Len(requests)] /\ batched \in [Keys -> 0..Len(requests)]
           /\ requests \in Seq(Request) /\ Len(requests) \in Nat /\ Len(requests) <= MaxContainers
           /\ containers \in Seq(Container) /\ Len(containers) \in Nat
           /\ run \in [todo : Seq(RequestIds), at : Nat, listChanged : BOOLEAN, mapChanged : BOOLEAN]
           /\ \A k \in Keys : inFlight[k] # 0 => inFlight[k] \in DOMAIN requests
           /\ \A k \in Keys : batched[k] # 0 => batched[k] \in DOMAIN requests
BY DEF TypeInv, TypeOK

LEMMA TypeGets ==
    ASSUME TypeInv, NEW k \in Keys, NEW early \in BOOLEAN,
           GetCached(k) \/ GetJoins(k, early) \/ GetRequests(k, early)
    PROVE  TypeInv' /\ ContainersKept
<1>1. CASE GetCached(k)
    <2>1. NewContainer(0, FALSE, "image") /\ UNCHANGED <<env, images, requests, inFlight, batched, posted, run>>
        BY <1>1 DEF GetCached
    <2>2. Made(0, FALSE, "image") /\ ContainersKept
        <3>1. 0 \in 0..MaxContainers
            OBVIOUS
        <3> QED BY <2>1, <3>1, ContainerMade DEF Made
    <2>4. \A r \in DOMAIN requests' : Belong(r)'
        <3>1. \A r \in DOMAIN requests : Belong(r) /\ requests'[r].list = requests[r].list
            BY <2>1 DEF TypeInv
        <3> QED BY <2>1, <2>2, <3>1, BelongKept
    <2>5. TypeOK'
        BY <2>1, <2>2 DEF TypeInv, TypeOK, Running, Idle, Made
    <2>6. \A c \in DOMAIN containers' : containers'[c].req \in 0..Len(requests')
        BY <2>1, <2>2, MapsTyped DEF TypeInv, Made
    <2>7. Len(requests') <= Len(containers')
        BY <2>1, <2>2, MapsTyped DEF TypeInv, Made
    <2> QED BY <2>1, <2>2, <2>4, <2>5, <2>6, <2>7, RunKept DEF TypeInv
<1>2. CASE GetJoins(k, early)
    <2>1. PICK r : r = inFlight[k]
        OBVIOUS
    <2>2. r \in DOMAIN requests /\ JoinedBy(r) /\ Made(r, early, "no") /\ ContainersKept
        BY <1>2, <2>1, JoinEffect DEF Made
    <2>6. Belong(r)'
        <3> DEFINE n == Len(containers')
                   s == requests[r].list
                   t == requests'[r].list
        <3>1. s \in Seq(ContainerIds) /\ t = Append(s, n) /\ n \in ContainerIds
            <4>1. requests[r] \in Request
                BY <2>2, RequestTyped
            <4>2. s \in Seq(ContainerIds) /\ t = Append(s, n)
                BY <2>2, <4>1 DEF Request, JoinedBy
            <4>3. n \in ContainerIds
                BY <2>2, MapsTyped DEF Made
            <4> QED BY <4>2, <4>3
        <3>2. /\ Distinct(s)
              /\ \A i \in DOMAIN s : s[i] \in DOMAIN containers /\ containers[s[i]].req = r
            BY <2>2 DEF TypeInv, Belong
        <3>3. n \notin DOMAIN containers /\ n \in DOMAIN containers' /\ containers'[n].req = r
            BY <2>2 DEF Made
        <3> HIDE DEF n, s, t
        <3>4. /\ DOMAIN t = DOMAIN s \cup {Len(t)}
              /\ t[Len(t)] = n /\ \A j \in DOMAIN s : t[j] = s[j]
            BY <3>1, Appended
        <3>5. Distinct(t)
            BY <3>2, <3>3, <3>4 DEF Distinct
        <3>6. \A i \in DOMAIN t : t[i] \in DOMAIN containers' /\ containers'[t[i]].req = r
            BY <2>2, <3>2, <3>3, <3>4 DEF ContainersKept
        <3> QED BY <3>5, <3>6 DEF Belong, t
    <2>7. \A q \in DOMAIN requests' : Belong(q)'
        <3>1. \A q \in DOMAIN requests : Belong(q) /\ (q # r => requests'[q].list = requests[q].list)
            BY <2>2 DEF TypeInv, JoinedBy
        <3> QED BY <2>2, <2>6, <3>1, BelongKept DEF JoinedBy
    <2>8. UNCHANGED <<env, images, inFlight, batched, posted, run>>
        BY <1>2 DEF GetJoins
    <2>9. TypeOK'
        BY <2>2, <2>8 DEF TypeInv, TypeOK, Running, Idle, Made, JoinedBy
    <2>10. \A c \in DOMAIN containers' : containers'[c].req \in 0..Len(requests')
        <3>1. r \in 0..Len(requests')
            BY <2>2, MapsTyped DEF JoinedBy
        <3> QED BY <2>2, <3>1 DEF TypeInv, Made, JoinedBy
    <2>11. Len(requests') <= Len(containers')
        BY <2>2, MapsTyped DEF TypeInv, Made, JoinedBy
    <2>12. DOMAIN requests' = DOMAIN requests
        BY <2>2 DEF JoinedBy
    <2> QED BY <2>2, <2>7, <2>8, <2>9, <2>10, <2>11, <2>12, RunKept DEF TypeInv
<1>3. CASE GetRequests(k, early)
    <2>1. PICK r : r = Len(requests) + 1
        OBVIOUS
    <2>2. StartedAs(r, k) /\ Made(r, early, "no") /\ r \in 1..MaxContainers /\ ContainersKept
        BY <1>3, <2>1, StartEffect DEF Made
    <2>3. Belong(r)'
        <3>1. requests'[r].list = <<Len(containers')>>
            BY <2>2 DEF StartedAs
        <3>2. Len(containers') \in DOMAIN containers' /\ containers'[Len(containers')].req = r
            BY <2>2 DEF Made
        <3> QED BY <3>1, <3>2 DEF Belong, Distinct
    <2>4. \A q \in DOMAIN requests' : Belong(q)'
        <3>1. \A q \in DOMAIN requests : Belong(q) /\ requests'[q].list = requests[q].list
            BY <2>2 DEF TypeInv, StartedAs
        <3> QED BY <2>2, <2>3, <3>1, BelongKept DEF StartedAs
    <2>5. /\ UNCHANGED <<env, images, batched, posted, run>>
          /\ inFlight' = [inFlight EXCEPT ![k] = r]
        BY <1>3, <2>1 DEF GetRequests
    <2>6. inFlight' \in [Keys -> 0..Len(requests')] /\ batched' \in [Keys -> 0..Len(requests')]
        BY <2>1, <2>2, <2>5, MapsTyped DEF StartedAs
    <2>7. TypeOK'
        BY <2>2, <2>5, <2>6 DEF TypeInv, TypeOK, Running, Idle, StartedAs, Made
    <2>8. \A c \in DOMAIN containers' : containers'[c].req \in 0..Len(requests')
        BY <2>1, <2>2, MapsTyped DEF TypeInv, StartedAs, Made
    <2>9. Len(requests') <= Len(containers')
        BY <2>1, <2>2, MapsTyped DEF TypeInv, StartedAs, Made
    <2>10. DOMAIN requests \subseteq DOMAIN requests'
        BY <2>2 DEF StartedAs
    <2> QED BY <2>2, <2>4, <2>5, <2>7, <2>8, <2>9, <2>10, RunKept DEF TypeInv
<1> QED BY <1>1, <1>2, <1>3

LEMMA TypeLeaves ==
    ASSUME TypeInv, NEW r \in DOMAIN requests, NEW c, LeftBy(c, r), SameCalls
    PROVE  \A q \in DOMAIN requests' : Belong(q)'
<1>1. Belong(r)'
    <2>1. PICK s, t : s = requests[r].list /\ t = requests'[r].list
        OBVIOUS
    <2>2. \A j \in DOMAIN s : s[j] \in DOMAIN containers /\ containers[s[j]].req = r
        BY <2>1 DEF TypeInv, Belong
    <2>3. Distinct(t) /\ \A i \in DOMAIN t : \E j \in DOMAIN s : t[i] = s[j]
        BY <2>1 DEF LeftBy
    <2>4. \A i \in DOMAIN t : t[i] \in DOMAIN containers' /\ containers'[t[i]].req = r
        BY <2>2, <2>3 DEF SameCalls
    <2> QED BY <2>1, <2>3, <2>4 DEF Belong
<1>2. \A q \in DOMAIN requests : Belong(q) /\ (q # r => requests'[q].list = requests[q].list)
    BY DEF TypeInv, LeftBy
<1> QED BY <1>1, <1>2, BelongKept DEF LeftBy, SameCalls

\* What cancelRequest() does: to the request r in flight, to the batched
\* request r, or to none.
CancelsInFlight(c, k, r) ==
    /\ r \in DOMAIN requests /\ r = inFlight[k] /\ r # 0 /\ LeftBy(c, r)
    /\ inFlight' = [inFlight EXCEPT ![k] = IF requests'[r].list = <<>> THEN 0 ELSE r]
    /\ UNCHANGED <<batched, run>>

CancelsBatched(c, k, r) ==
    /\ r \in DOMAIN requests /\ r = batched[k] /\ r # 0 /\ LeftBy(c, r)
    /\ batched' = [batched EXCEPT ![k] = IF requests'[r].list = <<>> THEN 0 ELSE r]
    /\ run' = Disturbed(c, r, requests'[r].list = <<>>)
    /\ UNCHANGED inFlight

LEMMA CancelEffect ==
    ASSUME TypeInv, NEW c \in DOMAIN containers, Cancel(c)
    PROVE  /\ SameCalls /\ CallerMayAct /\ UNCHANGED <<env, images, posted>>
           /\ \/ \E k \in Keys, r \in RequestIds :
                    CancelsInFlight(c, k, r) \/ CancelsBatched(c, k, r)
              \/ UNCHANGED <<requests, inFlight, batched, run>>
<1>1. PICK k \in Keys : k = requests[containers[c].req].key
    BY CancelMarks
<1>2. SameCalls
    BY CancelMarks
<1>3. CallerMayAct /\ UNCHANGED <<env, images, posted>>
    BY DEF Cancel
<1>4. CASE CancelInFlight(c)
    <2>1. PICK r : r = inFlight[k] /\ r # 0
        BY <1>1, <1>4 DEF CancelInFlight
    <2>2. r \in DOMAIN requests /\ r \in RequestIds
        BY <2>1, MapsTyped, RequestTyped
    <2>3. /\ requests' = Without(c, r)
          /\ inFlight' = [inFlight EXCEPT ![k] = IF requests'[r].list = <<>> THEN 0 ELSE r]
          /\ UNCHANGED <<batched, run>>
        BY <1>1, <1>4, <2>1 DEF CancelInFlight
    <2>4. CancelsInFlight(c, k, r)
        BY <2>1, <2>2, <2>3, WithoutEffect DEF CancelsInFlight
    <2> QED BY <1>2, <1>3, <2>2, <2>4
<1>5. CASE CancelBatched(c) /\ batched[k] # 0
    <2>1. PICK r : r = batched[k] /\ r # 0
        BY <1>5
    <2>2. r \in DOMAIN requests /\ r \in RequestIds
        BY <2>1, MapsTyped, RequestTyped
    <2>3. /\ requests' = Without(c, r)
          /\ batched' = [batched EXCEPT ![k] = IF requests'[r].list = <<>> THEN 0 ELSE r]
          /\ run' = Disturbed(c, r, requests'[r].list = <<>>)
          /\ UNCHANGED inFlight
        BY <1>1, <1>5, <2>1 DEF CancelBatched
    <2>4. CancelsBatched(c, k, r)
        BY <2>1, <2>2, <2>3, WithoutEffect DEF CancelsBatched
    <2> QED BY <1>2, <1>3, <2>2, <2>4
<1>6. CASE CancelBatched(c) /\ batched[k] = 0
    BY <1>1, <1>2, <1>3, <1>6 DEF CancelBatched
<1> QED BY <1>4, <1>5, <1>6 DEF Cancel

LEMMA RunDisturbed ==
    ASSUME TypeInv, NEW r, NEW c, NEW b \in BOOLEAN, run' = Disturbed(c, r, b)
    PROVE  /\ run' \in [todo : Seq(RequestIds), at : Nat, listChanged : BOOLEAN, mapChanged : BOOLEAN]
           /\ run'.todo = run.todo /\ run'.at = run.at
           /\ Running <=> Running'
           /\ Idle => run' = run
           /\ ~run'.listChanged => ~run.listChanged
           /\ Running /\ r = Head(run.todo) /\ c \in ToSet(requests[r].list) => run'.listChanged
<1>1. run \in [todo : Seq(RequestIds), at : Nat, listChanged : BOOLEAN, mapChanged : BOOLEAN]
    BY MapsTyped
<1>2. CASE ~Running
    BY <1>1, <1>2 DEF Disturbed, Running, Idle
<1>3. CASE Running
    <2>1. PICK x \in BOOLEAN, y \in BOOLEAN :
              /\ run' = [run EXCEPT !.listChanged = x, !.mapChanged = y]
              /\ x = (run.listChanged \/ (r = Head(run.todo) /\ c \in ToSet(requests[r].list)))
        BY <1>1, <1>3 DEF Disturbed
    <2>2. /\ run' \in [todo : Seq(RequestIds), at : Nat, listChanged : BOOLEAN, mapChanged : BOOLEAN]
          /\ run'.todo = run.todo /\ run'.at = run.at /\ run'.listChanged = x
        BY <1>1, <2>1
    <2>3. ~Idle /\ run.todo # <<>>
        BY <1>3 DEF Running
    <2>4. Running'
        BY <2>2, <2>3 DEF Running, Idle, NotRunning
    <2> QED BY <1>3, <2>1, <2>2, <2>3, <2>4
<1> QED BY <1>2, <1>3

LEMMA TypeCancel ==
    ASSUME TypeInv, NEW c \in DOMAIN containers, Cancel(c)
    PROVE  TypeInv'
<1>1. SameCalls /\ UNCHANGED <<env, images, posted>>
    BY CancelEffect
<1>2. Len(containers') = Len(containers) /\ ContainersKept
    BY <1>1 DEF SameCalls
<1>3. CASE \E k \in Keys, r \in RequestIds : CancelsInFlight(c, k, r)
    <2>1. PICK k \in Keys, r \in RequestIds : CancelsInFlight(c, k, r)
        BY <1>3
    <2>2. /\ Len(requests') = Len(requests) /\ DOMAIN requests' = DOMAIN requests
          /\ requests' \in Seq(Request)
        BY <2>1 DEF CancelsInFlight, LeftBy
    <2>3. \A q \in DOMAIN requests' : Belong(q)'
        BY <1>1, <2>1, TypeLeaves DEF CancelsInFlight
    <2>4. inFlight' \in [Keys -> 0..Len(requests')]
        BY <2>1, <2>2, MapsTyped DEF CancelsInFlight
    <2>5. TypeOK'
        BY <1>1, <2>1, <2>2, <2>4 DEF TypeInv, TypeOK, CancelsInFlight, SameCalls, Running, Idle
    <2> QED BY <1>1, <1>2, <2>1, <2>2, <2>3, <2>5, RunKept DEF TypeInv, SameCalls, CancelsInFlight
<1>4. CASE \E k \in Keys, r \in RequestIds : CancelsBatched(c, k, r)
    <2>1. PICK k \in Keys, r \in RequestIds : CancelsBatched(c, k, r)
        BY <1>4
    <2>2. /\ Len(requests') = Len(requests) /\ DOMAIN requests' = DOMAIN requests
          /\ requests' \in Seq(Request)
        BY <2>1 DEF CancelsBatched, LeftBy
    <2>3. \A q \in DOMAIN requests' : Belong(q)'
        BY <1>1, <2>1, TypeLeaves DEF CancelsBatched
    <2>4. batched' \in [Keys -> 0..Len(requests')]
        BY <2>1, <2>2, MapsTyped DEF CancelsBatched
    <2>5. PICK b \in BOOLEAN : run' = Disturbed(c, r, b)
        BY <2>1 DEF CancelsBatched
    <2>6. /\ run' \in [todo : Seq(RequestIds), at : Nat, listChanged : BOOLEAN, mapChanged : BOOLEAN]
          /\ run'.todo = run.todo /\ (Running <=> Running')
        BY <2>5, RunDisturbed
    <2>7. TypeOK'
        BY <1>1, <2>1, <2>2, <2>4, <2>6 DEF TypeInv, TypeOK, CancelsBatched, SameCalls
    <2>8. \A j \in DOMAIN run'.todo : run'.todo[j] \in DOMAIN requests'
        BY <2>2, <2>6 DEF TypeInv
    <2> QED BY <1>1, <1>2, <2>2, <2>3, <2>7, <2>8 DEF TypeInv, SameCalls
<1>5. CASE UNCHANGED <<requests, inFlight, batched, run>>
    <2>1. \A q \in DOMAIN requests' : Belong(q)'
        <3>1. \A q \in DOMAIN requests : Belong(q) /\ requests'[q].list = requests[q].list
            BY <1>5 DEF TypeInv
        <3> QED BY <1>2, <1>5, <3>1, BelongKept
    <2>2. TypeOK'
        BY <1>1, <1>5 DEF TypeInv, TypeOK, SameCalls, Running, Idle
    <2> QED BY <1>1, <1>2, <1>5, <2>1, <2>2, RunKept DEF TypeInv, SameCalls
<1> QED BY <1>3, <1>4, <1>5, CancelEffect

\* The lists and containers are as they were.
SameLists ==
    /\ DOMAIN requests' = DOMAIN requests /\ Len(requests') = Len(requests)
    /\ requests' \in Seq(Request)
    /\ \A q \in DOMAIN requests : requests'[q].list = requests[q].list

LEMMA TypeSameLists ==
    ASSUME TypeInv, SameLists, containers' = containers
    PROVE  /\ \A q \in DOMAIN requests' : Belong(q)'
           /\ \A c \in DOMAIN containers' : containers'[c].req \in 0..Len(requests')
           /\ Len(requests') <= Len(containers')
<1>1. ContainersKept
    BY DEF ContainersKept
<1>2. \A q \in DOMAIN requests : Belong(q) /\ requests'[q].list = requests[q].list
    BY DEF TypeInv, SameLists
<1>3. \A q \in DOMAIN requests' : Belong(q)'
    BY <1>1, <1>2, BelongKept DEF SameLists
<1> QED BY <1>3 DEF TypeInv, SameLists

LEMMA AnswerSteps ==
    ASSUME TypeInv, NEW r \in DOMAIN requests, AnyAnswer(r)
    PROVE  \E error \in BOOLEAN, after \in Afterwards(r) :
               /\ MarkedBy(r, error, after) /\ SameLists /\ Answered(r)
               /\ images' = images \/ images' = images \cup {requests[r].key}
<1>1. Afterwards(r) \subseteq {"refreshing", "answered"}
    BY DEF Afterwards
<1>2. CASE OnGetImageSuccess(r)
    <2>1. PICK after \in Afterwards(r) : requests' = Marked(r, FALSE, after)
        BY <1>2 DEF OnGetImageSuccess
    <2>2. MarkedBy(r, FALSE, after)
        <3>1. after \in {"refreshing", "answered"} /\ FALSE \in BOOLEAN
            BY <1>1
        <3> QED BY <2>1, <3>1, AnswerEffect, Zenon
    <2> QED BY <1>2, <2>2 DEF OnGetImageSuccess, MarkedBy, SameLists
<1>3. CASE OnGetImageError(r)
    <2>1. PICK after \in Afterwards(r) : requests' = Marked(r, TRUE, after)
        BY <1>3 DEF OnGetImageError
    <2>2. MarkedBy(r, TRUE, after)
        <3>1. after \in {"refreshing", "answered"} /\ TRUE \in BOOLEAN
            BY <1>1
        <3> QED BY <2>1, <3>1, AnswerEffect, Zenon
    <2> QED BY <1>3, <2>2 DEF OnGetImageError, MarkedBy, SameLists
<1> QED BY <1>2, <1>3 DEF AnyAnswer

LEMMA TypeAnswer ==
    ASSUME TypeInv, NEW r \in DOMAIN requests, AnyAnswer(r)
    PROVE  TypeInv'
<1>1. /\ SameLists /\ Answered(r)
      /\ images' = images \/ images' = images \cup {requests[r].key}
    BY AnswerSteps
<1>2. requests[r] \in Request
    BY RequestTyped
<1>3. PICK k \in Keys : k = requests[r].key
    BY <1>2 DEF Request
<1>4. /\ inFlight' = [inFlight EXCEPT ![k] = 0]
      /\ batched' = [batched EXCEPT ![k] = inFlight[k]] \/ batched' = batched
      /\ posted' = posted \/ posted' = TRUE
      /\ UNCHANGED <<env, containers, run>>
    BY <1>1, <1>3 DEF Answered, BatchResponse
<1>5. inFlight' \in [Keys -> 0..Len(requests')] /\ batched' \in [Keys -> 0..Len(requests')]
    <2>1. /\ inFlight \in [Keys -> 0..Len(requests)] /\ batched \in [Keys -> 0..Len(requests)]
          /\ Len(requests) \in Nat /\ Len(requests') = Len(requests)
        BY <1>1, MapsTyped DEF SameLists
    <2>2. inFlight' \in [Keys -> 0..Len(requests)]
        BY <1>4, <2>1
    <2>3. batched' \in [Keys -> 0..Len(requests)]
        BY <1>4, <2>1
    <2> QED BY <2>1, <2>2, <2>3
<1>6. images' \subseteq Keys
    BY <1>1, <1>3 DEF TypeInv, TypeOK
<1>7. TypeOK'
    <2>1. posted' \in BOOLEAN
        BY <1>4 DEF TypeInv, TypeOK
    <2>2. ~Running'
        BY <1>1, <1>4 DEF Answered, Running, Idle
    <2> QED BY <1>1, <1>4, <1>5, <1>6, <2>1, <2>2 DEF TypeInv, TypeOK, SameLists
<1> QED BY <1>1, <1>4, <1>7, TypeSameLists, RunKept DEF TypeInv, SameLists

\* The queue gives a request up, or has nothing more to say.
EndsAs(r, state) ==
    /\ SameLists
    /\ requests'[r] = [requests[r] EXCEPT !.state = state]
    /\ \A q \in DOMAIN requests : q # r => requests'[q] = requests[q]

GivesUp(r) == QueueCancels(r) \/ NotModified(r)

LEMMA GivesUpEffect ==
    ASSUME TypeInv, NEW r \in DOMAIN requests, GivesUp(r)
    PROVE  /\ requests[r].state \in Open
           /\ \E state \in {"cancelled", "answered"} :
                  /\ EndsAs(r, state)
                  /\ state = "answered" => requests[r].state = "refreshing"
           /\ UNCHANGED <<env, images, containers, inFlight, batched, posted, run>>
<1>1. PICK state \in {"cancelled", "answered"} :
          /\ requests' = [requests EXCEPT ![r].state = state]
          /\ state = "answered" => requests[r].state = "refreshing"
    BY DEF GivesUp, QueueCancels, NotModified
<1> DEFINE v == [requests[r] EXCEPT !.state = state]
<1>2. requests[r] \in Request
    BY RequestTyped
<1>3. v \in Request /\ v.list = requests[r].list
    BY <1>2 DEF Request
<1>4. requests' = [requests EXCEPT ![r] = v]
    BY <1>1
<1> HIDE DEF v
<1>5. /\ requests' \in Seq(Request) /\ Len(requests') = Len(requests)
      /\ DOMAIN requests' = DOMAIN requests
      /\ requests'[r] = v /\ \A j \in DOMAIN requests : j # r => requests'[j] = requests[j]
    BY <1>3, <1>4, RequestChanged
<1>6. \A q \in DOMAIN requests : requests'[q].list = requests[q].list
    BY <1>3, <1>5
<1>7. EndsAs(r, state)
    BY <1>5, <1>6 DEF v, SameLists, EndsAs
<1>8. requests[r].state \in Open
    BY DEF GivesUp, QueueCancels, NotModified, Open
<1>9. UNCHANGED <<env, images, containers, inFlight, batched, posted, run>>
    BY DEF GivesUp, QueueCancels, NotModified
<1> QED BY <1>1, <1>7, <1>8, <1>9

LEMMA TypeGivesUp ==
    ASSUME TypeInv, NEW r \in DOMAIN requests, GivesUp(r)
    PROVE  TypeInv'
<1>1. SameLists /\ UNCHANGED <<env, images, containers, inFlight, batched, posted, run>>
    BY GivesUpEffect DEF EndsAs
<1>2. TypeOK'
    BY <1>1 DEF TypeInv, TypeOK, SameLists, Running, Idle
<1> QED BY <1>1, <1>2, TypeSameLists, RunKept DEF TypeInv, SameLists

LEMMA TypeEvict ==
    ASSUME TypeInv, NEW k \in Keys, Evict(k)
    PROVE  TypeInv'
<1>1. UNCHANGED <<env, containers, requests, inFlight, batched, posted, run>> /\ images' \subseteq images
    BY DEF Evict
<1>2. SameLists
    BY <1>1, MapsTyped DEF SameLists
<1>3. TypeOK'
    BY <1>1 DEF TypeInv, TypeOK, Running, Idle
<1> QED BY <1>1, <1>2, <1>3, TypeSameLists, RunKept DEF TypeInv

LEMMA TypeStutter ==
    ASSUME TypeInv, UNCHANGED vars
    PROVE  TypeInv'
<1>1. SameLists /\ containers' = containers
    BY MapsTyped DEF SameLists, vars
<1>2. TypeOK' /\ run' = run
    BY DEF TypeInv, TypeOK, Running, Idle, vars
<1> QED BY <1>1, <1>2, TypeSameLists, RunKept DEF TypeInv, SameLists

LEMMA TypeRunCalls ==
    ASSUME TypeInv, RunCalls
    PROVE  /\ TypeInv'
           /\ Head(run.todo) \in DOMAIN requests
           /\ run' \in [todo : Seq(RequestIds), at : Nat, listChanged : BOOLEAN, mapChanged : BOOLEAN]
           /\ run'.todo = run.todo /\ run'.at = run.at + 1
           /\ ~run.listChanged /\ run'.listChanged = run.listChanged
           /\ Running /\ Running'
<1>1. /\ Running /\ run' = [run EXCEPT !.at = @ + 1] /\ ~run.listChanged
      /\ UNCHANGED <<env, images, requests, inFlight, batched, posted>>
    BY DEF RunCalls
<1>2. run' \in [todo : Seq(RequestIds), at : Nat, listChanged : BOOLEAN, mapChanged : BOOLEAN]
      /\ run'.todo = run.todo /\ run'.at = run.at + 1 /\ run'.listChanged = run.listChanged
    <2>1. run \in [todo : Seq(RequestIds), at : Nat, listChanged : BOOLEAN, mapChanged : BOOLEAN]
        BY MapsTyped
    <2> QED BY <1>1, <2>1
<1>3. PICK r : r = Head(run.todo)
    OBVIOUS
<1>4. r \in DOMAIN requests
    <2>1. run.todo \in Seq(RequestIds) /\ run.todo # <<>>
        BY <1>1, MapsTyped DEF Running
    <2>2. r = run.todo[1] /\ 1 \in DOMAIN run.todo
        BY <1>3, <2>1
    <2> QED BY <2>2 DEF TypeInv
<1>5. PICK c, v : ChangedTo(c, v) /\ c \in DOMAIN containers
    <2>1. PICK i, c, v : CallsAs(r, i, c, v)
        BY <1>3 DEF CallsAs
    <2>2. ChangedTo(c, v) /\ c \in DOMAIN containers
        BY <1>4, <2>1, CallEffect, Zenon
    <2> QED BY <2>2
<1>6. /\ containers' \in Seq(Container) /\ Len(containers') = Len(containers)
      /\ DOMAIN containers' = DOMAIN containers /\ ContainersKept
    BY <1>5 DEF ChangedTo
<1>7. \A q \in DOMAIN requests' : Belong(q)'
    <2>1. \A q \in DOMAIN requests : Belong(q) /\ requests'[q].list = requests[q].list
        BY <1>1 DEF TypeInv
    <2> QED BY <1>1, <1>6, <2>1, BelongKept
<1>8. Running'
    BY <1>1, <1>2, MapsTyped DEF Running, Idle, NotRunning
<1>9. TypeOK'
    BY <1>1, <1>2, <1>6 DEF TypeInv, TypeOK
<1>10. \A d \in DOMAIN containers' : containers'[d].req \in 0..Len(requests')
    BY <1>1, <1>6 DEF TypeInv, ContainersKept
<1>11. \A j \in DOMAIN run'.todo : run'.todo[j] \in DOMAIN requests'
    BY <1>1, <1>2 DEF TypeInv
<1>12. TypeInv'
    BY <1>1, <1>6, <1>7, <1>9, <1>10, <1>11 DEF TypeInv
<1> QED BY <1>1, <1>2, <1>3, <1>4, <1>8, <1>12

\* The batches in some order, each once.
InOrder(todo) ==
    /\ todo \in Seq(RequestIds) /\ todo # <<>>
    /\ \A j \in DOMAIN todo : \E k \in Keys : batched[k] # 0 /\ todo[j] = batched[k]
    /\ \A i, j \in DOMAIN todo : todo[i] = todo[j] => i = j

LEMMA BatchesInOrder ==
    ASSUME TypeInv, \A k \in Keys : batched[k] # 0 => requests[batched[k]].key = k,
           NEW keys, keys = {k \in Keys : batched[k] # 0}, keys # {},
           NEW order \in SetToSeqs(keys),
           NEW todo, todo = [i \in DOMAIN order |-> batched[order[i]]]
    PROVE  InOrder(todo)
<1>1. PICK n \in Nat : n = Len(requests) /\ n <= MaxContainers
    BY MapsTyped
<1>2. \A k \in keys : batched[k] \in 1..n /\ batched[k] \in RequestIds
    BY <1>1, MapsTyped
<1>3. \A k, l \in keys : batched[k] = batched[l] => k = l
    OBVIOUS
<1>4. [k \in keys |-> batched[k]] \in Injection(keys, 1..n)
    BY <1>2, <1>3 DEF Injection, IsInjective
<1>5. IsFiniteSet(keys)
    BY <1>4, FS_Interval, FS_Injection
<1>6. PICK m \in Nat : m = Cardinality(keys) /\ m # 0
    BY <1>5, FS_CardinalityType, FS_EmptySet
<1>7. order \in [1..m -> keys] /\ \A i, j \in 1..m : i # j => order[i] # order[j]
    BY <1>6 DEF SetToSeqs
<1>8. todo \in [1..m -> RequestIds] /\ \A i \in 1..m : todo[i] = batched[order[i]]
    BY <1>2, <1>7
<1>9. todo \in Seq(RequestIds) /\ DOMAIN todo = 1..m
    BY <1>8, SeqDef
<1>10. todo # <<>>
    <2>1. 1 \in DOMAIN todo
        BY <1>6, <1>9
    <2> QED BY <2>1
<1>11. \A i, j \in 1..m : todo[i] = todo[j] => i = j
    BY <1>3, <1>7, <1>8
<1>12. \A j \in 1..m : \E k \in keys : todo[j] = batched[k]
    BY <1>7, <1>8
<1>13. \A i, j \in DOMAIN todo : todo[i] = todo[j] => i = j
    BY <1>9, <1>11
<1>14. \A j \in DOMAIN todo : \E k \in Keys : batched[k] # 0 /\ todo[j] = batched[k]
    BY <1>9, <1>12
<1> QED BY <1>9, <1>10, <1>13, <1>14 DEF InOrder

-----------------------------------------------------------------------------
(* Whose answer is whose.                                                  *)

\* The maps file requests under their own key: what is in flight has no answer
\* yet, what is batched has one.
Filed ==
    /\ \A k \in Keys : inFlight[k] # 0 =>
           requests[inFlight[k]].key = k /\ requests[inFlight[k]].by = 0
    /\ \A k \in Keys : batched[k] # 0 =>
           requests[batched[k]].key = k /\ requests[batched[k]].by # 0

\* What is in flight for a key is the last request made for it.
Newest ==
    \A q \in DOMAIN requests :
        inFlight[requests[q].key] # 0 => q <= inFlight[requests[q].key]

\* A request that has been answered has given its own callers theirs, or they had
\* it from another; only some are answered again.
Waits ==
    /\ \A q \in DOMAIN requests :
           /\ requests[q].state \in {"refreshing", "answered"} => requests[q].by # 0
           /\ requests[q].state = "refreshing" => requests[q].key \in Refreshed
    /\ AnswerFindsItsCallers

\* Whose answer the callers of a request may be given.
Sourced ==
    \A q \in DOMAIN requests : requests[q].by # 0 =>
        /\ requests[q].by \in 1..q /\ requests[requests[q].by].key = requests[q].key
        /\ requests[requests[q].by].state # "live"
        /\ requests[q].by # q => requests[q].key \in Refreshed

MapsInv == Filed /\ Newest /\ Waits /\ Sourced

TodoAnswered == \A j \in DOMAIN run.todo : requests[run.todo[j]].by # 0

\* Who was called had its request's answer.
Told ==
    \A c \in DOMAIN containers : LET r == containers[c].req IN
        r # 0 /\ containers[c].called # "no" =>
            requests[r].by # 0 /\ requests[r].error = (containers[c].called = "error")

AnswersInv == TypeInv /\ MapsInv /\ TodoAnswered /\ Told

\* An answer given is final.
AnswersKept ==
    \A q \in DOMAIN requests :
        /\ q \in DOMAIN requests' /\ requests'[q].key = requests[q].key
        /\ requests[q].by # 0 =>
               requests'[q].by = requests[q].by /\ requests'[q].error = requests[q].error
        /\ requests[q].state # "live" => requests'[q].state # "live"

\* No answer is given.
NoneGiven ==
    \A q \in DOMAIN requests' : requests'[q].by # 0 =>
        q \in DOMAIN requests /\ requests[q].by = requests'[q].by

LEMMA SourcedKept ==
    ASSUME AnswersInv, AnswersKept, NoneGiven
    PROVE  Sourced'
<1> SUFFICES ASSUME NEW q \in DOMAIN requests', requests'[q].by # 0
             PROVE  LET p == requests'[q].by IN
                    /\ p \in 1..q /\ requests'[p].key = requests'[q].key
                    /\ requests'[p].state # "live"
                    /\ p # q => requests'[q].key \in Refreshed
    BY DEF Sourced
<1>1. PICK p : p = requests'[q].by
    OBVIOUS
<1>2. q \in DOMAIN requests /\ requests[q].by = p /\ p # 0
    BY <1>1 DEF NoneGiven
<1>3. /\ p \in 1..q /\ requests[p].key = requests[q].key
      /\ requests[p].state # "live"
      /\ p # q => requests[q].key \in Refreshed
    BY <1>2 DEF AnswersInv, MapsInv, Sourced
<1>4. p \in DOMAIN requests
    <2>1. requests \in Seq(Request) /\ Len(requests) \in Nat
        BY MapsTyped DEF AnswersInv
    <2> QED BY <1>2, <1>3, <2>1
<1>5. /\ requests'[p].key = requests[p].key /\ requests'[p].state # "live"
      /\ requests'[q].key = requests[q].key
    BY <1>2, <1>3, <1>4 DEF AnswersKept
<1> QED BY <1>1, <1>3, <1>5

LEMMA CallsKept ==
    ASSUME AnswersInv, AnswersKept,
           \A c \in DOMAIN containers :
               c \in DOMAIN containers' => /\ containers'[c].req = containers[c].req
                                           /\ containers'[c].called = containers[c].called,
           \A c \in DOMAIN containers' \ DOMAIN containers :
               containers'[c].called = "no" \/ containers'[c].req = 0
    PROVE  Told'
<1> SUFFICES ASSUME NEW c \in DOMAIN containers', NEW r, r = containers'[c].req,
                    r # 0, containers'[c].called # "no"
             PROVE  /\ requests'[r].by # 0
                    /\ requests'[r].error = (containers'[c].called = "error")
    BY DEF Told
<1>1. c \in DOMAIN containers /\ r = containers[c].req /\ containers'[c].called = containers[c].called
    OBVIOUS
<1>2. r \in DOMAIN requests
    <2>1. r \in 0..Len(requests) /\ r \in Nat
        BY <1>1, MapsTyped DEF AnswersInv, TypeInv
    <2> QED BY <2>1, MapsTyped DEF AnswersInv
<1>3. requests[r].by # 0 /\ requests[r].error = (containers[c].called = "error")
    BY <1>1 DEF AnswersInv, Told
<1> QED BY <1>1, <1>2, <1>3 DEF AnswersKept

LEMMA TodoKept ==
    ASSUME AnswersInv, AnswersKept, run'.todo = run.todo
    PROVE  TodoAnswered'
<1>1. \A j \in DOMAIN run.todo : /\ run.todo[j] \in DOMAIN requests
                                 /\ requests[run.todo[j]].by # 0
    BY DEF AnswersInv, TypeInv, TodoAnswered
<1> QED BY <1>1 DEF AnswersKept, TodoAnswered

\* The keys, states and answers of the requests and the two maps are as they were.
SameAnswers ==
    /\ DOMAIN requests' = DOMAIN requests
    /\ \A q \in DOMAIN requests : /\ requests'[q].key = requests[q].key
                                  /\ requests'[q].state = requests[q].state
                                  /\ requests'[q].error = requests[q].error
                                  /\ requests'[q].by = requests[q].by
    /\ UNCHANGED <<inFlight, batched>>

LEMMA FiledSame ==
    ASSUME AnswersInv, SameAnswers
    PROVE  MapsInv' /\ AnswersKept
<1>1. AnswersKept /\ NoneGiven
    BY DEF SameAnswers, AnswersKept, NoneGiven
<1>2. \A k \in Keys : inFlight[k] # 0 => inFlight[k] \in DOMAIN requests
    BY MapsTyped DEF AnswersInv
<1>3. \A k \in Keys : batched[k] # 0 => batched[k] \in DOMAIN requests
    BY MapsTyped DEF AnswersInv
<1>4. Filed'
    BY <1>2, <1>3 DEF AnswersInv, MapsInv, Filed, SameAnswers
<1>5. Newest'
    BY DEF AnswersInv, MapsInv, Newest, SameAnswers
<1>6. Waits'
    BY DEF AnswersInv, MapsInv, Waits, AnswerFindsItsCallers, SameAnswers
<1> QED BY <1>1, <1>4, <1>5, <1>6, SourcedKept DEF MapsInv

LEMMA GetsAnswers ==
    ASSUME AnswersInv, NEW k \in Keys, NEW early \in BOOLEAN,
           GetCached(k) \/ GetJoins(k, early) \/ GetRequests(k, early)
    PROVE  AnswersInv' /\ AnswersKept
<1>1. TypeInv /\ TypeInv'
    BY TypeGets DEF AnswersInv
<1>2. CASE GetCached(k)
    <2>1. /\ NewContainer(0, FALSE, "image")
          /\ UNCHANGED <<env, images, requests, inFlight, batched, posted, run>>
        BY <1>2 DEF GetCached
    <2>2. Made(0, FALSE, "image")
        <3>1. 0 \in 0..MaxContainers
            OBVIOUS
        <3> QED BY <1>1, <2>1, <3>1, ContainerMade
    <2>3. SameAnswers
        BY <2>1 DEF SameAnswers
    <2>4. Told'
        BY <2>2, <2>3, FiledSame, CallsKept DEF Made
    <2> QED BY <1>1, <2>1, <2>3, <2>4, FiledSame, TodoKept DEF AnswersInv
<1>3. CASE GetJoins(k, early)
    <2>1. PICK r : r = inFlight[k]
        OBVIOUS
    <2>2. r \in DOMAIN requests /\ JoinedBy(r) /\ Made(r, early, "no")
        BY <1>1, <1>3, <2>1, JoinEffect
    <2>3. UNCHANGED <<inFlight, batched, run>>
        BY <1>3 DEF GetJoins
    <2>4. requests[r] \in Request
        BY <1>1, <2>2, RequestTyped
    <2>5. SameAnswers
        BY <2>2, <2>3, <2>4 DEF SameAnswers, JoinedBy, Request
    <2>6. Told'
        BY <2>2, <2>5, FiledSame, CallsKept DEF Made
    <2> QED BY <1>1, <2>3, <2>5, <2>6, FiledSame, TodoKept DEF AnswersInv
<1>4. CASE GetRequests(k, early)
    <2>1. PICK r : r = Len(requests) + 1
        OBVIOUS
    <2>2. StartedAs(r, k) /\ Made(r, early, "no") /\ r \in 1..MaxContainers
        BY <1>1, <1>4, <2>1, StartEffect
    <2>3. inFlight[k] = 0 /\ inFlight' = [inFlight EXCEPT ![k] = r] /\ UNCHANGED <<batched, run>>
        BY <1>4, <2>1 DEF GetRequests
    <2>4. AnswersKept /\ NoneGiven
        BY <2>2 DEF AnswersKept, NoneGiven, StartedAs
    <2>5. MapsInv'
        <3>1. /\ \A l \in Keys : inFlight[l] # 0 => inFlight[l] \in DOMAIN requests
              /\ \A l \in Keys : batched[l] # 0 => batched[l] \in DOMAIN requests
              /\ inFlight'[k] = r /\ \A l \in Keys : l # k => inFlight'[l] = inFlight[l]
            BY <1>1, <2>3, MapsTyped
        <3>2. /\ \A l \in Keys : inFlight'[l] # 0 =>
                   requests'[inFlight'[l]].key = l /\ requests'[inFlight'[l]].by = 0
            BY <2>2, <3>1 DEF AnswersInv, MapsInv, Filed, StartedAs
        <3>3. /\ \A l \in Keys : batched'[l] # 0 =>
                   requests'[batched'[l]].key = l /\ requests'[batched'[l]].by # 0
            BY <2>2, <2>3, <3>1 DEF AnswersInv, MapsInv, Filed, StartedAs
        <3>4. requests'[r].key = k /\ requests'[r].state = "live"
            BY <2>2 DEF StartedAs
        <3>5. ASSUME NEW q \in DOMAIN requests', q # r
              PROVE  /\ q \in DOMAIN requests /\ requests'[q] = requests[q]
                     /\ requests[q].key \in Keys /\ q # 0 /\ q <= r
            <4>1. q \in DOMAIN requests /\ requests'[q] = requests[q]
                BY <2>2, <3>5 DEF StartedAs
            <4>2. requests[q] \in Request
                BY <1>1, <4>1, RequestTyped
            <4>3. q # 0 /\ q <= r
                BY <1>1, <2>1, <4>1, MapsTyped
            <4> QED BY <4>1, <4>2, <4>3 DEF Request
        <3>6. Newest'
            <4> SUFFICES ASSUME NEW q \in DOMAIN requests', inFlight'[requests'[q].key] # 0
                         PROVE  q <= inFlight'[requests'[q].key]
                BY DEF Newest
            <4>1. CASE q = r
                BY <2>2, <3>1, <3>4, <4>1
            <4>2. CASE q # r /\ requests[q].key = k
                <5>1. q <= r /\ requests'[q].key = k
                    BY <3>5, <4>2
                <5> QED BY <3>1, <5>1
            <4>3. CASE q # r /\ requests[q].key # k
                BY <3>1, <3>5, <4>3 DEF AnswersInv, MapsInv, Newest
            <4> QED BY <4>1, <4>2, <4>3
        <3>7. Waits'
            <4>1. ASSUME NEW q \in DOMAIN requests'
                  PROVE  /\ requests'[q].state \in {"refreshing", "answered"} => requests'[q].by # 0
                         /\ requests'[q].state = "refreshing" => requests'[q].key \in Refreshed
                BY <3>4, <3>5 DEF AnswersInv, MapsInv, Waits
            <4>2. ASSUME NEW q \in DOMAIN requests', requests'[q].state # "cancelled"
                  PROVE  \/ inFlight'[requests'[q].key] = q
                         \/ /\ requests'[q].by # 0
                            /\ requests'[q].state = "live" => requests'[q].key \in Refreshed
                <5>1. CASE q = r
                    BY <3>1, <3>4, <5>1
                <5>2. CASE q # r
                    <6>1. \/ inFlight[requests[q].key] = q
                          \/ /\ requests[q].by # 0
                             /\ requests[q].state = "live" => requests[q].key \in Refreshed
                        BY <3>5, <4>2, <5>2 DEF AnswersInv, MapsInv, Waits, AnswerFindsItsCallers
                    <6> QED BY <2>3, <3>1, <3>5, <5>2, <6>1
                <5> QED BY <5>1, <5>2
            <4> QED BY <4>1, <4>2 DEF Waits, AnswerFindsItsCallers
        <3> QED BY <2>4, <3>2, <3>3, <3>6, <3>7, SourcedKept DEF MapsInv, Filed
    <2>6. Told'
        BY <2>2, <2>4, CallsKept DEF Made
    <2> QED BY <1>1, <2>3, <2>4, <2>5, <2>6, TodoKept DEF AnswersInv
<1> QED BY <1>2, <1>3, <1>4

LEMMA LeavingKeeps ==
    ASSUME AnswersInv, NEW r \in DOMAIN requests, NEW c, LeftBy(c, r)
    PROVE  /\ AnswersKept /\ NoneGiven
           /\ DOMAIN requests' = DOMAIN requests
           /\ \A q \in DOMAIN requests :
                  /\ requests'[q].key = requests[q].key /\ requests'[q].by = requests[q].by
                  /\ requests'[q].state = requests[q].state \/ requests'[q].state = "cancelled"
           /\ requests'[r].list = <<>> => requests'[r].state \notin Open
<1>1. /\ DOMAIN requests' = DOMAIN requests
      /\ \A j \in DOMAIN requests : j # r => requests'[j] = requests[j]
      /\ requests'[r].key = requests[r].key /\ requests'[r].error = requests[r].error
      /\ requests'[r].by = requests[r].by
    BY DEF LeftBy
<1>2. requests'[r].state = IF requests'[r].list = <<>> /\ requests[r].state \in Open
                           THEN "cancelled" ELSE requests[r].state
    BY DEF LeftBy
<1>3. requests'[r].state = requests[r].state \/ requests'[r].state = "cancelled"
    BY <1>2
<1>4. requests'[r].list = <<>> => requests'[r].state \notin Open
    BY <1>2 DEF Open
<1>5. \A q \in DOMAIN requests :
          /\ requests'[q].key = requests[q].key /\ requests'[q].by = requests[q].by
          /\ requests'[q].error = requests[q].error
          /\ requests'[q].state = requests[q].state \/ requests'[q].state = "cancelled"
    BY <1>1, <1>3
<1>6. AnswersKept /\ NoneGiven
    BY <1>1, <1>5 DEF AnswersKept, NoneGiven
<1> QED BY <1>1, <1>4, <1>5, <1>6, Zenon

\* Requests may have been cancelled; one that was taken out of flight was.
SomeCancelled ==
    /\ AnswersKept /\ NoneGiven /\ DOMAIN requests' = DOMAIN requests
    /\ \A q \in DOMAIN requests :
           /\ requests'[q].key = requests[q].key /\ requests'[q].by = requests[q].by
           /\ requests'[q].state = requests[q].state \/ requests'[q].state = "cancelled"
    /\ \A k \in Keys : \/ inFlight'[k] = inFlight[k]
                       \/ /\ inFlight'[k] = 0 /\ inFlight[k] # 0
                          /\ requests'[inFlight[k]].state = "cancelled"
    /\ \A k \in Keys : batched'[k] # 0 => batched'[k] = batched[k]

LEMMA CancelledMaps ==
    ASSUME AnswersInv, SomeCancelled
    PROVE  MapsInv'
<1>1. /\ \A l \in Keys : inFlight[l] # 0 => inFlight[l] \in DOMAIN requests
      /\ \A l \in Keys : batched[l] # 0 => batched[l] \in DOMAIN requests
    BY MapsTyped DEF AnswersInv
<1>2. \A q \in DOMAIN requests : requests[q].key \in Keys /\ q # 0
    <2>1. \A q \in DOMAIN requests : requests[q] \in Request /\ q \in RequestIds
        BY RequestTyped DEF AnswersInv
    <2> QED BY <2>1 DEF Request
<1>3. Filed'
    BY <1>1 DEF SomeCancelled, AnswersInv, MapsInv, Filed
<1>4. Newest'
    BY <1>2 DEF SomeCancelled, AnswersInv, MapsInv, Newest
<1>5. Waits'
    <2>1. ASSUME NEW q \in DOMAIN requests'
          PROVE  /\ requests'[q].state \in {"refreshing", "answered"} => requests'[q].by # 0
                 /\ requests'[q].state = "refreshing" => requests'[q].key \in Refreshed
        BY <2>1 DEF SomeCancelled, AnswersInv, MapsInv, Waits
    <2>2. ASSUME NEW q \in DOMAIN requests', requests'[q].state # "cancelled"
          PROVE  \/ inFlight'[requests'[q].key] = q
                 \/ /\ requests'[q].by # 0
                    /\ requests'[q].state = "live" => requests'[q].key \in Refreshed
        <3>1. /\ q \in DOMAIN requests /\ requests'[q].state = requests[q].state
              /\ requests'[q].key = requests[q].key /\ requests'[q].by = requests[q].by
            BY <2>2 DEF SomeCancelled
        <3>2. \/ inFlight[requests[q].key] = q
              \/ /\ requests[q].by # 0
                 /\ requests[q].state = "live" => requests[q].key \in Refreshed
            BY <2>2, <3>1 DEF AnswersInv, MapsInv, Waits, AnswerFindsItsCallers
        <3>3. CASE inFlight[requests[q].key] = q
            <4>1. \/ inFlight'[requests[q].key] = q
                  \/ requests'[q].state = "cancelled"
                BY <1>2, <3>1, <3>3 DEF SomeCancelled
            <4> QED BY <2>2, <3>1, <4>1
        <3> QED BY <3>1, <3>2, <3>3
    <2> QED BY <2>1, <2>2 DEF Waits, AnswerFindsItsCallers
<1>6. Sourced'
    BY SourcedKept DEF SomeCancelled
<1> QED BY <1>3, <1>4, <1>5, <1>6 DEF MapsInv

LEMMA CancelAnswers ==
    ASSUME AnswersInv, NEW c \in DOMAIN containers, Cancel(c)
    PROVE  AnswersInv' /\ AnswersKept
<1>1. TypeInv /\ TypeInv' /\ SameCalls
    BY TypeCancel, CancelEffect DEF AnswersInv
<1>2. CASE \E k \in Keys, r \in RequestIds : CancelsInFlight(c, k, r)
    <2>1. PICK k \in Keys, r \in RequestIds : CancelsInFlight(c, k, r)
        BY <1>2
    <2>2. r \in DOMAIN requests /\ r = inFlight[k] /\ r # 0 /\ LeftBy(c, r) /\ UNCHANGED <<batched, run>>
        BY <2>1 DEF CancelsInFlight
    <2>3. /\ AnswersKept /\ NoneGiven /\ DOMAIN requests' = DOMAIN requests
          /\ \A q \in DOMAIN requests :
                 /\ requests'[q].key = requests[q].key /\ requests'[q].by = requests[q].by
                 /\ requests'[q].state = requests[q].state \/ requests'[q].state = "cancelled"
          /\ requests'[r].list = <<>> => requests'[r].state \notin Open
        BY <2>2, LeavingKeeps
    <2>4. /\ inFlight'[k] = r \/ (inFlight'[k] = 0 /\ requests'[r].list = <<>>)
          /\ \A l \in Keys : l # k => inFlight'[l] = inFlight[l]
        BY <1>1, <2>1, MapsTyped DEF CancelsInFlight
    <2>5. requests[r].by = 0
        BY <2>2 DEF AnswersInv, MapsInv, Filed
    <2>6. requests'[r].list = <<>> => requests'[r].state = "cancelled"
        <3>1. requests[r] \in Request
            BY <1>1, <2>2, RequestTyped
        <3>2. requests[r].state \notin {"refreshing", "answered"}
            BY <2>2, <2>5 DEF AnswersInv, MapsInv, Waits
        <3>3. requests[r].state \in {"live", "cancelled"}
            BY <3>1, <3>2 DEF Request
        <3>4. requests'[r].state \in {"live", "cancelled"}
            BY <2>2, <2>3, <3>3
        <3> QED BY <2>3, <3>4 DEF Open
    <2>7. SomeCancelled
        BY <2>2, <2>3, <2>4, <2>6 DEF SomeCancelled
    <2> QED BY <1>1, <2>2, <2>3, <2>7, CancelledMaps, CallsKept, TodoKept DEF AnswersInv, SameCalls
<1>3. CASE \E k \in Keys, r \in RequestIds : CancelsBatched(c, k, r)
    <2>1. PICK k \in Keys, r \in RequestIds : CancelsBatched(c, k, r)
        BY <1>3
    <2>2. r \in DOMAIN requests /\ r = batched[k] /\ r # 0 /\ LeftBy(c, r) /\ UNCHANGED inFlight
        BY <2>1 DEF CancelsBatched
    <2>3. /\ AnswersKept /\ NoneGiven /\ DOMAIN requests' = DOMAIN requests
          /\ \A q \in DOMAIN requests :
                 /\ requests'[q].key = requests[q].key /\ requests'[q].by = requests[q].by
                 /\ requests'[q].state = requests[q].state \/ requests'[q].state = "cancelled"
        BY <2>2, LeavingKeeps
    <2>4. \A l \in Keys : batched'[l] # 0 => batched'[l] = batched[l]
        BY <1>1, <2>1, MapsTyped DEF CancelsBatched
    <2>5. SomeCancelled
        BY <2>2, <2>3, <2>4 DEF SomeCancelled
    <2>6. PICK b \in BOOLEAN : run' = Disturbed(c, r, b)
        BY <2>1 DEF CancelsBatched
    <2>7. run'.todo = run.todo
        BY <1>1, <2>6, RunDisturbed
    <2> QED BY <1>1, <2>3, <2>5, <2>7, CancelledMaps, CallsKept, TodoKept DEF AnswersInv, SameCalls
<1>4. CASE UNCHANGED <<requests, inFlight, batched, run>>
    <2>1. SameAnswers
        BY <1>4 DEF SameAnswers
    <2> QED BY <1>1, <1>4, <2>1, FiledSame, CallsKept, TodoKept DEF AnswersInv, SameCalls
<1> QED BY <1>1, <1>2, <1>3, <1>4, CancelEffect

LEMMA AnswerAnswers ==
    ASSUME AnswersInv, NEW r \in DOMAIN requests, AnyAnswer(r)
    PROVE  /\ AnswersInv' /\ AnswersKept /\ SameLists /\ Idle /\ UNCHANGED <<containers, run>>
           /\ \A l \in Keys : \/ batched'[l] = batched[l]
                              \/ /\ batched'[l] \in DOMAIN requests
                                 /\ requests[batched'[l]].by = 0
<1>1. TypeInv /\ TypeInv'
    BY TypeAnswer DEF AnswersInv
<1>2. PICK error \in BOOLEAN, after \in Afterwards(r) :
          MarkedBy(r, error, after) /\ SameLists /\ Answered(r)
    BY <1>1, AnswerSteps
<1>3. PICK k \in Keys : k = requests[r].key
    BY <1>1, RequestTyped DEF Request
<1>4. Idle /\ requests[r].state \in Open /\ UNCHANGED <<containers, run>>
    BY <1>2 DEF Answered
<1>5. PICK f : f = inFlight[k]
    OBVIOUS
<1>6. /\ f # 0 => f \in DOMAIN requests /\ requests[f].key = k /\ requests[f].by = 0
      /\ r # 0 /\ r \in Nat
    BY <1>1, <1>5, MapsTyped DEF AnswersInv, MapsInv, Filed
<1>7. inFlight' = [inFlight EXCEPT ![k] = 0]
    BY <1>2, <1>3 DEF Answered
<1>8. /\ inFlight'[k] = 0 /\ \A l \in Keys : l # k => inFlight'[l] = inFlight[l]
    BY <1>1, <1>7, MapsTyped
<1>9. \A l \in Keys : \/ batched'[l] = batched[l]
                      \/ l = k /\ f # 0 /\ batched'[l] = f
    <2>1. CASE f = 0
        BY <1>2, <1>3, <1>5, <2>1 DEF Answered
    <2>2. CASE f # 0
        <3>1. batched' = [batched EXCEPT ![k] = f]
            BY <1>2, <1>3, <1>5, <2>2 DEF Answered, BatchResponse
        <3> QED BY <1>1, <2>2, <3>1, MapsTyped
    <2> QED BY <2>1, <2>2
<1>10. /\ DOMAIN requests' = DOMAIN requests
       /\ \A q \in DOMAIN requests :
             /\ requests'[q].key = requests[q].key
             /\ requests'[q].state = IF q = r THEN after ELSE requests[q].state
             /\ requests'[q].error = IF q = f THEN error ELSE requests[q].error
             /\ requests'[q].by = IF q = f THEN r ELSE requests[q].by
    BY <1>2, <1>3, <1>5 DEF MarkedBy
<1>11. /\ after \in {"refreshing", "answered"}
       /\ after = "refreshing" => k \in Refreshed
    BY <1>3 DEF Afterwards
<1>13. /\ \A l \in Keys : inFlight[l] # 0 => inFlight[l] \in DOMAIN requests
       /\ \A l \in Keys : batched[l] # 0 => batched[l] \in DOMAIN requests
    BY <1>1, MapsTyped
<1>14. \A q \in DOMAIN requests : requests[q].key \in Keys /\ q # 0
    <2>1. \A q \in DOMAIN requests : requests[q] \in Request /\ q \in RequestIds
        BY <1>1, RequestTyped
    <2> QED BY <2>1 DEF Request
<1>12. AnswersKept
    <2> SUFFICES ASSUME NEW q \in DOMAIN requests
                 PROVE  /\ q \in DOMAIN requests' /\ requests'[q].key = requests[q].key
                        /\ requests[q].by # 0 =>
                              requests'[q].by = requests[q].by /\ requests'[q].error = requests[q].error
                        /\ requests[q].state # "live" => requests'[q].state # "live"
        BY DEF AnswersKept
    <2>1. requests[q].by # 0 => q # f
        BY <1>6, <1>14
    <2> QED BY <1>10, <1>11, <2>1
<1>15. f = r \/ (requests[r].by # 0 /\ k \in Refreshed)
    <2>1. \/ f = r
          \/ requests[r].by # 0 /\ (requests[r].state = "live" => k \in Refreshed)
        <3>1. AnswerFindsItsCallers
            BY DEF AnswersInv, MapsInv, Waits
        <3>2. requests[r].state # "cancelled"
            BY <1>4 DEF Open
        <3>3. \/ inFlight[k] = r
              \/ requests[r].by # 0 /\ (requests[r].state = "live" => k \in Refreshed)
            BY <1>3, <3>1, <3>2, Zenon DEF AnswerFindsItsCallers
        <3> QED BY <1>5, <3>3
    <2>2. requests[r].state = "refreshing" => k \in Refreshed
        BY <1>3 DEF AnswersInv, MapsInv, Waits
    <2> QED BY <1>4, <2>1, <2>2 DEF Open
<1>16. Filed'
    <2>1. \A l \in Keys : inFlight'[l] # 0 =>
              requests'[inFlight'[l]].key = l /\ requests'[inFlight'[l]].by = 0
        <3> SUFFICES ASSUME NEW l \in Keys, inFlight'[l] # 0
                     PROVE  requests'[inFlight'[l]].key = l /\ requests'[inFlight'[l]].by = 0
            OBVIOUS
        <3>1. l # k /\ inFlight'[l] = inFlight[l]
            BY <1>8
        <3>2. PICK q \in DOMAIN requests : q = inFlight[l] /\ requests[q].key = l /\ requests[q].by = 0
            BY <1>13, <3>1 DEF AnswersInv, MapsInv, Filed
        <3>3. q # f
            BY <1>6, <1>14, <3>1, <3>2
        <3> QED BY <1>10, <3>1, <3>2, <3>3
    <2>2. \A l \in Keys : batched'[l] # 0 =>
              requests'[batched'[l]].key = l /\ requests'[batched'[l]].by # 0
        BY <1>6, <1>9, <1>10, <1>13 DEF AnswersInv, MapsInv, Filed
    <2> QED BY <2>1, <2>2 DEF Filed
<1>17. Newest'
    BY <1>8, <1>10, <1>14 DEF AnswersInv, MapsInv, Newest
<1>18. Waits'
    <2>1. ASSUME NEW q \in DOMAIN requests
          PROVE  /\ requests'[q].state \in {"refreshing", "answered"} => requests'[q].by # 0
                 /\ requests'[q].state = "refreshing" => requests'[q].key \in Refreshed
        <3>1. CASE q = r
            BY <1>3, <1>6, <1>10, <1>11, <1>15, <3>1
        <3>2. CASE q # r
            BY <1>6, <1>10, <3>2 DEF AnswersInv, MapsInv, Waits
        <3> QED BY <3>1, <3>2
    <2>2. ASSUME NEW q \in DOMAIN requests, requests'[q].state # "cancelled"
          PROVE  \/ inFlight'[requests'[q].key] = q
                 \/ /\ requests'[q].by # 0
                    /\ requests'[q].state = "live" => requests'[q].key \in Refreshed
        <3>1. CASE q = r
            BY <1>6, <1>10, <1>11, <1>15, <3>1
        <3>2. CASE q # r /\ q = f
            <4>1. requests'[q].by = r /\ requests'[q].key = k
                BY <1>6, <1>10, <1>14, <3>2
            <4> QED BY <1>6, <1>15, <3>2, <4>1
        <3>3. CASE q # r /\ q # f
            <4>1. /\ requests'[q].state = requests[q].state /\ requests'[q].by = requests[q].by
                  /\ requests'[q].key = requests[q].key
                BY <1>10, <3>3
            <4>2. \/ inFlight[requests[q].key] = q
                  \/ /\ requests[q].by # 0
                     /\ requests[q].state = "live" => requests[q].key \in Refreshed
                BY <2>2, <4>1 DEF AnswersInv, MapsInv, Waits, AnswerFindsItsCallers
            <4>3. inFlight[requests[q].key] = q => requests[q].key # k
                BY <1>5, <3>3
            <4> QED BY <1>8, <1>14, <4>1, <4>2, <4>3
        <3> QED BY <3>1, <3>2, <3>3
    <2> QED BY <1>10, <2>1, <2>2 DEF Waits, AnswerFindsItsCallers
<1>19. Sourced'
    <2> SUFFICES ASSUME NEW q \in DOMAIN requests, requests'[q].by # 0
                 PROVE  LET p == requests'[q].by IN
                        /\ p \in 1..q /\ requests'[p].key = requests'[q].key
                        /\ requests'[p].state # "live"
                        /\ p # q => requests'[q].key \in Refreshed
        BY <1>10 DEF Sourced
    <2>1. CASE q = f
        <3>1. requests'[q].by = r /\ requests[q].key = k /\ requests'[r].state = after
            BY <1>6, <1>10, <1>14, <2>1
        <3>2. r \in 1..q
            <4>1. q \in Nat
                BY <1>1, MapsTyped
            <4>2. r <= q
                BY <1>3, <1>5, <1>14, <2>1 DEF AnswersInv, MapsInv, Newest
            <4> QED BY <1>6, <4>1, <4>2
        <3> QED BY <1>3, <1>10, <1>11, <1>15, <2>1, <3>1, <3>2
    <2>2. CASE q # f
        <3>1. PICK p : p = requests[q].by /\ p = requests'[q].by
            BY <1>10, <2>2
        <3>2. /\ p \in 1..q /\ requests[p].key = requests[q].key
              /\ requests[p].state # "live"
              /\ p # q => requests[q].key \in Refreshed
            <4>1. Sourced
                BY DEF AnswersInv, MapsInv
            <4>2. requests[q].by = p /\ p # 0
                BY <3>1
            <4> QED BY <4>1, <4>2 DEF Sourced
        <3>3. p \in DOMAIN requests
            BY <1>1, <3>2, MapsTyped
        <3>4. requests'[p].key = requests[p].key /\ requests'[p].state # "live"
            BY <1>10, <1>11, <3>2, <3>3
        <3> QED BY <1>10, <3>1, <3>2, <3>4
    <2> QED BY <2>1, <2>2
<1>20. Told' /\ TodoAnswered'
    BY <1>4, <1>12, CallsKept, TodoKept
<1>21. \A l \in Keys : \/ batched'[l] = batched[l]
                       \/ /\ batched'[l] \in DOMAIN requests
                          /\ requests[batched'[l]].by = 0
    BY <1>6, <1>9
<1>22. AnswersInv'
    BY <1>1, <1>16, <1>17, <1>18, <1>19, <1>20 DEF AnswersInv, MapsInv
<1> QED BY <1>2, <1>4, <1>12, <1>21, <1>22

LEMMA GivesUpAnswers ==
    ASSUME AnswersInv, NEW r \in DOMAIN requests, GivesUp(r)
    PROVE  AnswersInv' /\ AnswersKept
<1>1. TypeInv /\ TypeInv'
    BY TypeGivesUp DEF AnswersInv
<1>2. PICK state \in {"cancelled", "answered"} :
          /\ EndsAs(r, state)
          /\ state = "answered" => requests[r].state = "refreshing"
    BY <1>1, GivesUpEffect
<1>3. UNCHANGED <<containers, inFlight, batched, run>>
    BY <1>1, GivesUpEffect
<1>4. requests[r] \in Request
    BY <1>1, RequestTyped
<1>5. /\ DOMAIN requests' = DOMAIN requests
      /\ requests'[r].key = requests[r].key /\ requests'[r].state = state
      /\ requests'[r].by = requests[r].by /\ requests'[r].error = requests[r].error
      /\ \A q \in DOMAIN requests : q # r => requests'[q] = requests[q]
    BY <1>2, <1>4 DEF EndsAs, SameLists, Request
<1>6. AnswersKept /\ NoneGiven
    BY <1>2, <1>5 DEF AnswersKept, NoneGiven
<1>7. MapsInv'
    <2>1. CASE state = "cancelled"
        <3>1. SomeCancelled
            BY <1>3, <1>5, <1>6, <2>1 DEF SomeCancelled
        <3> QED BY <3>1, CancelledMaps
    <2>2. CASE state = "answered"
        <3>1. requests[r].state = "refreshing" /\ requests[r].by # 0
            BY <1>2, <2>2 DEF AnswersInv, MapsInv, Waits
        <3>2. /\ \A l \in Keys : inFlight[l] # 0 => inFlight[l] \in DOMAIN requests
              /\ \A l \in Keys : batched[l] # 0 => batched[l] \in DOMAIN requests
            BY <1>1, MapsTyped
        <3>3. Filed'
            BY <1>3, <1>5, <3>2 DEF AnswersInv, MapsInv, Filed
        <3>4. Newest'
            BY <1>3, <1>5 DEF AnswersInv, MapsInv, Newest
        <3>5. Waits'
            BY <1>3, <1>5, <2>2, <3>1 DEF AnswersInv, MapsInv, Waits, AnswerFindsItsCallers
        <3> QED BY <1>6, <3>3, <3>4, <3>5, SourcedKept DEF MapsInv
    <2> QED BY <2>1, <2>2
<1> QED BY <1>1, <1>3, <1>6, <1>7, CallsKept, TodoKept DEF AnswersInv

LEMMA RunCallsAnswers ==
    ASSUME AnswersInv, RunCalls
    PROVE  AnswersInv' /\ AnswersKept
<1>1. /\ TypeInv /\ TypeInv' /\ Head(run.todo) \in DOMAIN requests
      /\ run'.todo = run.todo /\ run.todo # <<>>
    BY TypeRunCalls DEF AnswersInv, Running
<1>2. UNCHANGED <<requests, inFlight, batched>>
    BY DEF RunCalls
<1>3. PICK r \in DOMAIN requests : r = Head(run.todo)
    BY <1>1
<1>4. PICK i, c, v : CallsAs(r, i, c, v)
    BY <1>3 DEF CallsAs
<1>5. ChangedTo(c, v) /\ c \in DOMAIN containers /\ containers[c].req = r
    BY <1>1, <1>4, CallEffect, Zenon
<1>6. requests[r].by # 0
    <2>1. run.todo \in Seq(RequestIds)
        BY <1>1, MapsTyped
    <2>2. r = run.todo[1] /\ 1 \in DOMAIN run.todo
        BY <1>1, <1>3, <2>1
    <2> QED BY <2>2 DEF AnswersInv, TodoAnswered
<1>7. SameAnswers
    BY <1>2 DEF SameAnswers
<1>8. Told'
    <2>1. containers[c] \in Container /\ requests[r] \in Request
        BY <1>1, <1>5, RequestTyped DEF TypeInv, TypeOK
    <2>2. v.req = r /\ v.called = IF requests[r].error THEN "error" ELSE "image"
        BY <1>4, <1>5, <2>1 DEF CallsAs, Container
    <2>3. requests[r].error = (v.called = "error")
        BY <2>1, <2>2 DEF Request
    <2>4. /\ DOMAIN containers' = DOMAIN containers /\ containers'[c] = v
          /\ \A d \in DOMAIN containers : d # c => containers'[d] = containers[d]
        BY <1>5 DEF ChangedTo
    <2> SUFFICES ASSUME NEW d \in DOMAIN containers, NEW q, q = containers'[d].req,
                        q # 0, containers'[d].called # "no"
                 PROVE  /\ requests[q].by # 0
                        /\ requests[q].error = (containers'[d].called = "error")
        BY <1>2, <2>4 DEF Told
    <2>5. CASE d = c
        BY <1>6, <2>2, <2>3, <2>4, <2>5
    <2>6. CASE d # c
        BY <2>4, <2>6 DEF AnswersInv, Told
    <2> QED BY <2>5, <2>6
<1> QED BY <1>1, <1>7, <1>8, FiledSame, TodoKept DEF AnswersInv

\* The runnable moves on without calling anybody.
MovesOn == RunBegins \/ RunNextBatch \/ RunEnds \/ RunThrows

RunTyped ==
    run' \in [todo : Seq(RequestIds), at : Nat, listChanged : BOOLEAN, mapChanged : BOOLEAN]

LEMMA Begins ==
    ASSUME AnswersInv, RunBegins
    PROVE  /\ RunTyped /\ (Running' => posted)
           /\ run' = run \/ (InOrder(run'.todo) /\ run' = [NotRunning EXCEPT !.todo = run'.todo])
<1>1. PICK keys : keys = {k \in Keys : batched[k] # 0}
    OBVIOUS
<1>2. CASE keys = {}
    BY <1>1, <1>2, MapsTyped DEF RunBegins, AnswersInv, RunTyped
<1>3. CASE keys # {}
    <2>1. PICK order \in SetToSeqs(keys) :
              run' = [NotRunning EXCEPT !.todo = [i \in DOMAIN order |-> batched[order[i]]]]
        BY <1>1, <1>3 DEF RunBegins
    <2>2. PICK todo : todo = [i \in DOMAIN order |-> batched[order[i]]]
        OBVIOUS
    <2>3. \A k \in Keys : batched[k] # 0 => requests[batched[k]].key = k
        BY DEF AnswersInv, MapsInv, Filed
    <2>4. InOrder(todo)
        <3>1. TypeInv
            BY DEF AnswersInv
        <3> QED BY <1>1, <1>3, <2>2, <2>3, <3>1, BatchesInOrder, Zenon
    <2>5. run' = [NotRunning EXCEPT !.todo = todo]
        BY <2>1, <2>2
    <2>6. run'.todo = todo /\ RunTyped
        BY <2>4, <2>5 DEF NotRunning, RunTyped, InOrder
    <2>7. posted
        BY DEF RunBegins
    <2> QED BY <1>1, <2>4, <2>5, <2>6, <2>7
<1> QED BY <1>2, <1>3

LEMMA NextBatch ==
    ASSUME TypeInv, RunNextBatch
    PROVE  /\ RunTyped
           /\ run' = [NotRunning EXCEPT !.todo = run'.todo]
           /\ 1 \in DOMAIN run.todo /\ 1 \in DOMAIN run'.todo
           /\ \A j \in DOMAIN run'.todo : j + 1 \in DOMAIN run.todo /\ run'.todo[j] = run.todo[j + 1]
<1>1. run.todo \in Seq(RequestIds) /\ run.todo # <<>>
    BY MapsTyped DEF RunNextBatch, Running
<1>2. PICK n \in Nat : n = Len(run.todo) /\ DOMAIN run.todo = 1..n /\ n > 1
    BY <1>1 DEF RunNextBatch
<1>3. PICK rest : rest = Tail(run.todo)
    OBVIOUS
<1>4. /\ rest \in Seq(RequestIds) /\ Len(rest) = n - 1
      /\ \A j \in 1..(n - 1) : rest[j] = run.todo[j + 1]
    BY <1>1, <1>2, <1>3, HeadTailProperties
<1>5. run' = [NotRunning EXCEPT !.todo = rest]
    BY <1>3 DEF RunNextBatch
<1>6. run'.todo = rest /\ RunTyped
    BY <1>4, <1>5 DEF NotRunning, RunTyped
<1>7. DOMAIN rest = 1..(n - 1)
    BY <1>4
<1>8. \A j \in DOMAIN rest : j + 1 \in DOMAIN run.todo /\ rest[j] = run.todo[j + 1]
    BY <1>2, <1>4, <1>7
<1>9. 1 \in DOMAIN rest
    BY <1>2, <1>7
<1> QED BY <1>2, <1>5, <1>6, <1>8, <1>9

LEMMA MovesOnAnswers ==
    ASSUME AnswersInv, MovesOn
    PROVE  AnswersInv' /\ AnswersKept
<1>1. TypeInv /\ UNCHANGED <<env, images, containers, requests, inFlight>>
    BY DEF AnswersInv, MovesOn, RunBegins, RunNextBatch, RunEnds, RunThrows
<1>2. /\ RunTyped
      /\ Running' => posted'
      /\ posted' \in BOOLEAN
      /\ \A j \in DOMAIN run'.todo : /\ run'.todo[j] \in DOMAIN requests
                                     /\ requests[run'.todo[j]].by # 0
    <2>1. posted \in BOOLEAN /\ (Running => posted)
        BY <1>1 DEF TypeInv, TypeOK
    <2>2. /\ \A j \in DOMAIN run.todo : /\ run.todo[j] \in DOMAIN requests
                                        /\ requests[run.todo[j]].by # 0
          /\ \A k \in Keys : batched[k] # 0 => /\ batched[k] \in DOMAIN requests
                                               /\ requests[batched[k]].by # 0
        BY MapsTyped DEF AnswersInv, MapsInv, TypeInv, TodoAnswered, Filed
    <2>3. CASE RunBegins
        <3>1. posted' = posted \/ (posted' = FALSE /\ run' = run)
            BY <2>3 DEF RunBegins
        <3>2. ~Running
            BY <2>3 DEF RunBegins, Running
        <3>3. run' = run => ~Running'
            BY <3>2 DEF Running, Idle
        <3>4. RunTyped /\ (Running' => posted)
            BY <2>3, Begins
        <3>5. CASE run' = run
            BY <2>1, <2>2, <3>1, <3>3, <3>4, <3>5
        <3>6. CASE run' # run
            <4>1. InOrder(run'.todo) /\ posted' = posted
                BY <2>3, <3>1, <3>6, Begins
            <4>2. \A j \in DOMAIN run'.todo : /\ run'.todo[j] \in DOMAIN requests
                                              /\ requests[run'.todo[j]].by # 0
                BY <2>2, <4>1 DEF InOrder
            <4> QED BY <2>1, <3>4, <4>1, <4>2
        <3> QED BY <3>5, <3>6
    <2>4. CASE RunNextBatch
        <3>1. posted' = posted /\ Running
            BY <2>4 DEF RunNextBatch
        <3> QED BY <1>1, <2>1, <2>2, <2>4, <3>1, NextBatch
    <2>5. CASE RunEnds \/ RunThrows
        <3>1. posted' = FALSE \/ posted' = posted
            BY <2>5 DEF RunEnds, RunThrows
        <3>2. PICK b \in BOOLEAN : run' = [todo |-> <<>>, at |-> 0, listChanged |-> FALSE, mapChanged |-> b]
            BY <2>5 DEF RunEnds, RunThrows, NotRunning
        <3>3. run'.todo = <<>> /\ RunTyped
            <4>1. run'.todo = <<>> /\ <<>> \in Seq(RequestIds)
                BY <3>2
            <4> QED BY <3>2, <4>1 DEF RunTyped
        <3>4. ~Running' /\ DOMAIN run'.todo = {}
            BY <3>3 DEF Running
        <3> QED BY <2>1, <3>1, <3>3, <3>4
    <2> QED BY <2>3, <2>4, <2>5 DEF MovesOn
<1>3. batched' = batched \/ batched' = [k \in Keys |-> 0]
    BY DEF MovesOn, RunBegins, RunNextBatch, RunEnds, RunThrows
<1>4. batched' \in [Keys -> 0..Len(requests')]
    BY <1>1, <1>3, MapsTyped
<1>5. TypeOK'
    BY <1>1, <1>2, <1>4 DEF TypeInv, TypeOK, RunTyped
<1>6. SameLists
    BY <1>1, MapsTyped DEF SameLists
<1>7. TypeInv'
    BY <1>1, <1>2, <1>5, <1>6, TypeSameLists DEF TypeInv, SameLists
<1>8. AnswersKept
    BY <1>1 DEF AnswersKept
<1>9. MapsInv'
    <2>1. \A k \in Keys : batched'[k] # 0 => batched'[k] = batched[k]
        BY <1>3
    <2>2. SomeCancelled
        BY <1>1, <1>8, <2>1 DEF SomeCancelled, NoneGiven
    <2> QED BY <2>2, CancelledMaps
<1>10. Told' /\ TodoAnswered'
    BY <1>1, <1>2 DEF AnswersInv, Told, TodoAnswered
<1> QED BY <1>7, <1>8, <1>9, <1>10 DEF AnswersInv

LEMMA AnswersInit == Init => AnswersInv
<1> SUFFICES ASSUME Init PROVE AnswersInv
    OBVIOUS
<1>1. TypeInv
    BY TypeInit
<1>2. /\ DOMAIN containers = {} /\ DOMAIN requests = {} /\ DOMAIN run.todo = {}
      /\ \A k \in Keys : inFlight[k] = 0 /\ batched[k] = 0
    BY DEF Init, NotRunning
<1> QED BY <1>1, <1>2 DEF AnswersInv, MapsInv, Filed, Newest, Waits, Sourced,
                          AnswerFindsItsCallers, TodoAnswered, Told

LEMMA AnswersStep == AnswersInv /\ [Next]_vars => AnswersInv' /\ AnswersKept
<1> SUFFICES ASSUME AnswersInv, [Next]_vars PROVE AnswersInv' /\ AnswersKept
    OBVIOUS
<1>1. ASSUME NEW k \in Keys, Evict(k)
      PROVE  AnswersInv' /\ AnswersKept
    <2>1. UNCHANGED <<containers, requests, inFlight, batched, run>>
        BY <1>1 DEF Evict
    <2>2. SameAnswers /\ TypeInv'
        BY <1>1, <2>1, TypeEvict DEF SameAnswers, AnswersInv
    <2> QED BY <2>1, <2>2, FiledSame, CallsKept, TodoKept DEF AnswersInv
<1>2. CASE UNCHANGED vars
    <2>1. UNCHANGED <<containers, requests, inFlight, batched, run>>
        BY <1>2 DEF vars
    <2>2. SameAnswers /\ TypeInv'
        BY <1>2, <2>1, TypeStutter DEF SameAnswers, AnswersInv
    <2> QED BY <2>1, <2>2, FiledSame, CallsKept, TodoKept DEF AnswersInv
<1>3. CASE \E k \in Keys, early \in BOOLEAN :
             GetCached(k) \/ GetJoins(k, early) \/ GetRequests(k, early)
    BY <1>3, GetsAnswers
<1>4. CASE \E c \in DOMAIN containers : Cancel(c)
    BY <1>4, CancelAnswers
<1>5. CASE \E r \in DOMAIN requests : AnyAnswer(r) \/ NotModified(r) \/ QueueCancels(r)
    BY <1>5, AnswerAnswers, GivesUpAnswers DEF GivesUp
<1>6. CASE Deliver
    BY <1>6, RunCallsAnswers, MovesOnAnswers DEF Deliver, MovesOn
<1>7. CASE \E k \in Keys : GetCached(k)
    <2>1. FALSE \in BOOLEAN
        OBVIOUS
    <2> QED BY <1>3, <1>7, <2>1
<1> QED BY <1>1, <1>2, <1>3, <1>4, <1>5, <1>6, <1>7 DEF Next

\* The loader's state is what its code takes it to be: containers, requests, the
\* maps and the runnable keep their types.
THEOREM TypeCorrect == Spec => []TypeOK
<1>1. AnswersInv => TypeOK
    BY DEF AnswersInv, TypeInv
<1> QED BY <1>1, AnswersInit, AnswersStep, PTL DEF Spec

\* Those who share a request that nobody cancelled wait where the next answer for
\* their key looks for them, or have been given one.
THEOREM AnswersFindTheirCallers == Spec => []AnswerFindsItsCallers
<1>1. AnswersInv => AnswerFindsItsCallers
    BY DEF AnswersInv, MapsInv, Waits
<1> QED BY <1>1, AnswersInit, AnswersStep, PTL DEF Spec

\* Every callback tells what an answer for the caller's image was: that of its own
\* request or, where requests are answered twice, of an older one.
THEOREM CallbacksFitAnswers == Spec => []CallbackFitsAnswer
<1>1. AnswersInv => CallbackFitsAnswer
    <2> SUFFICES ASSUME AnswersInv, NEW c \in DOMAIN containers,
                        containers[c].req # 0, containers[c].called # "no"
                 PROVE  LET r == containers[c].req  q == requests[r].by IN
                        /\ requests[r].error = (containers[c].called = "error")
                        /\ q \in 1..r /\ requests[q].key = requests[r].key
                        /\ requests[q].state # "live"
                        /\ q # r => requests[r].key \in Refreshed
        BY DEF CallbackFitsAnswer
    <2>1. PICK r : r = containers[c].req
        OBVIOUS
    <2>2. r \in DOMAIN requests
        <3>1. r \in 0..Len(requests) /\ r # 0
            BY <2>1 DEF AnswersInv, TypeInv
        <3> QED BY <3>1, MapsTyped DEF AnswersInv
    <2>3. requests[r].by # 0 /\ requests[r].error = (containers[c].called = "error")
        BY <2>1 DEF AnswersInv, Told
    <2> QED BY <2>1, <2>2, <2>3 DEF AnswersInv, MapsInv, Sourced
<1> QED BY <1>1, AnswersInit, AnswersStep, PTL DEF Spec

-----------------------------------------------------------------------------
(* Nobody is called twice.                                                 *)

Uncalled(r) ==
    \A i \in DOMAIN requests[r].list : containers[requests[r].list[i]].called = "no"

\* Nobody in a batch that is still to come has been called, nor anybody behind
\* the place the runnable has reached in a list that was not changed.
ToCome ==
    /\ Idle => \A k \in Keys : batched[k] # 0 => Uncalled(batched[k])
    /\ \A i, j \in DOMAIN run.todo : run.todo[i] = run.todo[j] => i = j
    /\ \A j \in DOMAIN run.todo : j # 1 => Uncalled(run.todo[j])

Behind ==
    Running /\ ~run.listChanged =>
        \A i \in DOMAIN requests[run.todo[1]].list :
            i > run.at => containers[requests[run.todo[1]].list[i]].called = "no"

CallsInv == AnswersInv /\ ToCome /\ Behind

\* The callers of the requests that are answered are as they were.
SameCallers ==
    /\ \A c \in DOMAIN containers : containers'[c].called = containers[c].called
    /\ \A q \in DOMAIN requests : requests[q].by # 0 =>
          requests'[q].list = requests[q].list

LEMMA InHand ==
    ASSUME AnswersInv
    PROVE  /\ \A k \in Keys : batched[k] # 0 =>
                  batched[k] \in DOMAIN requests /\ requests[batched[k]].by # 0
           /\ \A j \in DOMAIN run.todo :
                  run.todo[j] \in DOMAIN requests /\ requests[run.todo[j]].by # 0
           /\ Running => 1 \in DOMAIN run.todo /\ Head(run.todo) = run.todo[1]
           /\ \A r \in DOMAIN requests : \A i \in DOMAIN requests[r].list :
                  /\ requests[r].list[i] \in DOMAIN containers
                  /\ containers[requests[r].list[i]].req = r
<1>1. TypeInv
    BY DEF AnswersInv
<1>2. \A k \in Keys : batched[k] # 0 =>
          batched[k] \in DOMAIN requests /\ requests[batched[k]].by # 0
    BY <1>1, MapsTyped DEF AnswersInv, MapsInv, Filed
<1>3. \A j \in DOMAIN run.todo :
          run.todo[j] \in DOMAIN requests /\ requests[run.todo[j]].by # 0
    BY <1>1 DEF TypeInv, AnswersInv, TodoAnswered
<1>4. Running => 1 \in DOMAIN run.todo /\ Head(run.todo) = run.todo[1]
    <2>1. run.todo \in Seq(RequestIds)
        BY <1>1, MapsTyped
    <2> QED BY <2>1 DEF Running
<1>5. \A r \in DOMAIN requests : \A i \in DOMAIN requests[r].list :
          /\ requests[r].list[i] \in DOMAIN containers
          /\ containers[requests[r].list[i]].req = r
    BY <1>1 DEF TypeInv, Belong
<1> QED BY <1>2, <1>3, <1>4, <1>5

LEMMA CallersUncalled ==
    ASSUME AnswersInv, SameCallers, NEW q \in DOMAIN requests, requests[q].by # 0
    PROVE  /\ Uncalled(q) => Uncalled(q)'
           /\ \A i \in DOMAIN requests[q].list :
                  containers'[requests[q].list[i]].called = containers[requests[q].list[i]].called
<1>1. \A i \in DOMAIN requests[q].list : requests[q].list[i] \in DOMAIN containers
    BY InHand
<1> QED BY <1>1 DEF SameCallers, Uncalled

LEMMA Undisturbed ==
    ASSUME CallsInv, SameCallers, run' = run,
           \A k \in Keys : batched'[k] # 0 => batched'[k] = batched[k]
    PROVE  ToCome' /\ Behind'
<1>1. AnswersInv /\ ToCome /\ Behind
    BY DEF CallsInv
<1>2. /\ \A k \in Keys : batched[k] # 0 =>
             batched[k] \in DOMAIN requests /\ requests[batched[k]].by # 0
      /\ \A j \in DOMAIN run.todo :
             run.todo[j] \in DOMAIN requests /\ requests[run.todo[j]].by # 0
      /\ Running => 1 \in DOMAIN run.todo
    BY <1>1, InHand
<1>3. (Idle' <=> Idle) /\ (Running' <=> Running)
    BY DEF Idle, Running
<1>4. ToCome'
    <2>1. ASSUME Idle', NEW k \in Keys, batched'[k] # 0
          PROVE  Uncalled(batched[k])'
        <3>1. PICK q \in DOMAIN requests : q = batched'[k] /\ q = batched[k] /\ q # 0
            BY <1>2, <2>1
        <3>2. Uncalled(q) /\ requests[q].by # 0
            BY <1>1, <1>2, <1>3, <2>1, <3>1 DEF ToCome
        <3>3. Uncalled(q)'
            BY <1>1, <3>2, CallersUncalled
        <3> QED BY <3>1, <3>3 DEF Uncalled
    <2>2. ASSUME NEW j \in DOMAIN run.todo, j # 1
          PROVE  Uncalled(run.todo[j])'
        <3>1. PICK q \in DOMAIN requests : q = run.todo[j]
            BY <1>2, <2>2
        <3>2. Uncalled(q) /\ requests[q].by # 0
            BY <1>1, <1>2, <2>2, <3>1 DEF ToCome
        <3>3. Uncalled(q)'
            BY <1>1, <3>2, CallersUncalled
        <3> QED BY <3>1, <3>3 DEF Uncalled
    <2> QED BY <1>1, <2>1, <2>2 DEF ToCome
<1>5. Behind'
    <2> SUFFICES ASSUME Running, ~run.listChanged
                 PROVE  \A i \in DOMAIN requests'[run.todo[1]].list :
                            i > run.at => containers'[requests'[run.todo[1]].list[i]].called = "no"
        BY <1>3 DEF Behind
    <2>1. PICK q \in DOMAIN requests : q = run.todo[1] /\ requests[q].by # 0
        BY <1>2
    <2>2. requests'[q].list = requests[q].list
        BY <2>1 DEF SameCallers
    <2>3. \A i \in DOMAIN requests[q].list :
              i > run.at => containers[requests[q].list[i]].called = "no"
        BY <1>1, <2>1 DEF Behind
    <2> QED BY <1>1, <2>1, <2>2, <2>3, CallersUncalled
<1> QED BY <1>4, <1>5

LEMMA GetsCalls ==
    ASSUME CallsInv, NEW k \in Keys, NEW early \in BOOLEAN,
           GetCached(k) \/ GetJoins(k, early) \/ GetRequests(k, early)
    PROVE  ToCome' /\ Behind'
<1>1. AnswersInv /\ TypeInv
    BY DEF CallsInv, AnswersInv
<1>2. SameCallers
    <2>1. CASE GetCached(k)
        <3>1. NewContainer(0, FALSE, "image") /\ UNCHANGED requests
            BY <2>1 DEF GetCached
        <3>2. Made(0, FALSE, "image")
            <4>1. 0 \in 0..MaxContainers
                OBVIOUS
            <4> QED BY <1>1, <3>1, <4>1, ContainerMade
        <3> QED BY <3>1, <3>2 DEF Made, SameCallers
    <2>2. CASE GetJoins(k, early)
        <3>1. PICK r : r = inFlight[k]
            OBVIOUS
        <3>2. r \in DOMAIN requests /\ JoinedBy(r) /\ Made(r, early, "no")
            BY <1>1, <2>2, <3>1, JoinEffect
        <3>3. requests[r].by = 0
            BY <1>1, <2>2, <3>1 DEF GetJoins, AnswersInv, MapsInv, Filed
        <3> QED BY <3>2, <3>3 DEF JoinedBy, Made, SameCallers
    <2>3. CASE GetRequests(k, early)
        <3>1. PICK r : r = Len(requests) + 1
            OBVIOUS
        <3>2. StartedAs(r, k) /\ Made(r, early, "no")
            BY <1>1, <2>3, <3>1, StartEffect
        <3> QED BY <3>2 DEF StartedAs, Made, SameCallers
    <2> QED BY <2>1, <2>2, <2>3
<1>3. run' = run /\ batched' = batched
    BY DEF GetCached, GetJoins, GetRequests
<1> QED BY <1>2, <1>3, Undisturbed

LEMMA CancelCalls ==
    ASSUME CallsInv, NEW c \in DOMAIN containers, Cancel(c)
    PROVE  ToCome' /\ Behind'
<1>1. AnswersInv /\ TypeInv /\ ToCome /\ Behind
    BY DEF CallsInv, AnswersInv
<1>2. SameCalls
    BY <1>1, CancelEffect
<1>3. CASE \E k \in Keys, r \in RequestIds : CancelsInFlight(c, k, r)
    <2>1. PICK k \in Keys, r \in RequestIds : CancelsInFlight(c, k, r)
        BY <1>3
    <2>2. requests[r].by = 0
        BY <1>1, <2>1 DEF CancelsInFlight, AnswersInv, MapsInv, Filed
    <2>3. SameCallers /\ run' = run /\ batched' = batched
        BY <1>2, <2>1, <2>2 DEF CancelsInFlight, SameCalls, SameCallers, LeftBy
    <2> QED BY <2>3, Undisturbed
<1>4. CASE UNCHANGED <<requests, inFlight, batched, run>>
    <2>1. SameCallers
        BY <1>2, <1>4 DEF SameCalls, SameCallers
    <2> QED BY <1>4, <2>1, Undisturbed
<1>5. CASE \E k \in Keys, r \in RequestIds : CancelsBatched(c, k, r)
    <2>1. PICK k \in Keys, r \in RequestIds : CancelsBatched(c, k, r)
        BY <1>5
    <2>2. PICK b \in BOOLEAN : run' = Disturbed(c, r, b)
        BY <2>1 DEF CancelsBatched
    <2>3. /\ run'.todo = run.todo /\ run'.at = run.at
          /\ Running <=> Running'
          /\ Idle => run' = run
          /\ ~run'.listChanged => ~run.listChanged
          /\ Running /\ r = Head(run.todo) /\ c \in ToSet(requests[r].list) => run'.listChanged
        BY <1>1, <2>2, RunDisturbed
    <2>4. /\ r \in DOMAIN requests
          /\ DOMAIN requests' = DOMAIN requests
          /\ \A j \in DOMAIN requests : j # r => requests'[j] = requests[j]
          /\ \A i \in DOMAIN requests'[r].list : \E j \in DOMAIN requests[r].list :
                 requests'[r].list[i] = requests[r].list[j]
          /\ c \notin ToSet(requests[r].list) => requests'[r].list = requests[r].list
        BY <2>1 DEF CancelsBatched, LeftBy
    <2>5. /\ \A j \in DOMAIN run.todo : run.todo[j] \in DOMAIN requests
          /\ Running => 1 \in DOMAIN run.todo /\ Head(run.todo) = run.todo[1]
          /\ \A k1 \in Keys : batched[k1] # 0 => batched[k1] \in DOMAIN requests
          /\ \A q \in DOMAIN requests : \A i \in DOMAIN requests[q].list :
                 requests[q].list[i] \in DOMAIN containers
        BY <1>1, InHand
    <2>6. \A d \in DOMAIN containers : containers'[d].called = containers[d].called
        BY <1>2 DEF SameCalls
    <2>7. ASSUME NEW q \in DOMAIN requests, Uncalled(q) PROVE Uncalled(q)'
        <3>1. \A i \in DOMAIN requests'[q].list : \E j \in DOMAIN requests[q].list :
                  requests'[q].list[i] = requests[q].list[j]
            BY <2>4
        <3> QED BY <2>5, <2>6, <2>7, <3>1 DEF Uncalled
    <2>8. \A k1 \in Keys : batched'[k1] # 0 => batched'[k1] = batched[k1]
        BY <1>1, <2>1, MapsTyped DEF CancelsBatched
    <2>9. Idle' => Idle
        <3>1. run \in [todo : Seq(RequestIds), at : Nat, listChanged : BOOLEAN, mapChanged : BOOLEAN]
            BY <1>1, MapsTyped
        <3>2. CASE Running
            BY <2>3, <3>2 DEF Running
        <3>3. CASE ~Running
            BY <2>2, <3>3 DEF Disturbed, Idle
        <3> QED BY <3>2, <3>3
    <2>10. ToCome'
        <3>1. ASSUME Idle', NEW l \in Keys, batched'[l] # 0
              PROVE  Uncalled(batched[l])'
            <4>1. PICK q \in DOMAIN requests : q = batched'[l] /\ q = batched[l] /\ q # 0
                BY <2>5, <2>8, <3>1
            <4>2. Uncalled(q)
                BY <1>1, <2>9, <3>1, <4>1 DEF ToCome
            <4>3. Uncalled(q)'
                BY <2>7, <4>2
            <4> QED BY <2>3, <4>1, <4>3 DEF Uncalled
        <3>2. ASSUME NEW j \in DOMAIN run.todo, j # 1
              PROVE  Uncalled(run.todo[j])'
            <4>1. PICK q \in DOMAIN requests : q = run.todo[j]
                BY <2>5
            <4>2. Uncalled(q)
                BY <1>1, <3>2, <4>1 DEF ToCome
            <4>3. Uncalled(q)'
                BY <2>7, <4>2
            <4> QED BY <2>3, <4>1, <4>3 DEF Uncalled
        <3> QED BY <1>1, <2>3, <3>1, <3>2 DEF ToCome
    <2>11. Behind'
        <3> SUFFICES ASSUME Running', ~run'.listChanged
                     PROVE  \A i \in DOMAIN requests'[run'.todo[1]].list : i > run'.at =>
                                containers'[requests'[run'.todo[1]].list[i]].called = "no"
            BY DEF Behind
        <3>1. PICK q \in DOMAIN requests : q = run.todo[1] /\ q = Head(run.todo)
            BY <2>3, <2>5
        <3>2. requests'[q].list = requests[q].list
            BY <2>3, <2>4, <3>1
        <3>3. \A i \in DOMAIN requests[q].list :
                  i > run.at => containers[requests[q].list[i]].called = "no"
            BY <1>1, <2>3, <3>1 DEF Behind
        <3> QED BY <2>3, <2>5, <2>6, <3>1, <3>2, <3>3
    <2> QED BY <2>10, <2>11
<1> QED BY <1>1, <1>3, <1>4, <1>5, CancelEffect

LEMMA AnswerCalls ==
    ASSUME CallsInv, NEW r \in DOMAIN requests, AnyAnswer(r)
    PROVE  ToCome' /\ Behind'
<1>1. AnswersInv /\ ToCome
    BY DEF CallsInv
<1>2. /\ SameLists /\ Idle /\ UNCHANGED <<containers, run>>
      /\ \A k \in Keys : \/ batched'[k] = batched[k]
                         \/ /\ batched'[k] \in DOMAIN requests
                            /\ requests[batched'[k]].by = 0
    BY <1>1, AnswerAnswers
<1>3. ASSUME NEW q \in DOMAIN requests, requests[q].by = 0
      PROVE  Uncalled(q)
    <2>1. ASSUME NEW i \in DOMAIN requests[q].list
          PROVE  containers[requests[q].list[i]].called = "no"
        <3>1. PICK c \in DOMAIN containers : c = requests[q].list[i] /\ containers[c].req = q
            BY <1>1, InHand
        <3>2. q # 0
            BY <1>1, MapsTyped DEF AnswersInv
        <3> QED BY <1>1, <1>3, <3>1, <3>2 DEF AnswersInv, Told
    <2> QED BY <2>1 DEF Uncalled
<1>4. Idle' /\ ~Running' /\ DOMAIN run'.todo = {}
    BY <1>2 DEF Idle, Running, NotRunning
<1>5. ASSUME NEW k \in Keys, batched'[k] # 0
      PROVE  Uncalled(batched[k])'
    <2>1. PICK q \in DOMAIN requests : q = batched'[k] /\ Uncalled(q)
        BY <1>1, <1>2, <1>3, <1>5, InHand DEF ToCome
    <2>2. requests'[q].list = requests[q].list /\ containers' = containers
        BY <1>2 DEF SameLists
    <2> QED BY <2>1, <2>2 DEF Uncalled
<1> QED BY <1>4, <1>5 DEF ToCome, Behind

LEMMA RunCallsCalls ==
    ASSUME CallsInv, RunCalls
    PROVE  /\ ToCome' /\ Behind'
           /\ containers[requests[run.todo[1]].list[run.at + 1]].called = "no"
<1>1. AnswersInv /\ TypeInv /\ ToCome /\ Behind
    BY DEF CallsInv, AnswersInv
<1>2. /\ Running /\ Running' /\ ~run.listChanged
      /\ run'.todo = run.todo /\ run'.at = run.at + 1
    BY <1>1, TypeRunCalls
<1>3. UNCHANGED <<requests, inFlight, batched>>
    BY DEF RunCalls
<1>4. /\ 1 \in DOMAIN run.todo /\ Head(run.todo) = run.todo[1]
      /\ \A j \in DOMAIN run.todo : run.todo[j] \in DOMAIN requests
      /\ \A q \in DOMAIN requests : \A j \in DOMAIN requests[q].list :
             /\ requests[q].list[j] \in DOMAIN containers
             /\ containers[requests[q].list[j]].req = q
    BY <1>1, <1>2, InHand
<1>5. PICK r \in DOMAIN requests : r = run.todo[1] /\ r = Head(run.todo)
    BY <1>4
<1>6. PICK i, c, v : CallsAs(r, i, c, v)
    BY <1>5 DEF CallsAs
<1>7. /\ ChangedTo(c, v) /\ c \in DOMAIN containers /\ containers[c].req = r
      /\ i \in DOMAIN requests[r].list
    BY <1>1, <1>6, CallEffect, Zenon
<1>8. i = run.at + 1 /\ c = requests[r].list[i]
    BY <1>6 DEF CallsAs
<1>9. \A d \in DOMAIN containers : d # c => containers'[d] = containers[d]
    BY <1>7 DEF ChangedTo
<1>10. run.at \in Nat
    <2>1. run \in [todo : Seq(RequestIds), at : Nat, listChanged : BOOLEAN, mapChanged : BOOLEAN]
        BY <1>1, MapsTyped
    <2> QED BY <2>1
<1>11. containers[c].called = "no"
    BY <1>1, <1>2, <1>5, <1>7, <1>8, <1>10 DEF Behind
<1>12. ToCome'
    <2>1. ASSUME NEW j \in DOMAIN run.todo, j # 1
          PROVE  Uncalled(run.todo[j])'
        <3>1. PICK q \in DOMAIN requests : q = run.todo[j]
            BY <1>4
        <3>2. Uncalled(q) /\ q # r
            BY <1>1, <1>4, <1>5, <2>1, <3>1 DEF ToCome
        <3>3. \A n \in DOMAIN requests[q].list :
                  containers'[requests[q].list[n]].called = "no"
            BY <1>4, <1>7, <1>9, <3>2 DEF Uncalled
        <3> QED BY <1>2, <1>3, <3>1, <3>3 DEF Uncalled
    <2>2. ~Idle'
        BY <1>2 DEF Running
    <2> QED BY <1>1, <1>2, <2>1, <2>2 DEF ToCome
<1>13. Behind'
    <2>1. ASSUME NEW n \in DOMAIN requests[r].list, n > run.at + 1
          PROVE  containers'[requests[r].list[n]].called = "no"
        <3>1. n > run.at /\ n # i
            <4>1. n \in Nat
                <5>1. requests[r] \in Request
                    BY <1>1, RequestTyped
                <5> QED BY <5>1 DEF Request
            <4> QED BY <1>8, <1>10, <2>1, <4>1
        <3>2. containers[requests[r].list[n]].called = "no"
            BY <1>1, <1>2, <1>5, <3>1 DEF Behind
        <3>3. requests[r].list[n] # c
            BY <1>1, <1>7, <1>8, <3>1 DEF TypeInv, Belong, Distinct
        <3> QED BY <1>4, <1>9, <3>2, <3>3
    <2> QED BY <1>2, <1>3, <1>5, <2>1 DEF Behind
<1> QED BY <1>5, <1>8, <1>11, <1>12, <1>13

LEMMA MovesOnCalls ==
    ASSUME CallsInv, MovesOn
    PROVE  ToCome' /\ Behind'
<1>1. AnswersInv /\ TypeInv /\ ToCome /\ Behind
    BY DEF CallsInv, AnswersInv
<1>2. UNCHANGED <<containers, requests>>
    BY DEF MovesOn, RunBegins, RunNextBatch, RunEnds, RunThrows
<1>3. \A q : Uncalled(q) => Uncalled(q)'
    BY <1>2 DEF Uncalled
<1>4. CASE RunBegins
    <2>1. Idle /\ batched' = batched
        BY <1>4 DEF RunBegins
    <2>2. CASE run' = run
        <3>1. SameCallers
            BY <1>2 DEF SameCallers
        <3> QED BY <2>1, <2>2, <3>1, Undisturbed
    <2>3. CASE run' # run
        <3>1. InOrder(run'.todo)
            BY <1>1, <1>4, <2>3, Begins
        <3>2. \A j \in DOMAIN run'.todo : \A i \in DOMAIN requests[run'.todo[j]].list :
                  containers[requests[run'.todo[j]].list[i]].called = "no"
            <4>1. \A k \in Keys : batched[k] # 0 => Uncalled(batched[k])
                BY <1>1, <2>1 DEF ToCome
            <4>2. ASSUME NEW j \in DOMAIN run'.todo
                  PROVE  Uncalled(run'.todo[j])
                <5>1. PICK k \in Keys : batched[k] # 0 /\ run'.todo[j] = batched[k]
                    BY <3>1, <4>2 DEF InOrder
                <5> QED BY <4>1, <5>1
            <4> QED BY <4>2 DEF Uncalled
        <3>3. \A j \in DOMAIN run'.todo : Uncalled(run.todo[j])'
            BY <1>2, <3>2 DEF Uncalled
        <3>4. ~Idle'
            BY <2>1, <2>3 DEF Idle
        <3>5. 1 \in DOMAIN run'.todo
            BY <3>1 DEF InOrder
        <3>6. Behind'
            BY <1>2, <3>2, <3>5 DEF Behind
        <3> QED BY <3>1, <3>3, <3>4, <3>6 DEF ToCome, InOrder
    <2> QED BY <2>2, <2>3
<1>5. CASE RunNextBatch
    <2>1. /\ 1 \in DOMAIN run.todo
          /\ \A j \in DOMAIN run'.todo : j + 1 \in DOMAIN run.todo /\ run'.todo[j] = run.todo[j + 1]
          /\ run'.todo \in Seq(RequestIds) /\ 1 \in DOMAIN run'.todo
        BY <1>1, <1>5, NextBatch DEF RunTyped
    <2>2. \A j \in DOMAIN run'.todo : j \in Nat /\ j + 1 # 1
        BY <2>1
    <2>3. \A j \in DOMAIN run'.todo : \A i \in DOMAIN requests[run'.todo[j]].list :
              containers[requests[run'.todo[j]].list[i]].called = "no"
        <3>1. ASSUME NEW j \in DOMAIN run'.todo
              PROVE  Uncalled(run'.todo[j])
            <4>1. PICK l \in DOMAIN run.todo : l # 1 /\ run'.todo[j] = run.todo[l]
                BY <2>1, <2>2
            <4> QED BY <1>1, <4>1 DEF ToCome
        <3> QED BY <3>1 DEF Uncalled
    <2>4. \A j \in DOMAIN run'.todo : Uncalled(run.todo[j])'
        BY <1>2, <2>3 DEF Uncalled
    <2>5. \A i, j \in DOMAIN run'.todo : run'.todo[i] = run'.todo[j] => i = j
        <3> SUFFICES ASSUME NEW i \in DOMAIN run'.todo, NEW j \in DOMAIN run'.todo,
                            run'.todo[i] = run'.todo[j]
                     PROVE  i = j
            OBVIOUS
        <3>1. i + 1 = j + 1
            BY <1>1, <2>1 DEF ToCome
        <3> QED BY <2>2, <3>1
    <2>6. ~Idle'
        BY <2>1 DEF Idle, NotRunning
    <2>7. Behind'
        BY <1>2, <2>1, <2>3 DEF Behind
    <2> QED BY <2>4, <2>5, <2>6, <2>7 DEF ToCome
<1>6. CASE RunEnds \/ RunThrows
    <2>1. /\ run'.todo = <<>>
          /\ batched' = [k \in Keys |-> 0] \/ ~Idle'
        BY <1>6 DEF RunEnds, RunThrows, NotRunning, Idle
    <2>2. DOMAIN run'.todo = {} /\ ~Running'
        BY <2>1 DEF Running
    <2>3. Idle' => \A k \in Keys : batched'[k] = 0
        BY <2>1
    <2> QED BY <2>2, <2>3 DEF ToCome, Behind
<1> QED BY <1>4, <1>5, <1>6 DEF MovesOn

LEMMA CallsInit == Init => CallsInv
<1> SUFFICES ASSUME Init PROVE CallsInv
    OBVIOUS
<1>1. DOMAIN run.todo = {} /\ \A k \in Keys : batched[k] = 0
    BY DEF Init, NotRunning
<1>2. ~Running
    BY DEF Init, Running, Idle
<1> QED BY <1>1, <1>2, AnswersInit DEF CallsInv, ToCome, Behind

LEMMA CallsStep == CallsInv /\ [Next]_vars => CallsInv'
<1> SUFFICES ASSUME CallsInv, [Next]_vars PROVE CallsInv'
    OBVIOUS
<1>1. AnswersInv /\ AnswersInv'
    BY AnswersStep DEF CallsInv
<1>2. ToCome' /\ Behind'
    <2>1. ASSUME NEW k \in Keys, Evict(k)
          PROVE  ToCome' /\ Behind'
        <3>1. SameCallers /\ run' = run /\ batched' = batched
            BY <2>1 DEF Evict, SameCallers
        <3> QED BY <3>1, Undisturbed
    <2>2. CASE UNCHANGED vars
        <3>1. SameCallers /\ run' = run /\ batched' = batched
            BY <2>2 DEF vars, SameCallers
        <3> QED BY <3>1, Undisturbed
    <2>3. ASSUME NEW r \in DOMAIN requests, GivesUp(r)
          PROVE  ToCome' /\ Behind'
        <3>1. SameLists /\ UNCHANGED <<containers, run, batched>>
            BY <1>1, <2>3, GivesUpEffect DEF AnswersInv, EndsAs
        <3>2. SameCallers /\ run' = run /\ batched' = batched
            BY <3>1 DEF SameLists, SameCallers
        <3> QED BY <3>2, Undisturbed
    <2>4. CASE \E k \in Keys, early \in BOOLEAN :
                 GetCached(k) \/ GetJoins(k, early) \/ GetRequests(k, early)
        BY <2>4, GetsCalls
    <2>5. CASE \E c \in DOMAIN containers : Cancel(c)
        BY <2>5, CancelCalls
    <2>6. CASE \E r \in DOMAIN requests : AnyAnswer(r)
        BY <2>6, AnswerCalls
    <2>7. CASE Deliver
        BY <2>7, RunCallsCalls, MovesOnCalls DEF Deliver, MovesOn
    <2>8. CASE \E k \in Keys : GetCached(k)
        <3>1. FALSE \in BOOLEAN
            OBVIOUS
        <3> QED BY <2>4, <2>8, <3>1
    <2> QED BY <2>1, <2>2, <2>3, <2>4, <2>5, <2>6, <2>7, <2>8 DEF Next, GivesUp
<1> QED BY <1>1, <1>2 DEF CallsInv

\* Only the runnable calls anybody.
LEMMA WhoCalls ==
    ASSUME CallsInv, [Next]_vars, NEW c \in DOMAIN containers, RunCallsFor(c)
    PROVE  RunCalls
<1>1. AnswersInv /\ TypeInv
    BY DEF CallsInv, AnswersInv
<1>2. run.at \in Nat
    <2>1. run \in [todo : Seq(RequestIds), at : Nat, listChanged : BOOLEAN, mapChanged : BOOLEAN]
        BY <1>1, MapsTyped
    <2> QED BY <2>1
<1>3. run'.at = run.at + 1 /\ Running
    BY DEF RunCallsFor
<1>4. run'.at # run.at /\ run'.at # 0
    BY <1>2, <1>3
<1>5. ASSUME NEW d \in DOMAIN containers, Cancel(d)
      PROVE  run'.at = run.at
    <2>1. CASE \E k \in Keys, r \in RequestIds : CancelsBatched(d, k, r)
        <3>1. PICK k \in Keys, r \in RequestIds : CancelsBatched(d, k, r)
            BY <2>1
        <3>2. PICK b \in BOOLEAN : run' = Disturbed(d, r, b)
            BY <3>1 DEF CancelsBatched
        <3> QED BY <1>1, <3>2, RunDisturbed
    <2>2. CASE run' = run
        BY <2>2
    <2> QED BY <1>1, <1>5, <2>1, <2>2, CancelEffect DEF CancelsInFlight
<1>6. MovesOn => run' = run \/ run'.at = 0
    <2>1. RunBegins => FALSE
        BY <1>3 DEF RunBegins, Running
    <2>2. RunNextBatch => run'.at = 0
        BY DEF RunNextBatch, NotRunning
    <2>3. RunEnds \/ RunThrows => run'.at = 0
        BY DEF RunEnds, RunThrows, NotRunning
    <2> QED BY <2>1, <2>2, <2>3 DEF MovesOn
<1>7. ASSUME NEW r \in DOMAIN requests, AnyAnswer(r) PROVE run' = run
    BY <1>1, <1>7, AnswerAnswers
<1>8. ASSUME NEW k \in Keys, NEW early \in BOOLEAN,
             GetCached(k) \/ Evict(k) \/ GetJoins(k, early) \/ GetRequests(k, early)
      PROVE  run' = run
    BY <1>8 DEF GetCached, Evict, GetJoins, GetRequests
<1>9. ASSUME NEW r \in DOMAIN requests, QueueCancels(r) \/ NotModified(r) PROVE run' = run
    BY <1>9 DEF QueueCancels, NotModified
<1>10. UNCHANGED vars => run' = run
    BY DEF vars
<1>11. FALSE \in BOOLEAN
    OBVIOUS
<1> QED BY <1>4, <1>5, <1>6, <1>7, <1>8, <1>9, <1>10, <1>11 DEF Next, Deliver, MovesOn

\* No caller is called twice: whatever is cancelled, overtaken or asked for
\* again from inside a listener.
THEOREM NobodyIsCalledTwice == Spec => CalledOnce
<1>1. CallsInv /\ [Next]_vars =>
          [\A c \in DOMAIN containers : RunCallsFor(c) => containers[c].called = "no"]_vars
    <2> SUFFICES ASSUME CallsInv, [Next]_vars, NEW c \in DOMAIN containers, RunCallsFor(c)
                 PROVE  containers[c].called = "no"
        OBVIOUS
    <2>1. RunCalls
        BY WhoCalls
    <2>2. containers[requests[run.todo[1]].list[run.at + 1]].called = "no"
        BY <2>1, RunCallsCalls
    <2>3. c = requests[Head(run.todo)].list[run.at + 1] /\ Head(run.todo) = run.todo[1]
        BY InHand DEF RunCallsFor, Current, CallsInv
    <2> QED BY <2>2, <2>3
<1> QED BY <1>1, CallsInit, CallsStep, PTL DEF Spec, CalledOnce
=============================================================================
