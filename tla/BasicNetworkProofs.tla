------------------------- MODULE BasicNetworkProofs -------------------------
(***************************************************************************)
(* Theorems about HTTP exchanges and the pool of buffers they share, for   *)
(* all retry counts, all lengths of buffers and bodies, any size limit and *)
(* any number of buffers with other threads.                               *)
(***************************************************************************)
EXTENDS BasicNetwork, DataLemmas

-----------------------------------------------------------------------------
(* The list by size and trim().                                            *)

\* The buffers of s come in the order of their sizes in g.
SortedBy(g, s) == \A i \in 1..(Len(s) - 1) : g[s[i]] <= g[s[i + 1]]

\* f collects what trim() leaves of the first elements of s.
IsTrim(f, s, old) ==
    f = [i \in 0..Len(s) |->
            IF i = 0 THEN <<>>
            ELSE f[i - 1] \o (IF s[i] \in old THEN <<>> ELSE <<s[i]>>)]

\* There is such a function: trim() can go through any list.
LEMMA TrimExists ==
    ASSUME NEW S, NEW s \in Seq(S), NEW old
    PROVE  \E f \in [0..Len(s) -> Seq(S)] : IsTrim(f, s, old)
<1>1. PICK n \in Nat : n = Len(s) /\ \A i \in 1..n : s[i] \in S
    BY LenProperties, ElementOfSeq
<1> DEFINE X == Seq(S)
           step == [z \in (1..n) \X X |-> z[2] \o (IF s[z[1]] \in old THEN <<>> ELSE <<s[z[1]]>>)]
<1>2. <<>> \in X
    OBVIOUS
<1>3. step \in [(1..n) \X X -> X]
    <2> SUFFICES ASSUME NEW i \in 1..n, NEW u \in Seq(S)
                 PROVE  u \o (IF s[i] \in old THEN <<>> ELSE <<s[i]>>) \in Seq(S)
        OBVIOUS
    <2>1. <<>> \in Seq(S) /\ <<s[i]>> \in Seq(S)
        BY <1>1
    <2> QED BY <2>1, ConcatProperties
<1>4. \A i \in 1..n, u \in X : step[<<i, u>>] = u \o (IF s[i] \in old THEN <<>> ELSE <<s[i]>>)
    OBVIOUS
<1> HIDE DEF step, X
<1>5. PICK f \in [0..n -> X] : IsRecursion(f, n, <<>>, step)
    BY <1>1, <1>2, <1>3, RecursionExists
<1>6. \A i \in 1..n : f[i - 1] \in X
    OBVIOUS
<1>7. \A i \in 0..n : f[i] = IF i = 0 THEN <<>>
                             ELSE f[i - 1] \o (IF s[i] \in old THEN <<>> ELSE <<s[i]>>)
    <2> SUFFICES ASSUME NEW i \in 0..n
                 PROVE  f[i] = IF i = 0 THEN <<>>
                               ELSE f[i - 1] \o (IF s[i] \in old THEN <<>> ELSE <<s[i]>>)
        OBVIOUS
    <2>1. f[i] = IF i = 0 THEN <<>> ELSE step[<<i, f[i - 1]>>]
        BY <1>5, Zenon DEF IsRecursion
    <2>2. i # 0 => i \in 1..n
        OBVIOUS
    <2> QED BY <1>4, <1>6, <2>1, <2>2, Zenon
<1>8. f = [i \in 0..n |-> f[i]]
    OBVIOUS
<1>9. IsTrim(f, s, old)
    BY <1>1, <1>7, <1>8, Zenon DEF IsTrim
<1> QED BY <1>1, <1>9 DEF X

\* What Trimmed() is by its definition.
LEMMA TrimUnfolds ==
    ASSUME NEW s, NEW old
    PROVE  Trimmed(s, old) = (CHOOSE f : IsTrim(f, s, old))[Len(s)]
BY DEF Trimmed, IsTrim

\* trim() takes the old ones out of the list by size, and the others stay in order.
LEMMA TrimmedList ==
    ASSUME NEW S, NEW s \in Seq(S), IsInjective(s), NEW old,
           NEW g \in [S -> Int], SortedBy(g, s)
    PROVE  /\ Trimmed(s, old) \in Seq(S) /\ IsInjective(Trimmed(s, old))
           /\ ToSet(Trimmed(s, old)) = ToSet(s) \ old
           /\ SortedBy(g, Trimmed(s, old))
<1>1. PICK n \in Nat : n = Len(s) /\ DOMAIN s = 1..n /\ \A i \in 1..n : s[i] \in S
    BY LenProperties, ElementOfSeq
<1> DEFINE f == CHOOSE f : IsTrim(f, s, old)
<1>2. \A i \in 0..n : f[i] = IF i = 0 THEN <<>>
                             ELSE f[i - 1] \o (IF s[i] \in old THEN <<>> ELSE <<s[i]>>)
    <2>1. \E h : IsTrim(h, s, old)
        BY TrimExists
    <2>2. IsTrim(f, s, old)
        BY <2>1
    <2> HIDE DEF f
    <2> QED BY <1>1, <2>2, Zenon DEF IsTrim
<1>3. Trimmed(s, old) = f[n]
    BY <1>1, TrimUnfolds
<1> HIDE DEF f
<1> DEFINE Good(i) == /\ f[i] \in Seq(S) /\ IsInjective(f[i])
                      /\ ToSet(f[i]) = {s[j] : j \in 1..i} \ old
                      /\ SortedBy(g, f[i])
                      /\ i > 0 => \A x \in ToSet(f[i]) : g[x] <= g[s[i]]
           C == {i \in Nat : i <= n => Good(i)}
<1>4. 0 \in C
    <2>1. f[0] = <<>>
        <3>1. 0 \in 0..n
            OBVIOUS
        <3> QED BY <1>2, <3>1, Zenon
    <2>2. <<>> \in Seq(S) /\ IsInjective(<<>>) /\ ToSet(<<>>) = {} /\ SortedBy(g, <<>>)
        BY DEF IsInjective, ToSet, SortedBy
    <2>3. {s[j] : j \in 1..0} = {}
        OBVIOUS
    <2> QED BY <2>1, <2>2, <2>3
<1>5. ASSUME NEW i \in Nat, i \in C PROVE i + 1 \in C
    <2>0. SUFFICES ASSUME i + 1 <= n PROVE Good(i + 1)
        <3> HIDE DEF Good
        <3> QED OBVIOUS
    <2> DEFINE u == f[i]
               e == s[i + 1]
               v == f[i + 1]
    <2>1. /\ u \in Seq(S) /\ IsInjective(u)
          /\ ToSet(u) = {s[j] : j \in 1..i} \ old
          /\ SortedBy(g, u)
          /\ i > 0 => \A x \in ToSet(u) : g[x] <= g[s[i]]
        BY <1>5, <2>0
    <2>2. v = u \o (IF e \in old THEN <<>> ELSE <<e>>)
        <3>1. i + 1 \in 0..n /\ i + 1 # 0 /\ (i + 1) - 1 = i
            BY <2>0
        <3> QED BY <1>2, <3>1, Zenon
    <2>3. /\ e \in S /\ \A j \in 1..i : s[j] # e /\ s[j] \in S
          /\ {s[j] : j \in 1..(i + 1)} = {s[j] : j \in 1..i} \cup {e}
        <3>1. i + 1 \in 1..n /\ \A j \in 1..i : j \in 1..n /\ j # i + 1
            BY <2>0
        <3>2. 1..(i + 1) = (1..i) \cup {i + 1}
            OBVIOUS
        <3> QED BY <1>1, <3>1, <3>2 DEF IsInjective
    <2>4. i > 0 => s[i] \in S /\ g[s[i]] <= g[e]
        BY <1>1, <2>0 DEF SortedBy
    <2>5. \A x \in ToSet(u) : x \in S /\ g[x] <= g[e]
        <3>1. ASSUME NEW x \in ToSet(u) PROVE x \in S /\ i > 0
            BY <2>1, <2>3
        <3>2. ASSUME NEW x \in ToSet(u) PROVE g[x] <= g[e]
            <4>1. g[x] \in Int /\ g[s[i]] \in Int /\ g[e] \in Int /\ g[x] <= g[s[i]] /\ g[s[i]] <= g[e]
                BY <2>1, <2>3, <2>4, <3>1
            <4> QED BY <4>1
        <3> QED BY <3>1, <3>2
    <2> HIDE DEF u, e, v
    <2>6. CASE e \in old
        <3>1. v = u
            BY <2>1, <2>2, <2>6, ConcatEmptySeq
        <3>2. ToSet(v) = {s[j] : j \in 1..(i + 1)} \ old
            BY <2>1, <2>3, <2>6, <3>1
        <3> QED BY <2>1, <2>5, <3>1, <3>2 DEF v, e
    <2>7. CASE e \notin old
        <3>1. v = Append(u, e)
            BY <2>1, <2>2, <2>3, <2>7, AppendIsConcat
        <3>2. e \notin ToSet(u)
            BY <2>1, <2>3
        <3>7. v \in Seq(S) /\ IsAppended(v, u, e)
            BY <2>1, <2>3, <3>1, AppendedTo
        <3>3. IsInjective(v) /\ ToSet(v) = ToSet(u) \cup {e}
            <4>1. u \in Seq(S) /\ IsInjective(u) /\ v \in Seq(S)
                BY <2>1, <3>7
            <4> QED BY <3>2, <3>7, <4>1, AppendedToList
        <3>4. ToSet(v) = {s[j] : j \in 1..(i + 1)} \ old
            BY <2>1, <2>3, <2>7, <3>3
        <3>5. \A x \in ToSet(v) : g[x] <= g[e]
            BY <2>3, <2>5, <3>3
        <3>6. SortedBy(g, v)
            <4>1. PICK m \in Nat : m = Len(u) /\ DOMAIN u = 1..m
                BY <2>1, LenProperties
            <4>2. \A j \in 1..m : v[j] = u[j] /\ u[j] \in ToSet(u)
                BY <3>7, <4>1 DEF ToSet, IsAppended
            <4>3. v[m + 1] = e /\ Len(v) = m + 1
                BY <3>7, <4>1 DEF IsAppended
            <4> SUFFICES ASSUME NEW j \in 1..m PROVE g[v[j]] <= g[v[j + 1]]
                BY <4>3 DEF SortedBy
            <4>4. CASE j = m
                BY <2>5, <4>2, <4>3, <4>4
            <4>5. CASE j # m
                <5>1. j \in 1..(m - 1) /\ j + 1 \in 1..m
                    BY <4>5
                <5>2. g[u[j]] <= g[u[j + 1]]
                    BY <2>1, <4>1, <5>1 DEF SortedBy
                <5> QED BY <4>2, <5>1, <5>2
            <4> QED BY <4>4, <4>5
        <3> QED BY <3>3, <3>4, <3>5, <3>6, <3>7 DEF v, e
    <2> QED BY <2>6, <2>7
<1> HIDE DEF C
<1>6. n \in C
    BY <1>4, <1>5, NatSetInduction
<1>7. Good(n)
    BY <1>6 DEF C
<1>8. ToSet(s) = {s[j] : j \in 1..n}
    BY <1>1 DEF ToSet
<1> QED BY <1>3, <1>7, <1>8

-----------------------------------------------------------------------------
(* The pool.                                                               *)

\* The two lists agree with each other, with the total and with what is lent.
PoolInv == PoolTypeOK /\ PoolIsSound /\ LentIsGone

\* Sorted() looks at the present lengths.
LEMMA SortedIs == Sorted(bySize) <=> SortedBy(length, bySize)
BY DEF Sorted, SortedBy

\* What the parts of the pool are made of.
LEMMA PoolBasics ==
    ASSUME PoolInv
    PROVE  /\ IsFiniteSet(Buffers)
           /\ \A b \in Buffers : length[b] \in Nat /\ length[b] \in Int
           /\ DOMAIN bySize = 1..Len(bySize) /\ DOMAIN byLastUse = 1..Len(byLastUse)
           /\ \A i \in 1..Len(bySize) : bySize[i] \in Buffers /\ bySize[i] \in ToSet(bySize)
           /\ ToSet(bySize) \subseteq Buffers /\ IsFiniteSet(ToSet(bySize))
<1> USE DEF PoolInv, PoolTypeOK
<1>1. IsFiniteSet(Buffers)
    BY PoolAssumption, FS_Interval DEF Buffers
<1>2. \A b \in Buffers : length[b] \in Nat /\ length[b] \in Int
    OBVIOUS
<1>3. DOMAIN bySize = 1..Len(bySize) /\ DOMAIN byLastUse = 1..Len(byLastUse)
    BY LenProperties
<1>4. \A i \in 1..Len(bySize) : bySize[i] \in Buffers /\ bySize[i] \in ToSet(bySize)
    BY <1>3, ElementOfSeq DEF ToSet
<1>5. ToSet(bySize) \subseteq Buffers
    BY <1>3, <1>4 DEF ToSet
<1> QED BY <1>1, <1>2, <1>3, <1>4, <1>5, FS_Subset

\* The same buffers of the same length have the same order and the same total.
LEMMA SamePool ==
    ASSUME PoolInv, NEW t \in Seq(Buffers), SortedBy(length, t), NEW g \in [Buffers -> Nat],
           \A b \in ToSet(t) : g[b] = length[b]
    PROVE  SortedBy(g, t) /\ SumFunctionOnSet(g, ToSet(t)) = TotalOf(ToSet(t))
<1>1. PICK n \in Nat : n = Len(t) /\ DOMAIN t = 1..n
    BY LenProperties
<1>2. \A i \in 1..n : t[i] \in ToSet(t) /\ t[i] \in Buffers
    BY <1>1, ElementOfSeq DEF ToSet
<1>3. SortedBy(g, t)
    <2> SUFFICES ASSUME NEW i \in 1..(n - 1) PROVE g[t[i]] <= g[t[i + 1]]
        BY <1>1 DEF SortedBy
    <2>1. length[t[i]] <= length[t[i + 1]] /\ i \in 1..n /\ i + 1 \in 1..n
        BY <1>1 DEF SortedBy
    <2> QED BY <1>2, <2>1
<1>4. ToSet(t) \subseteq Buffers
    BY <1>1, <1>2 DEF ToSet
<1>5. IsFiniteSet(ToSet(t)) /\ \A b \in ToSet(t) : g[b] \in Int /\ g[b] = length[b]
    BY <1>4, PoolBasics, FS_Subset
<1>6. SumFunctionOnSet(g, ToSet(t)) = SumFunctionOnSet(length, ToSet(t))
    BY <1>5, SumSame
<1> QED BY <1>3, <1>6 DEF TotalOf

\* getBuf() finds a buffer ...
LEMMA GetPooled ==
    ASSUME PoolInv, NEW len \in Nat, GetBuf(len), Big(len) # {}
    PROVE  /\ PoolInv' /\ BufferFor(len) \in Buffers \ lent
           /\ length' = length /\ length[BufferFor(len)] >= len
           /\ ToSet(bySize') \subseteq ToSet(bySize)
<1> DEFINE b == BufferFor(len)
           p == Min(Big(len))
<1>1. /\ lent' = lent \cup {b} /\ b = bySize[p]
      /\ bySize' = RemoveAt(bySize, p) /\ byLastUse' = RemoveFirst(byLastUse, b)
      /\ currentSize' = currentSize - length[b] /\ length' = length
    BY DEF GetBuf, BufferFor
<1>2. PICK n \in Nat : n = Len(bySize) /\ DOMAIN bySize = 1..n
    BY PoolBasics, LenProperties DEF PoolInv, PoolTypeOK
<1>3. p \in 1..n /\ length[bySize[p]] >= len
    <2>1. Big(len) \in SUBSET Nat
        BY <1>2 DEF Big
    <2>2. p \in Big(len)
        BY <2>1, LeastNumber
    <2> QED BY <1>2, <2>2 DEF Big
<1>4. b \in Buffers /\ b \in ToSet(bySize) /\ b \in ToSet(byLastUse) /\ length[b] >= len
    BY <1>1, <1>2, <1>3, PoolBasics DEF PoolInv, PoolIsSound
<1> HIDE DEF b, p
<1>5. b \notin lent
    BY <1>4 DEF PoolInv, LentIsGone
<1>6. /\ bySize' \in Seq(Buffers) /\ IsInjective(bySize') /\ ToSet(bySize') = ToSet(bySize) \ {b}
      /\ Len(bySize') = n - 1
      /\ \A i \in 1..(p - 1) : bySize'[i] = bySize[i]
      /\ \A i \in p..(n - 1) : bySize'[i] = bySize[i + 1]
    <2>1. bySize \in Seq(Buffers) /\ IsInjective(bySize) /\ p \in 1..Len(bySize)
        BY <1>2, <1>3 DEF PoolInv, PoolTypeOK, PoolIsSound
    <2>2. bySize' \in Seq(Buffers) /\ IsWithout(bySize', bySize, p)
        BY <1>1, <2>1, CutOut
    <2>3. IsInjective(bySize') /\ ToSet(bySize') = ToSet(bySize) \ {bySize[p]}
        BY <2>1, <2>2, CutFromList
    <2> QED BY <1>1, <1>2, <2>2, <2>3 DEF IsWithout
<1>7. byLastUse' \in Seq(Buffers) /\ IsInjective(byLastUse') /\ ToSet(byLastUse') = ToSet(byLastUse) \ {b}
    <2>1. byLastUse \in Seq(Buffers) /\ IsInjective(byLastUse)
        BY DEF PoolInv, PoolTypeOK, PoolIsSound
    <2> QED BY <1>1, <2>1, RemovedFromList
<1>8. Sorted(bySize)'
    <2> SUFFICES ASSUME NEW i \in 1..(n - 2)
                 PROVE  length[bySize'[i]] <= length[bySize'[i + 1]]
        BY <1>1, <1>6 DEF Sorted
    <2>1. \A j \in 1..(n - 1) : length[bySize[j]] <= length[bySize[j + 1]]
        BY <1>2 DEF PoolInv, PoolIsSound, Sorted
    <2>2. \A j \in 1..n : length[bySize[j]] \in Nat
        BY <1>2, PoolBasics
    <2>3. CASE i + 1 < p
        BY <1>3, <1>6, <2>1, <2>3
    <2>4. CASE i + 1 = p
        <3>1. bySize'[i] = bySize[i] /\ bySize'[i + 1] = bySize[i + 2]
            BY <1>3, <1>6, <2>4
        <3>2. /\ length[bySize[i]] <= length[bySize[i + 1]]
              /\ length[bySize[i + 1]] <= length[bySize[i + 2]]
            <4>1. i \in 1..(n - 1) /\ i + 1 \in 1..(n - 1) /\ (i + 1) + 1 = i + 2
                OBVIOUS
            <4> QED BY <2>1, <4>1
        <3>3. i \in 1..n /\ i + 1 \in 1..n /\ i + 2 \in 1..n
            OBVIOUS
        <3>4. length[bySize[i]] \in Nat /\ length[bySize[i + 1]] \in Nat /\ length[bySize[i + 2]] \in Nat
            BY <2>2, <3>3
        <3>5. length[bySize[i]] <= length[bySize[i + 2]]
            BY <3>2, <3>4
        <3> QED BY <3>1, <3>5
    <2>5. CASE i + 1 > p
        <3>1. bySize'[i] = bySize[i + 1] /\ bySize'[i + 1] = bySize[i + 2]
            BY <1>3, <1>6, <2>5
        <3>2. i + 1 \in 1..(n - 1) /\ (i + 1) + 1 = i + 2
            OBVIOUS
        <3> QED BY <2>1, <3>1, <3>2
    <2> QED BY <1>3, <2>3, <2>4, <2>5
<1>9. currentSize' = TotalOf(ToSet(bySize))' /\ currentSize' <= SizeLimit /\ currentSize' \in Nat
    <2>1. /\ IsFiniteSet(ToSet(bySize)) /\ b \in ToSet(bySize)
          /\ \A x \in ToSet(bySize) : length[x] \in Int /\ length[x] \in Nat
        BY <1>4, PoolBasics
    <2>2. SumFunctionOnSet(length, ToSet(bySize)) = length[b] + SumFunctionOnSet(length, ToSet(bySize) \ {b})
        BY <2>1, SumRemove
    <2>3. SumFunctionOnSet(length, ToSet(bySize) \ {b}) \in Nat
        BY <2>1, SumNat, FS_Subset
    <2>4. TotalOf(ToSet(bySize))' = SumFunctionOnSet(length, ToSet(bySize) \ {b})
        BY <1>1, <1>6 DEF TotalOf
    <2>5. currentSize = SumFunctionOnSet(length, ToSet(bySize)) /\ currentSize <= SizeLimit /\ SizeLimit \in Nat
        BY PoolAssumption DEF PoolInv, PoolIsSound, TotalOf
    <2>6. length[b] \in Nat
        BY <2>1
    <2> QED BY <1>1, <2>2, <2>3, <2>4, <2>5, <2>6
<1>10. PoolTypeOK'
    BY <1>1, <1>4, <1>6, <1>7, <1>9 DEF PoolInv, PoolTypeOK
<1>11. PoolIsSound'
    BY <1>6, <1>7, <1>8, <1>9 DEF PoolInv, PoolIsSound
<1>12. LentIsGone'
    BY <1>1, <1>6, <1>7 DEF PoolInv, LentIsGone
<1> QED BY <1>1, <1>4, <1>5, <1>6, <1>10, <1>11, <1>12 DEF PoolInv, b

\* ... or makes one.
LEMMA GetNew ==
    ASSUME PoolInv, NEW len \in Nat, GetBuf(len), Big(len) = {}
    PROVE  /\ PoolInv' /\ BufferFor(len) \in Buffers \ lent
           /\ length' = [length EXCEPT ![BufferFor(len)] = len]
           /\ bySize' = bySize
<1> DEFINE b == BufferFor(len)
<1>1. /\ lent' = lent \cup {b} /\ b = Min(Unused) /\ Unused # {}
      /\ length' = [length EXCEPT ![b] = len]
      /\ UNCHANGED <<byLastUse, bySize, currentSize>>
    BY DEF GetBuf, BufferFor
<1>2. b \in Unused
    <2>1. Unused \in SUBSET Nat
        BY DEF Unused, Buffers
    <2> QED BY <1>1, <2>1, LeastNumber
<1> HIDE DEF b
<1>3. b \in Buffers /\ b \notin lent /\ b \notin ToSet(byLastUse) /\ b \notin ToSet(bySize)
    BY <1>2 DEF Unused, PoolInv, PoolIsSound
<1>4. length' \in [Buffers -> Nat] /\ \A c \in ToSet(bySize) : length'[c] = length[c]
    BY <1>1, <1>3, PoolBasics DEF PoolInv, PoolTypeOK
<1>5. SortedBy(length', bySize) /\ SumFunctionOnSet(length', ToSet(bySize)) = TotalOf(ToSet(bySize))
    <2>1. bySize \in Seq(Buffers) /\ SortedBy(length, bySize)
        BY SortedIs DEF PoolInv, PoolTypeOK, PoolIsSound
    <2> QED BY <1>4, <2>1, SamePool
<1>6. PoolTypeOK'
    BY <1>1, <1>3, <1>4 DEF PoolInv, PoolTypeOK
<1>7. PoolIsSound'
    <2>1. Sorted(bySize)'
        BY <1>1, <1>5 DEF Sorted, SortedBy
    <2>2. TotalOf(ToSet(bySize))' = TotalOf(ToSet(bySize))
        BY <1>1, <1>5 DEF TotalOf
    <2> QED BY <1>1, <2>1, <2>2 DEF PoolInv, PoolIsSound
<1>8. LentIsGone'
    BY <1>1, <1>3 DEF PoolInv, LentIsGone
<1> QED BY <1>1, <1>3, <1>6, <1>7, <1>8 DEF PoolInv, b

\* getBuf() keeps the pool sound, and gives a buffer nobody has that is large
\* enough; no other buffer changes.
LEMMA GetPool ==
    ASSUME PoolInv, NEW len \in Nat, GetBuf(len)
    PROVE  /\ PoolInv' /\ BufferFor(len) \in Buffers \ lent
           /\ lent' = lent \cup {BufferFor(len)}
           /\ length'[BufferFor(len)] >= len
           /\ \A b \in Buffers : b # BufferFor(len) => length'[b] = length[b]
           /\ ToSet(bySize') \subseteq ToSet(bySize)
<1>1. lent' = lent \cup {BufferFor(len)}
    BY DEF GetBuf
<1>2. CASE Big(len) # {}
    BY <1>1, <1>2, GetPooled
<1>3. CASE Big(len) = {}
    <2>1. /\ PoolInv' /\ BufferFor(len) \in Buffers \ lent
          /\ length' = [length EXCEPT ![BufferFor(len)] = len]
          /\ bySize' = bySize
        BY <1>3, GetNew
    <2>2. DOMAIN length = Buffers /\ len >= len
        BY DEF PoolInv, PoolTypeOK
    <2> QED BY <1>1, <2>1, <2>2
<1> QED BY <1>2, <1>3

\* A buffer above the limit does not get into the pool.
LEMMA ReturnTooLarge ==
    ASSUME PoolInv, NEW b \in lent, ReturnBuf(b), length[b] > SizeLimit
    PROVE  /\ PoolInv'
           /\ ToSet(bySize') \subseteq ToSet(bySize) \cup {b}
           /\ \A c \in (lent \ {b}) \cup ToSet(bySize') : length'[c] = length[c]
<1>1. /\ lent' = lent \ {b}
      /\ length' = [c \in Buffers |-> IF c = b THEN 0 ELSE length[c]]
      /\ UNCHANGED <<byLastUse, bySize, currentSize>>
    BY DEF ReturnBuf, Collected
<1>2. b \in Buffers /\ lent \subseteq Buffers /\ b \notin ToSet(bySize)
    BY DEF PoolInv, PoolTypeOK, LentIsGone
<1>3. length' \in [Buffers -> Nat] /\ \A c \in Buffers \ {b} : length'[c] = length[c]
    BY <1>1, PoolBasics
<1>4. \A c \in ToSet(bySize) : length'[c] = length[c]
    BY <1>2, <1>3, PoolBasics
<1>5. SortedBy(length', bySize) /\ SumFunctionOnSet(length', ToSet(bySize)) = TotalOf(ToSet(bySize))
    <2>1. bySize \in Seq(Buffers) /\ SortedBy(length, bySize)
        BY SortedIs DEF PoolInv, PoolTypeOK, PoolIsSound
    <2> QED BY <1>3, <1>4, <2>1, SamePool
<1>6. PoolTypeOK'
    BY <1>1, <1>3 DEF PoolInv, PoolTypeOK
<1>7. PoolIsSound'
    <2>1. Sorted(bySize)'
        BY <1>1, <1>5 DEF Sorted, SortedBy
    <2>2. TotalOf(ToSet(bySize))' = TotalOf(ToSet(bySize))
        BY <1>1, <1>5 DEF TotalOf
    <2> QED BY <1>1, <2>1, <2>2 DEF PoolInv, PoolIsSound
<1>8. LentIsGone'
    BY <1>1 DEF PoolInv, LentIsGone
<1> QED BY <1>1, <1>2, <1>3, <1>4, <1>6, <1>7, <1>8 DEF PoolInv

\* A total is a natural number.
LEMMA TotalBasics ==
    ASSUME PoolInv, NEW T \in SUBSET Buffers
    PROVE  IsFiniteSet(T) /\ TotalOf(T) \in Nat
<1>1. IsFiniteSet(T) /\ \A b \in T : length[b] \in Nat
    BY PoolBasics, FS_Subset
<1> QED BY <1>1, SumNat DEF TotalOf

\* trim() always gets below the limit.
LEMMA ExcessFits ==
    ASSUME PoolInv, NEW used \in Seq(Buffers), NEW size, size = TotalOf(ToSet(used))
    PROVE  /\ Excess(used, size) \in 0..Len(used)
           /\ size - TotalOf(Oldest(used, Excess(used, size))) <= SizeLimit
<1>1. PICK n \in Nat : n = Len(used) /\ DOMAIN used = 1..n
    BY LenProperties
<1> DEFINE All == {m \in 0..Len(used) : size - TotalOf(Oldest(used, m)) <= SizeLimit}
<1>2. n \in All
    <2>1. Oldest(used, n) = ToSet(used) /\ ToSet(used) \subseteq Buffers
        BY <1>1, ElementOfSeq DEF Oldest, ToSet
    <2>2. size \in Nat /\ TotalOf(Oldest(used, n)) = size
        BY <2>1, TotalBasics
    <2>3. size - TotalOf(Oldest(used, n)) <= SizeLimit
        BY <2>2, PoolAssumption
    <2> QED BY <1>1, <2>3
<1>3. All \in SUBSET Nat /\ All # {}
    BY <1>1, <1>2
<1>4. Excess(used, size) = Min(All)
    BY DEF Excess
<1> HIDE DEF All
<1>5. Min(All) \in All
    BY <1>3, LeastNumber
<1> QED BY <1>4, <1>5 DEF All

\* Any other does, and trim() then removes the oldest.
LEMMA ReturnPooled ==
    ASSUME PoolInv, NEW b \in lent, ReturnBuf(b), ~(length[b] > SizeLimit)
    PROVE  /\ PoolInv'
           /\ ToSet(bySize') \subseteq ToSet(bySize) \cup {b}
           /\ \A c \in (lent \ {b}) \cup ToSet(bySize') : length'[c] = length[c]
<1> DEFINE used == Append(byLastUse, b)
           size == currentSize + length[b]
           n    == Excess(used, size)
           old  == Oldest(used, n)
<1>1. PICK i \in 1..(Len(bySize) + 1) :
         /\ Sorted(InsertAt(bySize, i, b))
         /\ bySize' = Trimmed(InsertAt(bySize, i, b), old)
    BY DEF ReturnBuf
<1>2. /\ lent' = lent \ {b}
      /\ byLastUse' = SubSeq(used, n + 1, Len(used))
      /\ currentSize' = size - TotalOf(old)
      /\ length' = [c \in Buffers |-> IF c \in old THEN 0 ELSE length[c]]
    BY DEF ReturnBuf, Collected
<1> DEFINE s == InsertAt(bySize, i, b)
<1>3. /\ b \in Buffers /\ lent \subseteq Buffers
      /\ b \notin ToSet(bySize) /\ b \notin ToSet(byLastUse)
      /\ bySize \in Seq(Buffers) /\ byLastUse \in Seq(Buffers)
      /\ IsInjective(bySize) /\ IsInjective(byLastUse) /\ ToSet(byLastUse) = ToSet(bySize)
    BY DEF PoolInv, PoolTypeOK, PoolIsSound, LentIsGone
<1>4. used \in Seq(Buffers) /\ IsInjective(used) /\ ToSet(used) = ToSet(bySize) \cup {b}
    <2>1. used \in Seq(Buffers) /\ IsAppended(used, byLastUse, b)
        BY <1>3, AppendedTo
    <2> HIDE DEF used
    <2>2. IsInjective(used) /\ ToSet(used) = ToSet(byLastUse) \cup {b}
        BY <1>3, <2>1, AppendedToList
    <2> QED BY <1>3, <2>1, <2>2
<1>5. s \in Seq(Buffers) /\ IsInjective(s) /\ ToSet(s) = ToSet(bySize) \cup {b}
    <2>1. s \in Seq(Buffers) /\ IsInserted(s, bySize, i, b)
        BY <1>3, InsertedAt
    <2> HIDE DEF s
    <2> QED BY <1>3, <2>1, InsertedIntoList
<1>6. SortedBy(length, s) /\ bySize' = Trimmed(s, old)
    BY <1>1 DEF Sorted, SortedBy
<1> HIDE DEF s, used
<1>7. size = TotalOf(ToSet(used)) /\ size \in Nat
    <2>1. IsFiniteSet(ToSet(bySize)) /\ \A c \in ToSet(bySize) \cup {b} : length[c] \in Int
        BY <1>3, PoolBasics
    <2>2. SumFunctionOnSet(length, ToSet(bySize) \cup {b}) = SumFunctionOnSet(length, ToSet(bySize)) + length[b]
        BY <1>3, <2>1, SumAdd
    <2>3. currentSize = SumFunctionOnSet(length, ToSet(bySize)) /\ currentSize \in Nat /\ length[b] \in Nat
        BY <1>3, PoolBasics DEF PoolInv, PoolTypeOK, PoolIsSound, TotalOf
    <2> QED BY <1>4, <2>2, <2>3 DEF TotalOf
<1> HIDE DEF size
<1>8. n \in 0..Len(used) /\ size - TotalOf(old) <= SizeLimit
    BY <1>4, <1>7, ExcessFits
<1>9. old = {used[j] : j \in 1..n}
    BY DEF Oldest
<1>10. old \subseteq ToSet(used)
    <2>1. DOMAIN used = 1..Len(used) /\ Len(used) \in Nat
        BY <1>4, LenProperties
    <2>2. \A j \in 1..n : j \in 1..Len(used)
        BY <1>8, <2>1
    <2> QED BY <1>9, <2>1, <2>2 DEF ToSet
<1> HIDE DEF n, old
<1>11. byLastUse' \in Seq(Buffers) /\ IsInjective(byLastUse') /\ ToSet(byLastUse') = ToSet(used) \ old
    <2>1. byLastUse' \in Seq(Buffers) /\ IsTail(byLastUse', used, n)
        BY <1>2, <1>4, <1>8, Dropped
    <2> QED BY <1>4, <1>9, <2>1, TailOfList
<1>12. /\ bySize' \in Seq(Buffers) /\ IsInjective(bySize')
       /\ ToSet(bySize') = ToSet(used) \ old /\ SortedBy(length, bySize')
    <2>1. length \in [Buffers -> Int]
        BY PoolBasics DEF PoolInv, PoolTypeOK
    <2>2. /\ Trimmed(s, old) \in Seq(Buffers) /\ IsInjective(Trimmed(s, old))
          /\ ToSet(Trimmed(s, old)) = ToSet(s) \ old
          /\ SortedBy(length, Trimmed(s, old))
        BY <1>5, <1>6, <2>1, TrimmedList
    <2> QED BY <1>4, <1>5, <1>6, <2>2
<1>13. length' \in [Buffers -> Nat] /\ \A c \in Buffers \ old : length'[c] = length[c]
    BY <1>2, PoolBasics
<1>14. ToSet(used) \subseteq Buffers
    BY <1>3, <1>4, PoolBasics
<1>15. SortedBy(length', bySize') /\ SumFunctionOnSet(length', ToSet(bySize')) = TotalOf(ToSet(bySize'))
    <2>1. \A c \in ToSet(bySize') : length'[c] = length[c]
        BY <1>12, <1>13, <1>14
    <2> QED BY <1>12, <1>13, <2>1, SamePool
<1>16. currentSize' = TotalOf(ToSet(bySize')) /\ currentSize' \in Nat /\ currentSize' <= SizeLimit
    <2>1. IsFiniteSet(ToSet(used)) /\ \A c \in ToSet(used) : length[c] \in Int
        BY <1>14, PoolBasics, FS_Subset
    <2>2. /\ TotalOf(ToSet(used)) = TotalOf(ToSet(used) \ old) + TotalOf(old)
          /\ TotalOf(ToSet(used) \ old) \in Int /\ TotalOf(old) \in Int
        BY <1>10, <2>1, SumSplit DEF TotalOf
    <2>3. TotalOf(ToSet(used) \ old) \in Nat
        BY <1>14, TotalBasics
    <2> QED BY <1>2, <1>7, <1>8, <1>12, <2>2, <2>3
<1>17. PoolTypeOK'
    BY <1>2, <1>3, <1>11, <1>12, <1>13, <1>16 DEF PoolTypeOK
<1>18. PoolIsSound'
    <2>1. Sorted(bySize)'
        BY <1>15 DEF Sorted, SortedBy
    <2>2. TotalOf(ToSet(bySize))' = TotalOf(ToSet(bySize'))
        BY <1>15 DEF TotalOf
    <2> QED BY <1>11, <1>12, <1>16, <2>1, <2>2 DEF PoolIsSound
<1>19. LentIsGone'
    BY <1>2, <1>3, <1>4, <1>11, <1>12 DEF PoolInv, LentIsGone
<1>20. \A c \in lent \ {b} : length'[c] = length[c]
    BY <1>3, <1>4, <1>10, <1>13 DEF PoolInv, LentIsGone
<1>21. \A c \in ToSet(bySize') : length'[c] = length[c]
    BY <1>12, <1>13, <1>14
<1>22. ToSet(bySize') \subseteq ToSet(bySize) \cup {b}
    BY <1>4, <1>12
<1> QED BY <1>17, <1>18, <1>19, <1>20, <1>21, <1>22 DEF PoolInv

\* returnBuf() keeps the pool sound, and only the buffer returned is no longer
\* lent; the others that are lent stay as they are.
LEMMA ReturnPool ==
    ASSUME PoolInv, NEW b \in lent, ReturnBuf(b)
    PROVE  /\ PoolInv' /\ lent' = lent \ {b}
           /\ ToSet(bySize') \subseteq ToSet(bySize) \cup {b}
           /\ \A c \in (lent \ {b}) \cup ToSet(bySize') : length'[c] = length[c]
<1>1. lent' = lent \ {b}
    BY DEF ReturnBuf
<1> QED BY <1>1, ReturnTooLarge, ReturnPooled

\* The pool starts empty, and sound.
LEMMA PoolStarts == PoolInit => PoolInv
<1> SUFFICES ASSUME PoolInit PROVE PoolInv
    OBVIOUS
<1>1. ToSet(<<>>) = {} /\ IsInjective(<<>>) /\ Sorted(<<>>) /\ <<>> \in Seq(Buffers)
    BY DEF ToSet, IsInjective, Sorted
<1>2. TotalOf({}) = 0
    BY SumPicks, FS_EmptySet DEF TotalOf
<1>3. length \in [Buffers -> Nat]
    BY DEF PoolInit
<1>4. byLastUse = <<>> /\ bySize = <<>> /\ currentSize = 0 /\ lent = {}
    BY DEF PoolInit
<1>5. PoolTypeOK
    BY <1>1, <1>3, <1>4 DEF PoolTypeOK
<1>6. PoolIsSound
    <2>1. 0 <= SizeLimit
        BY PoolAssumption
    <2> QED BY <1>1, <1>2, <1>4, <2>1, Zenon DEF PoolIsSound
<1>7. LentIsGone
    BY <1>4 DEF LentIsGone
<1> QED BY <1>5, <1>6, <1>7 DEF PoolInv
-----------------------------------------------------------------------------
(* The invariant of the exchanges.                                         *)

InBody == {"open", "content", "read", "grow", "swap", "returnChunk", "close"}

NetTypeInv ==
    /\ pc \in {"idle", "send", "check"} \cup InBody
    /\ limit \in Nat /\ attempts \in Nat /\ retries \in Nat
    /\ logUrl \in BOOLEAN

\* While an exchange goes on, every attempt but the one under way has been
\* counted as a retry the policy allowed.
Counted ==
    /\ pc # "idle" => outcome = None /\ retries <= limit
    /\ pc = "send" => attempts = retries
    /\ pc \in InBody \cup {"check"} => attempts = retries + 1
    /\ outcome \in {"timeout", "auth", "redirect"} => attempts = limit + 1

\* The status is only looked at when nothing was thrown in the attempt.
WholeBody ==
    /\ pc = "check" => thrown = "nothing"
    /\ ResponseIsGood

\* Which buffers the exchange can hold where, and that all others in use are
\* with other threads.
Held ==
    /\ stream # None => pc \in InBody \ {"open"}
    /\ spare # None => pc = "swap"
    /\ chunk # None => pc \in {"read", "grow", "swap", "returnChunk"}
    /\ lent \subseteq Buffers
    /\ Cardinality(Others) <= MaxOthers

\* Every buffer the exchange holds is lent to it, and to it alone, and it has
\* the ones it is about to use.
Placed ==
    /\ PoolInv /\ OneOwner
    /\ pc \in InBody \ {"open"} => stream # None
    /\ pc \in {"read", "grow", "swap"} => chunk # None
    /\ pc = "swap" => spare # None

\* The smallest buffer anybody asks for.
Smallest == Min({DefaultSize, ReadSize})

\* No buffer that exists is smaller; a stream that grows holds more than fits.
Sized ==
    /\ \A b \in lent \cup ToSet(bySize) : length[b] >= Smallest
    /\ count \in Nat
    /\ pc = "grow" => count > length[stream]

NetInv == NetTypeInv /\ Counted /\ WholeBody /\ Held /\ Placed /\ Sized


LEMMA NoneIsNoOutcome == None \notin Outcomes /\ None \notin Buffers
BY NetworkAssumption

LEMMA OthersFinite ==
    ASSUME lent \subseteq Buffers
    PROVE  IsFiniteSet(Others) /\ Cardinality(Others) \in Nat
<1>1. IsFiniteSet(Buffers)
    BY PoolAssumption, FS_Interval DEF Buffers
<1>2. Others \in SUBSET Buffers
    BY DEF Others
<1>3. IsFiniteSet(Others)
    BY <1>1, <1>2, FS_Subset
<1> QED BY <1>3, FS_CardinalityType

LEMMA Lengths ==
    /\ DefaultSize \in Nat \ {0} /\ ReadSize \in Nat \ {0} /\ MaxBody \in Nat \ {0}
    /\ Smallest \in Nat \ {0} /\ Smallest <= DefaultSize /\ Smallest <= ReadSize
    /\ \A announced \in {0, MaxBody} :
          Max({announced, DefaultSize}) \in Nat /\ Max({announced, DefaultSize}) >= Smallest
<1>1. DefaultSize \in Nat \ {0} /\ ReadSize \in Nat \ {0} /\ MaxBody \in Nat \ {0}
    BY NetworkAssumption
<1>2. Smallest \in {DefaultSize, ReadSize} /\ Smallest <= DefaultSize /\ Smallest <= ReadSize
    <2>1. {DefaultSize, ReadSize} \in SUBSET Nat /\ {DefaultSize, ReadSize} # {}
        BY <1>1
    <2> QED BY <2>1, LeastNumber DEF Smallest
<1>3. ASSUME NEW announced \in {0, MaxBody}
      PROVE  Max({announced, DefaultSize}) \in Nat /\ Max({announced, DefaultSize}) >= Smallest
    <2>1. PICK m \in {announced, DefaultSize} : \A y \in {announced, DefaultSize} : m >= y
        <3>1. announced >= DefaultSize \/ DefaultSize >= announced
            BY <1>1
        <3>2. announced >= announced /\ DefaultSize >= DefaultSize
            BY <1>1
        <3> QED BY <3>1, <3>2
    <2>2. /\ Max({announced, DefaultSize}) \in {announced, DefaultSize}
          /\ Max({announced, DefaultSize}) >= DefaultSize
        BY <2>1 DEF Max
    <2> QED BY <1>1, <1>2, <2>2
<1> QED BY <1>1, <1>2, <1>3

LEMMA NetInit == Init => NetInv
<1> SUFFICES ASSUME Init PROVE NetInv
    OBVIOUS
<1>1. NetTypeInv
    BY DEF Init, NetTypeInv
<1>2. Counted /\ WholeBody
    BY NoneIsNoOutcome DEF Init, Counted, WholeBody, ResponseIsGood, InBody, Outcomes
<1>3. Held
    <2>1. lent = {} /\ stream = None /\ spare = None /\ chunk = None
        BY DEF Init, PoolInit
    <2>2. Others = {}
        BY <2>1 DEF Others
    <2> QED BY <2>1, <2>2, FS_EmptySet, NetworkAssumption DEF Held
<1>4. Placed
    <2>1. PoolInv
        BY PoolStarts DEF Init
    <2>2. OneOwner
        BY <2>1 DEF Init, OneOwner, Mine, PoolInv
    <2> QED BY <2>1, <2>2 DEF Init, Placed, InBody
<1>5. Sized
    BY DEF Init, PoolInit, Sized, ToSet
<1> QED BY <1>1, <1>2, <1>3, <1>4, <1>5 DEF NetInv
-----------------------------------------------------------------------------
(* The retry count and what is delivered.                                  *)

LEMMA StepNetTypeInv ==
    ASSUME NetInv, [Next]_vars
    PROVE  NetTypeInv'
<1> USE DEF NetInv, NetTypeInv, InBody, GoTo, End, Retry
<1>1. CASE UNCHANGED vars
    BY <1>1 DEF vars, policy
<1>2. CASE SendFails \/ NotModified \/ \E s \in Statuses, entity \in BOOLEAN : Respond(s, entity)
    BY <1>2 DEF SendFails, NotModified, Respond, Sent
<1>3. CASE (\E announced \in {0, MaxBody} : Open(announced)) \/ GetChunk \/ Grow
    BY <1>3 DEF Open, GetChunk, Grow, policy
<1>4. CASE ContentFails \/ ReadEnds \/ \E n \in 1..MaxBody : Read(n)
    BY <1>4 DEF ContentFails, ReadEnds, Read, policy
<1>5. CASE Swap \/ ReturnChunk
    BY <1>5 DEF Swap, ReturnChunk, policy
<1>6. CASE Close \/ Check
    BY <1>6 DEF Close, AfterBody, Check
<1>7. CASE Begin
    BY <1>7, NetworkAssumption DEF Begin
<1>8. CASE OtherGets \/ OtherReturns
    BY <1>8 DEF OtherGets, OtherReturns, policy
<1> QED BY <1>1, <1>2, <1>3, <1>4, <1>5, <1>6, <1>7, <1>8 DEF Next, Exchange

LEMMA StepCounted ==
    ASSUME NetInv, [Next]_vars
    PROVE  Counted'
<1> USE NoneIsNoOutcome DEF NetInv, NetTypeInv, Counted, InBody, Outcomes, GoTo, End, Retry
<1>1. CASE UNCHANGED vars
    BY <1>1 DEF vars, policy
<1>2. CASE SendFails \/ NotModified
    BY <1>2 DEF SendFails, NotModified, Sent
<1>3. CASE \E s \in Statuses, entity \in BOOLEAN : Respond(s, entity)
    BY <1>3 DEF Respond, Sent
<1>4. CASE (\E announced \in {0, MaxBody} : Open(announced)) \/ GetChunk \/ Grow
    BY <1>4 DEF Open, GetChunk, Grow, policy
<1>5. CASE ContentFails \/ ReadEnds \/ \E n \in 1..MaxBody : Read(n)
    BY <1>5 DEF ContentFails, ReadEnds, Read, policy
<1>6. CASE Swap \/ ReturnChunk
    BY <1>6 DEF Swap, ReturnChunk, policy
<1>7. CASE Close
    BY <1>7 DEF Close, AfterBody
<1>8. CASE Check
    BY <1>8 DEF Check
<1>9. CASE Begin
    <2>1. limit' \in Nat
        BY <1>9, NetworkAssumption DEF Begin
    <2>2. pc' = "send" /\ attempts' = 0 /\ retries' = 0 /\ outcome' = None
        BY <1>9 DEF Begin
    <2>3. outcome' \notin {"timeout", "auth", "redirect"}
        BY <2>2
    <2>4. pc' = "send" /\ pc' \notin InBody \cup {"check"}
        BY <2>2
    <2>5. 0 <= limit'
        BY <2>1
    <2> QED BY <2>2, <2>3, <2>4, <2>5
<1>10. CASE OtherGets \/ OtherReturns
    BY <1>10 DEF OtherGets, OtherReturns, policy
<1> QED BY <1>1, <1>2, <1>3, <1>4, <1>5, <1>6, <1>7, <1>8, <1>9, <1>10 DEF Next, Exchange

LEMMA StepWholeBody ==
    ASSUME NetInv, [Next]_vars
    PROVE  WholeBody'
<1> USE NoneIsNoOutcome
    DEF NetInv, WholeBody, ResponseIsGood, Outcomes, GoTo, End, Retry
<1>0. pc # "idle" => outcome = None
    BY DEF Counted
<1>1. CASE UNCHANGED vars
    BY <1>1 DEF vars, policy
<1>2. CASE SendFails \/ NotModified
    BY <1>2 DEF SendFails, NotModified, Sent
<1>3. CASE \E s \in Statuses, entity \in BOOLEAN : Respond(s, entity)
    BY <1>0, <1>3 DEF Respond, Sent
<1>4. CASE (\E announced \in {0, MaxBody} : Open(announced)) \/ GetChunk \/ Grow
    BY <1>0, <1>4 DEF Open, GetChunk, Grow, policy
<1>5. CASE ContentFails \/ ReadEnds \/ \E n \in 1..MaxBody : Read(n)
    BY <1>0, <1>5 DEF ContentFails, ReadEnds, Read, policy
<1>6. CASE Swap \/ ReturnChunk
    BY <1>0, <1>6 DEF Swap, ReturnChunk, policy
<1>7. CASE Close
    BY <1>0, <1>7 DEF Close, AfterBody
<1>8. CASE Check
    BY <1>0, <1>8 DEF Check
<1>9. CASE Begin
    BY <1>9 DEF Begin
<1>10. CASE OtherGets \/ OtherReturns
    BY <1>10 DEF OtherGets, OtherReturns, policy
<1> QED BY <1>1, <1>2, <1>3, <1>4, <1>5, <1>6, <1>7, <1>8, <1>9, <1>10 DEF Next, Exchange
-----------------------------------------------------------------------------
(* The buffers.                                                            *)

\* The exchange gets a buffer: it is nobody else's.
LEMMA GetHeld ==
    ASSUME Held, PoolInv, NEW len \in Nat, GetBuf(len),
           Mine' = Mine \cup {BufferFor(len)}
    PROVE  lent' \subseteq Buffers /\ Cardinality(Others') <= MaxOthers
<1>1. BufferFor(len) \in Buffers /\ lent' = lent \cup {BufferFor(len)}
    BY GetPool
<1>2. Others' \in SUBSET Others
    BY <1>1 DEF Others
<1>3. IsFiniteSet(Others) /\ Cardinality(Others) \in Nat
    BY OthersFinite DEF Held
<1>4. lent' \subseteq Buffers
    BY <1>1 DEF Held
<1>5. Cardinality(Others') <= Cardinality(Others) /\ IsFiniteSet(Others')
    BY <1>2, <1>3, FS_Subset
<1>6. Cardinality(Others') \in Nat
    BY <1>5, FS_CardinalityType
<1> QED BY <1>3, <1>4, <1>5, <1>6, NetworkAssumption DEF Held

\* The exchange returns a buffer, or another thread does.
LEMMA ReturnHeld ==
    ASSUME Held, NEW b, ReturnBuf(b), Mine \ {b} \subseteq Mine'
    PROVE  lent' \subseteq Buffers /\ Cardinality(Others') <= MaxOthers
<1>1. lent' = lent \ {b}
    BY DEF ReturnBuf
<1>2. Others' \in SUBSET Others
    BY <1>1 DEF Others
<1>3. IsFiniteSet(Others) /\ Cardinality(Others) \in Nat
    BY OthersFinite DEF Held
<1>4. lent' \subseteq Buffers
    BY <1>1 DEF Held
<1>5. Cardinality(Others') <= Cardinality(Others) /\ IsFiniteSet(Others')
    BY <1>2, <1>3, FS_Subset
<1>6. Cardinality(Others') \in Nat
    BY <1>5, FS_CardinalityType
<1> QED BY <1>3, <1>4, <1>5, <1>6, NetworkAssumption DEF Held

\* Nobody gets or returns a buffer.
LEMMA SameHeld ==
    ASSUME Held, UNCHANGED <<lent, stream, spare, chunk>>
    PROVE  lent' \subseteq Buffers /\ Cardinality(Others') <= MaxOthers
<1>1. Others' = Others
    BY DEF Others, Mine
<1> QED BY <1>1 DEF Held

LEMMA StepHeld ==
    ASSUME NetInv, [Next]_vars
    PROVE  Held'
<1> USE DEF GoTo, End, Retry, InBody
<1>0. Held /\ NoneIsNoOutcome /\ PoolInv
    BY NoneIsNoOutcome DEF NetInv, Placed
<1>1. CASE UNCHANGED vars
    BY <1>0, <1>1, SameHeld DEF vars, body, pool, Held
<1>2. CASE SendFails \/ NotModified \/ \E s \in Statuses, entity \in BOOLEAN : Respond(s, entity)
    <2>1. UNCHANGED <<lent, stream, spare, chunk>>
        BY <1>2 DEF SendFails, NotModified, Respond, Sent, body, pool
    <2>2. lent' \subseteq Buffers /\ Cardinality(Others') <= MaxOthers
        BY <1>0, <2>1, SameHeld
    <2>3. pc = "send"
        BY <1>2 DEF SendFails, NotModified, Respond, Sent
    <2> QED BY <1>0, <2>1, <2>2, <2>3 DEF Held
<1>3. ASSUME NEW announced \in {0, MaxBody}, Open(announced)
      PROVE  Held'
    <2> DEFINE len == Max({announced, DefaultSize})
    <2>0. len \in Nat
        BY Lengths
    <2>1. /\ GetBuf(len) /\ stream' = BufferFor(len) /\ UNCHANGED <<spare, chunk>>
          /\ pc = "open" /\ pc' = "content"
        BY <1>3 DEF Open
    <2> HIDE DEF len
    <2>2. stream = None /\ spare = None /\ chunk = None
        BY <1>0, <2>1 DEF Held
    <2>3. Mine' = Mine \cup {BufferFor(len)}
        <3>1. BufferFor(len) # None
            BY <1>0, <2>0, <2>1, NoneIsNoOutcome, GetPool
        <3> QED BY <2>1, <2>2, <3>1 DEF Mine
    <2>4. lent' \subseteq Buffers /\ Cardinality(Others') <= MaxOthers
        BY <1>0, <2>0, <2>1, <2>3, GetHeld
    <2> QED BY <2>1, <2>2, <2>4 DEF Held
<1>4. CASE GetChunk
    <2>1. /\ GetBuf(ReadSize) /\ chunk' = BufferFor(ReadSize) /\ UNCHANGED <<stream, spare>>
          /\ pc = "content" /\ pc' = "read"
        BY <1>4 DEF GetChunk
    <2>2. spare = None /\ chunk = None
        BY <1>0, <2>1 DEF Held
    <2>3. Mine' = Mine \cup {BufferFor(ReadSize)}
        <3>1. BufferFor(ReadSize) # None
            BY <1>0, <2>1, Lengths, NoneIsNoOutcome, GetPool
        <3> QED BY <2>1, <2>2, <3>1 DEF Mine
    <2>4. lent' \subseteq Buffers /\ Cardinality(Others') <= MaxOthers
        BY <1>0, <2>1, <2>3, Lengths, GetHeld
    <2> QED BY <2>1, <2>2, <2>4 DEF Held
<1>5. CASE Grow
    <2>0. 2 * count \in Nat
        BY DEF NetInv, Sized
    <2>1. /\ GetBuf(2 * count) /\ stream' = BufferFor(2 * count)
          /\ spare' = stream /\ UNCHANGED chunk
          /\ pc = "grow" /\ pc' = "swap"
        BY <1>5 DEF Grow
    <2>2. spare = None
        BY <1>0, <2>1 DEF Held
    <2>3. Mine' = Mine \cup {BufferFor(2 * count)}
        <3>1. BufferFor(2 * count) # None
            BY <1>0, <2>0, <2>1, NoneIsNoOutcome, GetPool
        <3> QED BY <2>1, <2>2, <3>1 DEF Mine
    <2>4. lent' \subseteq Buffers /\ Cardinality(Others') <= MaxOthers
        BY <1>0, <2>0, <2>1, <2>3, GetHeld
    <2> QED BY <2>1, <2>4 DEF Held
<1>6. CASE ContentFails \/ ReadEnds \/ \E n \in 1..MaxBody : Read(n)
    <2>1. /\ UNCHANGED <<lent, stream, spare, chunk>>
          /\ pc \in {"content", "read"} /\ pc' \in {"read", "grow", "returnChunk"}
        BY <1>6 DEF ContentFails, ReadEnds, Read, body, pool
    <2>2. lent' \subseteq Buffers /\ Cardinality(Others') <= MaxOthers
        BY <1>0, <2>1, SameHeld
    <2> QED BY <1>0, <1>6, <2>1, <2>2 DEF Held, ContentFails, ReadEnds, Read
<1>7. CASE Swap
    <2>1. /\ ReturnBuf(spare) /\ spare' = None /\ UNCHANGED <<stream, chunk>>
          /\ pc = "swap" /\ pc' = "read"
        BY <1>7 DEF Swap
    <2>2. lent' \subseteq Buffers /\ Cardinality(Others') <= MaxOthers
        BY <1>0, <2>1, ReturnHeld DEF Mine
    <2> QED BY <2>1, <2>2 DEF Held
<1>8. CASE ReturnChunk
    <2>1. /\ chunk' = None /\ UNCHANGED <<stream, spare>>
          /\ pc = "returnChunk" /\ pc' = "close"
        BY <1>8 DEF ReturnChunk
    <2>2. lent' \subseteq Buffers /\ Cardinality(Others') <= MaxOthers
        <3>1. CASE chunk = None
            BY <1>0, <1>8, <2>1, <3>1, SameHeld DEF ReturnChunk, pool
        <3>2. CASE chunk # None
            BY <1>0, <1>8, <2>1, <3>2, ReturnHeld DEF ReturnChunk, Mine
        <3> QED BY <3>1, <3>2
    <2> QED BY <1>0, <2>1, <2>2 DEF Held
<1>9. CASE Close
    <2>1. /\ ReturnBuf(stream) /\ stream' = None /\ UNCHANGED <<spare, chunk>>
          /\ pc = "close"
        BY <1>9 DEF Close
    <2>2. lent' \subseteq Buffers /\ Cardinality(Others') <= MaxOthers
        BY <1>0, <2>1, ReturnHeld DEF Mine
    <2> QED BY <1>0, <2>1, <2>2 DEF Held
<1>10. CASE Check \/ Begin
    <2>1. /\ UNCHANGED <<lent, stream, spare, chunk>>
          /\ pc \in {"idle", "check"}
        BY <1>10 DEF Check, Begin, body, pool
    <2>2. lent' \subseteq Buffers /\ Cardinality(Others') <= MaxOthers
        BY <1>0, <2>1, SameHeld
    <2> QED BY <1>0, <2>1, <2>2 DEF Held
<1>11. CASE OtherGets
    <2>1. PICK len \in {DefaultSize, ReadSize} : GetBuf(len)
        BY <1>11 DEF OtherGets
    <2>2. BufferFor(len) \in Buffers /\ lent' = lent \cup {BufferFor(len)}
        BY <1>0, <2>1, Lengths, GetPool
    <2>3. Cardinality(Others) < MaxOthers /\ UNCHANGED <<pc, stream, spare, chunk>>
        BY <1>11 DEF OtherGets, body
    <2>4. IsFiniteSet(Others) /\ Cardinality(Others) \in Nat
        BY <1>0, OthersFinite DEF Held
    <2>5. Others' \in SUBSET (Others \cup {BufferFor(len)})
        BY <2>2, <2>3 DEF Others, Mine
    <2>6. /\ IsFiniteSet(Others \cup {BufferFor(len)})
          /\ Cardinality(Others \cup {BufferFor(len)}) \in Nat
          /\ Cardinality(Others \cup {BufferFor(len)}) <= Cardinality(Others) + 1
        BY <2>4, FS_AddElement
    <2>7. /\ Cardinality(Others') <= Cardinality(Others \cup {BufferFor(len)})
          /\ Cardinality(Others') \in Nat
        BY <2>5, <2>6, FS_Subset, FS_CardinalityType
    <2>8. Cardinality(Others') <= MaxOthers
        BY <2>3, <2>4, <2>6, <2>7, NetworkAssumption
    <2> QED BY <1>0, <2>2, <2>3, <2>8 DEF Held
<1>12. CASE OtherReturns
    <2>1. PICK b \in Others : ReturnBuf(b)
        BY <1>12 DEF OtherReturns
    <2>2. UNCHANGED <<pc, stream, spare, chunk>>
        BY <1>12 DEF OtherReturns, body
    <2>3. lent' \subseteq Buffers /\ Cardinality(Others') <= MaxOthers
        BY <1>0, <2>1, <2>2, ReturnHeld DEF Mine
    <2> QED BY <1>0, <2>2, <2>3 DEF Held
<1> QED
    BY <1>1, <1>2, <1>3, <1>4, <1>5, <1>6, <1>7, <1>8, <1>9, <1>10, <1>11, <1>12
    DEF Next, Exchange
-----------------------------------------------------------------------------
(* Who owns which buffer, and how large it is.                             *)

\* What the invariant says of a step that leaves the pool alone.
LEMMA SamePlaced ==
    ASSUME Placed, Sized, UNCHANGED pool
    PROVE  /\ PoolInv' /\ LentIsGone'
           /\ (\A b \in lent \cup ToSet(bySize) : length[b] >= Smallest)'
<1>1. UNCHANGED <<byLastUse, bySize, currentSize, length, lent>>
    BY DEF pool
<1>2. PoolInv'
    BY <1>1 DEF Placed, PoolInv, PoolTypeOK, PoolIsSound, LentIsGone, Sorted, TotalOf
<1> QED BY <1>1, <1>2 DEF PoolInv, Sized

\* Of a step that gets a buffer.
LEMMA GetPlaced ==
    ASSUME Held, Placed, Sized, NEW len \in Nat, len >= Smallest, GetBuf(len)
    PROVE  /\ PoolInv' /\ LentIsGone'
           /\ BufferFor(len) \in Buffers \ lent /\ lent' = lent \cup {BufferFor(len)}
           /\ (\A b \in lent \cup ToSet(bySize) : length[b] >= Smallest)'
<1>1. PoolInv
    BY DEF Placed
<1>2. /\ PoolInv' /\ BufferFor(len) \in Buffers \ lent
      /\ lent' = lent \cup {BufferFor(len)}
      /\ length'[BufferFor(len)] >= len
      /\ \A b \in Buffers : b # BufferFor(len) => length'[b] = length[b]
      /\ ToSet(bySize') \subseteq ToSet(bySize)
    BY <1>1, GetPool
<1>3. ASSUME NEW b \in lent' \cup ToSet(bySize') PROVE length'[b] >= Smallest
    <2>1. CASE b = BufferFor(len)
        <3>1. length'[b] \in Nat
            BY <1>2, <2>1 DEF PoolInv, PoolTypeOK
        <3> QED BY <1>2, <2>1, <3>1, Lengths
    <2>2. CASE b # BufferFor(len)
        <3>1. b \in lent \cup ToSet(bySize) /\ b \in Buffers
            BY <1>1, <1>2, <2>2, PoolBasics DEF PoolInv, PoolTypeOK
        <3> QED BY <1>2, <2>2, <3>1 DEF Sized
    <2> QED BY <2>1, <2>2
<1> QED BY <1>2, <1>3 DEF PoolInv

\* Of a step that returns one.
LEMMA ReturnPlaced ==
    ASSUME Held, Placed, Sized, NEW b \in lent, ReturnBuf(b)
    PROVE  /\ PoolInv' /\ LentIsGone' /\ lent' = lent \ {b}
           /\ \A c \in lent \ {b} : length'[c] = length[c]
           /\ (\A c \in lent \cup ToSet(bySize) : length[c] >= Smallest)'
<1>1. PoolInv
    BY DEF Placed
<1>2. /\ PoolInv' /\ lent' = lent \ {b}
      /\ ToSet(bySize') \subseteq ToSet(bySize) \cup {b}
      /\ \A c \in (lent \ {b}) \cup ToSet(bySize') : length'[c] = length[c]
    BY <1>1, ReturnPool
<1>3. \A c \in lent' \cup ToSet(bySize') : length'[c] >= Smallest
    BY <1>2 DEF Sized
<1> QED BY <1>2, <1>3 DEF PoolInv

LEMMA StepPlaced ==
    ASSUME NetInv, [Next]_vars
    PROVE  Placed' /\ Sized'
<1> USE DEF InBody
<1>0. Held /\ Placed /\ Sized /\ PoolInv /\ OneOwner /\ count \in Nat
    BY DEF NetInv, Placed, Sized
<1>1. CASE UNCHANGED vars
    <2>1. UNCHANGED <<pool, pc, stream, spare, chunk, count>>
        BY <1>1 DEF vars, body
    <2>2. /\ PoolInv' /\ LentIsGone'
          /\ (\A b \in lent \cup ToSet(bySize) : length[b] >= Smallest)'
        BY <1>0, <2>1, SamePlaced
    <2>3. UNCHANGED <<lent, length>>
        BY <2>1 DEF pool
    <2> QED BY <1>0, <2>1, <2>2, <2>3 DEF Placed, Sized, OneOwner, Mine
<1>2. CASE SendFails \/ NotModified \/ (\E s \in Statuses, entity \in BOOLEAN : Respond(s, entity))
           \/ Check \/ Begin
    <2>1. UNCHANGED <<pool, stream, spare, chunk, count>>
        BY <1>2 DEF SendFails, NotModified, Respond, Sent, Check, Begin, body
    <2>2. /\ PoolInv' /\ LentIsGone'
          /\ (\A b \in lent \cup ToSet(bySize) : length[b] >= Smallest)'
        BY <1>0, <2>1, SamePlaced
    <2>3. UNCHANGED <<lent, length>>
        BY <2>1 DEF pool
    <2>4. pc' \in {"idle", "send", "open", "check"}
        BY <1>2 DEF SendFails, NotModified, Respond, Sent, Check, Begin, GoTo, End, Retry
    <2> QED BY <1>0, <2>1, <2>2, <2>3, <2>4 DEF Placed, Sized, OneOwner, Mine
<1>3. ASSUME NEW announced \in {0, MaxBody}, Open(announced)
      PROVE  Placed' /\ Sized'
    <2> DEFINE len == Max({announced, DefaultSize})
    <2>0. len \in Nat /\ len >= Smallest
        BY Lengths
    <2>1. /\ GetBuf(len) /\ stream' = BufferFor(len) /\ UNCHANGED <<spare, chunk, count>>
          /\ pc = "open" /\ pc' = "content"
        BY <1>3 DEF Open, GoTo
    <2> HIDE DEF len
    <2>2. /\ PoolInv' /\ LentIsGone'
          /\ BufferFor(len) \in Buffers \ lent /\ lent' = lent \cup {BufferFor(len)}
          /\ (\A b \in lent \cup ToSet(bySize) : length[b] >= Smallest)'
        BY <1>0, <2>0, <2>1, GetPlaced
    <2>3. stream = None /\ spare = None /\ chunk = None /\ stream' # None
        BY <1>0, <2>1, <2>2, NoneIsNoOutcome DEF Held
    <2> QED BY <1>0, <2>1, <2>2, <2>3 DEF Placed, Sized, OneOwner, Mine
<1>4. CASE GetChunk
    <2>1. /\ GetBuf(ReadSize) /\ chunk' = BufferFor(ReadSize) /\ UNCHANGED <<stream, spare, count>>
          /\ pc = "content" /\ pc' = "read"
        BY <1>4 DEF GetChunk, GoTo
    <2>2. /\ PoolInv' /\ LentIsGone'
          /\ BufferFor(ReadSize) \in Buffers \ lent /\ lent' = lent \cup {BufferFor(ReadSize)}
          /\ (\A b \in lent \cup ToSet(bySize) : length[b] >= Smallest)'
        BY <1>0, <2>1, Lengths, GetPlaced
    <2>3. stream # None /\ stream \in lent /\ spare = None /\ chunk = None /\ chunk' # None
        BY <1>0, <2>1, <2>2, NoneIsNoOutcome DEF Held, Placed, OneOwner, Mine
    <2> QED BY <1>0, <2>1, <2>2, <2>3 DEF Placed, Sized, OneOwner, Mine
<1>5. CASE Grow
    <2>1. /\ GetBuf(2 * count) /\ stream' = BufferFor(2 * count)
          /\ spare' = stream /\ UNCHANGED <<chunk, count>>
          /\ pc = "grow" /\ pc' = "swap"
        BY <1>5 DEF Grow, GoTo
    <2>2. stream # None /\ chunk # None /\ stream \in lent /\ chunk \in lent /\ stream # chunk
        BY <1>0, <2>1 DEF Placed, OneOwner, Mine
    <2>3. length[stream] >= Smallest /\ length[stream] \in Nat /\ count > length[stream]
        BY <1>0, <2>1, <2>2 DEF Sized, PoolInv, PoolTypeOK
    <2>4. 2 * count \in Nat /\ 2 * count >= Smallest
        BY <1>0, <2>3, Lengths
    <2>5. /\ PoolInv' /\ LentIsGone'
          /\ BufferFor(2 * count) \in Buffers \ lent /\ lent' = lent \cup {BufferFor(2 * count)}
          /\ (\A b \in lent \cup ToSet(bySize) : length[b] >= Smallest)'
        BY <1>0, <2>1, <2>4, GetPlaced
    <2>6. stream' # None /\ stream' \notin lent
        BY <2>1, <2>5, NoneIsNoOutcome
    <2>7. OneOwner'
        BY <2>1, <2>2, <2>5, <2>6 DEF OneOwner, Mine
    <2> QED BY <1>0, <2>1, <2>2, <2>5, <2>6, <2>7 DEF Placed, Sized
<1>6. CASE ContentFails \/ ReadEnds
    <2>1. /\ UNCHANGED <<pool, stream, spare, chunk, count>>
          /\ pc \in {"content", "read"} /\ pc' = "returnChunk"
        BY <1>6 DEF ContentFails, ReadEnds, body, GoTo
    <2>2. /\ PoolInv' /\ LentIsGone'
          /\ (\A b \in lent \cup ToSet(bySize) : length[b] >= Smallest)'
        BY <1>0, <2>1, SamePlaced
    <2>3. UNCHANGED <<lent, length>>
        BY <2>1 DEF pool
    <2> QED BY <1>0, <2>1, <2>2, <2>3 DEF Placed, Sized, OneOwner, Mine
<1>7. ASSUME NEW n \in 1..MaxBody, Read(n)
      PROVE  Placed' /\ Sized'
    <2>1. /\ UNCHANGED <<pool, stream, spare, chunk>>
          /\ pc = "read" /\ count' = count + n
          /\ pc' = IF count' <= length[stream] THEN "read" ELSE "grow"
        BY <1>7 DEF Read, GoTo
    <2>2. /\ PoolInv' /\ LentIsGone'
          /\ (\A b \in lent \cup ToSet(bySize) : length[b] >= Smallest)'
        BY <1>0, <2>1, SamePlaced
    <2>3. UNCHANGED <<lent, length>>
        BY <2>1 DEF pool
    <2>4. count' \in Nat
        BY <1>0, <2>1
    <2>5. pc' \in {"read", "grow"}
        BY <2>1
    <2>6. Placed'
        BY <1>0, <2>1, <2>2, <2>3, <2>5 DEF Placed, OneOwner, Mine
    <2>7. stream \in lent /\ length[stream] \in Nat
        BY <1>0, <2>1 DEF Placed, OneOwner, Mine, PoolInv, PoolTypeOK
    <2>8. pc' = "grow" => count' > length'[stream']
        BY <2>1, <2>3, <2>4, <2>7
    <2> QED BY <2>2, <2>4, <2>6, <2>8 DEF Sized
<1>8. CASE Swap
    <2>1. /\ ReturnBuf(spare) /\ spare' = None /\ UNCHANGED <<stream, chunk, count>>
          /\ pc = "swap" /\ pc' = "read"
        BY <1>8 DEF Swap, GoTo
    <2>2. spare # None /\ spare \in lent
        BY <1>0, <2>1 DEF Placed, OneOwner, Mine
    <2>3. /\ PoolInv' /\ LentIsGone' /\ lent' = lent \ {spare}
          /\ (\A b \in lent \cup ToSet(bySize) : length[b] >= Smallest)'
        BY <1>0, <2>1, <2>2, ReturnPlaced
    <2>4. OneOwner'
        BY <1>0, <2>1, <2>2, <2>3 DEF OneOwner, Mine
    <2> QED BY <1>0, <2>1, <2>3, <2>4 DEF Placed, Sized
<1>9. CASE ReturnChunk
    <2>1. /\ chunk' = None /\ UNCHANGED <<stream, spare, count>>
          /\ pc = "returnChunk" /\ pc' = "close"
        BY <1>9 DEF ReturnChunk, GoTo
    <2>2. /\ PoolInv' /\ LentIsGone' /\ lent' = lent \ {chunk}
          /\ (\A b \in lent \cup ToSet(bySize) : length[b] >= Smallest)'
        <3>1. CASE chunk = None
            <4>1. UNCHANGED pool
                BY <1>9, <3>1 DEF ReturnChunk
            <4>2. None \notin lent
                BY <1>0, NoneIsNoOutcome DEF Held
            <4> QED BY <1>0, <3>1, <4>1, <4>2, SamePlaced DEF pool
        <3>2. CASE chunk # None
            <4>1. ReturnBuf(chunk) /\ chunk \in lent
                BY <1>0, <1>9, <3>2 DEF ReturnChunk, OneOwner, Mine
            <4> QED BY <1>0, <4>1, ReturnPlaced
        <3> QED BY <3>1, <3>2
    <2>3. OneOwner'
        BY <1>0, <2>1, <2>2 DEF OneOwner, Mine
    <2> QED BY <1>0, <2>1, <2>2, <2>3 DEF Placed, Sized
<1>10. CASE Close
    <2>1. /\ ReturnBuf(stream) /\ stream' = None /\ count' = 0 /\ UNCHANGED <<spare, chunk>>
          /\ pc = "close"
        BY <1>10 DEF Close
    <2>2. stream # None /\ stream \in lent /\ spare = None /\ chunk = None
        BY <1>0, <2>1 DEF Held, Placed, OneOwner, Mine
    <2>3. /\ PoolInv' /\ LentIsGone' /\ lent' = lent \ {stream}
          /\ (\A b \in lent \cup ToSet(bySize) : length[b] >= Smallest)'
        BY <1>0, <2>1, <2>2, ReturnPlaced
    <2>4. pc' \in {"idle", "send", "check"}
        BY <1>10 DEF Close, AfterBody, GoTo, End, Retry
    <2> QED BY <1>0, <2>1, <2>2, <2>3, <2>4 DEF Placed, Sized, OneOwner, Mine
<1>11. CASE OtherGets
    <2>1. PICK len \in {DefaultSize, ReadSize} : GetBuf(len)
        BY <1>11 DEF OtherGets
    <2>2. UNCHANGED <<pc, stream, spare, chunk, count>>
        BY <1>11 DEF OtherGets, body
    <2>3. len \in Nat /\ len >= Smallest
        BY Lengths
    <2>4. /\ PoolInv' /\ LentIsGone'
          /\ BufferFor(len) \in Buffers \ lent /\ lent' = lent \cup {BufferFor(len)}
          /\ (\A b \in lent \cup ToSet(bySize) : length[b] >= Smallest)'
        BY <1>0, <2>1, <2>3, GetPlaced
    <2>5. /\ \A b \in Buffers : b # BufferFor(len) => length'[b] = length[b]
        BY <1>0, <2>1, <2>3, GetPool
    <2>6. OneOwner'
        BY <1>0, <2>2, <2>4 DEF OneOwner, Mine
    <2>7. pc = "grow" => stream \in lent /\ stream \in Buffers
        BY <1>0 DEF Placed, OneOwner, Mine, Held
    <2>8. pc' = "grow" => count' > length'[stream']
        BY <1>0, <2>2, <2>4, <2>5, <2>7 DEF Sized
    <2> QED BY <1>0, <2>2, <2>4, <2>6, <2>8 DEF Placed, Sized
<1>12. CASE OtherReturns
    <2>1. PICK b \in Others : ReturnBuf(b)
        BY <1>12 DEF OtherReturns
    <2>2. UNCHANGED <<pc, stream, spare, chunk, count>>
        BY <1>12 DEF OtherReturns, body
    <2>3. b \in lent /\ b \notin Mine
        BY <2>1 DEF Others
    <2>4. /\ PoolInv' /\ LentIsGone' /\ lent' = lent \ {b}
          /\ \A c \in lent \ {b} : length'[c] = length[c]
          /\ (\A c \in lent \cup ToSet(bySize) : length[c] >= Smallest)'
        BY <1>0, <2>1, <2>3, ReturnPlaced
    <2>5. OneOwner'
        BY <1>0, <2>2, <2>3, <2>4 DEF OneOwner, Mine
    <2>6. pc = "grow" => stream \in lent \ {b}
        BY <1>0, <2>3 DEF Placed, OneOwner, Mine
    <2>7. pc' = "grow" => count' > length'[stream']
        BY <1>0, <2>2, <2>4, <2>6 DEF Sized
    <2> QED BY <1>0, <2>2, <2>4, <2>5, <2>7 DEF Placed, Sized
<1> QED
    BY <1>1, <1>2, <1>3, <1>4, <1>5, <1>6, <1>7, <1>8, <1>9, <1>10, <1>11, <1>12
    DEF Next, Exchange
-----------------------------------------------------------------------------
LEMMA NetStep == NetInv /\ [Next]_vars => NetInv'
BY StepNetTypeInv, StepCounted, StepWholeBody, StepHeld, StepPlaced DEF NetInv

\* The invariant of the exchange: the attempts, what is delivered and the
\* buffers, at every position of performRequest() and entityToBytes().
THEOREM NetInvAlways == Spec => []NetInv
<1> QED BY NetInit, NetStep, PTL DEF Spec

\* However large the retry count and whatever fails in between, a request is
\* sent at most once more than its policy has retries, and a timeout, a
\* refusal or a redirect only becomes the answer when they are used up.
THEOREM AttemptsAreUsedUp == Spec => []AttemptsUsedUp
<1>1. NetInv => AttemptsUsedUp
    <2> SUFFICES ASSUME NetInv PROVE AttemptsUsedUp
        OBVIOUS
    <2>1. attempts \in Nat /\ retries \in Nat /\ limit \in Nat
        BY DEF NetInv, NetTypeInv
    <2>2. pc # "idle" => attempts <= limit + 1
        BY <2>1 DEF NetInv, NetTypeInv, Counted
    <2> QED BY <2>2 DEF AttemptsUsedUp, NetInv, Counted
<1> QED BY <1>1, NetInvAlways, PTL

\* What performRequest() returns came whole in the last attempt, whatever was
\* thrown in the attempts before it.
THEOREM ResponseIsAlwaysGood == Spec => []ResponseIsGood
<1>1. NetInv => ResponseIsGood
    BY DEF NetInv, WholeBody
<1> QED BY <1>1, NetInvAlways, PTL

\* Every path through performRequest(), entityToBytes() and the growing stream
\* gives back each buffer it got, whatever the sizes are and whatever the
\* other threads do with the pool meanwhile.
THEOREM NothingIsKept == Spec => []NothingKept
<1>1. NetInv => NothingKept
    <2> SUFFICES ASSUME NetInv, pc = "idle" PROVE Mine = {} /\ Cardinality(lent) <= MaxOthers
        BY DEF NothingKept
    <2>1. Mine = {}
        BY DEF NetInv, Held, InBody, Mine
    <2>2. Others = lent
        BY <2>1 DEF Others
    <2> QED BY <2>1, <2>2 DEF NetInv, Held
<1> QED BY <1>1, NetInvAlways, PTL

\* The rest of the types.
ResponseTypeInv ==
    /\ limit \in MaxRetries \cup {0} /\ count \in 0..MaxBody
    /\ status \in Statuses
    /\ thrown \in {"nothing", "timeout", "io", "server", "runtime"}
    /\ outcome \in Outcomes \cup {None}

LEMMA ResponseTypes == Spec => []ResponseTypeInv
<1> USE DEF ResponseTypeInv, Statuses, Outcomes, GoTo, End, Retry
<1>1. Init => ResponseTypeInv
    BY Lengths DEF Init
<1>2. ResponseTypeInv /\ [Next]_vars => ResponseTypeInv'
    <2> SUFFICES ASSUME ResponseTypeInv, [Next]_vars PROVE ResponseTypeInv'
        OBVIOUS
    <2>1. CASE UNCHANGED vars
        BY <2>1 DEF vars, policy, body
    <2>2. CASE SendFails \/ NotModified \/ \E s \in Statuses, entity \in BOOLEAN : Respond(s, entity)
        BY <2>2 DEF SendFails, NotModified, Respond, Sent, body
    <2>3. CASE (\E announced \in {0, MaxBody} : Open(announced)) \/ GetChunk \/ Grow
        BY <2>3 DEF Open, GetChunk, Grow, policy
    <2>4. CASE ContentFails \/ ReadEnds
        BY <2>4 DEF ContentFails, ReadEnds, policy, body
    <2>5. ASSUME NEW n \in 1..MaxBody, Read(n) PROVE ResponseTypeInv'
        <3>1. count' \in 0..MaxBody
            BY <2>5, Lengths DEF Read
        <3> QED BY <2>5, <3>1 DEF Read, policy
    <2>6. CASE Swap \/ ReturnChunk
        BY <2>6 DEF Swap, ReturnChunk, policy
    <2>7. CASE Close
        <3>1. count' \in 0..MaxBody
            BY <2>7, Lengths DEF Close
        <3> QED BY <2>7, <3>1 DEF Close, AfterBody
    <2>8. CASE Check \/ Begin
        BY <2>8 DEF Check, Begin, body
    <2>9. CASE OtherGets \/ OtherReturns
        BY <2>9 DEF OtherGets, OtherReturns, policy, body
    <2> QED BY <2>1, <2>2, <2>3, <2>4, <2>5, <2>6, <2>7, <2>8, <2>9 DEF Next, Exchange
<1> QED BY <1>1, <1>2, PTL DEF Spec

\* Types, those of the pool included.
THEOREM NetworkTypesAlways == Spec => []TypeOK
<1>1. NetInv /\ ResponseTypeInv => TypeOK
    <2> SUFFICES ASSUME NetInv, ResponseTypeInv PROVE TypeOK
        OBVIOUS
    <2>1. {stream, spare, chunk} \subseteq Buffers \cup {None}
        BY DEF NetInv, Held, Placed, OneOwner, Mine
    <2>2. PoolTypeOK
        BY DEF NetInv, Placed, PoolInv
    <2> QED BY <2>1, <2>2 DEF NetInv, NetTypeInv, ResponseTypeInv, TypeOK, InBody
<1> QED BY <1>1, NetInvAlways, ResponseTypes, PTL

\* "This class ensures that the total size of the buffers in its recycling
\* pool never exceeds a certain byte limit": for any limit, any sizes and any
\* order of calls the two lists of the pool hold the same buffers, each once,
\* the running total is theirs, and it is within the limit.
THEOREM PoolIsAlwaysSound == Spec => []PoolIsSound
<1>1. NetInv => PoolIsSound
    BY DEF NetInv, Placed, PoolInv
<1> QED BY <1>1, NetInvAlways, PTL

\* No buffer is ever in two hands: what an exchange writes to is neither in
\* the pool nor used by anybody else, for any number of other threads.
THEOREM OneOwnerAlways == Spec => []OneOwner
<1>1. NetInv => OneOwner
    BY DEF NetInv, Placed
<1> QED BY <1>1, NetInvAlways, PTL
-----------------------------------------------------------------------------
(* The bound on the buffers.                                               *)

\* Whenever getBuf() is called there is a buffer for it.
RoomLeft ==
    pc \in {"open", "content", "grow"} \/ Cardinality(Others) < MaxOthers => Unused # {}

LEMMA Quotient ==
    ASSUME NEW c \in Nat \ {0}, NEW k \in Nat, NEW n \in Nat, c * k <= n
    PROVE  k <= n \div c /\ n \div c \in Nat
<1>1. n \div c \in Nat /\ n = c * (n \div c) + (n % c) /\ n % c < c /\ n % c \in Nat
    OBVIOUS
<1> DEFINE q == n \div c
<1> SUFFICES ASSUME k > q PROVE FALSE
    BY <1>1
<1>2. q \in Nat /\ n < c * q + c
    BY <1>1
<1> HIDE DEF q
<1>3. PICK d \in Nat : k = q + 1 + d
    <2>1. k - q - 1 \in Nat /\ k = q + 1 + (k - q - 1)
        BY <1>2
    <2> QED BY <2>1
<1>4. c * k = c * q + c + c * d
    BY <1>2, <1>3
<1>5. c * d \in Nat /\ c * q \in Nat
    BY <1>2
<1> QED BY <1>2, <1>4, <1>5

\* What is lent at a time: two buffers to the exchange before it gets another,
\* three at most, and the others.
LEMMA FewLent ==
    ASSUME NetInv, pc \in {"open", "content", "grow"} \/ Cardinality(Others) < MaxOthers
    PROVE  IsFiniteSet(lent) /\ Cardinality(lent) \in Nat /\ Cardinality(lent) <= MaxOthers + 2
<1>1. /\ IsFiniteSet(Others) /\ Cardinality(Others) \in Nat /\ Cardinality(Others) <= MaxOthers
      /\ MaxOthers \in Nat
    BY OthersFinite, NetworkAssumption DEF NetInv, Held
<1> DEFINE Add(S, b) == IF b = None THEN S ELSE S \cup {b}
           A == Add(Others, stream)
           B == Add(A, chunk)
           D == Add(B, spare)
<1>2. ASSUME NEW S, IsFiniteSet(S), NEW b
      PROVE  /\ IsFiniteSet(Add(S, b)) /\ Cardinality(Add(S, b)) \in Nat
             /\ Cardinality(Add(S, b)) <= Cardinality(S) + 1 /\ Cardinality(S) \in Nat
             /\ b = None => Add(S, b) = S
    BY <1>2, FS_AddElement, FS_CardinalityType
<1>3. lent = D
    BY DEF NetInv, Placed, OneOwner, Mine, Others
<1> HIDE DEF Add
<1>4. /\ IsFiniteSet(A) /\ Cardinality(A) \in Nat /\ Cardinality(A) <= Cardinality(Others) + 1
      /\ stream = None => A = Others
    BY <1>1, <1>2
<1> HIDE DEF A
<1>5. /\ IsFiniteSet(B) /\ Cardinality(B) \in Nat /\ Cardinality(B) <= Cardinality(A) + 1
      /\ chunk = None => B = A
    BY <1>2, <1>4
<1> HIDE DEF B
<1>6. /\ IsFiniteSet(D) /\ Cardinality(D) \in Nat /\ Cardinality(D) <= Cardinality(B) + 1
      /\ spare = None => D = B
    BY <1>2, <1>5
<1> HIDE DEF D
<1>7. CASE Cardinality(Others) < MaxOthers
    BY <1>1, <1>3, <1>4, <1>5, <1>6, <1>7
<1>8. CASE pc \in {"open", "content", "grow"}
    <2>1. spare = None
        BY <1>8 DEF NetInv, Held
    <2> QED BY <1>1, <1>3, <1>4, <1>5, <1>6, <2>1
<1> QED BY <1>7, <1>8

\* The bound on the buffers never decides what happens: getBuf() always has a
\* buffer to give, whatever the sizes, the limit and the other threads.
THEOREM AlwaysRoomLeft == Spec => []RoomLeft
<1>1. NetInv => RoomLeft
    <2> SUFFICES ASSUME NetInv, pc \in {"open", "content", "grow"} \/ Cardinality(Others) < MaxOthers,
                        Unused = {}
                 PROVE  FALSE
        BY DEF RoomLeft
    <2> DEFINE P == ToSet(bySize)
    <2>1. IsFiniteSet(lent) /\ Cardinality(lent) \in Nat /\ Cardinality(lent) <= MaxOthers + 2
        BY FewLent
    <2>2. PoolInv /\ Sized
        BY DEF NetInv, Placed
    <2>3. IsFiniteSet(P) /\ Cardinality(P) \in Nat /\ \A b \in P : length[b] \in Int /\ Smallest <= length[b]
        <3>1. IsFiniteSet(P) /\ \A b \in P : length[b] \in Nat
            BY <2>2, PoolBasics
        <3> QED BY <2>2, <3>1, Lengths, FS_CardinalityType DEF Sized
    <2>4. Smallest * Cardinality(P) <= TotalOf(P)
        BY <2>3, Lengths, SumAtLeast DEF TotalOf
    <2>5. TotalOf(P) \in Nat /\ TotalOf(P) <= SizeLimit /\ SizeLimit \in Nat
        BY <2>2, PoolAssumption DEF PoolInv, PoolTypeOK, PoolIsSound
    <2>6. Smallest * Cardinality(P) <= SizeLimit
        <3>1. Smallest * Cardinality(P) \in Int
            BY <2>3, Lengths
        <3> QED BY <2>4, <2>5, <3>1
    <2>7. Cardinality(P) <= SizeLimit \div Smallest /\ SizeLimit \div Smallest \in Nat
        BY <2>3, <2>5, <2>6, Lengths, Quotient
    <2>8. /\ IsFiniteSet(lent \cup P) /\ Cardinality(lent \cup P) \in Nat
          /\ Cardinality(lent \cup P) <= Cardinality(lent) + Cardinality(P)
        <3>1. /\ IsFiniteSet(lent \cup P) /\ IsFiniteSet(lent \cap P)
              /\ Cardinality(lent \cup P) = Cardinality(lent) + Cardinality(P) - Cardinality(lent \cap P)
            BY <2>1, <2>3, FS_Union, FS_Subset
        <3>2. Cardinality(lent \cap P) \in Nat /\ Cardinality(lent \cup P) \in Nat
            BY <3>1, FS_CardinalityType
        <3> QED BY <2>1, <2>3, <3>1, <3>2
    <2>9. Buffers \in SUBSET (lent \cup P)
        BY <2>2 DEF Unused, PoolInv, PoolIsSound
    <2>10. Cardinality(Buffers) = MaxBuffers /\ MaxBuffers \in Nat
        BY PoolAssumption, FS_Interval DEF Buffers
    <2>11. MaxBuffers <= Cardinality(lent \cup P)
        BY <2>8, <2>9, <2>10, FS_Subset
    <2>12. MaxBuffers >= SizeLimit \div Smallest + 3 + MaxOthers /\ MaxOthers \in Nat
        BY NetworkAssumption DEF Smallest
    <2> HIDE DEF P
    <2> QED BY <2>1, <2>3, <2>7, <2>8, <2>10, <2>11, <2>12
<1> QED BY <1>1, NetInvAlways, PTL
=============================================================================
