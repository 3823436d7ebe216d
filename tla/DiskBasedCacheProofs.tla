------------------------ MODULE DiskBasedCacheProofs ------------------------
(***************************************************************************)
(* Theorems about the persistent response cache, for all keys and file     *)
(* names, all lengths, any maximum size and any number of entries.         *)
(***************************************************************************)
EXTENDS DiskBasedCache, DataLemmas

-----------------------------------------------------------------------------
(* The entries in memory.                                                  *)

\* The size of an entry, and the sum of the sizes of a set of entries.
SizeIn == [e \in Entry |-> e.size]
Weight(E) == SumFunctionOnSet(SizeIn, E)

\* No two entries have the same key.
KeysDiffer(E) == \A a, b \in E : a.key = b.key => a = b

\* A list of entries with different keys.
IsEntries(s) == s \in Seq(Entry) /\ IsInjective(s) /\ KeysDiffer(ToSet(s))

\* The memory of the cache: such a list, and a total that is at least the sum
\* of the sizes.
MemInv(m) ==
    /\ m \in [entries : Seq(Entry), total : Int]
    /\ IsEntries(m.entries)
    /\ Weight(ToSet(m.entries)) <= m.total

\* The fields of an entry.
LEMMA EntryFields ==
    ASSUME NEW e \in Entry
    PROVE  /\ e.key \in Keys /\ e.head \in Responses /\ e.size \in Nat
           /\ SizeIn[e] = e.size
BY DEF Entry, SizeIn

\* The elements of a list are finitely many entries.
LEMMA EntrySet ==
    ASSUME NEW s \in Seq(Entry), IsInjective(s)
    PROVE  /\ ToSet(s) \subseteq Entry /\ IsFiniteSet(ToSet(s))
           /\ ToSet(s) = {s[i] : i \in 1..Len(s)} /\ DOMAIN s = 1..Len(s) /\ Len(s) \in Nat
<1>1. PICK n \in Nat : n = Len(s) /\ DOMAIN s = 1..n /\ \A i \in 1..n : s[i] \in Entry
    BY LenProperties, ElementOfSeq
<1>2. ToSet(s) = {s[i] : i \in 1..n}
    BY <1>1 DEF ToSet
<1>3. IsFiniteSet(1..n)
    BY FS_Interval
<1>4. s \in Surjection(1..n, ToSet(s))
    <2>1. s \in [1..n -> ToSet(s)]
        BY <1>1, <1>2
    <2> QED BY <1>2, <2>1 DEF Surjection
<1>5. IsFiniteSet(ToSet(s))
    BY <1>3, <1>4, FS_Surjection
<1> QED BY <1>1, <1>2, <1>5

\* A list without repetition has as many elements as positions.
LEMMA ListLength ==
    ASSUME NEW s \in Seq(Entry), IsInjective(s)
    PROVE  Cardinality(ToSet(s)) = Len(s)
<1>1. PICK n \in Nat : n = Len(s) /\ DOMAIN s = 1..n /\ ToSet(s) = {s[i] : i \in 1..n}
    BY EntrySet
<1>2. IsFiniteSet(1..n) /\ Cardinality(1..n) = n
    BY FS_Interval
<1>3. s \in Bijection(1..n, ToSet(s))
    <2>1. s \in [1..n -> ToSet(s)]
        BY <1>1
    <2> QED BY <1>1, <2>1 DEF Bijection, Injection, Surjection, IsInjective
<1> QED BY <1>1, <1>2, <1>3, FS_Bijection DEF ExistsBijection

\* Sums of sizes are natural numbers.
LEMMA WeightNat ==
    ASSUME NEW E \in SUBSET Entry, IsFiniteSet(E)
    PROVE  Weight(E) \in Nat
<1>1. \A e \in E : SizeIn[e] \in Nat
    BY EntryFields
<1> QED BY <1>1, SumNat DEF Weight

\* SumSizes() adds up the sizes of the entries.
LEMMA SumOfEntries ==
    ASSUME NEW m, m.entries \in Seq(Entry), IsInjective(m.entries)
    PROVE  SumSizes(m) = Weight(ToSet(m.entries))
<1> DEFINE s == m.entries
           D == DOMAIN s
           f == [i \in D |-> s[i].size]
<1>1. D = 1..Len(s) /\ Len(s) \in Nat /\ \A i \in D : s[i] \in Entry
    BY EntrySet DEF ToSet
<1>2. IsFiniteSet(D)
    BY <1>1, FS_Interval
<1>3. \A i \in D : f[i] \in Int /\ f[i] = SizeIn[s[i]]
    BY <1>1, EntryFields
<1>4. \A i, j \in D : s[i] = s[j] => i = j
    BY DEF IsInjective
<1>5. SumSizes(m) = SumFunctionOnSet(f, D)
    BY DEF SumSizes, SumFunction
<1>6. ToSet(s) = {s[i] : i \in D}
    BY DEF ToSet
<1> HIDE DEF f, D
<1>7. SumFunctionOnSet(f, D) = SumFunctionOnSet(SizeIn, {s[i] : i \in D})
    BY <1>2, <1>3, <1>4, SumImage
<1> QED BY <1>5, <1>6, <1>7 DEF Weight

\* What the memory holds.
LEMMA MemFacts ==
    ASSUME NEW m, MemInv(m)
    PROVE  /\ m.entries \in Seq(Entry) /\ IsInjective(m.entries)
           /\ ToSet(m.entries) \subseteq Entry /\ IsFiniteSet(ToSet(m.entries))
           /\ KeysDiffer(ToSet(m.entries))
           /\ Cached(m) = {e.key : e \in ToSet(m.entries)} /\ Cached(m) \subseteq Keys
           /\ Weight(ToSet(m.entries)) \in Nat /\ m.total \in Nat
<1>1. /\ m.entries \in Seq(Entry) /\ IsInjective(m.entries) /\ KeysDiffer(ToSet(m.entries))
      /\ m.total \in Int /\ Weight(ToSet(m.entries)) <= m.total
    BY DEF MemInv, IsEntries
<1>2. ToSet(m.entries) \subseteq Entry /\ IsFiniteSet(ToSet(m.entries))
    BY <1>1, EntrySet
<1>3. Cached(m) = {e.key : e \in ToSet(m.entries)}
    BY DEF Cached, ToSet
<1>4. Cached(m) \subseteq Keys
    BY <1>2, <1>3, EntryFields
<1>5. Weight(ToSet(m.entries)) \in Nat
    BY <1>2, WeightNat
<1> QED BY <1>1, <1>2, <1>3, <1>4, <1>5

\* The entry of a key.
LEMMA EntryFound ==
    ASSUME NEW m, MemInv(m), NEW k \in Cached(m)
    PROVE  /\ EntryOf(m, k) \in ToSet(m.entries) /\ EntryOf(m, k).key = k
           /\ \A e \in ToSet(m.entries) : e.key = k => e = EntryOf(m, k)
<1>1. \E e \in ToSet(m.entries) : e.key = k
    BY MemFacts
<1>2. EntryOf(m, k) \in ToSet(m.entries) /\ EntryOf(m, k).key = k
    BY <1>1 DEF EntryOf
<1> QED BY <1>2, MemFacts DEF KeysDiffer

\* The size of what is cached under a key is part of the sum.
LEMMA SizeFound ==
    ASSUME NEW m, MemInv(m), NEW k
    PROVE  /\ SizeOf(m, k) \in Nat
           /\ Weight(ToSet(m.entries)) = Weight({e \in ToSet(m.entries) : e.key # k}) + SizeOf(m, k)
           /\ Weight({e \in ToSet(m.entries) : e.key # k}) \in Nat
<1> DEFINE E == ToSet(m.entries)
           F == {e \in E : e.key # k}
<1>1. E \subseteq Entry /\ IsFiniteSet(E) /\ Weight(E) \in Nat
    BY MemFacts
<1>2. F \subseteq Entry /\ IsFiniteSet(F) /\ Weight(F) \in Nat
    <2>1. F \subseteq E /\ F \subseteq Entry
        BY <1>1
    <2> HIDE DEF F
    <2>2. IsFiniteSet(F)
        BY <1>1, <2>1, FS_Subset
    <2> QED BY <2>1, <2>2, WeightNat
<1>3. CASE k \notin Cached(m)
    <2>1. F = E
        BY <1>3, MemFacts
    <2> QED BY <1>1, <1>3, <2>1 DEF SizeOf
<1>4. CASE k \in Cached(m)
    <2> DEFINE c == EntryOf(m, k)
    <2>1. c \in E /\ c.key = k /\ \A e \in E : e.key = k => e = c
        BY <1>4, EntryFound
    <2>2. E \ {c} = F
        BY <2>1
    <2>3. c.size \in Nat /\ SizeIn[c] = c.size /\ \A e \in E : SizeIn[e] \in Int
        BY <1>1, <2>1, EntryFields
    <2> HIDE DEF E, F, c
    <2>4. Weight(E) = SizeIn[c] + Weight(E \ {c})
        BY <1>1, <2>1, <2>3, SumRemove DEF Weight
    <2>5. SizeOf(m, k) = c.size
        BY <1>4 DEF SizeOf, c
    <2>6. Weight(E) = c.size + Weight(F) /\ SizeOf(m, k) = c.size
        BY <2>2, <2>3, <2>4, <2>5, Zenon
    <2>7. Weight(F) \in Nat /\ c.size \in Nat
        BY <1>2, <2>3
    <2>8. SizeOf(m, k) \in Nat /\ Weight(E) = Weight(F) + SizeOf(m, k)
        BY <2>6, <2>7
    <2> QED BY <2>7, <2>8 DEF E, F
<1> QED BY <1>3, <1>4

\* The entries of other keys.
LEMMA OthersAre ==
    ASSUME NEW m, MemInv(m), NEW k, NEW t, t = Others(m, k)
    PROVE  /\ IsEntries(t)
           /\ ToSet(t) = {e \in ToSet(m.entries) : e.key # k}
<1> DEFINE s == m.entries
<1>1. s \in Seq(Entry) /\ IsInjective(s) /\ KeysDiffer(ToSet(s))
    BY MemFacts
<1>2. t \in Seq(Entry) /\ IsInjective(t) /\ ToSet(t) = {e \in ToSet(s) : e.key # k}
    <2>1. CASE k \notin Cached(m)
        <3>1. {e \in ToSet(s) : e.key # k} = ToSet(s)
            BY <2>1, MemFacts
        <3> QED BY <1>1, <2>1, <3>1 DEF Others
    <2>2. CASE k \in Cached(m)
        <3> DEFINE p == PositionOf(m, k)
        <3>1. p \in DOMAIN s /\ s[p].key = k
            BY <2>2 DEF Cached, PositionOf
        <3>2. p \in 1..Len(s) /\ s[p] \in ToSet(s)
            BY <1>1, <3>1, EntrySet DEF ToSet
        <3>3. t = RemoveAt(s, p)
            BY <2>2 DEF Others
        <3> HIDE DEF p, s
        <3>4. t \in Seq(Entry) /\ IsWithout(t, s, p)
            BY <1>1, <3>2, <3>3, CutOut
        <3>5. IsInjective(t) /\ ToSet(t) = ToSet(s) \ {s[p]}
            BY <1>1, <3>4, CutFromList
        <3>6. \A e \in ToSet(s) : e.key = k <=> e = s[p]
            BY <1>1, <3>1, <3>2 DEF KeysDiffer
        <3> QED BY <3>4, <3>5, <3>6
    <2> QED BY <2>1, <2>2
<1>3. KeysDiffer(ToSet(t))
    BY <1>1, <1>2 DEF KeysDiffer
<1> QED BY <1>2, <1>3 DEF IsEntries

\* The entries after an entry with another key is added at the end.
LEMMA EntryAppended ==
    ASSUME NEW s, IsEntries(s), NEW e \in Entry, \A d \in ToSet(s) : d.key # e.key,
           NEW t \in Seq(Entry), IsAppended(t, s, e)
    PROVE  IsEntries(t) /\ ToSet(t) = ToSet(s) \cup {e}
<1>1. s \in Seq(Entry) /\ IsInjective(s) /\ KeysDiffer(ToSet(s))
    BY DEF IsEntries
<1>2. e \notin ToSet(s)
    OBVIOUS
<1>3. IsInjective(t) /\ ToSet(t) = ToSet(s) \cup {e}
    BY <1>1, <1>2, AppendedToList
<1>4. KeysDiffer(ToSet(t))
    BY <1>1, <1>3 DEF KeysDiffer
<1> QED BY <1>3, <1>4 DEF IsEntries

\* An entry with a new key at the end leaves the keys different.
LEMMA EntryAdded ==
    ASSUME NEW s, IsEntries(s), NEW e \in Entry, \A d \in ToSet(s) : d.key # e.key,
           NEW t, t = Append(s, e)
    PROVE  IsEntries(t) /\ ToSet(t) = ToSet(s) \cup {e}
<1>1. t \in Seq(Entry) /\ IsAppended(t, s, e)
    BY AppendedTo DEF IsEntries
<1> QED BY <1>1, EntryAppended

\* putEntry() keeps one entry for each key and counts it.
LEMMA PutEntryKeeps ==
    ASSUME NEW m, MemInv(m), NEW k \in Keys, NEW head \in Responses, NEW size \in Nat,
           NEW n, n = PutEntry(m, k, head, size)
    PROVE  /\ MemInv(n)
           /\ ToSet(n.entries) = {e \in ToSet(m.entries) : e.key # k}
                                     \cup {[key |-> k, head |-> head, size |-> size]}
           /\ n.total = m.total + size - SizeOf(m, k)
<1> DEFINE s == Others(m, k)
           e == [key |-> k, head |-> head, size |-> size]
           E == ToSet(m.entries)
           F == {d \in E : d.key # k}
<1>1. IsEntries(s) /\ ToSet(s) = F
    BY OthersAre
<1>2. e \in Entry /\ e.key = k /\ SizeIn[e] = size
    BY DEF Entry, SizeIn
<1>3. n.entries = Append(s, e) /\ n.total = m.total + size - SizeOf(m, k)
      /\ n = [entries |-> n.entries, total |-> n.total]
    BY DEF PutEntry
<1>4. IsEntries(n.entries) /\ ToSet(n.entries) = F \cup {e}
    <2>1. \A d \in ToSet(s) : d.key # e.key
        BY <1>1, <1>2
    <2>2. IsEntries(s) /\ e \in Entry /\ n.entries = Append(s, e)
        BY <1>1, <1>2, <1>3, Zenon
    <2> HIDE DEF s, e, F
    <2>3. IsEntries(n.entries) /\ ToSet(n.entries) = ToSet(s) \cup {e}
        BY <2>1, <2>2, EntryAdded
    <2> QED BY <1>1, <2>3
<1>5. Weight(F \cup {e}) = Weight(F) + size /\ Weight(F) \in Nat
    <2>1. e \notin F /\ IsFiniteSet(F) /\ \A x \in F \cup {e} : SizeIn[x] \in Int
        <3>1. F \subseteq E /\ F \subseteq Entry /\ IsFiniteSet(E)
            BY MemFacts
        <3>2. IsFiniteSet(F)
            BY <3>1, FS_Subset
        <3> QED BY <1>2, <3>1, <3>2, EntryFields
    <2> HIDE DEF e, F
    <2>2. Weight(F \cup {e}) = Weight(F) + SizeIn[e]
        BY <2>1, SumAdd DEF Weight
    <2> QED BY <1>2, <2>2, SizeFound DEF F
<1>6. /\ m.total \in Nat /\ SizeOf(m, k) \in Nat
      /\ Weight(F) + SizeOf(m, k) <= m.total
    BY SizeFound, MemFacts DEF MemInv
<1>7. n.total \in Int /\ Weight(F) + size <= n.total
    BY <1>3, <1>5, <1>6
<1>8. MemInv(n)
    BY <1>3, <1>4, <1>5, <1>7 DEF MemInv, IsEntries
<1> QED BY <1>3, <1>4, <1>8

\* A key that is looked up keeps its entry.
LEMMA TouchedKeeps ==
    ASSUME NEW m, MemInv(m), NEW k \in Cached(m), NEW n, n = Touched(m, k)
    PROVE  MemInv(n) /\ ToSet(n.entries) = ToSet(m.entries) /\ n.total = m.total
<1> DEFINE s == Others(m, k)
           e == EntryOf(m, k)
           E == ToSet(m.entries)
           F == {d \in E : d.key # k}
<1>1. IsEntries(s) /\ ToSet(s) = F
    BY OthersAre
<1>2. e \in Entry /\ e \in E /\ e.key = k /\ \A d \in E : d.key = k => d = e
    BY EntryFound, MemFacts
<1>3. n.entries = Append(s, e) /\ n.total = m.total
      /\ n = [entries |-> n.entries, total |-> n.total]
    BY DEF Touched, MemInv
<1>4. \A d \in ToSet(s) : d.key # e.key
    BY <1>1, <1>2
<1>5. F \cup {e} = E
    BY <1>2
<1> HIDE DEF s, e, F
<1>6. IsEntries(n.entries) /\ ToSet(n.entries) = F \cup {e}
    BY <1>1, <1>2, <1>3, <1>4, EntryAdded
<1>7. m.total \in Int /\ Weight(E) <= m.total
    BY DEF MemInv
<1>8. MemInv(n)
    BY <1>3, <1>5, <1>6, <1>7 DEF MemInv, IsEntries
<1> QED BY <1>3, <1>5, <1>6, <1>8

\* removeEntry() takes the entry and its size away.
LEMMA RemoveKeeps ==
    ASSUME NEW m, MemInv(m), NEW k, NEW n, n = RemoveEntry(m, k)
    PROVE  MemInv(n) /\ ToSet(n.entries) = {e \in ToSet(m.entries) : e.key # k}
<1> DEFINE F == {d \in ToSet(m.entries) : d.key # k}
<1>1. n.entries = Others(m, k) /\ n.total = m.total - SizeOf(m, k)
      /\ n = [entries |-> n.entries, total |-> n.total]
    BY DEF RemoveEntry
<1>2. IsEntries(n.entries) /\ ToSet(n.entries) = F
    BY <1>1, OthersAre
<1>3. /\ m.total \in Nat /\ SizeOf(m, k) \in Nat /\ Weight(F) \in Nat
      /\ Weight(F) + SizeOf(m, k) <= m.total
    BY SizeFound, MemFacts DEF MemInv
<1>4. n.total \in Int /\ Weight(F) <= n.total
    BY <1>1, <1>3
<1>5. MemInv(n)
    BY <1>1, <1>2, <1>4 DEF MemInv, IsEntries
<1> QED BY <1>2, <1>5

-----------------------------------------------------------------------------
(* pruneIfNeeded().                                                        *)

\* The sizes taken off are some of those of the entries that go.
LEMMA FreedBound ==
    ASSUME NEW m, MemInv(m), NEW d, NEW n \in 0..Len(m.entries)
    PROVE  /\ Freed(m, d, n) \in Nat
           /\ Weight({m.entries[i] : i \in 1..n}) \in Int
           /\ Freed(m, d, n) <= Weight({m.entries[i] : i \in 1..n})
<1> DEFINE s == m.entries
           there == {i \in 1..n : /\ d[FileOf[s[i].key]] # NoFile
                                  /\ \A j \in 1..(i - 1) : FileOf[s[j].key] # FileOf[s[i].key]}
           g == [i \in 1..n |-> s[i].size]
<1>1. s \in Seq(Entry) /\ IsInjective(s)
    BY MemFacts
<1>2. DOMAIN s = 1..Len(s) /\ Len(s) \in Nat /\ \A i \in 1..n : s[i] \in Entry
    BY <1>1, EntrySet DEF ToSet
<1>3. IsFiniteSet(1..n)
    BY <1>2, FS_Interval
<1>4. Freed(m, d, n) = SumFunctionOnSet(g, there)
    BY Zenon DEF Freed
<1>5. \A i \in 1..n : g[i] \in Nat /\ g[i] \in Int /\ g[i] = SizeIn[s[i]]
    BY <1>2, EntryFields
<1>6. \A i, j \in 1..n : s[i] = s[j] => i = j
    BY <1>1, <1>2 DEF IsInjective
<1>7. there \in SUBSET (1..n)
    OBVIOUS
<1> HIDE DEF g, there, s
<1>8. SumFunctionOnSet(g, there) \in Nat
    <2>1. IsFiniteSet(there) /\ \A i \in there : g[i] \in Nat
        BY <1>3, <1>5, <1>7, FS_Subset
    <2> QED BY <2>1, SumNat
<1>9. SumFunctionOnSet(g, there) <= SumFunctionOnSet(g, 1..n)
    BY <1>3, <1>5, <1>7, SumSubset
<1>10. SumFunctionOnSet(g, 1..n) = SumFunctionOnSet(SizeIn, {s[i] : i \in 1..n})
    <2> DEFINE D == 1..n
    <2>1. /\ IsFiniteSet(D) /\ \A i, j \in D : s[i] = s[j] => i = j
          /\ \A i \in D : g[i] \in Int /\ g[i] = SizeIn[s[i]]
        BY <1>3, <1>5, <1>6
    <2> HIDE DEF D
    <2>2. SumFunctionOnSet(g, D) = SumFunctionOnSet(SizeIn, {s[i] : i \in D})
        BY <2>1, SumImage
    <2> QED BY <2>2 DEF D
<1>11. SumFunctionOnSet(g, 1..n) \in Int
    BY <1>3, <1>5, SumPicks
<1> QED BY <1>4, <1>8, <1>9, <1>10, <1>11 DEF Weight, s

\* A memory from its two fields.
LEMMA MemoryRecord ==
    ASSUME NEW a \in Seq(Entry), NEW b \in Int, NEW m, m = [entries |-> a, total |-> b]
    PROVE  m \in [entries : Seq(Entry), total : Int]
OBVIOUS

\* p is what pruneIfNeeded() leaves in memory and on disk: the n oldest entries
\* are gone, and their files.
IsPruned(p, m, d, needed) ==
    \E n \in 0..Len(m.entries) :
        /\ n = Evicted(m, d, needed)
        /\ MemInv(p.mem)
        /\ ToSet(p.mem.entries) = ToSet(m.entries) \ {m.entries[i] : i \in 1..n}
        /\ Len(p.mem.entries) = Len(m.entries) - n
        /\ p.mem.total = m.total - Freed(m, d, n)
        /\ p.disk = Deleted(d, {FileOf[m.entries[i].key] : i \in 1..n})

\* pruneIfNeeded() takes the oldest entries away, with their files and sizes.
LEMMA PrunedKeeps ==
    ASSUME NEW m, MemInv(m), NEW d, NEW needed, NEW p, p = Pruned(m, d, needed)
    PROVE  IsPruned(p, m, d, needed)
<1> DEFINE s == m.entries
           n == Evicted(m, d, needed)
           t == p.mem.entries
           E == ToSet(s)
           Out == {s[i] : i \in 1..n}
<1>1. s \in Seq(Entry) /\ IsInjective(s) /\ E \subseteq Entry /\ IsFiniteSet(E) /\ KeysDiffer(E)
    BY MemFacts
<1>2. DOMAIN s = 1..Len(s) /\ Len(s) \in Nat /\ E = {s[i] : i \in 1..Len(s)}
    BY <1>1, EntrySet
<1> HIDE DEF s
<1>3. n \in 0..Len(s)
    <2> DEFINE S == {k \in 0..Len(s) :
                        k = Len(s) \/ (k > 0 /\ 10 * (m.total + needed - Freed(m, d, k)) < 9 * MaxSize)}
    <2>1. n = 0 \/ n = Min(S)
        BY Zenon DEF Evicted, s
    <2>2. Len(s) \in S /\ S \subseteq 0..Len(s) /\ S \subseteq Nat
        BY <1>2
    <2> HIDE DEF S, n
    <2>3. Min(S) \in S
        BY <2>2, LeastNumber
    <2>4. Min(S) \in 0..Len(s)
        BY <2>2, <2>3, Zenon
    <2>5. 0 \in 0..Len(s)
        <3>1. Len(s) \in Nat
            BY <1>2
        <3> QED BY <3>1
    <2> QED BY <2>1, <2>4, <2>5, Zenon
<1>4. /\ p.mem = [entries |-> SubSeq(s, n + 1, Len(s)), total |-> m.total - Freed(m, d, n)]
      /\ p.disk = Deleted(d, {FileOf[s[i].key] : i \in 1..n})
    BY DEF Pruned, s
<1>5. /\ t = SubSeq(s, n + 1, Len(s)) /\ p.mem.total = m.total - Freed(m, d, n)
      /\ p.mem = [entries |-> t, total |-> p.mem.total]
    <2> DEFINE a == SubSeq(s, n + 1, Len(s))
               b == m.total - Freed(m, d, n)
    <2>1. p.mem = [entries |-> a, total |-> b]
        BY <1>4
    <2> HIDE DEF a, b
    <2>2. p.mem.entries = a /\ p.mem.total = b
        BY <2>1
    <2> QED BY <2>1, <2>2 DEF a, b
<1> HIDE DEF n, t
<1>6. t \in Seq(Entry) /\ IsTail(t, s, n)
    BY <1>1, <1>3, <1>5, Dropped
<1>7. IsInjective(t) /\ ToSet(t) = E \ Out
    BY <1>1, <1>6, TailOfList
<1>8. IsEntries(t)
    BY <1>1, <1>6, <1>7 DEF IsEntries, KeysDiffer
<1>9. Out \in SUBSET E
    BY <1>2, <1>3
<1>10. /\ Weight(E) = Weight(E \ Out) + Weight(Out)
       /\ Weight(E \ Out) \in Int /\ Weight(Out) \in Int
    <2>1. \A e \in E : SizeIn[e] \in Int
        BY <1>1, EntryFields
    <2> HIDE DEF E, Out
    <2> QED BY <1>1, <1>9, <2>1, SumSplit DEF Weight
<1>11. Freed(m, d, n) \in Nat /\ Freed(m, d, n) <= Weight(Out)
    BY <1>3, FreedBound DEF s
<1>12. m.total \in Int /\ Weight(E) <= m.total
    BY DEF MemInv, s
<1>13. p.mem.total \in Int /\ Weight(E \ Out) <= p.mem.total
    BY <1>5, <1>10, <1>11, <1>12
<1>14. MemInv(p.mem)
    <2>1. p.mem \in [entries : Seq(Entry), total : Int]
        BY <1>5, <1>6, <1>13, MemoryRecord
    <2>2. IsEntries(p.mem.entries) /\ Weight(ToSet(p.mem.entries)) <= p.mem.total
        BY <1>7, <1>8, <1>13 DEF t
    <2> QED BY <2>1, <2>2 DEF MemInv
<1>15. Len(t) = Len(s) - n
    BY <1>6 DEF IsTail
<1> QED BY <1>3, <1>4, <1>5, <1>7, <1>14, <1>15 DEF n, t, s, IsPruned

-----------------------------------------------------------------------------
(* initialize() puts in the entries of the files one after the other.      *)

\* The entry made from a file.
EntryIn(f) == [key |-> f.key, head |-> f.head, size |-> FileLength(f)]

\* it gives the memory for every set of positions, all in D, of the listing l of
\* the files of d, beginning with m.
IsLoading(it, D, m, d, l) ==
    it = [s \in SUBSET D |->
             IF s = {} THEN m
             ELSE LET x == Max(s) IN
                  PutEntry(it[s \ {x}], d[l[x]].key, d[l[x]].head, FileLength(d[l[x]]))]

\* r is the memory when all of them are loaded.
IsLoaded(r, D, m, d, l) == r = (CHOOSE it : IsLoading(it, D, m, d, l))[D]

\* The lengths of data and files.
LEMMA FileFacts ==
    ASSUME NEW f \in File
    PROVE  /\ Intact(f) /\ f.key \in Keys /\ f.head \in Responses /\ f.data \in Responses
           /\ DataBytes(f) \in Nat /\ FileLength(f) = HeaderLen + DataBytes(f)
           /\ FileLength(f) \in Nat /\ EntryIn(f) \in Entry
<1>1. f # NoFile /\ f # Unreadable
    BY CacheAssumption
<1>2. f.key \in Keys /\ f.head \in Responses /\ f.data \in Responses
    BY DEF File
<1>3. DataLen[f.data] \in Nat \ {0} /\ HeaderLen \in Nat
    BY <1>2, CacheAssumption
<1>4. DataBytes(f) \in Nat
    BY <1>3 DEF DataBytes
<1>5. FileLength(f) = HeaderLen + DataBytes(f) /\ FileLength(f) \in Nat
    BY <1>1, <1>3, <1>4 DEF FileLength
<1> QED BY <1>1, <1>2, <1>4, <1>5 DEF Intact, EntryIn, Entry

\* l lists n files of d with different keys.
IsListing(l, n, d) ==
    /\ n \in Nat /\ DOMAIN l = 1..n
    /\ \A i \in 1..n : d[l[i]] \in File
    /\ \A i, j \in 1..n : d[l[i]].key = d[l[j]].key => i = j

\* The entries after the files at the positions s of l are loaded.
AfterLoading(m, d, l, s) ==
    {e \in ToSet(m.entries) : \A i \in s : e.key # d[l[i]].key}
        \cup {EntryIn(d[l[i]]) : i \in s}

\* The entries of the listed files take the place of those of their keys.
LEMMA LoadingKeeps ==
    ASSUME NEW m, MemInv(m), NEW d, NEW n, NEW l, IsListing(l, n, d),
           NEW r, IsLoaded(r, 1..n, m, d, l)
    PROVE  MemInv(r) /\ ToSet(r.entries) = AfterLoading(m, d, l, 1..n)
<1> n \in Nat /\ (\A i \in 1..n : d[l[i]] \in File) /\ (\A i, j \in 1..n : d[l[i]].key = d[l[j]].key => i = j)
    BY DEF IsListing
<1> DEFINE D == 1..n
           X == {o \in [entries : Seq(Entry), total : Int] : MemInv(o)}
           one(o, x) == PutEntry(o, d[l[x]].key, d[l[x]].head, FileLength(d[l[x]]))
           step == [z \in D \X X |-> one(z[2], z[1])]
           pick == [s \in SUBSET D |-> Max(s)]
           After(s) == AfterLoading(m, d, l, s)
<1>1. IsFiniteSet(D)
    BY FS_Interval
<1>2. \A s \in SUBSET D : s # {} => Max(s) \in s /\ pick[s] = Max(s)
    BY GreatestNumber
<1>0. \A s \in SUBSET D : s # {} => Max(s) \in s
    BY <1>2
<1>3. m \in X /\ \A o : o \in X <=> MemInv(o)
    BY DEF MemInv
<1>4. ASSUME NEW o \in X, NEW x \in D
      PROVE  /\ one(o, x) \in X
             /\ ToSet(one(o, x).entries) = {e \in ToSet(o.entries) : e.key # d[l[x]].key}
                                               \cup {EntryIn(d[l[x]])}
    <2> DEFINE f == d[l[x]]
    <2>1. f.key \in Keys /\ f.head \in Responses /\ FileLength(f) \in Nat
        BY FileFacts
    <2>2. MemInv(o)
        BY <1>3
    <2> HIDE DEF f, X
    <2>3. /\ MemInv(PutEntry(o, f.key, f.head, FileLength(f)))
          /\ ToSet(PutEntry(o, f.key, f.head, FileLength(f)).entries)
                 = {e \in ToSet(o.entries) : e.key # f.key} \cup {EntryIn(f)}
        BY <2>1, <2>2, PutEntryKeeps DEF EntryIn
    <2> QED BY <1>3, <2>3 DEF f
<1>5. step \in [D \X X -> X]
    BY <1>4
<1> HIDE DEF X
<1>6. PICK it \in [SUBSET D -> X] : IsFold(it, D, m, step, pick)
    <2>1. \A s \in SUBSET D : s # {} => pick[s] \in s
        BY <1>2
    <2> HIDE DEF D, step, pick
    <2> QED BY <1>1, <1>3, <1>5, <2>1, FoldExistsIn
<1>7. IsLoading(it, D, m, d, l)
    <2>1. \A s \in SUBSET D : it[s] = IF s = {} THEN m ELSE one(it[s \ {Max(s)}], Max(s))
        <3> SUFFICES ASSUME NEW s \in SUBSET D
                     PROVE  it[s] = IF s = {} THEN m ELSE one(it[s \ {Max(s)}], Max(s))
            OBVIOUS
        <3>1. it[s] = IF s = {} THEN m ELSE step[<<pick[s], it[s \ {pick[s]}]>>]
            BY <1>6, Zenon DEF IsFold
        <3>2. CASE s = {}
            BY <3>1, <3>2, Zenon
        <3>3. CASE s # {}
            <4>1. Max(s) \in D /\ pick[s] = Max(s) /\ it[s \ {Max(s)}] \in X
                BY <1>2, <1>6, <3>3
            <4>2. it[s] = step[<<Max(s), it[s \ {Max(s)}]>>]
                BY <3>1, <3>3, <4>1, Zenon
            <4>3. step[<<Max(s), it[s \ {Max(s)}]>>] = one(it[s \ {Max(s)}], Max(s))
                BY <4>1
            <4> QED BY <3>3, <4>2, <4>3, Zenon
        <3> QED BY <3>2, <3>3
    <2>2. it = [s \in SUBSET D |-> it[s]]
        BY <1>6
    <2>3. it = [s \in SUBSET D |-> IF s = {} THEN m ELSE one(it[s \ {Max(s)}], Max(s))]
        BY <2>1, <2>2, Zenon
    <2> QED BY <2>3 DEF IsLoading
<1> DEFINE g == CHOOSE it2 : IsLoading(it2, D, m, d, l)
<1>8. IsLoading(g, D, m, d, l) /\ r = g[D]
    BY <1>7, Zenon DEF IsLoaded
<1> HIDE DEF g, step, pick
<1>9. ASSUME NEW s \in SUBSET D
      PROVE  g[s] = IF s = {} THEN m ELSE one(g[s \ {Max(s)}], Max(s))
    <2>1. g = [t \in SUBSET D |-> IF t = {} THEN m ELSE one(g[t \ {Max(t)}], Max(t))]
        BY <1>8 DEF IsLoading
    <2> HIDE DEF D, one
    <2> QED BY <2>1, Zenon
<1> DEFINE C == {s \in SUBSET D : g[s] \in X /\ ToSet(g[s].entries) = After(s)}
<1>10. ASSUME NEW T \in SUBSET D, \A U \in SUBSET T : U # T => U \in C
       PROVE  g[T] \in X /\ ToSet(g[T].entries) = After(T)
    <2>1. CASE T = {}
        <3>1. g[T] = m
            BY <1>9, <2>1, Zenon
        <3>2. After(T) = ToSet(m.entries)
            BY <2>1 DEF AfterLoading
        <3> QED BY <1>3, <3>1, <3>2
    <2>2. CASE T # {}
        <3> DEFINE x == Max(T)
                   U == T \ {x}
        <3>1. x \in T /\ x \in D /\ U \in SUBSET T /\ U # T /\ T = U \cup {x} /\ x \notin U
            <4> HIDE DEF D, C
            <4>1. Max(T) \in T
                BY <1>0, <2>2
            <4> QED BY <4>1
        <3>2. g[U] \in X /\ ToSet(g[U].entries) = After(U)
            BY <1>10, <3>1
        <3>3. g[T] = one(g[U], x)
            BY <1>9, <2>2, Zenon
        <3> HIDE DEF x, U, C
        <3>4. /\ g[T] \in X
              /\ ToSet(g[T].entries) = {e \in After(U) : e.key # d[l[x]].key} \cup {EntryIn(d[l[x]])}
            <4> HIDE DEF one, After, D
            <4>1. /\ one(g[U], x) \in X
                  /\ ToSet(one(g[U], x).entries)
                        = {e \in ToSet(g[U].entries) : e.key # d[l[x]].key} \cup {EntryIn(d[l[x]])}
                BY <1>4, <3>1, <3>2, Zenon
            <4> QED BY <3>2, <3>3, <4>1, Zenon
        <3>5. \A i \in U : EntryIn(d[l[i]]).key # d[l[x]].key
            <4> SUFFICES ASSUME NEW i \in U PROVE d[l[i]].key # d[l[x]].key
                BY DEF EntryIn
            <4> QED BY <3>1
        <3>6. {e \in After(U) : e.key # d[l[x]].key} \cup {EntryIn(d[l[x]])} = After(T)
            BY <3>1, <3>5 DEF AfterLoading
        <3> QED BY <3>4, <3>6
    <2> QED BY <2>1, <2>2
<1>11. D \in C
    <2>1. \A T \in SUBSET D : (\A U \in SUBSET T : U # T => U \in C) => T \in C
        BY <1>10
    <2> HIDE DEF C, D, one, After
    <2>2. SUBSET D \subseteq C
        BY ONLY <1>1, <2>1, SubsetInduction
    <2> QED BY <2>2
<1>12. r \in X /\ ToSet(r.entries) = After(D)
    <2> HIDE DEF D, After
    <2> QED BY <1>8, <1>11
<1> QED BY <1>3, <1>12

-----------------------------------------------------------------------------
(* Memory and disk together.                                               *)

\* A file that can be read is the file of its key.
FilesInv(d) ==
    /\ d \in [Files -> File \cup {NoFile, Unreadable}]
    /\ \A f \in Files : Intact(d[f]) => FileOf[d[f].key] = f

\* The size of an entry covers the data in the file written for its key.
Covers(m, d) ==
    \A e \in ToSet(m.entries), f \in Files :
        Intact(d[f]) /\ d[f].key = e.key => DataBytes(d[f]) <= e.size

\* Every file can be read, and there is an entry for its key.
AllKnown(m, d) ==
    \A f \in Files : d[f] # NoFile => Intact(d[f]) /\ d[f].key \in Cached(m)

CacheInv(m, d, l) ==
    MemInv(m) /\ FilesInv(d) /\ Covers(m, d) /\ (l => AllKnown(m, d))

\* What can be read is a file.
LEMMA IntactFiles ==
    ASSUME NEW d, FilesInv(d), NEW f \in Files
    PROVE  /\ Intact(d[f]) <=> d[f] \in File
           /\ d[f] \in File \cup {NoFile, Unreadable} /\ ~Intact(NoFile)
BY CacheAssumption DEF FilesInv, Intact

\* A key is cached if and only if there is an entry with it.
LEMMA CachedMeans ==
    ASSUME NEW m, NEW k
    PROVE  k \in Cached(m) <=> \E e \in ToSet(m.entries) : e.key = k
BY DEF Cached, ToSet

\* Deleting files leaves files of their keys.
LEMMA DeletedFiles ==
    ASSUME NEW d, FilesInv(d), NEW c, \E names : c = Deleted(d, names)
    PROVE  FilesInv(c)
BY DEF FilesInv, Deleted, Intact

\* Some entries go, and with every one its file: pruning, removing, clearing.
LEMMA ShrunkKeeps ==
    ASSUME NEW m, NEW d, NEW l, CacheInv(m, d, l), NEW n, MemInv(n), NEW names,
           ToSet(n.entries) \subseteq ToSet(m.entries),
           \A e \in ToSet(m.entries) : e \in ToSet(n.entries) \/ FileOf[e.key] \in names,
           NEW c, c = Deleted(d, names)
    PROVE  CacheInv(n, c, l)
<1>1. FilesInv(d) /\ Covers(m, d) /\ (l => AllKnown(m, d))
    BY DEF CacheInv
<1>2. /\ c = [f \in Files |-> IF f \in names THEN NoFile ELSE d[f]]
      /\ \A f \in Files : c[f] = IF f \in names THEN NoFile ELSE d[f]
    BY DEF Deleted
<1>3. \A f \in Files : Intact(c[f]) => f \notin names /\ c[f] = d[f] /\ Intact(d[f])
    BY <1>2 DEF Intact
<1>4. FilesInv(c)
    <2>1. c \in [Files -> File \cup {NoFile, Unreadable}]
        BY <1>1, <1>2 DEF FilesInv
    <2> QED BY <1>1, <1>3, <2>1 DEF FilesInv
<1>5. Covers(n, c)
    BY <1>1, <1>3 DEF Covers
<1>6. ASSUME l PROVE AllKnown(n, c)
    <2> SUFFICES ASSUME NEW f \in Files, c[f] # NoFile
                 PROVE  Intact(c[f]) /\ c[f].key \in Cached(n)
        BY DEF AllKnown
    <2>1. f \notin names /\ c[f] = d[f]
        BY <1>2
    <2>2. Intact(d[f]) /\ d[f].key \in Cached(m) /\ FileOf[d[f].key] = f
        BY <1>1, <1>6, <2>1 DEF AllKnown, FilesInv
    <2>3. PICK e \in ToSet(m.entries) : e.key = d[f].key
        BY <2>2, CachedMeans
    <2>4. e \in ToSet(n.entries)
        BY <2>1, <2>2, <2>3
    <2> QED BY <2>1, <2>2, <2>3, <2>4, CachedMeans
<1> QED BY <1>4, <1>5, <1>6 DEF CacheInv

\* n and c are what is left of m and d when entries go, and with each its file.
IsShrunk(n, c, m, d) ==
    /\ MemInv(n) /\ ToSet(n.entries) \subseteq ToSet(m.entries)
    /\ \E names : /\ c = Deleted(d, names)
                  /\ \A e \in ToSet(m.entries) :
                         e \in ToSet(n.entries) \/ FileOf[e.key] \in names

\* pruneIfNeeded() takes entries and files away.
LEMMA PrunedShrinks ==
    ASSUME NEW m, NEW d, MemInv(m), NEW needed, NEW p, p = Pruned(m, d, needed)
    PROVE  IsShrunk(p.mem, p.disk, m, d)
<1>1. IsPruned(p, m, d, needed)
    BY PrunedKeeps
<1>2. PICK n \in 0..Len(m.entries) :
          /\ MemInv(p.mem)
          /\ ToSet(p.mem.entries) = ToSet(m.entries) \ {m.entries[i] : i \in 1..n}
          /\ p.disk = Deleted(d, {FileOf[m.entries[i].key] : i \in 1..n})
    BY <1>1, Zenon DEF IsPruned
<1> DEFINE names == {FileOf[m.entries[i].key] : i \in 1..n}
<1>3. \A e \in ToSet(m.entries) : e \in ToSet(p.mem.entries) \/ FileOf[e.key] \in names
    BY <1>2
<1>4. p.disk = Deleted(d, names)
    BY <1>2
<1> QED BY <1>2, <1>3, <1>4 DEF IsShrunk

\* pruneIfNeeded() keeps the invariant.
LEMMA PruneKeeps ==
    ASSUME NEW m, NEW d, NEW l, CacheInv(m, d, l), NEW needed, NEW p, p = Pruned(m, d, needed)
    PROVE  CacheInv(p.mem, p.disk, l)
<1>1. MemInv(m)
    BY DEF CacheInv
<1>2. IsShrunk(p.mem, p.disk, m, d)
    BY <1>1, PrunedShrinks
<1> QED BY <1>2, ShrunkKeeps DEF IsShrunk

\* remove() takes one entry and its file away.
LEMMA DropKeeps ==
    ASSUME NEW m, NEW d, NEW l, CacheInv(m, d, l), NEW k,
           NEW n, n = RemoveEntry(m, k), NEW c, c = Deleted(d, {FileOf[k]})
    PROVE  CacheInv(n, c, l)
<1>1. MemInv(m)
    BY DEF CacheInv
<1>2. MemInv(n) /\ ToSet(n.entries) = {e \in ToSet(m.entries) : e.key # k}
    BY <1>1, RemoveKeeps
<1>3. \A e \in ToSet(m.entries) : e \in ToSet(n.entries) \/ FileOf[e.key] \in {FileOf[k]}
    BY <1>2
<1> QED BY <1>2, <1>3, ShrunkKeeps

\* A file goes, by itself or because it could not be written.
LEMMA LossKeeps ==
    ASSUME NEW m, NEW d, NEW l, CacheInv(m, d, l), NEW names, NEW c, c = Deleted(d, names)
    PROVE  CacheInv(m, c, l)
<1>1. MemInv(m)
    BY DEF CacheInv
<1> QED BY <1>1, ShrunkKeeps

\* get() reorders the entries.
LEMMA TouchKeeps ==
    ASSUME NEW m, NEW d, NEW l, CacheInv(m, d, l), NEW k \in Cached(m),
           NEW n, n = Touched(m, k)
    PROVE  CacheInv(n, d, l)
<1>1. MemInv(m)
    BY DEF CacheInv
<1>2. MemInv(n) /\ ToSet(n.entries) = ToSet(m.entries)
    BY <1>1, TouchedKeeps
<1>3. Cached(n) = Cached(m)
    BY <1>1, <1>2, MemFacts
<1> QED BY <1>2, <1>3 DEF CacheInv, Covers, AllKnown

\* A file is written for a key and the entry of the key put in.
LEMMA WriteKeeps ==
    ASSUME NEW m, NEW d, NEW l, CacheInv(m, d, l), NEW f \in File,
           NEW n, n = PutEntry(m, f.key, f.head, DataBytes(f)),
           NEW c, c = [d EXCEPT ![FileOf[f.key]] = f]
    PROVE  CacheInv(n, c, l)
<1> DEFINE k == f.key
           e == [key |-> k, head |-> f.head, size |-> DataBytes(f)]
<1>1. MemInv(m) /\ FilesInv(d) /\ Covers(m, d) /\ (l => AllKnown(m, d))
    BY DEF CacheInv
<1>2. k \in Keys /\ f.head \in Responses /\ DataBytes(f) \in Nat /\ Intact(f) /\ FileOf[k] \in Files
    BY FileFacts, CacheAssumption
<1>3. MemInv(n) /\ ToSet(n.entries) = {x \in ToSet(m.entries) : x.key # k} \cup {e}
    BY <1>1, <1>2, PutEntryKeeps
<1>4. /\ c \in [Files -> File \cup {NoFile, Unreadable}]
      /\ c[FileOf[k]] = f
      /\ \A g \in Files : g # FileOf[k] => c[g] = d[g]
    BY <1>1, <1>2 DEF FilesInv
<1>5. FilesInv(c)
    BY <1>1, <1>4 DEF FilesInv
<1>6. Covers(n, c)
    <2> SUFFICES ASSUME NEW x \in ToSet(n.entries), NEW g \in Files, Intact(c[g]), c[g].key = x.key
                 PROVE  DataBytes(c[g]) <= x.size
        BY DEF Covers
    <2>1. CASE x.key = k
        <3>1. x = e
            BY <1>3, <2>1
        <3>2. g = FileOf[k]
            BY <1>5, <2>1 DEF FilesInv
        <3>3. DataBytes(c[g]) = DataBytes(f) /\ x.size = DataBytes(f)
            BY <1>4, <3>1, <3>2
        <3> QED BY <1>2, <3>3
    <2>2. CASE x.key # k
        <3>1. x \in ToSet(m.entries)
            BY <1>3, <2>2
        <3>2. c[g] = d[g]
            BY <1>4, <2>2
        <3> QED BY <1>1, <3>1, <3>2 DEF Covers
    <2> QED BY <2>1, <2>2
<1>7. ASSUME l PROVE AllKnown(n, c)
    <2> SUFFICES ASSUME NEW g \in Files, c[g] # NoFile
                 PROVE  Intact(c[g]) /\ c[g].key \in Cached(n)
        BY DEF AllKnown
    <2>1. k \in Cached(n)
        <3>1. e \in ToSet(n.entries) /\ e.key = k
            BY <1>3
        <3> HIDE DEF e, k
        <3> QED BY <3>1, CachedMeans
    <2>2. CASE g = FileOf[k]
        BY <1>2, <1>4, <2>1, <2>2
    <2>3. CASE g # FileOf[k]
        <3>1. c[g] = d[g] /\ Intact(d[g]) /\ d[g].key \in Cached(m)
            BY <1>1, <1>4, <1>7, <2>3 DEF AllKnown
        <3>2. PICK x \in ToSet(m.entries) : x.key = d[g].key
            BY <3>1, CachedMeans
        <3>3. d[g].key \in Cached(n)
            BY <1>3, <2>1, <3>2, CachedMeans
        <3> QED BY <3>1, <3>3
    <2> QED BY <2>2, <2>3
<1> QED BY <1>3, <1>5, <1>6, <1>7 DEF CacheInv

\* put() with everything written, or up to the crash.
LEMMA StoreKeeps ==
    ASSUME NEW m, NEW d, NEW l, CacheInv(m, d, l), NEW f \in File,
           NEW p, p = Pruned(m, d, DataBytes(f)),
           NEW n, n = PutEntry(p.mem, f.key, f.head, DataBytes(f)),
           NEW c, c = [p.disk EXCEPT ![FileOf[f.key]] = f]
    PROVE  CacheInv(n, c, l)
<1>1. CacheInv(p.mem, p.disk, l)
    BY PruneKeeps
<1> QED BY <1>1, WriteKeeps

\* r is the memory, and c the disk, that initialize() makes of m and d.
IsInitialized(r, c, m, d) ==
    /\ MemInv(r)
    /\ c = Deleted(d, {f \in Files : d[f] = Unreadable})
    /\ ToSet(r.entries) =
           {e \in ToSet(m.entries) : \A f \in Files : Intact(d[f]) => e.key # d[f].key}
               \cup {EntryIn(d[f]) : f \in {g \in Files : Intact(d[g])}}

\* A listing of the files that can be read names each of them once, and so it
\* does not matter in which order they come.
LEMMA ListingLoads ==
    ASSUME NEW m, NEW d, MemInv(m), FilesInv(d),
           NEW listing \in SetToSeqs({f \in Files : Intact(d[f])}),
           NEW r, IsLoaded(r, DOMAIN listing, m, d, listing),
           NEW c, c = Deleted(d, {f \in Files : d[f] = Unreadable})
    PROVE  IsInitialized(r, c, m, d)
<1> DEFINE S == {f \in Files : Intact(d[f])}
           N == Cardinality(S)
           D == 1..N
<1>1. S \subseteq Files /\ IsFiniteSet(S) /\ N \in Nat
    BY CacheAssumption, FS_Subset, FS_CardinalityType
<1>2. /\ listing \in [D -> S]
      /\ \A i, j \in D : i # j => listing[i] # listing[j]
    BY Zenon DEF SetToSeqs
<1>3. IsFiniteSet(D) /\ Cardinality(D) = N
    <2> HIDE DEF N
    <2> QED BY <1>1, FS_Interval
<1>4. {listing[i] : i \in D} = S
    <2>1. listing \in Injection(D, S)
        BY <1>2 DEF Injection, IsInjective
    <2> HIDE DEF D, S, N
    <2>2. listing \in Surjection(D, S)
        BY <1>1, <1>3, <2>1, FS_Injection DEF N
    <2>3. \A f \in S : \E i \in D : listing[i] = f
        BY <2>2 DEF Surjection
    <2> QED BY <1>2, <2>3
<1>5. \A f \in S : d[f] \in File /\ FileOf[d[f].key] = f
    BY IntactFiles DEF FilesInv
<1>6. \A i, j \in D : d[listing[i]].key = d[listing[j]].key => i = j
    <2> SUFFICES ASSUME NEW i \in D, NEW j \in D, d[listing[i]].key = d[listing[j]].key
                 PROVE  listing[i] = listing[j]
        BY <1>2
    <2>1. listing[i] \in S /\ listing[j] \in S
        BY <1>2
    <2> HIDE DEF S
    <2> QED BY <1>5, <2>1
<1>7. IsLoaded(r, D, m, d, listing)
    <2>1. DOMAIN listing = D
        BY <1>2
    <2> HIDE DEF D
    <2> QED BY <2>1
<1>8. /\ MemInv(r)
      /\ ToSet(r.entries) =
             {e \in ToSet(m.entries) : \A i \in D : e.key # d[listing[i]].key}
                 \cup {EntryIn(d[listing[i]]) : i \in D}
    <2>1. DOMAIN listing = 1..N /\ \A i \in 1..N : d[listing[i]] \in File
        BY <1>2, <1>5
    <2> HIDE DEF N
    <2>2. IsListing(listing, N, d)
        BY <1>1, <1>6, <2>1 DEF IsListing
    <2>3. MemInv(r) /\ ToSet(r.entries) = AfterLoading(m, d, listing, 1..N)
        BY <1>7, <2>2, LoadingKeeps
    <2> QED BY <2>3 DEF AfterLoading
<1>9. {EntryIn(d[listing[i]]) : i \in D} = {EntryIn(d[f]) : f \in S}
    <2> HIDE DEF D, S
    <2> QED BY <1>2, <1>4
<1>10. \A e : (\A i \in D : e.key # d[listing[i]].key) <=> (\A f \in S : e.key # d[f].key)
    <2> HIDE DEF D, S
    <2> QED BY <1>2, <1>4
<1>11. \A e : (\A f \in S : e.key # d[f].key)
                  <=> (\A f \in Files : Intact(d[f]) => e.key # d[f].key)
    OBVIOUS
<1>12. {e \in ToSet(m.entries) : \A i \in D : e.key # d[listing[i]].key}
          = {e \in ToSet(m.entries) : \A f \in Files : Intact(d[f]) => e.key # d[f].key}
    BY <1>10, <1>11
<1> QED BY <1>8, <1>9, <1>12 DEF IsInitialized

\* initialize() makes an entry for every file and deletes what it cannot read.
LEMMA InitializeKeeps ==
    ASSUME NEW m, NEW d, NEW l, CacheInv(m, d, l), NEW r, NEW c, IsInitialized(r, c, m, d)
    PROVE  CacheInv(r, c, TRUE)
<1>1. MemInv(m) /\ FilesInv(d)
    BY DEF CacheInv
<1>2. /\ MemInv(r)
      /\ ToSet(r.entries) =
             {e \in ToSet(m.entries) : \A f \in Files : Intact(d[f]) => e.key # d[f].key}
                 \cup {EntryIn(d[f]) : f \in {g \in Files : Intact(d[g])}}
    BY DEF IsInitialized
<1>3. /\ c = [f \in Files |-> IF d[f] = Unreadable THEN NoFile ELSE d[f]]
      /\ \A f \in Files : c[f] = IF d[f] = Unreadable THEN NoFile ELSE d[f]
    BY DEF Deleted, IsInitialized
<1>4. \A f \in Files : c[f] # NoFile => c[f] = d[f] /\ Intact(d[f])
    BY <1>3 DEF Intact
<1>5. \A f \in Files : Intact(c[f]) => c[f] = d[f] /\ Intact(d[f])
    BY <1>4 DEF Intact
<1>6. FilesInv(c)
    BY <1>1, <1>3, <1>5 DEF FilesInv
<1>7. Covers(r, c)
    <2> SUFFICES ASSUME NEW e \in ToSet(r.entries), NEW f \in Files, Intact(c[f]), c[f].key = e.key
                 PROVE  DataBytes(c[f]) <= e.size
        BY DEF Covers
    <2>1. c[f] = d[f] /\ Intact(d[f]) /\ FileOf[d[f].key] = f /\ d[f].key = e.key
        BY <1>1, <1>5 DEF FilesInv
    <2>2. PICK g \in Files : Intact(d[g]) /\ e = EntryIn(d[g])
        BY <1>2, <2>1
    <2>3. g = f
        BY <1>1, <2>1, <2>2 DEF FilesInv, EntryIn
    <2>4. e.size = FileLength(d[f])
        BY <2>2, <2>3 DEF EntryIn
    <2>5. /\ FileLength(d[f]) = HeaderLen + DataBytes(d[f]) /\ DataBytes(d[f]) \in Nat
          /\ HeaderLen \in Nat
        BY <1>1, <2>1, IntactFiles, FileFacts, CacheAssumption
    <2> QED BY <2>1, <2>4, <2>5
<1>8. AllKnown(r, c)
    <2> SUFFICES ASSUME NEW f \in Files, c[f] # NoFile
                 PROVE  Intact(c[f]) /\ c[f].key \in Cached(r)
        BY DEF AllKnown
    <2>1. c[f] = d[f] /\ Intact(d[f])
        BY <1>4
    <2>2. EntryIn(d[f]) \in ToSet(r.entries) /\ EntryIn(d[f]).key = d[f].key
        BY <1>2, <2>1 DEF EntryIn
    <2> QED BY <2>1, <2>2, CachedMeans
<1> QED BY <1>2, <1>6, <1>7, <1>8 DEF CacheInv

\* The memory of a process that starts.
LEMMA EmptyMemory ==
    MemInv(Empty) /\ ToSet(Empty.entries) = {}
<1>1. Empty.entries = <<>> /\ Empty.total = 0 /\ Empty \in [entries : Seq(Entry), total : Int]
    BY DEF Empty
<1>2. ToSet(<<>>) = {} /\ IsInjective(<<>>)
    BY DEF ToSet, IsInjective
<1>3. Weight({}) = 0
    BY SumPicks, FS_EmptySet DEF Weight
<1>4. ToSet(Empty.entries) = {} /\ IsInjective(Empty.entries) /\ Empty.entries \in Seq(Entry)
    BY <1>1, <1>2
<1>5. Weight(ToSet(Empty.entries)) <= Empty.total
    <2>1. Weight(ToSet(Empty.entries)) = 0 /\ Empty.total = 0
        BY <1>1, <1>3, <1>4, Zenon
    <2> QED BY <2>1
<1> HIDE DEF Empty
<1>6. IsEntries(Empty.entries)
    BY <1>4 DEF IsEntries, KeysDiffer
<1> QED BY <1>1, <1>4, <1>5, <1>6 DEF MemInv

\* After a crash only the disk counts.
LEMMA CrashKeeps ==
    ASSUME NEW d, FilesInv(d)
    PROVE  CacheInv(Empty, d, FALSE)
BY EmptyMemory DEF CacheInv, Covers

-----------------------------------------------------------------------------
(* Every operation keeps the invariant.                                    *)

TypesInv ==
    /\ loaded \in BOOLEAN
    /\ served = Nothing \/ served \in File
    /\ last \in [Keys -> Responses \cup {Nothing}]

Inv == TypesInv /\ CacheInv(mem, disk, loaded)

\* It holds when the process starts with an empty directory.
LEMMA InvInit == Init => Inv
<1> SUFFICES ASSUME Init PROVE Inv
    OBVIOUS
<1>1. /\ mem = Empty /\ loaded = FALSE /\ served = Nothing
      /\ disk = [f \in Files |-> NoFile] /\ last = [k \in Keys |-> Nothing]
    BY DEF Init
<1>2. FilesInv(disk)
    BY <1>1 DEF FilesInv, Intact
<1>3. CacheInv(mem, disk, loaded)
    BY <1>1, <1>2, CrashKeeps
<1> QED BY <1>1, <1>3 DEF Inv, TypesInv

\* Initialize turns memory and disk into those of IsInitialized.
LEMMA InitializeIs ==
    ASSUME MemInv(mem), FilesInv(disk), Initialize
    PROVE  IsInitialized(mem', disk', mem, disk)
<1>1. PICK listing \in SetToSeqs({f \in Files : Intact(disk[f])}) :
          IsLoaded(mem', DOMAIN listing, mem, disk, listing)
    BY DEF Initialize, FoldLeft, MapThenFoldSet, IsLoaded, IsLoading
<1>2. disk' = Deleted(disk, {f \in Files : disk[f] = Unreadable})
    BY DEF Initialize
<1> DEFINE r == mem'
           c == disk'
<1> HIDE DEF r, c
<1>3. IsInitialized(r, c, mem, disk)
    BY <1>1, <1>2, ListingLoads DEF r, c
<1> QED BY <1>3 DEF r, c

\* The file that put() writes.
Written(k, head, data, cut) == [key |-> k, head |-> head, data |-> data, cut |-> cut]

\* Store() keeps the relation of memory and disk.
LEMMA StoredKeeps ==
    ASSUME NEW m, NEW l, CacheInv(m, disk, l),
           NEW k \in Keys, NEW head \in Responses, NEW data \in Responses, NEW cut \in BOOLEAN,
           Store(m, k, head, data, cut)
    PROVE  CacheInv(mem', disk', l)
<1> DEFINE f == Written(k, head, data, cut)
           p == Pruned(m, disk, DataBytes(f))
<1>1. f \in File /\ f.key = k /\ f.head = head
    BY DEF Written, File
<1>2. /\ mem' = PutEntry(p.mem, k, head, DataBytes(f))
      /\ disk' = [p.disk EXCEPT ![FileOf[k]] = f]
    BY DEF Store, Written
<1> HIDE DEF f
<1>3. /\ mem' = PutEntry(p.mem, f.key, f.head, DataBytes(f))
      /\ disk' = [p.disk EXCEPT ![FileOf[f.key]] = f]
    BY <1>1, <1>2
<1> DEFINE q == p
           n == mem'
           c == disk'
<1>4. q = Pruned(m, disk, DataBytes(f)) /\ n = PutEntry(q.mem, f.key, f.head, DataBytes(f))
      /\ c = [q.disk EXCEPT ![FileOf[f.key]] = f]
    BY <1>3
<1> HIDE DEF q, n, c
<1>5. CacheInv(n, c, l)
    BY <1>1, <1>4, StoreKeeps
<1> QED BY <1>5 DEF n, c

\* No step breaks it.
LEMMA InvStep == Inv /\ [Next]_vars => Inv'
<1> SUFFICES ASSUME Inv, [Next]_vars PROVE Inv'
    OBVIOUS
<1>1. TypesInv /\ CacheInv(mem, disk, loaded) /\ MemInv(mem) /\ FilesInv(disk)
    BY DEF Inv, CacheInv
<1>2. SUFFICES TypesInv' /\ CacheInv(mem', disk', loaded')
    BY DEF Inv
<1>3. CASE UNCHANGED vars
    <2>1. mem' = mem /\ disk' = disk /\ loaded' = loaded /\ served' = served /\ last' = last
        BY <1>3 DEF vars
    <2> QED BY <1>1, <2>1 DEF TypesInv
<1>4. CASE Initialize
    <2>1. loaded' = TRUE /\ served' = Nothing /\ last' = last
        BY <1>4 DEF Initialize
    <2>2. IsInitialized(mem', disk', mem, disk)
        BY <1>1, <1>4, InitializeIs
    <2>3. CacheInv(mem', disk', TRUE)
        BY <1>1, <2>2, InitializeKeeps
    <2> QED BY <1>1, <2>1, <2>3 DEF TypesInv
<1>5. CASE Clear
    <2>1. /\ mem' = Empty /\ disk' = Deleted(disk, Files) /\ loaded' = loaded
          /\ served' = Nothing /\ last' = [k \in Keys |-> Nothing]
        BY <1>5 DEF Clear
    <2>2. \A e \in ToSet(mem.entries) : FileOf[e.key] \in Files
        BY <1>1, MemFacts, EntryFields, CacheAssumption
    <2>3. CacheInv(mem', disk', loaded)
        BY <1>1, <2>1, <2>2, EmptyMemory, ShrunkKeeps
    <2> QED BY <1>1, <2>1, <2>3 DEF TypesInv
<1>6. CASE Crash
    <2>1. mem' = Empty /\ disk' = disk /\ loaded' = FALSE /\ served' = Nothing /\ last' = last
        BY <1>6 DEF Crash
    <2> QED BY <1>1, <2>1, CrashKeeps DEF TypesInv
<1>7. ASSUME NEW k \in Keys, GetHit(k) PROVE TypesInv' /\ CacheInv(mem', disk', loaded')
    <2> DEFINE f == disk[FileOf[k]]
    <2>1. /\ k \in Cached(mem) /\ Intact(f) /\ mem' = Touched(mem, k)
          /\ served' = [f EXCEPT !.key = k, !.head = EntryOf(mem, k).head]
          /\ disk' = disk /\ loaded' = loaded /\ last' = last
        BY <1>7 DEF GetHit
    <2>2. f \in File
        BY <1>1, <2>1, IntactFiles, CacheAssumption
    <2>3. EntryOf(mem, k).head \in Responses
        BY <1>1, <2>1, EntryFound, MemFacts, EntryFields
    <2>4. served' \in File
        <3> HIDE DEF f
        <3> QED BY <2>1, <2>2, <2>3 DEF File
    <2>5. CacheInv(mem', disk', loaded')
        BY <1>1, <2>1, TouchKeeps
    <2> QED BY <1>1, <2>1, <2>4, <2>5 DEF TypesInv
<1>8. ASSUME NEW k \in Keys, Drop(k), served' = Nothing, loaded' = loaded
      PROVE  TypesInv' /\ CacheInv(mem', disk', loaded')
    <2>1. /\ mem' = RemoveEntry(mem, k) /\ disk' = Deleted(disk, {FileOf[k]})
          /\ last' = [last EXCEPT ![k] = Nothing]
        BY <1>8 DEF Drop
    <2>2. CacheInv(mem', disk', loaded)
        BY <1>1, <2>1, DropKeeps
    <2> QED BY <1>1, <1>8, <2>1, <2>2 DEF TypesInv
<1>9. ASSUME NEW k \in Keys, GetUnreadable(k) \/ RemoveKey(k)
      PROVE  TypesInv' /\ CacheInv(mem', disk', loaded')
    BY <1>8, <1>9 DEF GetUnreadable, RemoveKey
<1>10. ASSUME NEW k \in Keys, Invalidate(k) PROVE TypesInv' /\ CacheInv(mem', disk', loaded')
    <2> DEFINE f == disk[FileOf[k]]
               m == Touched(mem, k)
               head == EntryOf(mem, k).head
    <2>1. /\ k \in Cached(mem) /\ Intact(f) /\ Store(m, k, head, f.data, f.cut)
          /\ served' = Nothing /\ loaded' = loaded /\ last' = last
        BY <1>10 DEF Invalidate
    <2>2. f \in File
        BY <1>1, <2>1, IntactFiles, CacheAssumption
    <2>3. head \in Responses
        BY <1>1, <2>1, EntryFound, MemFacts, EntryFields
    <2>4. CacheInv(m, disk, loaded)
        BY <1>1, <2>1, TouchKeeps
    <2>5. f.data \in Responses /\ f.cut \in BOOLEAN
        BY <2>2 DEF File
    <2> HIDE DEF f, m, head
    <2>6. CacheInv(mem', disk', loaded)
        BY <2>1, <2>3, <2>4, <2>5, StoredKeeps, Zenon
    <2> QED BY <1>1, <2>1, <2>6 DEF TypesInv
<1>11. ASSUME NEW k \in Keys, NEW r \in Responses, Put(k, r)
       PROVE  TypesInv' /\ CacheInv(mem', disk', loaded')
    <2>1. /\ Store(mem, k, r, r, FALSE)
          /\ last' = [last EXCEPT ![k] = r] /\ served' = Nothing /\ loaded' = loaded
        BY <1>11 DEF Put
    <2>2. CacheInv(mem', disk', loaded)
        BY <1>1, <2>1, StoredKeeps, Zenon
    <2> QED BY <1>1, <2>1, <2>2 DEF TypesInv
<1>12. ASSUME NEW k \in Keys, NEW r \in Responses, PutFails(k, r)
       PROVE  TypesInv' /\ CacheInv(mem', disk', loaded')
    <2> DEFINE p == Pruned(mem, disk, DataLen[r])
    <2>1. /\ mem' = p.mem /\ disk' = Deleted(p.disk, {FileOf[k]})
          /\ last' = [last EXCEPT ![k] = Nothing] /\ served' = Nothing /\ loaded' = loaded
        BY <1>12 DEF PutFails
    <2>2. CacheInv(p.mem, p.disk, loaded)
        BY <1>1, PruneKeeps
    <2> HIDE DEF p
    <2>3. CacheInv(mem', disk', loaded)
        BY <2>1, <2>2, LossKeeps
    <2> QED BY <1>1, <2>1, <2>3 DEF TypesInv
<1>13. ASSUME NEW k \in Keys, NEW r \in Responses, CrashInPut(k, r)
       PROVE  TypesInv' /\ CacheInv(mem', disk', loaded')
    <2> DEFINE p == Pruned(mem, disk, DataLen[r])
    <2>1. /\ mem' = Empty /\ loaded' = FALSE /\ served' = Nothing
          /\ \/ disk' = p.disk /\ last' = last
             \/ /\ disk' = [p.disk EXCEPT ![FileOf[k]] = Unreadable]
                /\ last' = [last EXCEPT ![k] = Nothing]
             \/ /\ \E f \in [key : {k}, head : {r}, data : {r}, cut : BOOLEAN] :
                       disk' = [p.disk EXCEPT ![FileOf[k]] = f]
                /\ last' = [last EXCEPT ![k] = r]
        BY <1>13 DEF CrashInPut
    <2>2. CacheInv(p.mem, p.disk, loaded)
        BY <1>1, PruneKeeps
    <2>3. FilesInv(p.disk) /\ FileOf[k] \in Files
        BY <2>2, CacheAssumption DEF CacheInv
    <2> HIDE DEF p
    <2>4. FilesInv(disk')
        <3>1. CASE disk' = p.disk
            BY <2>3, <3>1
        <3>2. CASE disk' = [p.disk EXCEPT ![FileOf[k]] = Unreadable]
            BY <2>3, <3>2 DEF FilesInv, Intact
        <3>3. ASSUME NEW f \in [key : {k}, head : {r}, data : {r}, cut : BOOLEAN],
                     disk' = [p.disk EXCEPT ![FileOf[k]] = f]
              PROVE  FilesInv(disk')
            <4>1. f \in File /\ f.key = k
                BY DEF File
            <4> QED BY <2>3, <3>3, <4>1 DEF FilesInv
        <3> QED BY <2>1, <3>1, <3>2, <3>3
    <2>5. CacheInv(mem', disk', loaded')
        BY <2>1, <2>4, CrashKeeps
    <2> QED BY <1>1, <2>1, <2>5 DEF TypesInv
<1>14. ASSUME NEW f \in Files, Vanish(f) PROVE TypesInv' /\ CacheInv(mem', disk', loaded')
    <2>1. /\ disk' = Deleted(disk, {f}) /\ mem' = mem /\ loaded' = loaded
          /\ served' = Nothing /\ last' = last
        BY <1>14 DEF Vanish
    <2> QED BY <1>1, <2>1, LossKeeps DEF TypesInv
<1> QED BY <1>3, <1>4, <1>5, <1>6, <1>7, <1>9, <1>10, <1>11, <1>12, <1>13, <1>14 DEF Next

\* Whatever fails, vanishes or dies: the entries have different keys and are
\* counted at least in full, each file has the name of its key, the entries of an
\* initialized cache cover the lengths of the files, and every file is known.
THEOREM InvAlways == Spec => []Inv
BY InvInit, InvStep, PTL DEF Spec

-----------------------------------------------------------------------------
(* What follows from the invariant.                                        *)

\* The cache only ever has well-formed entries, a total that does not go below
\* zero, and files as put() writes them.
THEOREM CacheTypesAlways == Spec => []TypeOK
<1>1. Inv => TypeOK
    <2> SUFFICES ASSUME Inv PROVE TypeOK
        OBVIOUS
    <2>1. TypesInv /\ MemInv(mem) /\ FilesInv(disk)
        BY DEF Inv, CacheInv
    <2>2. mem.entries \in Seq(Entry) /\ mem.total \in Nat
        BY <2>1, MemFacts
    <2> QED BY <2>1, <2>2 DEF TypeOK, TypesInv, FilesInv
<1> QED BY <1>1, InvAlways, PTL

\* mTotalSize is at least the sum of the sizes in memory: it only drifts upward.
THEOREM TotalNeverTooLow == Spec => [](SumSizes(mem) <= mem.total)
<1>1. Inv => SumSizes(mem) <= mem.total
    <2> SUFFICES ASSUME Inv PROVE SumSizes(mem) <= mem.total
        OBVIOUS
    <2>1. MemInv(mem)
        BY DEF Inv, CacheInv
    <2>2. SumSizes(mem) = Weight(ToSet(mem.entries))
        BY <2>1, MemFacts, SumOfEntries
    <2> QED BY <2>1, <2>2 DEF MemInv
<1> QED BY <1>1, InvAlways, PTL

\* Once the cache is initialized every file can be read and there is an entry
\* for its key, so that pruning can reach it; also if keys share file names.
THEOREM NoOrphanFilesAlways == Spec => []NoOrphanFiles
<1>1. Inv => NoOrphanFiles
    BY DEF Inv, CacheInv, AllKnown, NoOrphanFiles
<1> QED BY <1>1, InvAlways, PTL

\* The sum of a constant.
LEMMA SumOfSame ==
    ASSUME NEW S, IsFiniteSet(S), NEW c \in Nat, NEW g, \A x \in S : g[x] = c
    PROVE  SumFunctionOnSet(g, S) = c * Cardinality(S)
<1> DEFINE C == {T \in SUBSET S : SumFunctionOnSet(g, T) = c * Cardinality(T)}
<1>1. {} \in C
    <2>1. SumFunctionOnSet(g, {}) = 0 /\ Cardinality({}) = 0
        BY SumPicks, FS_EmptySet
    <2> QED BY <2>1
<1>2. ASSUME NEW T \in SUBSET S, NEW x \in S \ T, T \in C
      PROVE  T \cup {x} \in C
    <2>1. IsFiniteSet(T) /\ x \notin T /\ \A y \in T \cup {x} : g[y] \in Int
        BY FS_Subset
    <2>2. SumFunctionOnSet(g, T \cup {x}) = SumFunctionOnSet(g, T) + g[x]
        BY <2>1, SumAdd
    <2>3. Cardinality(T) \in Nat /\ Cardinality(T \cup {x}) = Cardinality(T) + 1
        BY <2>1, FS_CardinalityType, FS_AddElement
    <2>4. c * (Cardinality(T) + 1) = c * Cardinality(T) + c
        BY <2>3
    <2>5. SumFunctionOnSet(g, T \cup {x}) = c * Cardinality(T \cup {x})
        BY <1>2, <2>2, <2>3, <2>4
    <2> QED BY <2>5
<1> HIDE DEF C
<1>3. S \in C
    BY <1>1, <1>2, FiniteSetInduction
<1> QED BY <1>3 DEF C

\* The bytes on disk exceed the total by no more than the headers.
THEOREM DiskUseIsBoundedAlways == Spec => []DiskUseIsBounded
<1>1. Inv => DiskUseIsBounded
    <2> SUFFICES ASSUME Inv, loaded
                 PROVE  SumFunction([f \in Files |-> FileLength(disk[f])])
                            <= mem.total + HeaderLen * Len(mem.entries)
        BY DEF DiskUseIsBounded
    <2> DEFINE len == [f \in Files |-> FileLength(disk[f])]
               There == {f \in Files : disk[f] # NoFile}
               E == ToSet(mem.entries)
               entry == [f \in There |-> EntryOf(mem, disk[f].key)]
               Im == {entry[f] : f \in There}
               whole == [e \in Entry |-> HeaderLen + e.size]
               head == [e \in Entry |-> HeaderLen]
    <2>1. MemInv(mem) /\ FilesInv(disk) /\ Covers(mem, disk) /\ AllKnown(mem, disk)
        BY DEF Inv, CacheInv
    <2>2. IsFiniteSet(Files) /\ HeaderLen \in Nat
        BY CacheAssumption
    <2>3. /\ mem.entries \in Seq(Entry) /\ IsInjective(mem.entries) /\ E \subseteq Entry
          /\ IsFiniteSet(E) /\ Weight(E) \in Nat /\ mem.total \in Nat
        BY <2>1, MemFacts
    <2>4. ASSUME NEW f \in There
          PROVE  /\ disk[f] \in File /\ FileOf[disk[f].key] = f
                 /\ entry[f] \in E /\ entry[f].key = disk[f].key
                 /\ len[f] \in Nat /\ len[f] <= whole[entry[f]]
        <3>1. /\ f \in Files /\ Intact(disk[f]) /\ disk[f].key \in Cached(mem)
              /\ FileOf[disk[f].key] = f
            BY <2>1 DEF AllKnown, FilesInv
        <3>2. /\ disk[f] \in File /\ DataBytes(disk[f]) \in Nat
              /\ len[f] = HeaderLen + DataBytes(disk[f])
            BY <2>1, <3>1, IntactFiles, FileFacts
        <3>3. /\ entry[f] \in E /\ entry[f].key = disk[f].key
            BY <2>1, <3>1, EntryFound
        <3>4. entry[f].size \in Nat /\ whole[entry[f]] = HeaderLen + entry[f].size
            BY <2>3, <3>3, EntryFields
        <3>5. DataBytes(disk[f]) <= entry[f].size
            BY <2>1, <3>1, <3>3 DEF Covers
        <3> HIDE DEF entry, len, whole
        <3> QED BY <2>2, <3>1, <3>2, <3>3, <3>4, <3>5
    <2>5. \A f, g \in There : entry[f] = entry[g] => f = g
        <3> HIDE DEF entry, len, whole, There
        <3> QED BY <2>4
    <2>6. There \in SUBSET Files /\ IsFiniteSet(There) /\ Im \in SUBSET E
        <3>1. There \in SUBSET Files
            OBVIOUS
        <3> HIDE DEF There, entry
        <3> QED BY <2>2, <2>4, <3>1, FS_Subset
    <2>7. \A f \in Files : len[f] \in Int /\ (f \notin There => len[f] = 0)
        <3> SUFFICES ASSUME NEW f \in Files
                     PROVE  len[f] \in Int /\ (f \notin There => len[f] = 0)
            OBVIOUS
        <3>1. f \notin There => len[f] = 0
            BY DEF FileLength
        <3>2. f \in There => len[f] \in Nat
            BY <2>4
        <3> HIDE DEF len, There
        <3> QED BY <3>1, <3>2
    <2>8. \A e \in E : /\ whole[e] \in Nat /\ head[e] = HeaderLen /\ SizeIn[e] \in Nat
                       /\ whole[e] = head[e] + SizeIn[e]
        BY <2>2, <2>3, EntryFields
    <2> DEFINE lenE == [f \in There |-> whole[entry[f]]]
    <2>9. \A f \in There : lenE[f] \in Int /\ lenE[f] = whole[entry[f]] /\ len[f] <= lenE[f]
        <3> HIDE DEF entry, len, whole, There, E
        <3> QED BY <2>4, <2>8
    <2> HIDE DEF There, entry, len, whole, head, E, Im, lenE
    <2>10. SumFunctionOnSet(len, Files) = SumFunctionOnSet(len, There)
        <3>1. /\ SumFunctionOnSet(len, Files)
                    = SumFunctionOnSet(len, Files \ There) + SumFunctionOnSet(len, There)
              /\ SumFunctionOnSet(len, There) \in Int
            BY <2>2, <2>6, <2>7, SumSplit
        <3>2. SumFunctionOnSet(len, Files \ There) = 0
            <4>1. IsFiniteSet(Files \ There)
                BY <2>2, FS_Subset
            <4>2. SumFunctionOnSet(len, Files \ There) = 0 * Cardinality(Files \ There)
                BY <2>7, <4>1, SumOfSame
            <4>3. Cardinality(Files \ There) \in Nat
                BY <4>1, FS_CardinalityType
            <4> QED BY <4>2, <4>3
        <3> QED BY <3>1, <3>2
    <2>11. SumFunctionOnSet(len, There) <= SumFunctionOnSet(lenE, There)
        BY <2>4, <2>6, <2>9, SumLeq
    <2>12. SumFunctionOnSet(lenE, There) = SumFunctionOnSet(whole, Im)
        BY <2>5, <2>6, <2>9, SumImage DEF Im
    <2>13. SumFunctionOnSet(whole, Im) <= SumFunctionOnSet(whole, E)
        BY <2>3, <2>6, <2>8, SumSubset
    <2>14. SumFunctionOnSet(whole, E) = SumFunctionOnSet(head, E) + Weight(E)
        BY <2>2, <2>3, <2>8, SumPlus DEF Weight
    <2>15. SumFunctionOnSet(head, E) = HeaderLen * Len(mem.entries)
        <3>1. SumFunctionOnSet(head, E) = HeaderLen * Cardinality(E)
            BY <2>2, <2>3, <2>8, SumOfSame
        <3>2. Cardinality(E) = Len(mem.entries)
            BY <2>3, ListLength DEF E
        <3> QED BY <3>1, <3>2
    <2>16. Weight(E) <= mem.total
        BY <2>1 DEF MemInv, E
    <2>17. SumFunction(len) = SumFunctionOnSet(len, Files)
        BY DEF SumFunction, len
    <2>18. SumFunctionOnSet(len, There) \in Int /\ SumFunctionOnSet(whole, E) \in Int
           /\ SumFunctionOnSet(lenE, There) \in Int
        BY <2>3, <2>6, <2>7, <2>8, <2>9, SumPicks
    <2>19. SumFunctionOnSet(len, Files) <= SumFunctionOnSet(whole, E)
        BY <2>10, <2>11, <2>12, <2>13, <2>18
    <2>20. HeaderLen * Len(mem.entries) \in Int
        BY <2>2, <2>3, EntrySet
    <2>21. SumFunctionOnSet(whole, E) <= mem.total + HeaderLen * Len(mem.entries)
        BY <2>3, <2>14, <2>15, <2>16, <2>20
    <2>22. SumFunction(len) <= mem.total + HeaderLen * Len(mem.entries)
        <3>1. SumFunctionOnSet(len, Files) \in Int /\ mem.total \in Int
            BY <2>3, <2>10, <2>18
        <3> DEFINE z == mem.total + HeaderLen * Len(mem.entries)
        <3>2. z \in Int
            BY <2>20, <3>1
        <3> HIDE DEF z
        <3>3. SumFunctionOnSet(len, Files) <= z
            BY <2>18, <2>19, <2>21, <3>1, <3>2 DEF z
        <3> QED BY <2>17, <3>3 DEF z
    <2> QED BY <2>22 DEF len
<1> QED BY <1>1, InvAlways, PTL

-----------------------------------------------------------------------------
(* put() makes room.                                                       *)

\* pruneIfNeeded() stops when there is enough room or nothing left.
LEMMA EvictedEnough ==
    ASSUME NEW m, MemInv(m), NEW d, NEW needed \in Nat, NEW n, n = Evicted(m, d, needed)
    PROVE  \/ m.total + needed < MaxSize
           \/ n = Len(m.entries)
           \/ 10 * (m.total + needed - Freed(m, d, n)) < 9 * MaxSize
<1> DEFINE all == Len(m.entries)
           S == {k \in 0..all :
                    k = all \/ (k > 0 /\ 10 * (m.total + needed - Freed(m, d, k)) < 9 * MaxSize)}
<1>1. m.total + needed < MaxSize \/ n = Min(S)
    BY Zenon DEF Evicted
<1>2. all \in Nat
    BY MemFacts, EntrySet
<1>3. all \in S /\ S \subseteq Nat
    BY <1>2
<1>4. Min(S) \in S
    <2> HIDE DEF S
    <2> QED BY <1>3, LeastNumber
<1>5. n = Min(S) => \/ n = all
                    \/ 10 * (m.total + needed - Freed(m, d, n)) < 9 * MaxSize
    <2> SUFFICES ASSUME n = Min(S)
                 PROVE  n = all \/ 10 * (m.total + needed - Freed(m, d, n)) < 9 * MaxSize
        OBVIOUS
    <2>1. n \in S
        BY <1>4, Zenon
    <2> QED BY <2>1, Zenon
<1> QED BY <1>1, <1>5

\* The total after pruneIfNeeded() and putEntry(), if something else is left.
LEMMA StoredFits ==
    ASSUME NEW m, MemInv(m), NEW d, NEW k \in Keys, NEW head \in Responses, NEW size \in Nat,
           NEW p, p = Pruned(m, d, size), NEW n, n = PutEntry(p.mem, k, head, size)
    PROVE  n.total < MaxSize \/ Len(n.entries) <= 1
<1>1. IsPruned(p, m, d, size)
    BY PrunedKeeps
<1>2. PICK g \in 0..Len(m.entries) :
          /\ g = Evicted(m, d, size) /\ MemInv(p.mem)
          /\ Len(p.mem.entries) = Len(m.entries) - g
          /\ p.mem.total = m.total - Freed(m, d, g)
    BY <1>1, Zenon DEF IsPruned
<1>3. n.total = p.mem.total + size - SizeOf(p.mem, k) /\ SizeOf(p.mem, k) \in Nat
    <2>1. n.total = p.mem.total + size - SizeOf(p.mem, k)
        BY DEF PutEntry
    <2>2. SizeOf(p.mem, k) \in Nat
        BY <1>2, SizeFound
    <2> QED BY <2>1, <2>2
<1>4. Freed(m, d, g) \in Nat /\ m.total \in Nat /\ MaxSize \in Nat /\ Len(m.entries) \in Nat
    BY FreedBound, MemFacts, EntrySet, CacheAssumption
<1>5. CASE m.total + size < MaxSize
    BY <1>2, <1>3, <1>4, <1>5
<1>6. CASE 10 * (m.total + size - Freed(m, d, g)) < 9 * MaxSize
    BY <1>2, <1>3, <1>4, <1>6
<1>7. CASE g = Len(m.entries)
    <2>1. p.mem.entries \in Seq(Entry) /\ Len(p.mem.entries) = 0
        BY <1>2, <1>4, <1>7, MemFacts
    <2>2. Cached(p.mem) = {}
        <3>1. DOMAIN p.mem.entries = {}
            BY <2>1, LenProperties
        <3> QED BY <3>1 DEF Cached
    <2>3. n.entries = Append(p.mem.entries, [key |-> k, head |-> head, size |-> size])
        BY <2>2 DEF PutEntry, Others
    <2> DEFINE e == [key |-> k, head |-> head, size |-> size]
    <2>4. e \in Entry
        BY DEF Entry
    <2> HIDE DEF e
    <2>5. Len(Append(p.mem.entries, e)) = Len(p.mem.entries) + 1
        BY <2>1, <2>4, AppendProperties
    <2> QED BY <2>1, <2>3, <2>5 DEF e
<1> QED BY <1>2, <1>5, <1>6, <1>7, EvictedEnough

\* No put() leaves two or more entries with the total at the maximum or over it:
\* pruneIfNeeded() goes by the total, which is never less than what is there.
THEOREM PutMakesRoomAlways == Spec => PutMakesRoom
<1>1. ASSUME Inv, NEW k \in Keys, NEW r \in Responses, Put(k, r)
      PROVE  ~(mem'.total >= MaxSize /\ Len(mem'.entries) > 1)
    <2> DEFINE f == [key |-> k, head |-> r, data |-> r, cut |-> FALSE]
               p == Pruned(mem, disk, DataBytes(f))
    <2>1. mem' = PutEntry(p.mem, k, r, DataBytes(f))
        BY <1>1 DEF Put, Store
    <2>2. MemInv(mem)
        BY <1>1 DEF Inv, CacheInv
    <2>3. f \in File
        BY DEF File
    <2>4. DataBytes(f) \in Nat
        BY <2>3, FileFacts
    <2> DEFINE n == mem'
               q == p
               size == DataBytes(f)
    <2>5. q = Pruned(mem, disk, size) /\ n = PutEntry(q.mem, k, r, size) /\ size \in Nat
        BY <2>1, <2>4
    <2> HIDE DEF n, q, size
    <2>6. n.total < MaxSize \/ Len(n.entries) <= 1
        BY <2>2, <2>5, StoredFits
    <2>7. MemInv(n)
        <3>1. Inv'
            <4>1. Next
                BY <1>1 DEF Next
            <4> QED BY <1>1, <4>1, InvStep
        <3> QED BY <3>1 DEF Inv, CacheInv, n
    <2>8. n.total \in Nat /\ Len(n.entries) \in Nat /\ MaxSize \in Nat
        BY <2>7, MemFacts, EntrySet, CacheAssumption
    <2>9. ~(n.total >= MaxSize /\ Len(n.entries) > 1)
        BY <2>6, <2>8
    <2> QED BY <2>9 DEF n
<1>2. Inv => [mem'.total >= MaxSize /\ Len(mem'.entries) > 1 =>
                  \A k \in Keys, r \in Responses : ~Put(k, r)]_vars
    BY <1>1
<1> QED BY <1>2, InvAlways, PTL DEF PutMakesRoom

-----------------------------------------------------------------------------
(* get() returns what was stored last, if no two keys share a file name.    *)

\* getFilenameForKey() tells the keys apart.
NamesDiffer == \A j, k \in Keys : FileOf[j] = FileOf[k] => j = k

\* A file holds the response that its key stands for, and so does the entry, as
\* long as the file is there.
Agree(m, d, la) ==
    /\ \A f \in Files :
           Intact(d[f]) => d[f].head = la[d[f].key] /\ d[f].data = la[d[f].key]
    /\ \A e \in ToSet(m.entries) : Intact(d[FileOf[e.key]]) => e.head = la[e.key]

\* Entries and files may go, and keys whose file goes may be forgotten.
LEMMA ShrunkAgrees ==
    ASSUME NEW m, MemInv(m), NEW d, FilesInv(d), NEW la, Agree(m, d, la), NEW n, NEW names,
           ToSet(n.entries) \subseteq ToSet(m.entries), NEW c, c = Deleted(d, names),
           NEW lb, \A k \in Keys : lb[k] = la[k] \/ FileOf[k] \in names
    PROVE  Agree(n, c, lb)
<1>1. \A f \in Files : Intact(c[f]) => f \notin names /\ c[f] = d[f] /\ Intact(d[f])
    BY DEF Deleted, Intact
<1>2. \A f \in Files : Intact(c[f]) => c[f].head = lb[c[f].key] /\ c[f].data = lb[c[f].key]
    <2> SUFFICES ASSUME NEW f \in Files, Intact(c[f])
                 PROVE  c[f].head = lb[c[f].key] /\ c[f].data = lb[c[f].key]
        OBVIOUS
    <2>1. c[f] = d[f] /\ Intact(d[f]) /\ f \notin names /\ FileOf[d[f].key] = f
        BY <1>1 DEF FilesInv
    <2>2. d[f].key \in Keys
        BY <2>1, IntactFiles, FileFacts
    <2>3. lb[d[f].key] = la[d[f].key]
        BY <2>1, <2>2
    <2> QED BY <2>1, <2>3 DEF Agree
<1>3. \A e \in ToSet(n.entries) : Intact(c[FileOf[e.key]]) => e.head = lb[e.key]
    <2> SUFFICES ASSUME NEW e \in ToSet(n.entries), Intact(c[FileOf[e.key]])
                 PROVE  e.head = lb[e.key]
        OBVIOUS
    <2>1. e \in ToSet(m.entries) /\ e.key \in Keys /\ FileOf[e.key] \in Files
        BY MemFacts, EntryFields, CacheAssumption
    <2>2. Intact(d[FileOf[e.key]]) /\ FileOf[e.key] \notin names
        BY <1>1, <2>1
    <2>3. e.head = la[e.key] /\ lb[e.key] = la[e.key]
        BY <2>1, <2>2 DEF Agree
    <2> QED BY <2>3
<1> QED BY <1>2, <1>3 DEF Agree

\* pruneIfNeeded() leaves what is stored for the entries that stay.
LEMMA PruneAgrees ==
    ASSUME NEW m, MemInv(m), NEW d, FilesInv(d), NEW la, Agree(m, d, la),
           NEW needed, NEW p, p = Pruned(m, d, needed)
    PROVE  Agree(p.mem, p.disk, la)
<1>1. IsShrunk(p.mem, p.disk, m, d)
    BY PrunedShrinks
<1> QED BY <1>1, ShrunkAgrees DEF IsShrunk

\* c, and the responses lb that the keys stand for, when file f is written to d;
\* and n, when its entry is put into m.
FileWritten(c, lb, d, la, f) ==
    /\ c = [d EXCEPT ![FileOf[f.key]] = f]
    /\ lb = [la EXCEPT ![f.key] = f.head]
EntryPut(n, m, f) ==
    \A e \in ToSet(n.entries) :
        (e \in ToSet(m.entries) /\ e.key # f.key) \/ (e.key = f.key /\ e.head = f.head)

\* A file with one response in header and data is written, and its entry put in.
LEMMA WriteAgrees ==
    ASSUME NamesDiffer, NEW m, MemInv(m), NEW d, FilesInv(d),
           NEW la \in [Keys -> Responses \cup {Nothing}],
           Agree(m, d, la), NEW f \in File, f.head = f.data, NEW n, EntryPut(n, m, f),
           NEW c, NEW lb, FileWritten(c, lb, d, la, f)
    PROVE  Agree(n, c, lb)
<1> DEFINE k == f.key
<1>1. k \in Keys /\ FileOf[k] \in Files /\ Intact(f)
    BY FileFacts, CacheAssumption
<1>2. /\ c[FileOf[k]] = f /\ \A g \in Files : g # FileOf[k] => c[g] = d[g]
      /\ lb[k] = f.head /\ \A j \in Keys : j # k => lb[j] = la[j]
    BY <1>1 DEF FilesInv, FileWritten
<1>3. \A g \in Files : Intact(c[g]) => c[g].head = lb[c[g].key] /\ c[g].data = lb[c[g].key]
    <2> SUFFICES ASSUME NEW g \in Files, Intact(c[g])
                 PROVE  c[g].head = lb[c[g].key] /\ c[g].data = lb[c[g].key]
        OBVIOUS
    <2>1. CASE g = FileOf[k]
        BY <1>2, <2>1
    <2>2. CASE g # FileOf[k]
        <3>1. c[g] = d[g] /\ Intact(d[g]) /\ FileOf[d[g].key] = g
            BY <1>2, <2>2 DEF FilesInv
        <3>2. d[g].key \in Keys /\ d[g].key # k
            BY <2>2, <3>1, IntactFiles, FileFacts
        <3>3. lb[d[g].key] = la[d[g].key]
            BY <1>2, <3>2
        <3> QED BY <3>1, <3>3 DEF Agree
    <2> QED BY <2>1, <2>2
<1>4. \A e \in ToSet(n.entries) : Intact(c[FileOf[e.key]]) => e.head = lb[e.key]
    <2> SUFFICES ASSUME NEW e \in ToSet(n.entries), Intact(c[FileOf[e.key]])
                 PROVE  e.head = lb[e.key]
        OBVIOUS
    <2>1. CASE e.key = k
        BY <1>2, <2>1 DEF EntryPut
    <2>2. CASE e.key # k
        <3>1. e \in ToSet(m.entries) /\ e.key \in Keys /\ FileOf[e.key] \in Files
            BY <2>2, MemFacts, EntryFields, CacheAssumption DEF EntryPut
        <3>2. FileOf[e.key] # FileOf[k]
            BY <1>1, <2>2, <3>1 DEF NamesDiffer
        <3>3. Intact(d[FileOf[e.key]])
            BY <1>2, <3>1, <3>2
        <3> QED BY <1>2, <2>2, <3>1, <3>3 DEF Agree
    <2> QED BY <2>1, <2>2
<1> QED BY <1>3, <1>4 DEF Agree

\* initialize() takes headers from the files.
LEMMA InitializeAgrees ==
    ASSUME NamesDiffer, NEW m, MemInv(m), NEW d, FilesInv(d), NEW la, Agree(m, d, la),
           NEW r, NEW c, IsInitialized(r, c, m, d)
    PROVE  Agree(r, c, la)
<1>1. \A f \in Files : Intact(c[f]) => c[f] = d[f] /\ Intact(d[f])
    BY DEF IsInitialized, Deleted, Intact
<1>2. \A e \in ToSet(r.entries) : Intact(c[FileOf[e.key]]) => e.head = la[e.key]
    <2> SUFFICES ASSUME NEW e \in ToSet(r.entries), Intact(c[FileOf[e.key]])
                 PROVE  e.head = la[e.key]
        OBVIOUS
    <2>1. e \in ToSet(m.entries) \/ \E f \in Files : Intact(d[f]) /\ e = EntryIn(d[f])
        BY DEF IsInitialized
    <2>2. CASE e \in ToSet(m.entries)
        <3>1. FileOf[e.key] \in Files
            BY <2>2, MemFacts, EntryFields, CacheAssumption
        <3> QED BY <1>1, <2>2, <3>1 DEF Agree
    <2>3. ASSUME NEW f \in Files, Intact(d[f]), e = EntryIn(d[f])
          PROVE  e.head = la[e.key]
        BY <2>3 DEF Agree, EntryIn
    <2> QED BY <2>1, <2>2, <2>3
<1> QED BY <1>1, <1>2 DEF Agree

ServedInv == Inv /\ Agree(mem, disk, last) /\ ServesWhatWasPut

\* An empty directory has nothing to serve wrongly.
LEMMA ServedInit == Init => ServedInv
<1> SUFFICES ASSUME Init PROVE ServedInv
    OBVIOUS
<1>1. mem = Empty /\ served = Nothing /\ disk = [f \in Files |-> NoFile]
    BY DEF Init
<1>2. Agree(mem, disk, last)
    BY <1>1, EmptyMemory DEF Agree, Intact
<1> QED BY <1>1, <1>2, InvInit DEF ServedInv, ServesWhatWasPut

\* Storing one response as header and data keeps memory, disk and keys in step.
LEMMA StoredAgrees ==
    ASSUME NamesDiffer, NEW m, MemInv(m), FilesInv(disk),
           NEW la \in [Keys -> Responses \cup {Nothing}], Agree(m, disk, la),
           NEW k \in Keys, NEW r \in Responses, NEW cut \in BOOLEAN, Store(m, k, r, r, cut),
           NEW lb, lb = [la EXCEPT ![k] = r]
    PROVE  Agree(mem', disk', lb)
<1> DEFINE f == Written(k, r, r, cut)
           p == Pruned(m, disk, DataBytes(f))
<1>1. f \in File /\ f.key = k /\ f.head = r /\ f.data = r
    BY DEF Written, File
<1>2. DataBytes(f) \in Nat
    BY <1>1, FileFacts
<1>3. /\ mem' = PutEntry(p.mem, k, r, DataBytes(f))
      /\ disk' = [p.disk EXCEPT ![FileOf[k]] = f]
    BY DEF Store, Written
<1> DEFINE q == p
           n == mem'
           c == disk'
           size == DataBytes(f)
<1>4. q = Pruned(m, disk, size) /\ n = PutEntry(q.mem, k, r, size) /\ size \in Nat
      /\ c = [q.disk EXCEPT ![FileOf[k]] = f]
    BY <1>2, <1>3
<1> HIDE DEF f, p, q, n, c, size
<1>5. IsShrunk(q.mem, q.disk, m, disk) /\ MemInv(q.mem)
    <2>1. q = Pruned(m, disk, size) /\ MemInv(m)
        BY <1>4
    <2>2. IsShrunk(q.mem, q.disk, m, disk)
        BY ONLY <2>1, PrunedShrinks
    <2> QED BY <2>2 DEF IsShrunk
<1>6. Agree(q.mem, q.disk, la)
    BY <1>4, PruneAgrees
<1>7. FilesInv(q.disk)
    BY <1>5, DeletedFiles DEF IsShrunk
<1>8. ToSet(n.entries) = {e \in ToSet(q.mem.entries) : e.key # k}
                             \cup {[key |-> k, head |-> r, size |-> size]}
    BY <1>4, <1>5, PutEntryKeeps
<1>9. \A e \in ToSet(n.entries) :
          (e \in ToSet(q.mem.entries) /\ e.key # k) \/ (e.key = k /\ e.head = r)
    BY <1>8
<1>10. EntryPut(n, q.mem, f) /\ FileWritten(c, lb, q.disk, la, f) /\ f.head = f.data
    BY <1>1, <1>4, <1>9 DEF EntryPut, FileWritten
<1>11. Agree(n, c, lb)
    BY <1>1, <1>5, <1>6, <1>7, <1>10, WriteAgrees
<1> QED BY <1>11 DEF n, c

\* Every operation keeps what is stored under a key, or takes it away.
LEMMA ServedStep ==
    ASSUME NamesDiffer, ServedInv, [Next]_vars
    PROVE  ServedInv'
<1>0. Inv'
    BY InvStep DEF ServedInv
<1>1. /\ TypesInv /\ CacheInv(mem, disk, loaded) /\ MemInv(mem) /\ FilesInv(disk)
      /\ Agree(mem, disk, last) /\ last \in [Keys -> Responses \cup {Nothing}]
    BY DEF ServedInv, Inv, CacheInv, TypesInv
<1>2. SUFFICES Agree(mem', disk', last') /\ ServesWhatWasPut'
    BY <1>0 DEF ServedInv
<1>3. CASE UNCHANGED vars
    <2>1. mem' = mem /\ disk' = disk /\ served' = served /\ last' = last
        BY <1>3 DEF vars
    <2> QED BY <1>1, <2>1 DEF ServedInv, ServesWhatWasPut
<1>4. CASE Initialize
    <2>1. served' = Nothing /\ last' = last
        BY <1>4 DEF Initialize
    <2>2. IsInitialized(mem', disk', mem, disk)
        BY <1>1, <1>4, InitializeIs
    <2>3. Agree(mem', disk', last)
        BY <1>1, <2>2, InitializeAgrees
    <2> QED BY <2>1, <2>3 DEF ServesWhatWasPut
<1>5. CASE Clear
    <2>1. /\ mem' = Empty /\ disk' = Deleted(disk, Files) /\ served' = Nothing
        BY <1>5 DEF Clear
    <2>2. Agree(mem', disk', last')
        BY <2>1, EmptyMemory DEF Agree, Deleted, Intact
    <2> QED BY <2>1, <2>2 DEF ServesWhatWasPut
<1>6. CASE Crash
    <2>1. mem' = Empty /\ disk' = disk /\ served' = Nothing /\ last' = last
        BY <1>6 DEF Crash
    <2>2. Agree(mem', disk', last')
        BY <1>1, <2>1, EmptyMemory DEF Agree
    <2> QED BY <2>1, <2>2 DEF ServesWhatWasPut
<1>7. ASSUME NEW k \in Keys, GetHit(k) PROVE Agree(mem', disk', last') /\ ServesWhatWasPut'
    <2> DEFINE f == disk[FileOf[k]]
               head == EntryOf(mem, k).head
    <2>1. /\ k \in Cached(mem) /\ Intact(f) /\ mem' = Touched(mem, k)
          /\ served' = [f EXCEPT !.key = k, !.head = head]
          /\ disk' = disk /\ last' = last
        BY <1>7 DEF GetHit
    <2>2. FileOf[k] \in Files /\ f \in File
        BY <1>1, <2>1, IntactFiles, CacheAssumption
    <2>3. f.key = k
        <3>1. FileOf[f.key] = FileOf[k] /\ f.key \in Keys
            BY <1>1, <2>1, <2>2, FileFacts DEF FilesInv
        <3> HIDE DEF f
        <3> QED BY <3>1 DEF NamesDiffer
    <2>4. f.data = last[k]
        BY <1>1, <2>1, <2>2, <2>3 DEF Agree
    <2>5. head = last[k]
        <3>1. EntryOf(mem, k) \in ToSet(mem.entries) /\ EntryOf(mem, k).key = k
            BY <1>1, <2>1, EntryFound
        <3> QED BY <1>1, <2>1, <3>1 DEF Agree
    <2>6. served'.key = k /\ served'.head = head /\ served'.data = f.data
        <3> HIDE DEF f, head
        <3> QED BY <2>1, <2>2 DEF File
    <2>7. ToSet(mem'.entries) = ToSet(mem.entries)
        <3> DEFINE n == mem'
        <3>1. n = Touched(mem, k)
            BY <2>1
        <3> HIDE DEF n
        <3>2. ToSet(n.entries) = ToSet(mem.entries)
            BY <1>1, <2>1, <3>1, TouchedKeeps
        <3> QED BY <3>2 DEF n
    <2>8. Agree(mem', disk', last')
        BY <1>1, <2>1, <2>7 DEF Agree
    <2> QED BY <2>1, <2>4, <2>5, <2>6, <2>8 DEF ServesWhatWasPut
<1>8. ASSUME NEW k \in Keys, Drop(k), served' = Nothing
      PROVE  Agree(mem', disk', last') /\ ServesWhatWasPut'
    <2>1. /\ mem' = RemoveEntry(mem, k) /\ disk' = Deleted(disk, {FileOf[k]})
          /\ last' = [last EXCEPT ![k] = Nothing]
        BY <1>8 DEF Drop
    <2>2. ToSet(mem'.entries) \subseteq ToSet(mem.entries)
        <3> DEFINE n == mem'
        <3>1. n = RemoveEntry(mem, k)
            BY <2>1
        <3> HIDE DEF n
        <3>2. ToSet(n.entries) = {e \in ToSet(mem.entries) : e.key # k}
            BY <1>1, <3>1, RemoveKeeps
        <3> QED BY <3>2 DEF n
    <2>3. \A j \in Keys : last'[j] = last[j] \/ FileOf[j] \in {FileOf[k]}
        BY <1>1, <2>1
    <2>4. Agree(mem', disk', last')
        BY <1>1, <2>1, <2>2, <2>3, ShrunkAgrees
    <2> QED BY <1>8, <2>4 DEF ServesWhatWasPut
<1>9. ASSUME NEW k \in Keys, GetUnreadable(k) \/ RemoveKey(k)
      PROVE  Agree(mem', disk', last') /\ ServesWhatWasPut'
    BY <1>8, <1>9 DEF GetUnreadable, RemoveKey
<1>10. ASSUME NEW k \in Keys, Invalidate(k) PROVE Agree(mem', disk', last') /\ ServesWhatWasPut'
    <2> DEFINE f == disk[FileOf[k]]
               m == Touched(mem, k)
               head == EntryOf(mem, k).head
               r == last[k]
    <2>1. /\ k \in Cached(mem) /\ Intact(f) /\ Store(m, k, head, f.data, f.cut)
          /\ served' = Nothing /\ last' = last
        BY <1>10 DEF Invalidate
    <2>2. FileOf[k] \in Files /\ f \in File
        BY <1>1, <2>1, IntactFiles, CacheAssumption
    <2>3. f.key = k
        <3>1. FileOf[f.key] = FileOf[k] /\ f.key \in Keys
            BY <1>1, <2>1, <2>2, FileFacts DEF FilesInv
        <3> HIDE DEF f
        <3> QED BY <3>1 DEF NamesDiffer
    <2>4. f.data = r
        BY <1>1, <2>1, <2>2, <2>3 DEF Agree
    <2>5. head = r
        <3>1. EntryOf(mem, k) \in ToSet(mem.entries) /\ EntryOf(mem, k).key = k
            BY <1>1, <2>1, EntryFound
        <3> QED BY <1>1, <2>1, <3>1 DEF Agree
    <2>6. f.data \in Responses /\ f.cut \in BOOLEAN
        BY <2>2 DEF File
    <2> DEFINE cut == f.cut
    <2>7. MemInv(m) /\ ToSet(m.entries) = ToSet(mem.entries)
        <3> HIDE DEF m
        <3> QED BY <1>1, <2>1, TouchedKeeps DEF m
    <2>8. Agree(m, disk, last)
        <3> HIDE DEF m
        <3> QED BY <1>1, <2>7 DEF Agree
    <2>9. last = [last EXCEPT ![k] = r]
        BY <1>1
    <2>10. Store(m, k, r, r, cut) /\ r \in Responses /\ cut \in BOOLEAN
        <3> HIDE DEF f, m, head, r
        <3> QED BY <2>1, <2>4, <2>5, <2>6
    <2> HIDE DEF f, m, head, r, cut
    <2>11. Agree(mem', disk', last)
        BY <1>1, <2>7, <2>8, <2>9, <2>10, StoredAgrees
    <2> QED BY <2>1, <2>11 DEF ServesWhatWasPut
<1>11. ASSUME NEW k \in Keys, NEW r \in Responses, Put(k, r)
       PROVE  Agree(mem', disk', last') /\ ServesWhatWasPut'
    <2>1. /\ Store(mem, k, r, r, FALSE)
          /\ last' = [last EXCEPT ![k] = r] /\ served' = Nothing
        BY <1>11 DEF Put
    <2>2. Agree(mem', disk', last')
        BY <1>1, <2>1, StoredAgrees
    <2> QED BY <2>1, <2>2 DEF ServesWhatWasPut
<1>12. ASSUME NEW k \in Keys, NEW r \in Responses, PutFails(k, r)
       PROVE  Agree(mem', disk', last') /\ ServesWhatWasPut'
    <2> DEFINE p == Pruned(mem, disk, DataLen[r])
    <2>1. /\ mem' = p.mem /\ disk' = Deleted(p.disk, {FileOf[k]})
          /\ last' = [last EXCEPT ![k] = Nothing] /\ served' = Nothing
        BY <1>12 DEF PutFails
    <2>2. Agree(p.mem, p.disk, last) /\ IsShrunk(p.mem, p.disk, mem, disk)
        BY <1>1, PruneAgrees, PrunedShrinks
    <2> HIDE DEF p
    <2>3. MemInv(p.mem) /\ FilesInv(p.disk)
        BY <1>1, <2>2, DeletedFiles DEF IsShrunk
    <2>4. \A j \in Keys : last'[j] = last[j] \/ FileOf[j] \in {FileOf[k]}
        BY <1>1, <2>1
    <2>5. Agree(mem', disk', last')
        BY <2>1, <2>2, <2>3, <2>4, ShrunkAgrees
    <2> QED BY <2>1, <2>5 DEF ServesWhatWasPut
<1>13. ASSUME NEW k \in Keys, NEW r \in Responses, CrashInPut(k, r)
       PROVE  Agree(mem', disk', last') /\ ServesWhatWasPut'
    <2> DEFINE p == Pruned(mem, disk, DataLen[r])
    <2>1. /\ mem' = Empty /\ served' = Nothing
          /\ \/ disk' = p.disk /\ last' = last
             \/ /\ disk' = [p.disk EXCEPT ![FileOf[k]] = Unreadable]
                /\ last' = [last EXCEPT ![k] = Nothing]
             \/ /\ \E f \in [key : {k}, head : {r}, data : {r}, cut : BOOLEAN] :
                       disk' = [p.disk EXCEPT ![FileOf[k]] = f]
                /\ last' = [last EXCEPT ![k] = r]
        BY <1>13 DEF CrashInPut
    <2>2. Agree(p.mem, p.disk, last) /\ IsShrunk(p.mem, p.disk, mem, disk)
        BY <1>1, PruneAgrees, PrunedShrinks
    <2> HIDE DEF p
    <2>3. MemInv(p.mem) /\ FilesInv(p.disk) /\ FileOf[k] \in Files
        BY <1>1, <2>2, DeletedFiles, CacheAssumption DEF IsShrunk
    <2>4. \A f \in Files : Intact(disk'[f]) =>
              disk'[f].head = last'[disk'[f].key] /\ disk'[f].data = last'[disk'[f].key]
        <3>1. CASE disk' = p.disk /\ last' = last
            BY <2>2, <3>1 DEF Agree
        <3>2. CASE /\ disk' = [p.disk EXCEPT ![FileOf[k]] = Unreadable]
                   /\ last' = [last EXCEPT ![k] = Nothing]
            <4> SUFFICES ASSUME NEW f \in Files, Intact(disk'[f])
                         PROVE  /\ disk'[f].head = last'[disk'[f].key]
                                /\ disk'[f].data = last'[disk'[f].key]
                OBVIOUS
            <4>1. f # FileOf[k] /\ disk'[f] = p.disk[f]
                BY <2>3, <3>2 DEF FilesInv, Intact
            <4>2. Intact(p.disk[f]) /\ FileOf[p.disk[f].key] = f
                BY <2>3, <4>1 DEF FilesInv
            <4>3. p.disk[f].key # k
                BY <4>1, <4>2
            <4>4. p.disk[f].key \in Keys
                BY <2>3, <4>2, IntactFiles, FileFacts
            <4>5. last'[p.disk[f].key] = last[p.disk[f].key]
                BY <1>1, <3>2, <4>3, <4>4
            <4> QED BY <2>2, <4>1, <4>2, <4>5 DEF Agree
        <3>3. ASSUME NEW f \in [key : {k}, head : {r}, data : {r}, cut : BOOLEAN],
                     disk' = [p.disk EXCEPT ![FileOf[k]] = f], last' = [last EXCEPT ![k] = r]
              PROVE  \A g \in Files : Intact(disk'[g]) =>
                         disk'[g].head = last'[disk'[g].key] /\ disk'[g].data = last'[disk'[g].key]
            <4>1. f \in File /\ f.key = k /\ f.head = r /\ f.data = r
                BY DEF File
            <4>2. FileWritten(disk', last', p.disk, last, f) /\ f.head = f.data
                BY <3>3, <4>1 DEF FileWritten
            <4>3. EntryPut(Empty, p.mem, f)
                BY EmptyMemory DEF EntryPut
            <4>4. Agree(Empty, disk', last')
                BY <1>1, <2>2, <2>3, <4>1, <4>2, <4>3, WriteAgrees
            <4> QED BY <4>4 DEF Agree
        <3> QED BY <2>1, <3>1, <3>2, <3>3
    <2>5. Agree(mem', disk', last')
        BY <2>1, <2>4, EmptyMemory DEF Agree
    <2> QED BY <2>1, <2>5 DEF ServesWhatWasPut
<1>14. ASSUME NEW f \in Files, Vanish(f) PROVE Agree(mem', disk', last') /\ ServesWhatWasPut'
    <2>1. /\ disk' = Deleted(disk, {f}) /\ mem' = mem /\ served' = Nothing /\ last' = last
        BY <1>14 DEF Vanish
    <2>2. Agree(mem', disk', last')
        BY <1>1, <2>1, ShrunkAgrees
    <2> QED BY <2>1, <2>2 DEF ServesWhatWasPut
<1> QED BY <1>3, <1>4, <1>5, <1>6, <1>7, <1>9, <1>10, <1>11, <1>12, <1>13, <1>14 DEF Next

\* If getFilenameForKey() tells the keys apart, get() returns header and data of
\* the response stored last under its key and not removed since, whatever is
\* lost on disk and whenever the process dies.
THEOREM ServesWhatWasPutAlways ==
    ASSUME NamesDiffer
    PROVE  Spec => []ServesWhatWasPut
<1>1. ServedInv /\ [Next]_vars => ServedInv'
    BY ServedStep
<1>2. ServedInv => ServesWhatWasPut
    BY DEF ServedInv
<1> QED BY <1>1, <1>2, ServedInit, PTL DEF Spec

=============================================================================
