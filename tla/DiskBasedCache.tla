---------------------------- MODULE DiskBasedCache ----------------------------
(***************************************************************************)
(* The persistent response cache (com.android.volley.toolbox):             *)
(* DiskBasedCache keeps the header of every entry in memory, in the order  *)
(* of last use, and the entry itself in a file.  All its methods are       *)
(* synchronized, so each is one action; what can come between the steps of *)
(* one is the death of the process, which leaves the file half written and *)
(* takes the memory away.  The next process rebuilds it from the files.    *)
(***************************************************************************)
EXTENDS Naturals, Sequences, SequencesExt, FiniteSetsExt, Functions

CONSTANTS
    Keys,           \* cache keys
    Files,          \* file names
    FileOf,         \* getFilenameForKey(), two hash codes of the key
    Responses,      \* responses that are stored, header and data
    DataLen,        \* the length of the data of each
    HeaderLen,      \* the length of a header on disk
    MaxSize,        \* mMaxCacheSizeInBytes
    NoFile, Unreadable, Nothing,
    DiskMay,        \* "writeFails", "vanish", "crash", "crashInPut"
    MaxDrift        \* bound: files are lost while the total is off by at most this

\* An entry in memory; a file, cut when the process died while writing it.
Entry == [key : Keys, head : Responses, size : Nat]
File  == [key : Keys, head : Responses, data : Responses, cut : BOOLEAN]

ASSUME CacheAssumption ==
    /\ IsFiniteSet(Files)
    /\ NoFile # Unreadable /\ File \cap {NoFile, Unreadable} = {}
    /\ FileOf \in [Keys -> Files]
    /\ DataLen \in [Responses -> Nat \ {0}]
    /\ HeaderLen \in Nat \ {0} /\ MaxSize \in Nat
    /\ Nothing \notin Responses /\ MaxDrift \in Nat
    /\ DiskMay \subseteq {"writeFails", "vanish", "crash", "crashInPut"}

VARIABLES
    mem,            \* mEntries, least recently used first, and mTotalSize
    disk,           \* the files of the cache directory
    loaded,         \* whether initialize() has run in this process
    served,         \* what the last get() returned
    last            \* the response each key stands for, if any

vars == <<mem, disk, loaded, served, last>>

Intact(f) == f \notin {NoFile, Unreadable}

DataBytes(f) == IF f.cut THEN DataLen[f.data] - 1 ELSE DataLen[f.data]

FileLength(f) ==
    IF f = NoFile THEN 0
    ELSE IF f = Unreadable THEN HeaderLen - 1 ELSE HeaderLen + DataBytes(f)

TypeOK ==
    /\ mem.entries \in Seq(Entry)
    /\ mem.total \in Nat
    /\ disk \in [Files -> File \cup {NoFile, Unreadable}]
    /\ loaded \in BOOLEAN
    /\ served = Nothing \/ served \in File
    /\ last \in [Keys -> Responses \cup {Nothing}]

Empty == [entries |-> <<>>, total |-> 0]

Init ==
    /\ mem = Empty
    /\ disk = [f \in Files |-> NoFile]
    /\ loaded = FALSE
    /\ served = Nothing
    /\ last = [k \in Keys |-> Nothing]
-----------------------------------------------------------------------------
(* mEntries and mTotalSize.                                                *)

Cached(m) == {m.entries[i].key : i \in DOMAIN m.entries}
EntryOf(m, k) == CHOOSE e \in ToSet(m.entries) : e.key = k
PositionOf(m, k) == CHOOSE i \in DOMAIN m.entries : m.entries[i].key = k
Others(m, k) ==
    IF k \in Cached(m) THEN RemoveAt(m.entries, PositionOf(m, k)) ELSE m.entries
SizeOf(m, k) == IF k \in Cached(m) THEN EntryOf(m, k).size ELSE 0
SumSizes(m) == SumFunction([i \in DOMAIN m.entries |-> m.entries[i].size])
MayLose == mem.total <= SumSizes(mem) + MaxDrift

\* A key that is looked up becomes the most recently used one.
Touched(m, k) == [m EXCEPT !.entries = Append(Others(m, k), EntryOf(m, k))]

\* Faulty variant: the new size is not added when an entry is replaced.
PutEntryAdds(m, k, head, size) ==
    [entries |-> Append(Others(m, k), [key |-> k, head |-> head, size |-> size]),
     total   |-> IF k \in Cached(m) THEN m.total - SizeOf(m, k) ELSE m.total + size]

\* putEntry()
PutEntry(m, k, head, size) ==
    [entries |-> Append(Others(m, k), [key |-> k, head |-> head, size |-> size]),
     total   |-> m.total + size - SizeOf(m, k)]

\* removeEntry()
RemoveEntry(m, k) ==
    [entries |-> Others(m, k), total |-> m.total - SizeOf(m, k)]

Deleted(d, names) == [f \in Files |-> IF f \in names THEN NoFile ELSE d[f]]

\* The sizes pruneIfNeeded() takes off for the n oldest entries: those whose
\* file is still there to be deleted.
Freed(m, d, n) ==
    LET name(i) == FileOf[m.entries[i].key]
        there   == {i \in 1..n : /\ d[name(i)] # NoFile
                                 /\ \A j \in 1..(i - 1) : name(j) # name(i)}
    IN  SumFunctionOnSet([i \in 1..n |-> m.entries[i].size], there)

\* Faulty variant: one entry has to do.
EvictedOne(m, d, needed) ==
    IF m.total + needed < MaxSize \/ m.entries = <<>> THEN 0 ELSE 1

\* How many entries pruneIfNeeded() evicts: until 0.9 of the maximum is left
\* over, or all of them.
Evicted(m, d, needed) ==
    LET all == Len(m.entries)
        enough(n) == n > 0 /\ 10 * (m.total + needed - Freed(m, d, n)) < 9 * MaxSize
    IN  IF m.total + needed < MaxSize THEN 0
        ELSE Min({n \in 0..all : n = all \/ enough(n)})

Pruned(m, d, needed) ==
    LET n == Evicted(m, d, needed) IN
    [mem  |-> [entries |-> SubSeq(m.entries, n + 1, Len(m.entries)),
               total   |-> m.total - Freed(m, d, n)],
     disk |-> Deleted(d, {FileOf[m.entries[i].key] : i \in 1..n})]
-----------------------------------------------------------------------------
(* The operations.  The cache thread calls initialize() first, but the     *)
(* application reaches the cache at any time, through getCache().          *)

\* Faulty variant: a file that cannot be read is left alone.
InitializeLeaves ==
    /\ \E listing \in SetToSeqs({f \in Files : Intact(disk[f])}) :
        mem' = FoldLeft(LAMBDA m, f : PutEntry(m, disk[f].key, disk[f].head,
                                               FileLength(disk[f])),
                        mem, listing)
    /\ loaded' = TRUE
    /\ served' = Nothing
    /\ UNCHANGED <<disk, last>>

\* initialize(): the files come in any order; one that cannot be read is
\* deleted.
Initialize ==
    /\ \E listing \in SetToSeqs({f \in Files : Intact(disk[f])}) :
        mem' = FoldLeft(LAMBDA m, f : PutEntry(m, disk[f].key, disk[f].head,
                                               FileLength(disk[f])),
                        mem, listing)
    /\ disk' = Deleted(disk, {f \in Files : disk[f] = Unreadable})
    /\ loaded' = TRUE
    /\ served' = Nothing
    /\ UNCHANGED last

\* remove(): the file and the entry.
Drop(k) ==
    /\ mem' = RemoveEntry(mem, k)
    /\ disk' = Deleted(disk, {FileOf[k]})
    /\ last' = [last EXCEPT ![k] = Nothing]

\* get(): the header comes from memory and the data from the file.  An entry
\* whose file cannot be read is removed.
GetHit(k) ==
    LET f == disk[FileOf[k]] IN
    /\ k \in Cached(mem) /\ Intact(f)
    /\ mem' = Touched(mem, k)
    /\ served' = [f EXCEPT !.key = k, !.head = EntryOf(mem, k).head]
    /\ UNCHANGED <<disk, loaded, last>>

GetUnreadable(k) ==
    /\ k \in Cached(mem) /\ ~Intact(disk[FileOf[k]])
    /\ Drop(k)
    /\ served' = Nothing
    /\ UNCHANGED loaded

\* remove()
RemoveKey(k) ==
    /\ Drop(k)
    /\ served' = Nothing
    /\ UNCHANGED loaded

\* put() with everything written.
Store(m, k, head, data, cut) ==
    LET f == [key |-> k, head |-> head, data |-> data, cut |-> cut]
        p == Pruned(m, disk, DataBytes(f))
    IN  /\ mem' = PutEntry(p.mem, k, head, DataBytes(f))
        /\ disk' = [p.disk EXCEPT ![FileOf[k]] = f]

Put(k, r) ==
    /\ Store(mem, k, r, r, FALSE)
    /\ last' = [last EXCEPT ![k] = r]
    /\ served' = Nothing
    /\ UNCHANGED loaded

\* Faulty variant: the half-written file is not deleted.
PutFailsLeaves(k, r) ==
    LET p == Pruned(mem, disk, DataLen[r]) IN
    /\ "writeFails" \in DiskMay /\ MayLose
    /\ mem' = p.mem
    /\ disk' = [p.disk EXCEPT ![FileOf[k]] = [key |-> k, head |-> r, data |-> r, cut |-> TRUE]]
    /\ last' = [last EXCEPT ![k] = Nothing]
    /\ served' = Nothing
    /\ UNCHANGED loaded

\* put() with an IOException: the file is deleted, an older entry stays.
PutFails(k, r) ==
    LET p == Pruned(mem, disk, DataLen[r]) IN
    /\ "writeFails" \in DiskMay /\ MayLose
    /\ mem' = p.mem
    /\ disk' = Deleted(p.disk, {FileOf[k]})
    /\ last' = [last EXCEPT ![k] = Nothing]
    /\ served' = Nothing
    /\ UNCHANGED loaded

\* invalidate(): get(), then put() of the entry with an earlier expiry.
Invalidate(k) ==
    LET f == disk[FileOf[k]] IN
    /\ k \in Cached(mem) /\ Intact(f)
    /\ Store(Touched(mem, k), k, EntryOf(mem, k).head, f.data, f.cut)
    /\ served' = Nothing
    /\ UNCHANGED <<loaded, last>>

\* clear()
Clear ==
    /\ mem' = Empty
    /\ disk' = Deleted(disk, Files)
    /\ last' = [k \in Keys |-> Nothing]
    /\ served' = Nothing
    /\ UNCHANGED loaded
-----------------------------------------------------------------------------
(* What happens to the cache.                                              *)

\* The process dies between two operations.
Crash ==
    /\ "crash" \in DiskMay
    /\ mem' = Empty /\ loaded' = FALSE /\ served' = Nothing
    /\ UNCHANGED <<disk, last>>

\* The process dies in put(): before the file is opened, before the header is
\* flushed, before all the data is written, or after.  (Dying within
\* pruneIfNeeded() is Vanish and Crash.)
CrashInPut(k, r) ==
    LET pruned  == Pruned(mem, disk, DataLen[r]).disk
        written == [key : {k}, head : {r}, data : {r}, cut : BOOLEAN]
    IN  /\ "crashInPut" \in DiskMay
        /\ mem' = Empty /\ loaded' = FALSE /\ served' = Nothing
        /\ \/ disk' = pruned /\ UNCHANGED last
           \/ /\ disk' = [pruned EXCEPT ![FileOf[k]] = Unreadable]
              /\ last' = [last EXCEPT ![k] = Nothing]
           \/ /\ \E f \in written : disk' = [pruned EXCEPT ![FileOf[k]] = f]
              /\ last' = [last EXCEPT ![k] = r]

\* The platform deletes files of the cache directory when storage runs low.
Vanish(f) ==
    /\ "vanish" \in DiskMay /\ MayLose
    /\ disk[f] # NoFile
    /\ disk' = Deleted(disk, {f})
    /\ served' = Nothing
    /\ UNCHANGED <<mem, loaded, last>>

Next ==
    \/ Initialize \/ Clear \/ Crash
    \/ \E k \in Keys : \/ GetHit(k) \/ GetUnreadable(k) \/ RemoveKey(k) \/ Invalidate(k)
                       \/ \E r \in Responses : Put(k, r) \/ PutFails(k, r) \/ CrashInPut(k, r)
    \/ \E f \in Files : Vanish(f)

Spec == Init /\ [][Next]_vars
-----------------------------------------------------------------------------
(* Properties.                                                             *)

\* get() returns header and data of one response, the one stored last under
\* the key and not removed since, also when headers were reloaded from the
\* files, in memory and file disagree or files have disappeared.  (The data may
\* be cut short: nothing in a file tells that the process died writing it.)
ServesWhatWasPut ==
    served # Nothing =>
        /\ served.head = last[served.key]
        /\ served.data = last[served.key]

\* A file that no entry stands for would never be pruned: once the cache is
\* initialized there is none.
NoOrphanFiles ==
    loaded => \A f \in Files : disk[f] # NoFile =>
                  Intact(disk[f]) /\ disk[f].key \in Cached(mem)

\* mTotalSize counts data only and drifts, but the bytes on disk never exceed
\* it by more than the headers.
DiskUseIsBounded ==
    loaded => SumFunction([f \in Files |-> FileLength(disk[f])])
                  <= mem.total + HeaderLen * Len(mem.entries)

\* Storing an entry makes room for it first: a put() never leaves two or more
\* entries with the total at the maximum or over it.
PutMakesRoom ==
    [][mem'.total >= MaxSize /\ Len(mem'.entries) > 1 =>
           \A k \in Keys, r \in Responses : ~Put(k, r)]_vars

\* mTotalSize: "Total amount of space currently used by the cache in bytes."
SizeIsExact == mem.total = SumSizes(mem)
=============================================================================
