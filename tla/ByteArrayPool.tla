---------------------------- MODULE ByteArrayPool ----------------------------
(***************************************************************************)
(* The pool of byte arrays the network threads share                       *)
(* (com.android.volley.toolbox.ByteArrayPool): the buffers in it are kept  *)
(* in two lists, by last use and by size, with a running total.  Both      *)
(* methods are synchronized.                                               *)
(***************************************************************************)
EXTENDS Naturals, Sequences, SequencesExt, FiniteSetsExt, Functions

CONSTANTS
    MaxBuffers,     \* bound: buffers alive at a time
    SizeLimit       \* mSizeLimit

ASSUME PoolAssumption == MaxBuffers \in Nat /\ SizeLimit \in Nat

VARIABLES
    byLastUse,      \* mBuffersByLastUse
    bySize,         \* mBuffersBySize
    currentSize,    \* mCurrentSize
    length,         \* the length of each buffer, 0 for one that is garbage
    lent            \* the buffers somebody uses

pool == <<byLastUse, bySize, currentSize, length, lent>>

Buffers == 1..MaxBuffers

PoolTypeOK ==
    /\ byLastUse \in Seq(Buffers) /\ bySize \in Seq(Buffers)
    /\ currentSize \in Nat
    /\ length \in [Buffers -> Nat]
    /\ lent \subseteq Buffers

PoolInit ==
    /\ byLastUse = <<>> /\ bySize = <<>> /\ currentSize = 0
    /\ length = [b \in Buffers |-> 0]
    /\ lent = {}

Big(len) == {i \in DOMAIN bySize : length[bySize[i]] >= len}
Unused   == Buffers \ (lent \cup ToSet(byLastUse))

\* The buffer getBuf() returns: the smallest that will do, or a new one.
BufferFor(len) == IF Big(len) # {} THEN bySize[Min(Big(len))] ELSE Min(Unused)

\* Faulty variant: the buffer stays in the list by last use.
GetBufOnce(len) ==
    LET b == BufferFor(len) IN
    /\ lent' = lent \cup {b}
    /\ IF Big(len) # {}
         THEN /\ bySize' = RemoveAt(bySize, Min(Big(len)))
              /\ currentSize' = currentSize - length[b]
              /\ UNCHANGED <<byLastUse, length>>
         ELSE /\ length' = [length EXCEPT ![b] = len]
              /\ UNCHANGED <<byLastUse, bySize, currentSize>>

\* There always is a buffer within the bound.
GetBuf(len) ==
    LET b == BufferFor(len) IN
    /\ Big(len) # {} \/ Unused # {}
    /\ lent' = lent \cup {b}
    /\ IF Big(len) # {}
         THEN /\ bySize' = RemoveAt(bySize, Min(Big(len)))
              /\ byLastUse' = RemoveFirst(byLastUse, b)
              /\ currentSize' = currentSize - length[b]
              /\ UNCHANGED length
         ELSE /\ length' = [length EXCEPT ![b] = len]
              /\ UNCHANGED <<byLastUse, bySize, currentSize>>

\* Where binarySearch() may put a buffer.
Sorted(s) == \A i \in 1..(Len(s) - 1) : length[s[i]] <= length[s[i + 1]]

\* How many of the oldest buffers trim() removes.
Oldest(s, n)    == {s[i] : i \in 1..n}
TotalOf(bufs)   == SumFunctionOnSet(length, bufs)
Excess(s, size) == Min({n \in 0..Len(s) : size - TotalOf(Oldest(s, n)) <= SizeLimit})

\* The list s without the buffers trim() removes, the others in their order.
Trimmed(s, old) ==
    LET upTo[i \in 0..Len(s)] ==
            IF i = 0 THEN <<>>
            ELSE upTo[i - 1] \o (IF s[i] \in old THEN <<>> ELSE <<s[i]>>)
    IN  upTo[Len(s)]

\* Buffers that are in no list and lent to nobody are garbage.
Collected(garbage) == length' = [b \in Buffers |-> IF b \in garbage THEN 0 ELSE length[b]]

\* Faulty variant: the size of a buffer that is trimmed stays in the total.
ReturnBufKeepsSize(b) ==
    LET used == Append(byLastUse, b)
        size == currentSize + length[b]
        n    == IF length[b] > SizeLimit THEN Len(used) ELSE Excess(used, size)
    IN  /\ lent' = lent \ {b}
        /\ byLastUse' = SubSeq(used, n + 1, Len(used))
        /\ currentSize' = size
        /\ \E i \in 1..(Len(bySize) + 1) :
              LET s == InsertAt(bySize, i, b) IN
              Sorted(s) /\ bySize' = Trimmed(s, Oldest(used, n))
        /\ Collected(Oldest(used, n))

\* Faulty variant: the size of a buffer that is added is not counted.
ReturnBufUncounted(b) ==
    /\ lent' = lent \ {b}
    /\ IF length[b] > SizeLimit
         THEN Collected({b}) /\ UNCHANGED <<byLastUse, bySize, currentSize>>
         ELSE /\ byLastUse' = Append(byLastUse, b)
              /\ bySize' = Append(bySize, b)
              /\ UNCHANGED <<currentSize, length>>

\* returnBuf() of a buffer that is not null: it is turned away, or added and
\* then the oldest are removed by trim().
ReturnBuf(b) ==
    LET used == Append(byLastUse, b)
        size == currentSize + length[b]
        n    == Excess(used, size)
        old  == Oldest(used, n)
    IN  /\ lent' = lent \ {b}
        /\ IF length[b] > SizeLimit
             THEN Collected({b}) /\ UNCHANGED <<byLastUse, bySize, currentSize>>
             ELSE /\ byLastUse' = SubSeq(used, n + 1, Len(used))
                  /\ currentSize' = size - TotalOf(old)
                  /\ \E i \in 1..(Len(bySize) + 1) :
                        LET s == InsertAt(bySize, i, b) IN
                        Sorted(s) /\ bySize' = Trimmed(s, old)
                  /\ Collected(old)
-----------------------------------------------------------------------------
(* Properties.                                                             *)

\* "This class ensures that the total size of the buffers in its recycling
\* pool never exceeds a certain byte limit": the two lists hold the same
\* buffers, each once, the total is theirs and within the limit.
PoolIsSound ==
    /\ IsInjective(byLastUse) /\ IsInjective(bySize)
    /\ ToSet(byLastUse) = ToSet(bySize) /\ Sorted(bySize)
    /\ currentSize = TotalOf(ToSet(bySize))
    /\ currentSize <= SizeLimit

\* A buffer that is lent is not in the pool, where another thread would get it.
LentIsGone == lent \cap (ToSet(byLastUse) \cup ToSet(bySize)) = {}
=============================================================================
