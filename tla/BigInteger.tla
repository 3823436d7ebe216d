----------------------------- MODULE BigInteger -----------------------------
(***************************************************************************)
(* Big integers (jni/bigint.c) at every scale: a number is a sequence of   *)
(* limbs of W bits, least significant first, so that limb i of the code is *)
(* x[i + 1] here.  The code has W = 8 and H = 8, the length at which       *)
(* bigint_mul16 cuts its operands.                                         *)
(*                                                                         *)
(* Every loop of the code that carries has one form, Chain, and every loop *)
(* that borrows another, Borrow; both run over a 16-bit temporary, that    *)
(* is, one of 2 * W bits.                                                  *)
(***************************************************************************)
EXTENDS Integers, Sequences

CONSTANTS
    W,      \* bits of a limb
    H       \* limbs of a quarter of the longest operand

Base == 2^W
Word == Base * Base         \* crypto_uint16
Limb == 0 .. Base - 1

Numbers(len) == [1 .. len -> Limb]

\* The limbs of a number, and the number of some limbs.
Limbs(n, len) ==
    LET rest[i \in 0 .. len] == IF i = 0 THEN n ELSE rest[i - 1] \div Base
    IN  [i \in 1 .. len |-> rest[i - 1] % Base]

Value(x) ==
    LET len == Len(x)
        high[i \in 0 .. len] ==    \* of the i highest limbs
            IF i = 0 THEN 0 ELSE x[len + 1 - i] + Base * high[i - 1]
    IN  high[len]

\* len limbs of x from limb `from` (of the code) on.
Part(x, from, len) == SubSeq(x, from + 1, from + len)

\* x with its limbs from limb `from` on replaced by those of y.
Put(x, from, y) == [i \in DOMAIN x |-> IF i - from \in DOMAIN y THEN y[i - from] ELSE x[i]]
-----------------------------------------------------------------------------
(* Carries and borrows.                                                    *)

\* t = s[i] + t; r[i] = t & 0xff; t >>= 8
Chain(s, in) ==
    LET run[i \in 0 .. Len(s)] ==
            IF i = 0 THEN [limb |-> <<>>, out |-> in]
            ELSE LET low == run[i - 1]
                     t   == (s[i] + low.out) % Word
                 IN  [limb |-> Append(low.limb, t % Base), out |-> t \div Base]
    IN  run[Len(s)]

\* t = d[i] - t; r[i] = t & 0xff; t >>= 15
Borrow(d, in) ==
    LET run[i \in 0 .. Len(d)] ==
            IF i = 0 THEN [limb |-> <<>>, out |-> in]
            ELSE LET low == run[i - 1]
                     t   == (d[i] - low.out) % Word
                 IN  [limb |-> Append(low.limb, t % Base), out |-> t \div (Word \div 2)]
    IN  run[Len(d)]

bigint_add(a, b) == Chain([i \in 1 .. Len(a) |-> a[i] + b[i]], 0)
bigint_sub(a, b) == Borrow([i \in 1 .. Len(a) |-> a[i] - b[i]], 0)

bigint_cmov(r, x, b) == IF b = 0 THEN r ELSE x
-----------------------------------------------------------------------------
(* Multiplication.                                                         *)

\* Faulty variant: the carry out of a row is added to nothing.
bigint_mulNoCarry(a, b) ==
    LET len == Len(a)
        row[i \in 0 .. len] ==
            IF i = 0 THEN [k \in 1 .. len |-> 0]
            ELSE LET r == row[i - 1]
                     t == Chain([j \in 1 .. len |-> r[i - 1 + j] + a[i] * b[j]], 0)
                 IN  Part(r, 0, i - 1) \o t.limb \o <<0>>
    IN  row[len]

\* One row for each limb of a; what carries out of it is its last limb.
bigint_mul(a, b) ==
    LET len == Len(a)
        row[i \in 0 .. len] ==
            IF i = 0 THEN [k \in 1 .. len |-> 0]
            ELSE LET r == row[i - 1]
                     t == Chain([j \in 1 .. len |-> r[i - 1 + j] + a[i] * b[j]], 0)
                 IN  Part(r, 0, i - 1) \o t.limb \o <<t.out>>
    IN  row[len]

\* The sum of the two halves of x (h limbs each), with its carry, and what x
\* has above them, on top.
HalfSum(x, h, top) ==
    LET s == bigint_add(Part(x, 0, h), Part(x, h, h))
    IN  Append(s.limb, (top + s.out) % Base)

\* t -= x, where t is one limb longer: the last limb takes the borrow.
TakeOff(t, x) ==
    LET d == bigint_sub(Part(t, 0, Len(x)), x)
    IN  Append(d.limb, (t[Len(x) + 1] - d.out) % Base)

\* r += t * Base^from, the last lines of the three Karatsuba steps.
AddMiddle(r, t, from) ==
    LET sum == bigint_add(Part(r, from, Len(t)), t)
        top == Chain(Part(r, from + Len(t), Len(r) - from - Len(t)), sum.out)
    IN  Part(r, 0, from) \o sum.limb \o top.limb

\* One step of Karatsuba's method for operands of 2h limbs: lo and hi are the
\* products of their halves, t that of the sums of their halves.
Karatsuba(lo, hi, t, h) == AddMiddle(lo \o hi, TakeOff(TakeOff(t, lo), hi), h)

bigint_mul16(a, b) ==
    Karatsuba(bigint_mul(Part(a, 0, H), Part(b, 0, H)),
              bigint_mul(Part(a, H, H), Part(b, H, H)),
              bigint_mul(HalfSum(a, H, 0), HalfSum(b, H, 0)),
              H)

\* For operands of 2H+1 limbs, the last of them at most 1.  The code also keeps
\* t[17] up to date, which it does not read again.
bigint_mul16c(a, b) ==
    LET Low(t, hi) == bigint_sub(Part(t, 0, 2 * H + 1), Part(hi, 0, 2 * H + 1)).limb
        Sum(lo, hi, t) == AddMiddle(lo \o hi, TakeOff(Low(t, hi), lo), H)
    IN  Sum(bigint_mul(Part(a, 0, H), Part(b, 0, H)),
            bigint_mul(Part(a, H, H + 1), Part(b, H, H + 1)),
            bigint_mul(HalfSum(a, H, a[2 * H + 1]), HalfSum(b, H, b[2 * H + 1])))

\* Faulty variant: the carries of the sums of the halves are dropped.
bigint_mul32NoTop(a, b) ==
    Karatsuba(bigint_mul16(Part(a, 0, 2 * H), Part(b, 0, 2 * H)),
              bigint_mul16(Part(a, 2 * H, 2 * H), Part(b, 2 * H, 2 * H)),
              bigint_mul16c([HalfSum(a, 2 * H, 0) EXCEPT ![2 * H + 1] = 0],
                            HalfSum(b, 2 * H, 0)),
              2 * H)

bigint_mul32(a, b) ==
    Karatsuba(bigint_mul16(Part(a, 0, 2 * H), Part(b, 0, 2 * H)),
              bigint_mul16(Part(a, 2 * H, 2 * H), Part(b, 2 * H, 2 * H)),
              bigint_mul16c(HalfSum(a, 2 * H, 0), HalfSum(b, 2 * H, 0)),
              2 * H)
=============================================================================
