--------------------------- MODULE FieldArithmetic ---------------------------
(***************************************************************************)
(* The field modulo 2^255 - 19 (jni/fe25519.c), at every scale: an element *)
(* has N limbs and need not be reduced.  The code has N = 32 and C = 19;   *)
(* what it does needs 2 * C < Base.                                        *)
(***************************************************************************)
EXTENDS BigInteger

CONSTANT C          \* the prime is 2^(W * N - 1) - C

N == 4 * H

TopBit == Base \div 2       \* 0x80
Fe     == Numbers(N)

\* 0xED, 0xFF, ..., 0xFF, 0x7F
ParamP == [i \in 1 .. N |-> IF i = 1 THEN Base - C
                            ELSE IF i = N THEN TopBit - 1 ELSE Base - 1]
p      == Value(ParamP)

setzero == [i \in 1 .. N |-> 0]
setone  == [i \in 1 .. N |-> IF i = 1 THEN 1 ELSE 0]

\* Faulty variant: the carry out of the last limb is forgotten.
fe25519_addNoCarry(a, b) ==
    LET s == bigint_add(a, b)
        t == Chain(Part(s.limb, 0, N - 1), (s.limb[N] \div TopBit) * C)
    IN  Append(t.limb, ((s.limb[N] % TopBit) + t.out) % Base)

\* What is at 2^255 and above comes back in as C times as much.
fe25519_add(a, b) ==
    LET s == bigint_add(a, b)
        t == Chain(Part(s.limb, 0, N - 1), (2 * s.out + (s.limb[N] \div TopBit)) * C)
    IN  Append(t.limb, ((s.limb[N] % TopBit) + t.out) % Base)

\* Faulty variant: a second underflow is not made good.
fe25519_subOnce(a, b) ==
    LET d == bigint_sub(a, b) IN Borrow(d.limb, d.out * 2 * C).limb

\* The third loop ends after three limbs.
fe25519_sub(a, b) ==
    LET d == bigint_sub(a, b)
        e == Borrow(d.limb, d.out * 2 * C)
    IN  Put(e.limb, 0, Borrow(Part(e.limb, 0, 3), e.out * 2 * C).limb)

fe25519_neg(x) == fe25519_sub(setzero, x)

\* The first two loops of fe25519_mul: the upper half of a product t, times 2C,
\* is added to the lower; then what carried out of that, times 2C, once more.
FoldUpper(t) == Chain([i \in 1 .. N |-> 2 * C * t[N + i] + t[i]], 0)
FoldCarry(u, len) == Chain(Part(u.limb, 0, len), (u.out * 2 * C) % Word)

MulFolded(a, b) == FoldCarry(FoldUpper(bigint_mul32(a, b)), N)

\* The third loop, over three limbs.
FoldLast(v) == Put(v.limb, 0, FoldCarry(v, 3).limb)

fe25519_mul(a, b) == FoldLast(MulFolded(a, b))

fe25519_square(x) == fe25519_mul(x, x)

\* Faulty variant: only one subtraction.
fe25519_freezeOnce(r) ==
    LET d == bigint_sub(r, ParamP) IN bigint_cmov(r, d.limb, 1 - d.out)

\* p is subtracted twice, each time only if that does not borrow.
fe25519_freeze(r) ==
    LET d == bigint_sub(r, ParamP)
        s == bigint_cmov(r, d.limb, 1 - d.out)
        e == bigint_sub(s, ParamP)
    IN  bigint_cmov(s, e.limb, 1 - e.out)

fe25519_cmov(r, x, b) == bigint_cmov(r, x, b)
fe25519_pack(x)       == fe25519_freeze(x)
fe25519_unpack(x)     == [x EXCEPT ![N] = @ % TopBit]

fe25519_getparity(x) == fe25519_freeze(x)[1] % 2

\* 1 if the frozen limbs are the same.
fe25519_iseq_vartime(x, y) == fe25519_freeze(x) = fe25519_freeze(y)

\* equal returns the upper 16 bits of the 32-bit value x - 1.  The loop starts
\* at limb 1 of the code: the lowest limb of the frozen element does not matter.
fe25519_iszero(x) ==
    IF \A i \in 2 .. N : fe25519_freeze(x)[i] = 0 THEN 65535 ELSE 0
-----------------------------------------------------------------------------
(* What the operations promise, for a set of elements, reduced or not.     *)

Mod(x) == Value(x) % p

MulExactOn(S) ==
    \A a, b \in S : Value(bigint_mul32(a, b)) = Value(a) * Value(b)

SumsExactOn(S) ==
    \A a, b \in S :
        /\ Mod(fe25519_add(a, b)) = (Mod(a) + Mod(b)) % p
        /\ Mod(fe25519_sub(a, b)) = (Mod(a) - Mod(b)) % p

ProductsExactOn(S) ==
    \A a, b \in S : Mod(fe25519_mul(a, b)) = (Mod(a) * Mod(b)) % p

FreezeCanonicalOn(S) ==
    \A a \in S : /\ Value(fe25519_freeze(a)) = Mod(a)
                 /\ fe25519_getparity(a) = Mod(a) % 2

\* fe25519.c:103 asks of the third loop: "3 should be enough here, is 2 enough?"
TwoLimbsEnoughOn(S) ==
    \A a, b \in S : FoldCarry(MulFolded(a, b), 2).out = 0
=============================================================================
