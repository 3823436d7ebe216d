----------------------------- MODULE Curve25519 -----------------------------
(***************************************************************************)
(* Scalar multiplication on curve25519 (jni/curve25519.c): the Montgomery  *)
(* ladder over unreduced field elements.                                   *)
(***************************************************************************)
EXTENDS Integers, Sequences

CONSTANTS
    W, H, C,    \* the field: limb width, limb count / 4, 2^(W * 4 * H - 1) - p
    A24,        \* _121666
    BasePoint,  \* base
    Cleared     \* the low bits a scalar loses: 3

INSTANCE FieldArithmetic

ASSUME FieldAssumption ==
    /\ W \in Nat \ {0, 1} /\ H \in Nat \ {0}
    /\ C \in Nat \ {0} /\ 2 * C < Base

\* What the proofs, which know nothing of powers, need of those of 2.
ASSUME PowersAssumption ==
    /\ 2^0 = 1
    /\ \A i \in 0 .. W - 1 : 2^i \in Nat \ {0} /\ 2^(i + 1) = 2 * 2^i

ASSUME ScalarAssumption ==
    /\ A24 \in 1 .. p - 1 /\ BasePoint \in 1 .. p - 1
    /\ Cleared \in 1 .. W

\* The bits the ladder goes over: j starts at 6, not 7, in the highest byte.
Bits == W * N - 1

Bit(e, i) == IF (e[(i \div W) + 1] \div 2^(i % W)) % 2 = 1 THEN 1 ELSE 0

\* Faulty variant: the low bits of the scalar stay.
ClampTopOnly(s) == [s EXCEPT ![N] = (@ % (TopBit \div 2)) + TopBit \div 2]

\* e[0] &= 248; e[31] &= 127; e[31] |= 64
Clamp(s) ==
    [s EXCEPT ![1] = @ - (@ % 2^Cleared),
              ![N] = (@ % (TopBit \div 2)) + TopBit \div 2]

work_cswap(work, b) ==
    IF b = 0 THEN work
    ELSE [work EXCEPT !.xp = work.xq, !.zp = work.zq,
                      !.xq = work.xp, !.zq = work.zp]

\* Faulty variant: t7 is not added before the last product.
ladderstepShort(work) ==
    LET t1 == fe25519_add(work.xp, work.zp)
        t2 == fe25519_sub(work.xp, work.zp)
        t7 == fe25519_square(t2)
        t6 == fe25519_square(t1)
        t5 == fe25519_sub(t6, t7)
    IN  [work EXCEPT !.xp = fe25519_mul(t6, t7),
                     !.zp = fe25519_mul(fe25519_mul(t5, Limbs(A24, N)), t5)]

\* (xp : zp) is doubled; (xq : zq) becomes the sum of both, whose difference
\* has the coordinate x0.
ladderstep(work) ==
    LET t1 == fe25519_add(work.xp, work.zp)
        t2 == fe25519_sub(work.xp, work.zp)
        t7 == fe25519_square(t2)
        t6 == fe25519_square(t1)
        t5 == fe25519_sub(t6, t7)
        t3 == fe25519_add(work.xq, work.zq)
        t4 == fe25519_sub(work.xq, work.zq)
        u2 == fe25519_mul(t3, t2)
        u3 == fe25519_mul(t4, t1)
    IN  [x0 |-> work.x0,
         xq |-> fe25519_square(fe25519_add(u3, u2)),
         zq |-> fe25519_mul(fe25519_square(fe25519_sub(u3, u2)), work.x0),
         xp |-> fe25519_mul(t6, t7),
         zp |-> fe25519_mul(fe25519_add(fe25519_mul(t5, Limbs(A24, N)), t7), t5)]

\* The work array of mladder before its loop.
LadderStart(x) == [x0 |-> x, xp |-> setone, zp |-> setzero, xq |-> x, zq |-> setone]

\* z^(p-2).  The chain for 2^255 - 21 is in InversionChain; here the bits of
\* the exponent are taken from the top.
fe25519_invert(z) ==
    LET pow[i \in 0 .. Bits] ==     \* the exponent's bits above Bits - i
            IF i = 0 THEN setone
            ELSE LET s == fe25519_square(pow[i - 1])
                 IN  IF Bit(Limbs(p - 2, N), Bits - i) = 1 THEN fe25519_mul(s, z) ELSE s
    IN  pow[Bits]

\* The lines of crypto_scalarmult_curve25519 after mladder.
ScalarMultEnds(work) == fe25519_pack(fe25519_mul(work.xp, fe25519_invert(work.zp)))
=============================================================================
