--------------------------- MODULE InversionChain ---------------------------
(***************************************************************************)
(* The addition chains of fe25519_invert and fe25519_pow2523: straight-    *)
(* line programs of squarings and multiplications, too long for their      *)
(* exponents to be integers of the model checker.  A register holds the    *)
(* exponent of x as the set of its bits: squaring moves every bit up, and  *)
(* multiplying adds, which is a union as long as no bit is in both.        *)
(***************************************************************************)
EXTENDS Integers, Sequences

\* 2^hi - 2^lo
Ones(hi, lo) == lo .. hi - 1

\* A line of the code: the register it sets, its operands, how many squarings
\* it loops over, and the exponent its comment announces.
Mul(to, a, b, claim) == [to |-> to, a |-> a, b |-> b, loop |-> 0, claim |-> claim]
Sqr(to, a, claim)    == Mul(to, a, a, claim)

\* A loop of n squarings that starts with other = to^2 and ends in `to`, going
\* back and forth between the two registers (which may be one).
SqrLoop(to, other, n, claim) ==
    [to |-> to, a |-> other, b |-> other, loop |-> n, claim |-> claim]

\* fe25519_invert: t0 and t1 take turns.
Invert ==
    << Sqr("z2", "x", {1}),
       Sqr("t1", "z2", {2}),
       Sqr("t0", "t1", {3}),
       Mul("z9", "t0", "x", {0, 3}),
       Mul("z11", "z9", "z2", {0, 1, 3}),
       Sqr("t0", "z11", {1, 2, 4}),
       Mul("z2_5_0", "t0", "z9", Ones(5, 0)),
       Sqr("t0", "z2_5_0", Ones(6, 1)),
       Sqr("t1", "t0", Ones(7, 2)),
       Sqr("t0", "t1", Ones(8, 3)),
       Sqr("t1", "t0", Ones(9, 4)),
       Sqr("t0", "t1", Ones(10, 5)),
       Mul("z2_10_0", "t0", "z2_5_0", Ones(10, 0)),
       Sqr("t0", "z2_10_0", Ones(11, 1)),
       Sqr("t1", "t0", Ones(12, 2)),
       SqrLoop("t1", "t0", 8, Ones(20, 10)),
       Mul("z2_20_0", "t1", "z2_10_0", Ones(20, 0)),
       Sqr("t0", "z2_20_0", Ones(21, 1)),
       Sqr("t1", "t0", Ones(22, 2)),
       SqrLoop("t1", "t0", 18, Ones(40, 20)),
       Mul("t0", "t1", "z2_20_0", Ones(40, 0)),
       Sqr("t1", "t0", Ones(41, 1)),
       Sqr("t0", "t1", Ones(42, 2)),
       SqrLoop("t0", "t1", 8, Ones(50, 10)),
       Mul("z2_50_0", "t0", "z2_10_0", Ones(50, 0)),
       Sqr("t0", "z2_50_0", Ones(51, 1)),
       Sqr("t1", "t0", Ones(52, 2)),
       SqrLoop("t1", "t0", 48, Ones(100, 50)),
       Mul("z2_100_0", "t1", "z2_50_0", Ones(100, 0)),
       Sqr("t1", "z2_100_0", Ones(101, 1)),
       Sqr("t0", "t1", Ones(102, 2)),
       SqrLoop("t0", "t1", 98, Ones(200, 100)),
       Mul("t1", "t0", "z2_100_0", Ones(200, 0)),
       Sqr("t0", "t1", Ones(201, 1)),
       Sqr("t1", "t0", Ones(202, 2)),
       SqrLoop("t1", "t0", 48, Ones(250, 50)),
       Mul("t0", "t1", "z2_50_0", Ones(250, 0)),
       Sqr("t1", "t0", Ones(251, 1)),
       Sqr("t0", "t1", Ones(252, 2)),
       Sqr("t1", "t0", Ones(253, 3)),
       Sqr("t0", "t1", Ones(254, 4)),
       Sqr("t1", "t0", Ones(255, 5)),
       Mul("r", "t1", "z11", Ones(255, 5) \cup {0, 1, 3}) >>

\* fe25519_pow2523: one temporary, squared in place.
Pow2523 ==
    << Sqr("z2", "x", {1}),
       Sqr("t", "z2", {2}),
       Sqr("t", "t", {3}),
       Mul("z9", "t", "x", {0, 3}),
       Mul("z11", "z9", "z2", {0, 1, 3}),
       Sqr("t", "z11", {1, 2, 4}),
       Mul("z2_5_0", "t", "z9", Ones(5, 0)),
       Sqr("t", "z2_5_0", Ones(6, 1)),
       SqrLoop("t", "t", 4, Ones(10, 5)),
       Mul("z2_10_0", "t", "z2_5_0", Ones(10, 0)),
       Sqr("t", "z2_10_0", Ones(11, 1)),
       SqrLoop("t", "t", 9, Ones(20, 10)),
       Mul("z2_20_0", "t", "z2_10_0", Ones(20, 0)),
       Sqr("t", "z2_20_0", Ones(21, 1)),
       SqrLoop("t", "t", 19, Ones(40, 20)),
       Mul("t", "t", "z2_20_0", Ones(40, 0)),
       Sqr("t", "t", Ones(41, 1)),
       SqrLoop("t", "t", 9, Ones(50, 10)),
       Mul("z2_50_0", "t", "z2_10_0", Ones(50, 0)),
       Sqr("t", "z2_50_0", Ones(51, 1)),
       SqrLoop("t", "t", 49, Ones(100, 50)),
       Mul("z2_100_0", "t", "z2_50_0", Ones(100, 0)),
       Sqr("t", "z2_100_0", Ones(101, 1)),
       SqrLoop("t", "t", 99, Ones(200, 100)),
       Mul("t", "t", "z2_100_0", Ones(200, 0)),
       Sqr("t", "t", Ones(201, 1)),
       SqrLoop("t", "t", 49, Ones(250, 50)),
       Mul("t", "t", "z2_50_0", Ones(250, 0)),
       Sqr("t", "t", Ones(251, 1)),
       Sqr("t", "t", Ones(252, 2)),
       Mul("r", "t", "x", Ones(252, 2) \cup {0}) >>
-----------------------------------------------------------------------------
Shift(e, n) == {i + n : i \in e}

Step(reg, line) ==
    IF line.loop > 0
    THEN [reg EXCEPT ![line.a]  = Shift(reg[line.to], line.loop - 1),
                     ![line.to] = Shift(reg[line.to], line.loop)]
    ELSE [reg EXCEPT ![line.to] = IF line.a = line.b THEN Shift(reg[line.a], 1)
                                  ELSE reg[line.a] \cup reg[line.b]]

Registers == {"x", "r", "z2", "z9", "z11", "z2_5_0", "z2_10_0", "z2_20_0",
              "z2_50_0", "z2_100_0", "t", "t0", "t1"}

\* The registers after each line; nothing but x is set at the start.
After(program) ==
    LET reg[k \in 0 .. Len(program)] ==
            IF k = 0 THEN [n \in Registers |-> IF n = "x" THEN {0} ELSE {}]
            ELSE Step(reg[k - 1], program[k])
    IN  [k \in 0 .. Len(program) |-> reg[k]]

\* Every line computes what its comment announces, from registers that are
\* set, and no sum of exponents carries.
AsCommented(program) ==
    LET reg == After(program)
    IN  \A k \in DOMAIN program :
            LET line == program[k]
                from == reg[k - 1]
                read == IF line.loop > 0 THEN {line.to} ELSE {line.a, line.b}
            IN  /\ reg[k][line.to] = line.claim
                /\ \A n \in read : from[n] # {}
                /\ line.a # line.b => from[line.a] \cap from[line.b] = {}
=============================================================================
