------------------------ MODULE ECDHCurve25519Proofs ------------------------
(***************************************************************************)
(* Theorems about the key exchange, for every field, every curve and every *)
(* scalar: the big integers and the field are exact for limbs of any width *)
(* and numbers of any length, the ladder stays in step with the bits of    *)
(* its scalar, and the keys are reduced elements.  The argument goes from  *)
(* the bottom up: what a sequence of limbs is worth; that a chain of       *)
(* carries or borrows is exact (by induction over its length); the         *)
(* products; what folding the upper half of a product back in leaves; the  *)
(* operations of the field; the exchange.                                  *)
(*                                                                         *)
(* Then what the numbers stand for: the bits of a scalar as a number, the  *)
(* ladder as Montgomery's formulas on residues, points whose coordinates   *)
(* have any common factor, and keys as multiples of points.                *)
(***************************************************************************)
EXTENDS ECDHOnCurve, DataLemmas

\* What the ladder keeps: the last bit gone over is the lowest of the prefix,
\* and work stands for the two neighbouring multiples.
InStep ==
    /\ prefix \in Nat /\ prevbit \in {0, 1}
    /\ prevbit = prefix % 2
    /\ multiple = IF prevbit = 0 THEN [p |-> prefix, q |-> prefix + 1]
                  ELSE [p |-> prefix + 1, q |-> prefix]

LEMMA BitIsBit == \A e, i : Bit(e, i) \in {0, 1}
BY DEF Bit

\* One turn of the ladder, whatever the bit is.
LEMMA TurnKeepsStep ==
    ASSUME InStep, NEW next \in {0, 1},
           Turn(IF next = prevbit THEN 0 ELSE 1, next)
    PROVE  InStep'
<1> DEFINE m == IF next = prevbit THEN multiple
                ELSE [p |-> multiple.q, q |-> multiple.p]
<1>1. m = IF next = 0 THEN [p |-> prefix, q |-> prefix + 1]
          ELSE [p |-> prefix + 1, q |-> prefix]
    BY DEF InStep
<1>2. /\ multiple' = [p |-> 2 * m.p, q |-> m.p + m.q]
      /\ prevbit' = next /\ prefix' = 2 * prefix + next
    BY DEF Turn, InStep
<1>3. prefix' \in Nat /\ prefix' % 2 = next
    BY <1>2 DEF InStep
<1>4. multiple' = IF next = 0 THEN [p |-> prefix', q |-> prefix' + 1]
                  ELSE [p |-> prefix' + 1, q |-> prefix']
    <2>1. CASE next = 0
        BY <1>1, <1>2, <2>1 DEF InStep
    <2>2. CASE next = 1
        <3>1. multiple' = [p |-> 2 * (prefix + 1), q |-> (prefix + 1) + prefix]
            BY <1>1, <1>2, <2>2
        <3> QED BY <3>1, <1>2, <2>2 DEF InStep
    <2> QED BY <2>1, <2>2
<1> QED BY <1>2, <1>3, <1>4 DEF InStep

LEMMA InStepInit == Init => InStep
BY DEF Init, InStep

LEMMA InStepNext == InStep /\ [Next]_vars => InStep'
<1> SUFFICES ASSUME InStep, [Next]_vars PROVE InStep'
    OBVIOUS
<1>1. ASSUME NEW a \in Party, SecretKey(a) PROVE InStep'
    BY <1>1 DEF SecretKey, ladder, InStep
<1>2. ASSUME NEW a, NEW what, NEW point, Starts(a, what, point) PROVE InStep'
    BY <1>2 DEF Starts, InStep
<1>3. ASSUME NEW a \in Party, PublicKey(a) PROVE InStep'
    BY <1>2, <1>3 DEF PublicKey
<1>4. ASSUME NEW a \in Party, SharedSecret(a) PROVE InStep'
    BY <1>2, <1>4 DEF SharedSecret
<1>5. ASSUME LadderBit PROVE InStep'
    BY <1>5, BitIsBit, TurnKeepsStep DEF LadderBit
<1>6. ASSUME Ends PROVE InStep'
    BY <1>6 DEF Ends, InStep
<1>7. ASSUME UNCHANGED vars PROVE InStep'
    BY <1>7 DEF vars, ladder, InStep
<1> QED BY <1>1, <1>3, <1>4, <1>5, <1>6, <1>7 DEF Next

\* The conditional swaps of mladder keep the two points one apart and in the
\* order the last bit tells, for every scalar and however many bits it has.
THEOREM LadderAlwaysInStep == Spec => []LadderInStep
<1>1. InStep => LadderInStep
    BY DEF InStep, LadderInStep
<1> QED BY <1>1, InStepInit, InStepNext, PTL DEF Spec
-----------------------------------------------------------------------------
(* The constants.                                                          *)

\* The powers of two below the base, and the base.
LEMMA TwoIs ==
    /\ 2^0 = 1 /\ \A i \in 0 .. W - 1 : 2^i \in Nat \ {0} /\ 2^(i + 1) = 2 * 2^i
    /\ \E t \in Nat : t >= 2 /\ t = 2^(W - 1) /\ 2^W = 2 * t
<1>1. PICK v \in Nat, j \in Nat, i \in Nat : v = W /\ i = v - 1 /\ j = v - 2
    BY FieldAssumption
<1>2. /\ 2^j \in Nat \ {0} /\ 2^(j + 1) = 2 * 2^j
      /\ 2^i \in Nat \ {0} /\ 2^(i + 1) = 2 * 2^i
    <2>1. i \in 0 .. W - 1 /\ j \in 0 .. W - 1
        BY <1>1
    <2> QED BY <2>1, PowersAssumption
<1>3. j + 1 = i /\ i + 1 = v
    BY <1>1
<1>4. PICK s \in Nat, t \in Nat : s = 2^j /\ s >= 1 /\ t = 2^i /\ t = 2 * s /\ 2^v = 2 * t
    <2>1. 2^i = 2 * 2^j /\ 2^v = 2 * 2^i
        BY <1>2, <1>3
    <2> QED BY <1>2, <2>1
<1>5. t >= 2 /\ t = 2^(W - 1) /\ 2^W = 2 * t
    BY <1>1, <1>4
<1> QED BY <1>5, PowersAssumption

\* What the proofs use of the code's sizes: limbs of at least two bits, four
\* quarters of at least one limb, and a prime as near to a power of two.
LEMMA BaseFacts ==
    /\ Base \in Nat /\ Base >= 4 /\ TopBit \in Nat /\ TopBit >= 2 /\ Base = 2 * TopBit
    /\ C \in Nat /\ C >= 1 /\ 2 * C <= Base - 1
    /\ H \in Nat /\ H >= 1 /\ N = 4 * H /\ N \in Nat /\ N >= 4
<1>1. PICK t \in Nat : t >= 2 /\ Base = 2 * t
    BY TwoIs DEF Base
<1>2. TopBit = t
    BY <1>1 DEF TopBit
<1>3. C \in Nat \ {0} /\ 2 * C < Base /\ H \in Nat \ {0}
    BY FieldAssumption
<1>4. N = 4 * H
    BY DEF N
<1> QED BY <1>1, <1>2, <1>3, <1>4

\* What Clamp() clears are whole bits.
LEMMA ClearedIs == \E k \in Nat : k >= 2 /\ k = 2^Cleared /\ k % 2 = 0
<1>1. PICK v \in Nat, c \in Nat, i \in Nat : v = W /\ c = Cleared /\ i = c - 1 /\ i \in 0 .. v - 1
    BY FieldAssumption, ScalarAssumption
<1>2. 2^i \in Nat \ {0} /\ 2^(i + 1) = 2 * 2^i
    BY <1>1, TwoIs
<1>3. i + 1 = c
    BY <1>1
<1>4. PICK s \in Nat : s = 2^i /\ s >= 1 /\ 2^c = 2 * s
    BY <1>2, <1>3
<1>5. 2 * s >= 2 /\ (2 * s) % 2 = 0 /\ 2 * s = 2^Cleared
    BY <1>1, <1>4
<1> QED BY <1>5
-----------------------------------------------------------------------------
(* The temporaries of the arithmetic, for every width of a limb.           *)

\* A row of bigint_mul adds the limb below, a product and a carry: no sum
\* leaves the 16 bits of its temporary, and what is carried is one limb.
THEOREM ProductFitsTemporary ==
    ASSUME NEW r \in Limb, NEW x \in Limb, NEW y \in Limb, NEW t \in Limb
    PROVE  r + x * y + t \in 0 .. Word - 1
<1> DEFINE b == Base
<1>0. b \in Nat \ {0}
    BY BaseFacts
<1> USE <1>0 DEF Limb, Word
<1> HIDE DEF b
<1>1. r \in 0 .. b - 1 /\ x \in 0 .. b - 1 /\ y \in 0 .. b - 1 /\ t \in 0 .. b - 1
    BY DEF b
<1>2. x * y \in 0 .. (b - 1) * (b - 1)
    BY <1>1
<1>3. (b - 1) * (b - 1) + 2 * (b - 1) = b * b - 1
    OBVIOUS
<1> QED BY <1>1, <1>2, <1>3 DEF b

\* The first loop after the product in fe25519_mul: 2C times a limb of the upper
\* half, one of the lower and a carry stay in the temporary, because 2C is less
\* than what a limb can hold.
THEOREM FoldFitsTemporary ==
    ASSUME NEW high \in Limb, NEW low \in Limb, NEW t \in Limb
    PROVE  2 * C * high + low + t \in 0 .. Word - 1
<1>1. 2 * C \in Limb
    BY BaseFacts DEF Limb
<1>2. low + (2 * C) * high + t \in 0 .. Word - 1
    BY <1>1, ProductFitsTemporary
<1>3. low \in Int /\ t \in Int /\ high \in Int /\ C \in Int
    BY BaseFacts DEF Limb
<1> QED BY <1>2, <1>3

\* One step of a chain of carries: what stays and what is carried are limbs, and
\* nothing is lost.
THEOREM CarryIsExact ==
    ASSUME NEW t \in 0 .. Word - 1
    PROVE  /\ t % Base \in Limb /\ t \div Base \in Limb
           /\ t = (t % Base) + Base * (t \div Base)
<1> DEFINE b == Base
<1>0. b \in Nat \ {0} /\ t \in 0 .. b * b - 1
    BY BaseFacts DEF Word
<1> SUFFICES /\ t % b \in 0 .. b - 1 /\ t \div b \in 0 .. b - 1
             /\ t = (t % b) + b * (t \div b)
    BY DEF Limb
<1> HIDE DEF b
<1>1. t % b \in 0 .. b - 1 /\ t = (t % b) + b * (t \div b) /\ t \div b \in Int
    BY <1>0
<1>2. t \div b >= 0
    BY <1>0
<1>3. t \div b < b
    <2>1. SUFFICES ASSUME t \div b >= b PROVE FALSE
        BY <1>0, <1>1
    <2>2. b * (t \div b) >= b * b
        BY <1>0, <1>1, <2>1
    <2> QED BY <1>0, <1>1, <2>2
<1> QED BY <1>0, <1>1, <1>2, <1>3

LEMMA RestOfSum ==
    ASSUME NEW b \in Nat \ {0}, NEW q \in Nat, NEW e \in 0 .. b - 1
    PROVE  (e + b * q) % b = e
<1>1. PICK r \in 0 .. b - 1, u \in Int : e + b * q = b * u + r /\ (e + b * q) % b = r
    <2>1. e + b * q \in Int
        OBVIOUS
    <2> DEFINE x == e + b * q
    <2>2. x = b * (x \div b) + (x % b) /\ x \div b \in Int /\ x % b \in 0 .. b - 1
        BY <2>1
    <2> QED BY <2>2, Zenon
<1>2. u = q
    <2>1. CASE u < q
        <3>1. b * u <= b * (q - 1)
            BY <2>1
        <3> QED BY <3>1, <1>1
    <2>2. CASE u > q
        <3>1. b * u >= b * (q + 1)
            BY <2>2
        <3> QED BY <3>1, <1>1
    <2> QED BY <2>1, <2>2
<1> QED BY <1>1, <1>2

\* One step of a chain of borrows, from a difference that a limb, one more and a
\* borrow can leave: the top bit of the 16-bit temporary is the borrow, and what
\* stays is the difference, made good with what the limb above gives.
THEOREM BorrowIsExact ==
    ASSUME NEW k \in Nat \ {0}, Base = 2 * k, NEW d \in -Base .. Base - 1
    PROVE  /\ (d % Word) \div (Word \div 2) = IF d < 0 THEN 1 ELSE 0
           /\ (d % Word) % Base = IF d < 0 THEN d + Base ELSE d
<1> DEFINE w == Word
<1>1. w = 4 * (k * k) /\ w \in Nat /\ w \div 2 = 2 * (k * k)
    BY DEF Word
<1>2. k * k >= k /\ k * k \in Nat
    OBVIOUS
<1>3. CASE d < 0
    <2>1. d % w = d + w
        BY <1>1, <1>2, <1>3
    <2>2. (d + w) \div (w \div 2) = 1
        <3> DEFINE h == 2 * (k * k)
        <3>1. h \in Nat \ {0} /\ w \div 2 = h /\ d + w \in h .. 2 * h - 1
            BY <1>1, <1>2, <1>3
        <3> HIDE DEF h, w
        <3> QED BY <3>1
    <2>3. (d + w) % Base = d + Base
        <3>1. d + w = (d + Base) + Base * (2 * k - 1)
            BY <1>1
        <3>2. d + Base \in 0 .. Base - 1 /\ Base \in Nat \ {0} /\ 2 * k - 1 \in Nat
            BY <1>3
        <3> QED BY <3>1, <3>2, RestOfSum, ZenonT(30)
    <2> QED BY <2>1, <2>2, <2>3, <1>3
<1>4. CASE d >= 0
    <2>1. d % w = d
        BY <1>1, <1>2, <1>4
    <2>2. d \div (w \div 2) = 0
        BY <1>1, <1>2, <1>4
    <2>3. d % Base = d
        BY <1>4
    <2> QED BY <2>1, <2>2, <2>3, <1>4
<1> QED BY <1>3, <1>4
-----------------------------------------------------------------------------
(* Powers of the base.                                                     *)

IsPower(f, n) == f = [i \in 0 .. n |-> IF i = 0 THEN 1 ELSE Base * f[i - 1]]

\* The weight of limb n of the code.
Power(n) == (CHOOSE f : IsPower(f, n))[n]

\* There is such a function.
LEMMA PowersExist ==
    ASSUME NEW n \in Nat
    PROVE  \E f \in [0 .. n -> Int] : IsPower(f, n)
<1> DEFINE step == [z \in (1 .. n) \X Int |-> Base * z[2]]
           one == 1
           X == Int
<1>0. Base \in Int
    BY BaseFacts
<1>1. step \in [(1 .. n) \X X -> X] /\ (\A i \in 1 .. n, u \in Int : step[<<i, u>>] = Base * u) /\ one \in X
    BY <1>0
<1> HIDE DEF step, one, X
<1>2. PICK f \in [0 .. n -> X] : IsRecursion(f, n, one, step)
    BY <1>1, RecursionExists, Zenon
<1>3. ASSUME NEW i \in 0 .. n PROVE f[i] = IF i = 0 THEN 1 ELSE Base * f[i - 1]
    <2>1. f[i] = IF i = 0 THEN one ELSE step[<<i, f[i - 1]>>]
        BY <1>2, Zenon DEF IsRecursion
    <2>2. i # 0 => i \in 1 .. n /\ f[i - 1] \in Int
        BY DEF X
    <2> QED BY <1>1, <2>1, <2>2, Zenon DEF one
<1>4. f = [i \in 0 .. n |-> f[i]]
    OBVIOUS
<1>5. IsPower(f, n)
    BY <1>3, <1>4, Zenon DEF IsPower
<1> QED BY <1>5 DEF X

\* Any two such functions agree.
LEMMA PowerIs ==
    ASSUME NEW n \in Nat, NEW f, IsPower(f, n), NEW m \in Nat, NEW g, IsPower(g, m)
    PROVE  \A i \in Nat : i <= n /\ i <= m => f[i] = g[i]
<1> DEFINE S == {i \in Nat : i <= n /\ i <= m => f[i] = g[i]}
<1>1. /\ \A i \in 0 .. n : f[i] = IF i = 0 THEN 1 ELSE Base * f[i - 1]
      /\ \A i \in 0 .. m : g[i] = IF i = 0 THEN 1 ELSE Base * g[i - 1]
    BY Zenon DEF IsPower
<1>2. 0 \in S
    BY <1>1
<1>3. ASSUME NEW i \in Nat, i \in S PROVE i + 1 \in S
    <2> SUFFICES ASSUME i + 1 <= n, i + 1 <= m PROVE f[i + 1] = g[i + 1]
        OBVIOUS
    <2>1. f[i] = g[i]
        BY <1>3
    <2>2. i + 1 \in 0 .. n /\ i + 1 \in 0 .. m /\ i + 1 # 0 /\ (i + 1) - 1 = i
        OBVIOUS
    <2> QED BY <1>1, <2>1, <2>2
<1> HIDE DEF S
<1>4. Nat \subseteq S
    BY <1>2, <1>3, NatSetInduction
<1> QED BY <1>4 DEF S

\* Limb n weighs Base times as much as the limb below it.
LEMMA PowerLaws ==
    Power(0) = 1 /\ \A n \in Nat : Power(n) \in Nat \ {0} /\ Power(n + 1) = Base * Power(n)
<1>1. ASSUME NEW n \in Nat
      PROVE  \E f \in [0 .. n -> Int] : IsPower(f, n) /\ Power(n) = f[n]
    <2>1. \E f : IsPower(f, n)
        BY PowersExist
    <2> DEFINE g == CHOOSE f : IsPower(f, n)
    <2>2. IsPower(g, n) /\ Power(n) = g[n]
        BY <2>1 DEF Power
    <2> HIDE DEF g
    <2>3. PICK f \in [0 .. n -> Int] : IsPower(f, n)
        BY PowersExist
    <2>4. f[n] = g[n]
        BY <2>2, <2>3, PowerIs
    <2> QED BY <2>2, <2>3, <2>4
<1>2. Power(0) = 1
    <2>1. PICK f \in [0 .. 0 -> Int] : IsPower(f, 0) /\ Power(0) = f[0]
        BY <1>1, Zenon
    <2>2. 0 \in 0 .. 0
        OBVIOUS
    <2> QED BY <2>1, <2>2, Zenon DEF IsPower
<1>3. ASSUME NEW n \in Nat PROVE Power(n + 1) = Base * Power(n)
    <2>1. PICK f \in [0 .. n -> Int] : IsPower(f, n) /\ Power(n) = f[n]
        BY <1>1
    <2>2. PICK m \in Nat : m = n + 1
        OBVIOUS
    <2>3. PICK g \in [0 .. m -> Int] : IsPower(g, m) /\ Power(m) = g[m]
        BY <1>1, Zenon
    <2>4. f[n] = g[n]
        BY <2>1, <2>2, <2>3, PowerIs
    <2>5. \A i \in 0 .. m : g[i] = IF i = 0 THEN 1 ELSE Base * g[i - 1]
        BY <2>3, Zenon DEF IsPower
    <2>6. m \in 0 .. m /\ m # 0 /\ m - 1 = n
        BY <2>2
    <2>7. g[m] = Base * g[n]
        BY <2>5, <2>6
    <2> QED BY <2>1, <2>2, <2>3, <2>4, <2>7
<1> DEFINE S == {n \in Nat : Power(n) \in Nat \ {0}}
<1>4. 0 \in S
    BY <1>2
<1>5. ASSUME NEW n \in Nat, n \in S PROVE n + 1 \in S
    <2>1. PICK q \in Nat \ {0} : q = Power(n)
        BY <1>5
    <2>2. Base * q \in Nat \ {0}
        BY BaseFacts
    <2> QED BY <1>3, <2>1, <2>2
<1> HIDE DEF S
<1>6. Nat \subseteq S
    BY <1>4, <1>5, NatSetInduction
<1> QED BY <1>2, <1>3, <1>6 DEF S

\* The weight of a number that is put above m limbs.
LEMMA PowerSum ==
    ASSUME NEW m \in Nat
    PROVE  \A n \in Nat : Power(m + n) = Power(m) * Power(n)
<1> DEFINE S == {n \in Nat : Power(m + n) = Power(m) * Power(n)}
<1>0. Power(m) \in Nat /\ Base \in Nat
    BY PowerLaws, BaseFacts, Zenon
<1>1. 0 \in S
    BY <1>0, PowerLaws
<1>2. ASSUME NEW n \in Nat, n \in S PROVE n + 1 \in S
    <2>1. PICK k \in Nat : k = m + n
        OBVIOUS
    <2>2. Power(k + 1) = Base * Power(k) /\ Power(n + 1) = Base * Power(n) /\ Power(n) \in Nat
        BY PowerLaws
    <2>3. k + 1 = m + (n + 1) /\ Power(k) = Power(m) * Power(n)
        BY <1>2, <2>1
    <2>4. Base * (Power(m) * Power(n)) = Power(m) * (Base * Power(n))
        BY <1>0, <2>2
    <2> QED BY <2>2, <2>3, <2>4
<1> HIDE DEF S
<1>3. Nat \subseteq S
    BY <1>1, <1>2, NatSetInduction
<1> QED BY <1>3 DEF S

-----------------------------------------------------------------------------
(* Sequences as functions, and their parts.                                *)

LEMMA NumberIsSeq ==
    ASSUME NEW n \in Nat, NEW x \in Numbers(n)
    PROVE  x \in Seq(Limb) /\ Len(x) = n /\ \A i \in 1 .. n : x[i] \in Limb
<1>1. x \in [1 .. n -> Limb]
    BY DEF Numbers
<1> QED BY <1>1, FunctionIsSeq

LEMMA SeqIsNumber ==
    ASSUME NEW n \in Nat, NEW x \in Seq(Limb), Len(x) = n
    PROVE  x \in Numbers(n)
BY LenProperties DEF Numbers

LEMMA PartOfNumber ==
    ASSUME NEW n \in Nat, NEW x \in Numbers(n), NEW from \in Nat, NEW len \in 0 .. n - from
    PROVE  /\ Part(x, from, len) \in Numbers(len)
           /\ \A i \in 1 .. len : Part(x, from, len)[i] = x[from + i]
<1>1. PICK a \in Int, b \in Int : a = from + 1 /\ b = from + len
    OBVIOUS
<1>2. \A i \in a .. b : x[i] \in Limb
    BY <1>1, NumberIsSeq
<1> DEFINE y == SubSeq(x, a, b)
<1>3. y \in Seq(Limb)
    BY <1>2, SubSeqProperties
<1>4. Len(y) = IF a <= b THEN b - a + 1 ELSE 0
    BY <1>2, SubSeqProperties
<1>5. \A i \in 1 .. b - a + 1 : y[i] = x[a + i - 1]
    BY <1>2, SubSeqProperties
<1>6. y = Part(x, from, len)
    BY <1>1 DEF Part
<1> HIDE DEF y
<1>7. Len(y) = len
    BY <1>1, <1>4
<1>8. \A i \in 1 .. len : y[i] = x[from + i]
    <2>1. b - a + 1 = len /\ \A i \in 1 .. len : a + i - 1 = from + i
        BY <1>1
    <2> QED BY <1>5, <2>1
<1>9. y \in Numbers(len)
    BY <1>3, <1>7, SeqIsNumber
<1> QED BY <1>6, <1>8, <1>9

\* x and y, one after the other.
Joins(z, x, m, y, n) ==
    /\ \A i \in 1 .. m : z[i] = x[i]
    /\ \A i \in 1 .. n : z[m + i] = y[i]

LEMMA ConcatJoins ==
    ASSUME NEW m \in Nat, NEW x \in Numbers(m), NEW n \in Nat, NEW y \in Numbers(n)
    PROVE  x \o y \in Numbers(m + n) /\ Joins(x \o y, x, m, y, n)
<1>1. x \in Seq(Limb) /\ Len(x) = m /\ y \in Seq(Limb) /\ Len(y) = n
    BY NumberIsSeq
<1> DEFINE z == x \o y
<1>2. /\ z \in Seq(Limb)
      /\ Len(z) = m + n
      /\ \A i \in 1 .. m + n : z[i] = IF i <= m THEN x[i] ELSE y[i - m]
    BY <1>1, ConcatProperties, Zenon
<1> HIDE DEF z
<1>3. \A i \in 1 .. m : i \in 1 .. m + n /\ i <= m
    OBVIOUS
<1>4. \A i \in 1 .. n : m + i \in 1 .. m + n /\ ~(m + i <= m) /\ (m + i) - m = i
    OBVIOUS
<1>5. z \in Numbers(m + n)
    BY <1>2, SeqIsNumber
<1>6. \A i \in 1 .. m : z[i] = x[i]
    BY <1>2, <1>3
<1>7. \A i \in 1 .. n : z[m + i] = y[i]
    BY <1>2, <1>4
<1> QED BY <1>5, <1>6, <1>7, Zenon DEF z, Joins

LEMMA AppendIs ==
    ASSUME NEW n \in Nat, NEW x \in Numbers(n), NEW e \in Limb
    PROVE  /\ Append(x, e) \in Numbers(n + 1)
           /\ \A i \in 1 .. n : Append(x, e)[i] = x[i]
           /\ Append(x, e)[n + 1] = e
<1>1. x \in Seq(Limb) /\ Len(x) = n
    BY NumberIsSeq
<1> DEFINE y == Append(x, e)
<1>2. y \in Seq(Limb) /\ IsAppended(y, x, e)
    BY <1>1, AppendedTo, Zenon
<1> HIDE DEF y
<1>3. Len(y) = n + 1 /\ (\A i \in 1 .. n : y[i] = x[i]) /\ y[n + 1] = e
    BY <1>1, <1>2 DEF IsAppended
<1>4. y \in Numbers(n + 1)
    BY <1>2, <1>3, SeqIsNumber
<1> QED BY <1>3, <1>4 DEF y

-----------------------------------------------------------------------------
(* The number of some limbs.                                               *)

\* The function in Value().
IsHigh(f, x, n) == f = [i \in 0 .. n |-> IF i = 0 THEN 0 ELSE x[n + 1 - i] + Base * f[i - 1]]

LEMMA HighExists ==
    ASSUME NEW n \in Nat, NEW x \in [1 .. n -> Int]
    PROVE  \E f \in [0 .. n -> Int] : IsHigh(f, x, n)
<1> DEFINE step == [z \in (1 .. n) \X Int |-> x[n + 1 - z[1]] + Base * z[2]]
           none == 0
           X == Int
<1>0. Base \in Int
    BY BaseFacts
<1>1. /\ step \in [(1 .. n) \X X -> X] /\ none \in X
      /\ \A i \in 1 .. n, u \in Int : step[<<i, u>>] = x[n + 1 - i] + Base * u
    <2>1. \A i \in 1 .. n : x[n + 1 - i] \in Int
        OBVIOUS
    <2>2. \A z \in (1 .. n) \X Int : z[1] \in 1 .. n /\ z[2] \in Int
        OBVIOUS
    <2>3. \A z \in (1 .. n) \X Int : x[n + 1 - z[1]] + Base * z[2] \in Int
        BY <1>0, <2>1, <2>2
    <2>4. step \in [(1 .. n) \X X -> X]
        BY <2>3
    <2> QED BY <2>4
<1> HIDE DEF step, none, X
<1>2. PICK f \in [0 .. n -> X] : IsRecursion(f, n, none, step)
    BY <1>1, RecursionExists, Zenon
<1>3. ASSUME NEW i \in 0 .. n PROVE f[i] = IF i = 0 THEN 0 ELSE x[n + 1 - i] + Base * f[i - 1]
    <2>1. f[i] = IF i = 0 THEN none ELSE step[<<i, f[i - 1]>>]
        BY <1>2, Zenon DEF IsRecursion
    <2>2. i # 0 => i \in 1 .. n /\ f[i - 1] \in Int
        BY DEF X
    <2> QED BY <1>1, <2>1, <2>2, Zenon DEF none
<1>4. f = [i \in 0 .. n |-> f[i]]
    OBVIOUS
<1>5. IsHigh(f, x, n)
    BY <1>3, <1>4, Zenon DEF IsHigh
<1> QED BY <1>5 DEF X

\* There is but one: it is determined limb by limb.
LEMMA HighIs ==
    ASSUME NEW n \in Nat, NEW x \in [1 .. n -> Int],
           NEW f, IsHigh(f, x, n), NEW g, IsHigh(g, x, n)
    PROVE  f[n] = g[n]
<1> DEFINE S == {i \in Nat : i <= n => f[i] = g[i]}
<1>1. /\ \A i \in 0 .. n : f[i] = IF i = 0 THEN 0 ELSE x[n + 1 - i] + Base * f[i - 1]
      /\ \A i \in 0 .. n : g[i] = IF i = 0 THEN 0 ELSE x[n + 1 - i] + Base * g[i - 1]
    BY Zenon DEF IsHigh
<1>2. 0 \in S
    BY <1>1
<1>3. ASSUME NEW i \in Nat, i \in S PROVE i + 1 \in S
    <2> SUFFICES ASSUME i + 1 <= n PROVE f[i + 1] = g[i + 1]
        OBVIOUS
    <2>1. PICK j \in 0 .. n : j = i + 1
        OBVIOUS
    <2>2. f[j - 1] = g[j - 1] /\ j # 0
        BY <1>3, <2>1
    <2>3. f[j] = g[j]
        BY <1>1, <2>2, Zenon
    <2> QED BY <2>1, <2>3
<1> HIDE DEF S
<1>4. n \in S
    BY <1>2, <1>3, NatSetInduction, Zenon
<1> QED BY <1>4 DEF S

LEMMA ValueIs ==
    ASSUME NEW n \in Nat, NEW x \in [1 .. n -> Int]
    PROVE  \E f \in [0 .. n -> Int] : IsHigh(f, x, n) /\ Value(x) = f[n]
<1>1. Len(x) = n
    BY FunctionIsSeq
<1>2. Value(x) = (CHOOSE f : IsHigh(f, x, n))[n]
    BY <1>1 DEF Value, IsHigh
<1>3. PICK f \in [0 .. n -> Int] : IsHigh(f, x, n)
    BY HighExists
<1> DEFINE g == CHOOSE f_1 : IsHigh(f_1, x, n)
<1>4. IsHigh(g, x, n)
    BY <1>3
<1>5. Value(x) = g[n]
    BY <1>2
<1> HIDE DEF g
<1>6. f[n] = g[n]
    BY <1>3, <1>4, HighIs, Zenon
<1> QED BY <1>3, <1>5, <1>6, Zenon

\* A limb on top of the others.
LEMMA ValueTop ==
    ASSUME NEW n \in Nat, NEW x \in [1 .. n -> Int], NEW z \in [1 .. n + 1 -> Int],
           \A i \in 1 .. n : z[i] = x[i]
    PROVE  Value(z) = Value(x) + Power(n) * z[n + 1]
<1>1. PICK f \in [0 .. n -> Int] : IsHigh(f, x, n) /\ Value(x) = f[n]
    BY ValueIs
<1>2. PICK m \in Nat : m = n + 1
    OBVIOUS
<1>3. z \in [1 .. m -> Int]
    BY <1>2
<1>4. PICK g \in [0 .. m -> Int] : IsHigh(g, z, m) /\ Value(z) = g[m]
    BY <1>3, ValueIs, Zenon
<1>5. /\ \A i \in 0 .. n : f[i] = IF i = 0 THEN 0 ELSE x[n + 1 - i] + Base * f[i - 1]
      /\ \A i \in 0 .. m : g[i] = IF i = 0 THEN 0 ELSE z[m + 1 - i] + Base * g[i - 1]
    BY <1>1, <1>4, Zenon DEF IsHigh
<1>6. PICK top \in Int : top = z[m]
    BY <1>2, <1>3
<1> DEFINE S == {j \in Nat : j <= n => g[j + 1] = f[j] + Power(j) * top}
<1>7. 0 \in S
    <2>1. g[1] = z[m] + Base * g[0] /\ g[0] = 0 /\ f[0] = 0
        <3>1. 1 \in 0 .. m /\ 0 \in 0 .. m /\ 0 \in 0 .. n /\ m + 1 - 1 = m /\ 1 - 1 = 0 /\ 1 # 0
            BY <1>2
        <3> QED BY <1>5, <3>1
    <2>2. g[1] = top
        BY <1>6, <2>1, BaseFacts
    <2>3. Power(0) * top = top
        BY PowerLaws
    <2> QED BY <2>1, <2>2, <2>3
<1>8. ASSUME NEW j \in Nat, j \in S PROVE j + 1 \in S
    <2> SUFFICES ASSUME j + 1 <= n PROVE g[(j + 1) + 1] = f[j + 1] + Power(j + 1) * top
        OBVIOUS
    <2>1. g[j + 1] = f[j] + Power(j) * top
        BY <1>8
    <2>2. f[j + 1] = x[n - j] + Base * f[j]
        <3>1. j + 1 \in 0 .. n /\ j + 1 # 0 /\ n + 1 - (j + 1) = n - j /\ (j + 1) - 1 = j
            OBVIOUS
        <3> QED BY <1>5, <3>1
    <2>3. g[(j + 1) + 1] = z[n - j] + Base * g[j + 1]
        <3>1. /\ (j + 1) + 1 \in 0 .. m /\ (j + 1) + 1 # 0 /\ ((j + 1) + 1) - 1 = j + 1
              /\ m + 1 - ((j + 1) + 1) = n - j
            BY <1>2
        <3> QED BY <1>5, <3>1
    <2>4. z[n - j] = x[n - j] /\ x[n - j] \in Int
        OBVIOUS
    <2>5. PICK q \in Nat : q = Power(j)
        BY PowerLaws, Zenon
    <2>6. Power(j + 1) = Base * q
        BY <2>5, PowerLaws
    <2>7. f[j] \in Int /\ Base \in Int
        BY BaseFacts
    <2>8. PICK u \in Int, v \in Int, b \in Int : u = f[j] /\ v = x[n - j] /\ b = Base
        BY <2>4, <2>7
    <2>9. v + b * (u + q * top) = (v + b * u) + (b * q) * top
        OBVIOUS
    <2>10. g[(j + 1) + 1] = v + b * (u + q * top)
        BY <2>1, <2>3, <2>4, <2>5, <2>8
    <2>11. f[j + 1] = v + b * u /\ Power(j + 1) = b * q
        BY <2>2, <2>6, <2>8
    <2> QED BY <2>9, <2>10, <2>11
<1> HIDE DEF S
<1>9. n \in S
    BY <1>7, <1>8, NatSetInduction, Zenon
<1> QED BY <1>1, <1>2, <1>4, <1>6, <1>9 DEF S

\* The number of no limbs.
LEMMA ValueEmpty == ASSUME NEW x \in [1 .. 0 -> Int] PROVE Value(x) = 0
<1>1. PICK f \in [0 .. 0 -> Int] : IsHigh(f, x, 0) /\ Value(x) = f[0]
    BY ValueIs, Zenon
<1>2. 0 \in 0 .. 0
    OBVIOUS
<1> QED BY <1>1, <1>2, Zenon DEF IsHigh

LEMMA ValueType ==
    ASSUME NEW n \in Nat, NEW x \in [1 .. n -> Int]
    PROVE  Value(x) \in Int
BY ValueIs

\* The number of the i lowest limbs.
LowValue(x, i) == Value([k \in 1 .. i |-> x[k]])

LEMMA LowLaws ==
    ASSUME NEW n \in Nat, NEW x \in [1 .. n -> Int]
    PROVE  /\ LowValue(x, 0) = 0 /\ LowValue(x, n) = Value(x)
           /\ \A i \in 0 .. n : LowValue(x, i) \in Int
           /\ \A i \in 0 .. n - 1 : LowValue(x, i + 1) = LowValue(x, i) + Power(i) * x[i + 1]
<1>1. LowValue(x, 0) = 0
    <2>1. [k \in 1 .. 0 |-> x[k]] \in [1 .. 0 -> Int]
        OBVIOUS
    <2> QED BY <2>1, ValueEmpty, Zenon DEF LowValue
<1>2. LowValue(x, n) = Value(x)
    <2>1. [k \in 1 .. n |-> x[k]] = x
        OBVIOUS
    <2> QED BY <2>1 DEF LowValue
<1>3. ASSUME NEW i \in 0 .. n PROVE LowValue(x, i) \in Int
    <2>1. [k \in 1 .. i |-> x[k]] \in [1 .. i -> Int] /\ i \in Nat
        OBVIOUS
    <2> QED BY <2>1, ValueType DEF LowValue
<1>4. ASSUME NEW i \in 0 .. n - 1
      PROVE  LowValue(x, i + 1) = LowValue(x, i) + Power(i) * x[i + 1]
    <2> DEFINE y == [k \in 1 .. i |-> x[k]]
               z == [k \in 1 .. i + 1 |-> x[k]]
    <2>1. y \in [1 .. i -> Int] /\ z \in [1 .. i + 1 -> Int] /\ i \in Nat
        OBVIOUS
    <2>2. (\A k \in 1 .. i : z[k] = y[k]) /\ z[i + 1] = x[i + 1]
        OBVIOUS
    <2>3. LowValue(x, i + 1) = Value(z) /\ LowValue(x, i) = Value(y)
        BY DEF LowValue
    <2> HIDE DEF y, z
    <2>4. Value(z) = Value(y) + Power(i) * z[i + 1]
        BY <2>1, <2>2, ValueTop, Zenon
    <2> QED BY <2>2, <2>3, <2>4
<1> QED BY <1>1, <1>2, <1>3, <1>4

LEMMA ValueJoins ==
    ASSUME NEW m \in Nat, NEW x \in [1 .. m -> Int], NEW n \in Nat, NEW y \in [1 .. n -> Int],
           NEW z \in [1 .. m + n -> Int], Joins(z, x, m, y, n)
    PROVE  Value(z) = Value(x) + Power(m) * Value(y)
<1> DEFINE S == {i \in Nat : i <= n => LowValue(z, m + i) = Value(x) + Power(m) * LowValue(y, i)}
<1>0. /\ LowValue(y, 0) = 0 /\ LowValue(y, n) = Value(y)
      /\ \A i \in 0 .. n : LowValue(y, i) \in Int
      /\ \A i \in 0 .. n - 1 : LowValue(y, i + 1) = LowValue(y, i) + Power(i) * y[i + 1]
    BY LowLaws, Zenon
<1>1. PICK l \in Nat : l = m + n
    OBVIOUS
<1>2. z \in [1 .. l -> Int]
    BY <1>1
<1>3. /\ LowValue(z, l) = Value(z)
      /\ \A i \in 0 .. l - 1 : LowValue(z, i + 1) = LowValue(z, i) + Power(i) * z[i + 1]
    BY <1>2, LowLaws, Zenon
<1>4. PICK q \in Nat, v \in Int : q = Power(m) /\ v = Value(x)
    BY PowerLaws, ValueType, Zenon
<1>5. 0 \in S
    <2>1. [k \in 1 .. m |-> z[k]] = x
        BY DEF Joins
    <2>2. LowValue(z, m) = v
        BY <1>4, <2>1, Zenon DEF LowValue
    <2> QED BY <1>0, <1>4, <2>2
<1>6. ASSUME NEW i \in Nat, i \in S PROVE i + 1 \in S
    <2> SUFFICES ASSUME i + 1 <= n
                 PROVE  LowValue(z, m + (i + 1)) = v + q * LowValue(y, i + 1)
        BY <1>4
    <2>1. LowValue(z, m + i) = v + q * LowValue(y, i)
        BY <1>4, <1>6
    <2>2. LowValue(z, (m + i) + 1) = LowValue(z, m + i) + Power(m + i) * z[(m + i) + 1]
        <3>1. m + i \in 0 .. l - 1
            BY <1>1
        <3> QED BY <1>3, <3>1
    <2>3. LowValue(y, i + 1) = LowValue(y, i) + Power(i) * y[i + 1]
        BY <1>0
    <2>4. z[(m + i) + 1] = y[i + 1] /\ y[i + 1] \in Int /\ LowValue(y, i) \in Int
        <3>1. i + 1 \in 1 .. n /\ m + (i + 1) = (m + i) + 1 /\ i \in 0 .. n
            OBVIOUS
        <3> QED BY <1>0, <3>1 DEF Joins
    <2>5. Power(m + i) = q * Power(i) /\ Power(i) \in Nat
        BY <1>4, PowerSum, PowerLaws, Zenon
    <2>6. PICK a \in Int, b \in Int, r \in Nat : a = LowValue(y, i) /\ b = y[i + 1] /\ r = Power(i)
        BY <2>4, <2>5
    <2>7. (v + q * a) + (q * r) * b = v + q * (a + r * b)
        OBVIOUS
    <2>8. m + (i + 1) = (m + i) + 1
        OBVIOUS
    <2> QED BY <2>1, <2>2, <2>3, <2>4, <2>5, <2>6, <2>7, <2>8
<1> HIDE DEF S
<1>7. n \in S
    BY <1>5, <1>6, NatSetInduction, Zenon
<1>8. LowValue(z, m + n) = Value(x) + Power(m) * LowValue(y, n)
    BY <1>7 DEF S
<1> QED BY <1>0, <1>1, <1>3, <1>8

\* z is x and c times y, limb by limb.
Combines(z, x, c, y, n) == \A i \in 1 .. n : z[i] = x[i] + c * y[i]

LEMMA ValueCombines ==
    ASSUME NEW n \in Nat, NEW x \in [1 .. n -> Int], NEW y \in [1 .. n -> Int], NEW c \in Int,
           NEW z \in [1 .. n -> Int], Combines(z, x, c, y, n)
    PROVE  Value(z) = Value(x) + c * Value(y)
<1> DEFINE S == {i \in Nat : i <= n => LowValue(z, i) = LowValue(x, i) + c * LowValue(y, i)}
<1>1. /\ LowValue(x, 0) = 0 /\ LowValue(x, n) = Value(x)
      /\ \A i \in 0 .. n : LowValue(x, i) \in Int
      /\ \A i \in 0 .. n - 1 : LowValue(x, i + 1) = LowValue(x, i) + Power(i) * x[i + 1]
    BY LowLaws, Zenon
<1>2. /\ LowValue(y, 0) = 0 /\ LowValue(y, n) = Value(y)
      /\ \A i \in 0 .. n : LowValue(y, i) \in Int
      /\ \A i \in 0 .. n - 1 : LowValue(y, i + 1) = LowValue(y, i) + Power(i) * y[i + 1]
    BY LowLaws, Zenon
<1>3. /\ LowValue(z, 0) = 0 /\ LowValue(z, n) = Value(z)
      /\ \A i \in 0 .. n - 1 : LowValue(z, i + 1) = LowValue(z, i) + Power(i) * z[i + 1]
    BY LowLaws, Zenon
<1>4. 0 \in S
    BY <1>1, <1>2, <1>3
<1>5. ASSUME NEW i \in Nat, i \in S PROVE i + 1 \in S
    <2> SUFFICES ASSUME i + 1 <= n
                 PROVE  LowValue(z, i + 1) = LowValue(x, i + 1) + c * LowValue(y, i + 1)
        OBVIOUS
    <2>1. i \in 0 .. n - 1 /\ i \in 0 .. n /\ i + 1 \in 1 .. n
        OBVIOUS
    <2>2. PICK u \in Int, v \in Int, q \in Int, a \in Int, b \in Int :
              /\ u = LowValue(x, i) /\ v = LowValue(y, i) /\ q = Power(i)
              /\ a = x[i + 1] /\ b = y[i + 1]
        <3>1. LowValue(x, i) \in Int /\ LowValue(y, i) \in Int
            BY <1>1, <1>2, <2>1, Zenon
        <3>2. x[i + 1] \in Int /\ y[i + 1] \in Int
            BY <2>1, Zenon
        <3>3. Power(i) \in Int
            BY PowerLaws
        <3> QED BY <3>1, <3>2, <3>3
    <2>3. LowValue(z, i) = u + c * v
        BY <1>5, <2>2
    <2>4. z[i + 1] = a + c * b
        BY <2>1, <2>2 DEF Combines
    <2>5. LowValue(z, i + 1) = (u + c * v) + q * (a + c * b)
        BY <1>3, <2>1, <2>2, <2>3, <2>4
    <2>6. LowValue(x, i + 1) = u + q * a /\ LowValue(y, i + 1) = v + q * b
        BY <1>1, <1>2, <2>1, <2>2
    <2>7. (u + c * v) + q * (a + c * b) = (u + q * a) + c * (v + q * b)
        OBVIOUS
    <2> QED BY <2>5, <2>6, <2>7
<1> HIDE DEF S
<1>6. n \in S
    BY <1>4, <1>5, NatSetInduction, Zenon
<1> QED BY <1>1, <1>2, <1>3, <1>6 DEF S

LEMMA NumbersAreInts == \A n \in Nat : \A x \in Numbers(n) : x \in [1 .. n -> Int]
BY BaseFacts DEF Numbers, Limb

\* What n limbs can hold.
LEMMA ValueBounds ==
    ASSUME NEW n \in Nat, NEW x \in Numbers(n)
    PROVE  Value(x) \in 0 .. Power(n) - 1
<1> DEFINE S == {i \in Nat : i <= n => LowValue(x, i) \in 0 .. Power(i) - 1}
<1>0. x \in [1 .. n -> Int]
    BY NumbersAreInts
<1>1. /\ LowValue(x, 0) = 0 /\ LowValue(x, n) = Value(x)
      /\ \A i \in 0 .. n - 1 : LowValue(x, i + 1) = LowValue(x, i) + Power(i) * x[i + 1]
    BY <1>0, LowLaws, Zenon
<1>2. 0 \in S
    BY <1>1, PowerLaws
<1>3. ASSUME NEW i \in Nat, i \in S PROVE i + 1 \in S
    <2> SUFFICES ASSUME i + 1 <= n PROVE LowValue(x, i + 1) \in 0 .. Power(i + 1) - 1
        OBVIOUS
    <2>1. PICK b \in Nat, q \in Nat : b = Base /\ q = Power(i)
        BY BaseFacts, PowerLaws, Zenon
    <2>2. PICK u \in 0 .. q - 1 : u = LowValue(x, i)
        BY <1>3, <2>1
    <2>3. PICK a \in 0 .. b - 1 : a = x[i + 1]
        BY <2>1 DEF Numbers, Limb
    <2>4. LowValue(x, i + 1) = u + q * a /\ Power(i + 1) = b * q
        BY <1>1, <2>1, <2>2, <2>3, PowerLaws
    <2>5. q * a >= 0 /\ q * a <= q * (b - 1)
        OBVIOUS
    <2>6. u + q * a \in 0 .. b * q - 1
        BY <2>5
    <2> QED BY <2>4, <2>6
<1> HIDE DEF S
<1>4. n \in S
    BY <1>2, <1>3, NatSetInduction
<1> QED BY <1>1, <1>4 DEF S

LEMMA ValueConcat ==
    ASSUME NEW m \in Nat, NEW x \in Numbers(m), NEW n \in Nat, NEW y \in Numbers(n)
    PROVE  x \o y \in Numbers(m + n) /\ Value(x \o y) = Value(x) + Power(m) * Value(y)
<1> DEFINE z == x \o y
           l == m + n
<1>1. l \in Nat /\ z \in Numbers(l) /\ Joins(z, x, m, y, n)
    BY ConcatJoins
<1> HIDE DEF z
<1>2. z \in [1 .. l -> Int] /\ x \in [1 .. m -> Int] /\ y \in [1 .. n -> Int]
    <2> HIDE DEF l
    <2> QED BY <1>1, NumbersAreInts
<1>3. Value(z) = Value(x) + Power(m) * Value(y)
    BY <1>1, <1>2, ValueJoins, Zenon
<1> QED BY <1>1, <1>3 DEF z

LEMMA ValueAppend ==
    ASSUME NEW n \in Nat, NEW x \in Numbers(n), NEW e \in Limb
    PROVE  Append(x, e) \in Numbers(n + 1) /\ Value(Append(x, e)) = Value(x) + Power(n) * e
<1> DEFINE z == Append(x, e)
<1>2. z \in Numbers(n + 1) /\ (\A i \in 1 .. n : z[i] = x[i]) /\ z[n + 1] = e
    BY AppendIs, Zenon
<1> HIDE DEF z
<1>3. z \in [1 .. n + 1 -> Int] /\ x \in [1 .. n -> Int]
    BY <1>2, NumbersAreInts
<1>4. Value(z) = Value(x) + Power(n) * z[n + 1]
    BY <1>2, <1>3, ValueTop, Zenon
<1> QED BY <1>2, <1>4 DEF z

\* A number, cut in two.
LEMMA ValueCut ==
    ASSUME NEW m \in Nat, NEW n \in Nat, NEW x \in Numbers(m + n)
    PROVE  /\ Part(x, 0, m) \in Numbers(m) /\ Part(x, m, n) \in Numbers(n)
           /\ Value(x) = Value(Part(x, 0, m)) + Power(m) * Value(Part(x, m, n))
<1> DEFINE y == Part(x, 0, m)
           z == Part(x, m, n)
<1>1. y \in Numbers(m) /\ \A i \in 1 .. m : y[i] = x[i]
    <2>1. y \in Numbers(m) /\ \A i \in 1 .. m : y[i] = x[0 + i]
        BY PartOfNumber
    <2>2. \A i \in 1 .. m : 0 + i = i
        OBVIOUS
    <2> HIDE DEF y
    <2> QED BY <2>1, <2>2
<1>2. z \in Numbers(n) /\ \A i \in 1 .. n : z[i] = x[m + i]
    BY PartOfNumber
<1> HIDE DEF y, z
<1>3. Joins(x, y, m, z, n)
    BY <1>1, <1>2 DEF Joins
<1>4. x \in [1 .. m + n -> Int] /\ y \in [1 .. m -> Int] /\ z \in [1 .. n -> Int]
    BY <1>1, <1>2, NumbersAreInts
<1>5. Value(x) = Value(y) + Power(m) * Value(z)
    BY <1>3, <1>4, ValueJoins, Zenon
<1> QED BY <1>1, <1>2, <1>5 DEF y, z

LEMMA ValueOfOne ==
    ASSUME NEW x \in Numbers(1)
    PROVE  Value(x) = x[1]
<1>1. PICK n \in Nat, m \in Nat : n = 1 /\ m = 0
    OBVIOUS
<1>2. x \in Numbers(n)
    BY <1>1
<1>3. x \in [1 .. n -> Int]
    BY <1>2, NumbersAreInts
<1>4. /\ LowValue(x, m + 1) = LowValue(x, m) + Power(m) * x[m + 1]
      /\ LowValue(x, m) = 0 /\ LowValue(x, n) = Value(x)
    <2>1. /\ LowValue(x, 0) = 0 /\ LowValue(x, n) = Value(x)
          /\ \A i \in 0 .. n - 1 : LowValue(x, i + 1) = LowValue(x, i) + Power(i) * x[i + 1]
        BY <1>3, LowLaws, Zenon
    <2>2. m \in 0 .. n - 1
        BY <1>1
    <2> QED BY <1>1, <2>1, <2>2
<1>5. Power(m) = 1 /\ x[1] \in Int /\ m + 1 = n
    BY <1>1, <1>3, PowerLaws
<1> QED BY <1>1, <1>4, <1>5

-----------------------------------------------------------------------------
(* Carries and borrows.                                                    *)

LEMMA WordIs ==
    /\ Word \in Nat /\ Word >= 4 * Base /\ Word = Base * Base
    /\ \A a \in Int : a % Word \in 0 .. Word - 1
    /\ \A a \in 0 .. Word - 1 : a % Word = a
<1>1. PICK b \in Nat : b = Base /\ b >= 4
    BY BaseFacts
<1>2. b * b \in Nat /\ b * b >= 4 * b
    BY <1>1
<1>3. PICK w \in Nat : w = Word /\ w >= 4 * b /\ w = b * b
    BY <1>1, <1>2 DEF Word
<1>4. w > 0
    BY <1>1, <1>3
<1> QED BY <1>1, <1>3, <1>4

\* What is carried so far.
Carried == [limb : Seq(Limb), out : Nat]

ChainStep(s, i, low) ==
    LET t == (s[i] + low.out) % Word
    IN  [limb |-> Append(low.limb, t % Base), out |-> t \div Base]

BorrowStep(d, i, low) ==
    LET t == (d[i] - low.out) % Word
    IN  [limb |-> Append(low.limb, t % Base), out |-> t \div (Word \div 2)]

\* The functions in Chain() and Borrow().
IsChain(f, s, in, n) ==
    f = [i \in 0 .. n |-> IF i = 0 THEN [limb |-> <<>>, out |-> in] ELSE ChainStep(s, i, f[i - 1])]

IsBorrow(f, d, in, n) ==
    f = [i \in 0 .. n |-> IF i = 0 THEN [limb |-> <<>>, out |-> in] ELSE BorrowStep(d, i, f[i - 1])]

LEMMA StepTypes ==
    ASSUME NEW n \in Nat, NEW s \in [1 .. n -> Int], NEW i \in 1 .. n, NEW low \in Carried
    PROVE  ChainStep(s, i, low) \in Carried /\ BorrowStep(s, i, low) \in Carried
<1>1. low.limb \in Seq(Limb) /\ low.out \in Nat /\ s[i] \in Int
    BY DEF Carried
<1>2. ASSUME NEW a \in Int, NEW k \in Nat \ {0}
      PROVE  /\ Append(low.limb, (a % Word) % Base) \in Seq(Limb)
             /\ (a % Word) \div k \in Nat
    <2>1. PICK t \in Nat : t = a % Word
        BY WordIs
    <2>2. t % Base \in Limb
        BY BaseFacts DEF Limb
    <2>3. t \div k \in Nat
        OBVIOUS
    <2>4. Append(low.limb, t % Base) \in Seq(Limb)
        BY <1>1, <2>2, AppendProperties
    <2> QED BY <2>1, <2>3, <2>4
<1>3. Word \div 2 \in Nat \ {0} /\ Base \in Nat \ {0}
    BY WordIs, BaseFacts
<1>4. s[i] + low.out \in Int /\ s[i] - low.out \in Int
    BY <1>1
<1>5. ChainStep(s, i, low) \in Carried
    BY <1>2, <1>3, <1>4 DEF ChainStep, Carried
<1>6. BorrowStep(s, i, low) \in Carried
    BY <1>2, <1>3, <1>4, Zenon DEF BorrowStep, Carried
<1> QED BY <1>5, <1>6

LEMMA ChainIs ==
    ASSUME NEW n \in Nat, NEW s \in [1 .. n -> Int], NEW in \in Nat
    PROVE  \E f : IsChain(f, s, in, n) /\ Chain(s, in) = f[n]
<1> DEFINE X == Carried
           step == [z \in (1 .. n) \X X |-> ChainStep(s, z[1], z[2])]
           first == [limb |-> <<>>, out |-> in]
<1>1. first \in X
    <2>1. <<>> \in Seq(Limb)
        BY EmptySeq
    <2> QED BY <2>1 DEF Carried
<1>2. step \in [(1 .. n) \X X -> X] /\ \A i \in 1 .. n, u \in X : step[<<i, u>>] = ChainStep(s, i, u)
    <2>1. \A z \in (1 .. n) \X X : z[1] \in 1 .. n /\ z[2] \in X
        OBVIOUS
    <2>2. \A z \in (1 .. n) \X X : ChainStep(s, z[1], z[2]) \in X
        BY <2>1, StepTypes
    <2> HIDE DEF X
    <2>3. step \in [(1 .. n) \X X -> X]
        BY <2>2
    <2>4. \A i \in 1 .. n, u \in X : step[<<i, u>>] = ChainStep(s, i, u)
        OBVIOUS
    <2> QED BY <2>3, <2>4
<1> HIDE DEF step, first, X
<1>3. PICK f \in [0 .. n -> X] : IsRecursion(f, n, first, step)
    BY <1>1, <1>2, RecursionExists, Zenon
<1>4. ASSUME NEW i \in 0 .. n PROVE f[i] = IF i = 0 THEN first ELSE ChainStep(s, i, f[i - 1])
    <2>1. f[i] = IF i = 0 THEN first ELSE step[<<i, f[i - 1]>>]
        BY <1>3, Zenon DEF IsRecursion
    <2>2. i # 0 => i \in 1 .. n /\ f[i - 1] \in X
        OBVIOUS
    <2> QED BY <1>2, <2>1, <2>2, Zenon
<1>5. f = [i \in 0 .. n |-> f[i]]
    OBVIOUS
<1>6. IsChain(f, s, in, n)
    BY <1>4, <1>5, Zenon DEF IsChain, first
<1>7. Len(s) = n
    BY FunctionIsSeq
<1>8. Chain(s, in) = (CHOOSE g : IsChain(g, s, in, n))[n]
    BY <1>7 DEF Chain, IsChain, ChainStep
<1>9. IsChain(CHOOSE g : IsChain(g, s, in, n), s, in, n)
    BY <1>6
<1> QED BY <1>8, <1>9, Zenon

LEMMA BorrowIs ==
    ASSUME NEW n \in Nat, NEW d \in [1 .. n -> Int], NEW in \in Nat
    PROVE  \E f : IsBorrow(f, d, in, n) /\ Borrow(d, in) = f[n]
<1> DEFINE X == Carried
           step == [z \in (1 .. n) \X X |-> BorrowStep(d, z[1], z[2])]
           first == [limb |-> <<>>, out |-> in]
<1>1. first \in X
    <2>1. <<>> \in Seq(Limb)
        BY EmptySeq
    <2> QED BY <2>1 DEF Carried
<1>2. step \in [(1 .. n) \X X -> X] /\ \A i \in 1 .. n, u \in X : step[<<i, u>>] = BorrowStep(d, i, u)
    <2>1. \A z \in (1 .. n) \X X : z[1] \in 1 .. n /\ z[2] \in X
        OBVIOUS
    <2>2. \A z \in (1 .. n) \X X : BorrowStep(d, z[1], z[2]) \in X
        BY <2>1, StepTypes
    <2> HIDE DEF X
    <2>3. step \in [(1 .. n) \X X -> X]
        BY <2>2
    <2>4. \A i \in 1 .. n, u \in X : step[<<i, u>>] = BorrowStep(d, i, u)
        OBVIOUS
    <2> QED BY <2>3, <2>4
<1> HIDE DEF step, first, X
<1>3. PICK f \in [0 .. n -> X] : IsRecursion(f, n, first, step)
    BY <1>1, <1>2, RecursionExists, Zenon
<1>4. ASSUME NEW i \in 0 .. n PROVE f[i] = IF i = 0 THEN first ELSE BorrowStep(d, i, f[i - 1])
    <2>1. f[i] = IF i = 0 THEN first ELSE step[<<i, f[i - 1]>>]
        BY <1>3, Zenon DEF IsRecursion
    <2>2. i # 0 => i \in 1 .. n /\ f[i - 1] \in X
        OBVIOUS
    <2> QED BY <1>2, <2>1, <2>2, Zenon
<1>5. f = [i \in 0 .. n |-> f[i]]
    OBVIOUS
<1>6. IsBorrow(f, d, in, n)
    BY <1>4, <1>5, Zenon DEF IsBorrow, first
<1>7. Len(d) = n
    BY FunctionIsSeq
<1>8. Borrow(d, in) = (CHOOSE g : IsBorrow(g, d, in, n))[n]
    BY <1>7 DEF Borrow, IsBorrow, BorrowStep
<1>9. IsBorrow(CHOOSE g : IsBorrow(g, d, in, n), d, in, n)
    BY <1>6
<1> QED BY <1>8, <1>9, Zenon

\* What a chain of carries may be given: each limb of s leaves room for a carry
\* that is a limb, and the first one room for what comes in.
Carriable(s, in, n) ==
    /\ s \in [1 .. n -> Int] /\ in \in Nat
    /\ \A i \in 1 .. n : s[i] \in 0 .. Word - Base
    /\ n > 0 => s[1] + in < Word

\* The limbs of s with what came in, and what they do not hold.
ExactCarry(r, v, n) ==
    /\ r.limb \in Numbers(n) /\ r.out \in Nat
    /\ n > 0 => r.out <= Base - 1
    /\ Value(r.limb) + Power(n) * r.out = v

LEMMA CarryStep ==
    ASSUME NEW s, NEW i \in Nat, NEW low, NEW v \in Int, ExactCarry(low, v, i),
           s[i + 1] \in Int, s[i + 1] + low.out \in 0 .. Word - 1
    PROVE  ExactCarry(ChainStep(s, i + 1, low), v + Power(i) * s[i + 1], i + 1)
<1>1. PICK a \in Int, o \in Nat, t \in 0 .. Word - 1 : a = s[i + 1] /\ o = low.out /\ t = a + o
    BY DEF ExactCarry
<1>2. t % Word = t
    BY <1>1, WordIs
<1> DEFINE l == t % Base
           h == t \div Base
           r == ChainStep(s, i + 1, low)
<1>3. r = [limb |-> Append(low.limb, l), out |-> h]
    BY <1>1, <1>2, Zenon DEF ChainStep
<1>4. l \in Limb /\ h \in Limb /\ t = l + Base * h
    BY <1>1, BaseFacts, CarryIsExact
<1> HIDE DEF l, h
<1>5. Append(low.limb, l) \in Numbers(i + 1) /\ Value(Append(low.limb, l)) = Value(low.limb) + Power(i) * l
    BY <1>4, ValueAppend DEF ExactCarry
<1>6. PICK b \in Nat, q \in Nat, u \in Int : b = Base /\ q = Power(i) /\ u = Value(low.limb)
    <2>1. Value(low.limb) \in Int
        BY NumbersAreInts, ValueType DEF ExactCarry
    <2> QED BY <2>1, BaseFacts, PowerLaws, Zenon
<1>7. l \in 0 .. b - 1 /\ h \in 0 .. b - 1
    BY <1>4, <1>6 DEF Limb
<1>8. Power(i + 1) = b * q /\ u + q * o = v
    BY <1>1, <1>6, PowerLaws DEF ExactCarry
<1>9. (u + q * l) + (b * q) * h = v + q * a
    <2>1. a = l + b * h - o
        BY <1>1, <1>4, <1>6, <1>7
    <2>2. q * a = q * l + (b * q) * h - q * o
        BY <1>7, <2>1
    <2>3. q * l \in Int /\ (b * q) * h \in Int /\ q * o \in Int /\ q * a \in Int
        BY <1>7
    <2> QED BY <1>8, <2>2, <2>3
<1> HIDE DEF r
<1>10. r.limb = Append(low.limb, l) /\ r.out = h
    BY <1>3
<1>11. Value(r.limb) + Power(i + 1) * r.out = v + Power(i) * s[i + 1]
    BY <1>1, <1>5, <1>6, <1>8, <1>9, <1>10
<1>12. r.limb \in Numbers(i + 1) /\ r.out \in Nat /\ r.out <= Base - 1
    BY <1>5, <1>6, <1>7, <1>10
<1> QED BY <1>11, <1>12 DEF ExactCarry, r

\* A chain of carries of any length is exact.
LEMMA ChainExact ==
    ASSUME NEW n \in Nat, NEW s, NEW in, Carriable(s, in, n)
    PROVE  ExactCarry(Chain(s, in), Value(s) + in, n)
<1>0. s \in [1 .. n -> Int] /\ in \in Nat
    BY DEF Carriable
<1>1. PICK f : IsChain(f, s, in, n) /\ Chain(s, in) = f[n]
    BY <1>0, ChainIs
<1> DEFINE first == [limb |-> <<>>, out |-> in]
<1>2. \A i \in 0 .. n : f[i] = IF i = 0 THEN first ELSE ChainStep(s, i, f[i - 1])
    BY <1>1, Zenon DEF IsChain
<1>3. /\ LowValue(s, 0) = 0 /\ LowValue(s, n) = Value(s)
      /\ \A i \in 0 .. n : LowValue(s, i) \in Int
      /\ \A i \in 0 .. n - 1 : LowValue(s, i + 1) = LowValue(s, i) + Power(i) * s[i + 1]
    BY <1>0, LowLaws, Zenon
<1> DEFINE P(i) == ExactCarry(f[i], LowValue(s, i) + in, i)
           S == {i \in Nat : i <= n => P(i)}
<1>4. P(0)
    <2>1. f[0] = first
        BY <1>2
    <2>2. first.limb \in Numbers(0)
        <3>1. <<>> \in Seq(Limb) /\ Len(<<>>) = 0
            BY EmptySeq
        <3> QED BY <3>1, SeqIsNumber, Zenon
    <2>3. Value(first.limb) = 0
        BY <2>2, NumbersAreInts, ValueEmpty
    <2>4. first.out = in /\ Power(0) = 1 /\ 1 * in = in /\ 0 + in = in
        BY <1>0, PowerLaws
    <2> HIDE DEF first
    <2>5. ExactCarry(first, 0 + in, 0)
        BY <1>0, <2>2, <2>3, <2>4 DEF ExactCarry
    <2> QED BY <1>3, <2>1, <2>5
<1>5. ASSUME NEW i \in Nat, i \in S PROVE i + 1 \in S
    <2> SUFFICES ASSUME i + 1 <= n PROVE P(i + 1)
        OBVIOUS
    <2>1. P(i)
        BY <1>5
    <2>2. PICK low : low = f[i]
        OBVIOUS
    <2>3. f[i + 1] = ChainStep(s, i + 1, low)
        <3>1. i + 1 \in 0 .. n /\ i + 1 # 0 /\ (i + 1) - 1 = i
            OBVIOUS
        <3> QED BY <1>2, <2>2, <3>1
    <2>4. PICK v \in Int : v = LowValue(s, i) + in
        BY <1>0, <1>3
    <2>5. ExactCarry(low, v, i)
        BY <2>1, <2>2, <2>4
    <2>6. i + 1 \in 1 .. n /\ s[i + 1] \in 0 .. Word - Base /\ s[i + 1] \in Int
        BY DEF Carriable
    <2>7. s[i + 1] + low.out \in 0 .. Word - 1
        <3>0. PICK w \in Nat, a \in Int, o \in Nat : w = Word /\ a = s[i + 1] /\ o = low.out
            BY <2>5, <2>6, WordIs, Zenon DEF ExactCarry
        <3>1. CASE i = 0
            <4>1. o = in
                BY <1>2, <2>2, <3>0, <3>1
            <4>2. a + in < w /\ a >= 0 /\ a + in \in Int
                BY <1>0, <2>6, <3>0, <3>1 DEF Carriable
            <4> QED BY <1>0, <3>0, <4>1, <4>2
        <3>2. CASE i > 0
            <4>1. o \in Nat /\ o <= Base - 1
                BY <2>5, <3>0, <3>2 DEF ExactCarry
            <4>2. a >= 0 /\ a <= w - Base /\ Base \in Nat
                BY <2>6, <3>0, BaseFacts
            <4>3. a + o \in 0 .. w - 1
                BY <4>1, <4>2
            <4> QED BY <3>0, <4>3
        <3> QED BY <3>1, <3>2
    <2>8. ExactCarry(ChainStep(s, i + 1, low), v + Power(i) * s[i + 1], i + 1)
        BY <2>5, <2>6, <2>7, CarryStep
    <2>9. LowValue(s, i + 1) + in = v + Power(i) * s[i + 1]
        <3>1. LowValue(s, i + 1) = LowValue(s, i) + Power(i) * s[i + 1] /\ LowValue(s, i) \in Int
            BY <1>3
        <3>2. Power(i) * s[i + 1] \in Int
            BY <2>6, PowerLaws
        <3> QED BY <1>0, <2>4, <3>1, <3>2
    <2> QED BY <2>3, <2>8, <2>9
<1> HIDE DEF S
<1>6. n \in S
    BY <1>4, <1>5, NatSetInduction, Zenon DEF S
<1>7. P(n)
    BY <1>6 DEF S
<1> QED BY <1>1, <1>3, <1>7

\* What a chain of borrows may be given.
Borrowable(d, in, n) ==
    /\ d \in [1 .. n -> Int] /\ in \in Nat
    /\ \A i \in 1 .. n : d[i] \in -(Base - 1) .. Base - 1
    /\ n > 0 => d[1] - in >= -Base

\* The limbs of d without what came in, and whether they are Base^n too many.
ExactBorrow(r, v, n) ==
    /\ r.limb \in Numbers(n) /\ r.out \in Nat
    /\ n > 0 => r.out \in {0, 1}
    /\ Value(r.limb) = v + Power(n) * r.out

LEMMA BorrowStepIs ==
    ASSUME NEW d, NEW i \in Nat, NEW low, NEW v \in Int, ExactBorrow(low, v, i),
           d[i + 1] \in Int, d[i + 1] - low.out \in -Base .. Base - 1
    PROVE  ExactBorrow(BorrowStep(d, i + 1, low), v + Power(i) * d[i + 1], i + 1)
<1>1. PICK a \in Int, o \in Nat, t \in -Base .. Base - 1 : a = d[i + 1] /\ o = low.out /\ t = a - o
    BY DEF ExactBorrow
<1> DEFINE l == (t % Word) % Base
           h == (t % Word) \div (Word \div 2)
           r == BorrowStep(d, i + 1, low)
<1>2. h = (IF t < 0 THEN 1 ELSE 0) /\ l = (IF t < 0 THEN t + Base ELSE t)
    BY <1>1, BaseFacts, BorrowIsExact
<1>3. r = [limb |-> Append(low.limb, l), out |-> h]
    BY <1>1 DEF BorrowStep
<1> HIDE DEF l, h
<1>4. l \in Limb /\ h \in {0, 1} /\ l = t + Base * h
    BY <1>1, <1>2, BaseFacts DEF Limb
<1>5. Append(low.limb, l) \in Numbers(i + 1) /\ Value(Append(low.limb, l)) = Value(low.limb) + Power(i) * l
    BY <1>4, ValueAppend DEF ExactBorrow
<1>6. PICK b \in Nat, q \in Nat, u \in Int : b = Base /\ q = Power(i) /\ u = Value(low.limb)
    <2>1. Value(low.limb) \in Int
        BY NumbersAreInts, ValueType, Zenon DEF ExactBorrow
    <2> QED BY <2>1, BaseFacts, PowerLaws, Zenon
<1>7. l \in Int /\ h \in Int
    BY <1>4, <1>6 DEF Limb
<1>8. Power(i + 1) = b * q /\ u = v + q * o
    BY <1>1, <1>6, PowerLaws DEF ExactBorrow
<1>9. u + q * l = (v + q * a) + (b * q) * h
    <2>1. l = a - o + b * h
        BY <1>1, <1>4, <1>6, <1>7
    <2>2. q * l = q * a - q * o + (b * q) * h
        BY <1>7, <2>1
    <2>3. q * l \in Int /\ (b * q) * h \in Int /\ q * o \in Int /\ q * a \in Int
        BY <1>7
    <2> QED BY <1>8, <2>2, <2>3
<1> HIDE DEF r
<1>10. r.limb = Append(low.limb, l) /\ r.out = h
    BY <1>3
<1>11. Value(r.limb) = (v + Power(i) * d[i + 1]) + Power(i + 1) * r.out
    BY <1>1, <1>5, <1>6, <1>8, <1>9, <1>10
<1>12. r.limb \in Numbers(i + 1) /\ r.out \in Nat /\ r.out \in {0, 1}
    BY <1>4, <1>5, <1>10
<1> QED BY <1>11, <1>12 DEF ExactBorrow, r

\* A chain of borrows of any length is exact.
LEMMA BorrowExact ==
    ASSUME NEW n \in Nat, NEW d, NEW in, Borrowable(d, in, n)
    PROVE  ExactBorrow(Borrow(d, in), Value(d) - in, n)
<1>0. d \in [1 .. n -> Int] /\ in \in Nat
    BY DEF Borrowable
<1>1. PICK f : IsBorrow(f, d, in, n) /\ Borrow(d, in) = f[n]
    BY <1>0, BorrowIs
<1> DEFINE first == [limb |-> <<>>, out |-> in]
<1>2. \A i \in 0 .. n : f[i] = IF i = 0 THEN first ELSE BorrowStep(d, i, f[i - 1])
    BY <1>1, Zenon DEF IsBorrow
<1>3. /\ LowValue(d, 0) = 0 /\ LowValue(d, n) = Value(d)
      /\ \A i \in 0 .. n : LowValue(d, i) \in Int
      /\ \A i \in 0 .. n - 1 : LowValue(d, i + 1) = LowValue(d, i) + Power(i) * d[i + 1]
    BY <1>0, LowLaws, Zenon
<1> DEFINE P(i) == ExactBorrow(f[i], LowValue(d, i) - in, i)
           S == {i \in Nat : i <= n => P(i)}
<1>4. P(0)
    <2>1. f[0] = first
        BY <1>2
    <2>2. first.limb \in Numbers(0)
        <3>1. <<>> \in Seq(Limb) /\ Len(<<>>) = 0
            BY EmptySeq
        <3> QED BY <3>1, SeqIsNumber, Zenon
    <2>3. Value(first.limb) = 0
        BY <2>2, NumbersAreInts, ValueEmpty
    <2>4. first.out = in /\ Power(0) = 1 /\ 0 = (0 - in) + 1 * in
        BY <1>0, PowerLaws
    <2> HIDE DEF first
    <2>5. ExactBorrow(first, 0 - in, 0)
        BY <1>0, <2>2, <2>3, <2>4 DEF ExactBorrow
    <2> QED BY <1>3, <2>1, <2>5
<1>5. ASSUME NEW i \in Nat, i \in S PROVE i + 1 \in S
    <2> SUFFICES ASSUME i + 1 <= n PROVE P(i + 1)
        OBVIOUS
    <2>1. P(i)
        BY <1>5
    <2>2. PICK low : low = f[i]
        OBVIOUS
    <2>3. f[i + 1] = BorrowStep(d, i + 1, low)
        <3>1. i + 1 \in 0 .. n /\ i + 1 # 0 /\ (i + 1) - 1 = i
            OBVIOUS
        <3> QED BY <1>2, <2>2, <3>1
    <2>4. PICK v \in Int : v = LowValue(d, i) - in
        BY <1>0, <1>3
    <2>5. ExactBorrow(low, v, i)
        BY <2>1, <2>2, <2>4
    <2>6. i + 1 \in 1 .. n /\ d[i + 1] \in -(Base - 1) .. Base - 1 /\ d[i + 1] \in Int
        BY DEF Borrowable
    <2>7. d[i + 1] - low.out \in -Base .. Base - 1
        <3>1. CASE i = 0
            <4>1. low.out = in
                BY <1>2, <2>2, <3>1
            <4>2. d[1] - in >= -Base /\ d[1] - in <= Base - 1 /\ i + 1 = 1 /\ d[1] \in Int
                BY <1>0, <2>6, <3>1, BaseFacts DEF Borrowable
            <4> QED BY <1>0, <4>1, <4>2, BaseFacts
        <3>2. CASE i > 0
            <4>1. low.out \in {0, 1}
                BY <2>5, <3>2 DEF ExactBorrow
            <4> QED BY <2>6, <4>1, BaseFacts
        <3> QED BY <3>1, <3>2
    <2>8. ExactBorrow(BorrowStep(d, i + 1, low), v + Power(i) * d[i + 1], i + 1)
        BY <2>5, <2>6, <2>7, BorrowStepIs
    <2>9. LowValue(d, i + 1) - in = v + Power(i) * d[i + 1]
        <3>1. LowValue(d, i + 1) = LowValue(d, i) + Power(i) * d[i + 1] /\ LowValue(d, i) \in Int
            BY <1>3
        <3>2. Power(i) * d[i + 1] \in Int
            BY <2>6, PowerLaws
        <3> QED BY <1>0, <2>4, <3>1, <3>2
    <2> QED BY <2>3, <2>8, <2>9
<1> HIDE DEF S
<1>6. n \in S
    BY <1>4, <1>5, NatSetInduction, Zenon DEF S
<1>7. P(n)
    BY <1>6 DEF S
<1> QED BY <1>1, <1>3, <1>7

LEMMA ValueInNat ==
    ASSUME NEW n \in Nat, NEW x \in Numbers(n)
    PROVE  Value(x) \in Nat /\ Value(x) < Power(n)
<1>1. PICK q \in Nat : q = Power(n)
    BY PowerLaws
<1>2. Value(x) \in 0 .. q - 1
    BY <1>1, ValueBounds
<1> QED BY <1>1, <1>2

\* Carries through a number, from what comes in at its low end.
LEMMA NumberCarries ==
    ASSUME NEW n \in Nat, NEW x \in Numbers(n), NEW in \in Nat, in <= Word - Base
    PROVE  ExactCarry(Chain(x, in), Value(x) + in, n)
<1>1. PICK w \in Nat, b \in Nat : w = Word /\ b = Base /\ w >= 4 * b /\ b >= 4
    BY WordIs, BaseFacts
<1>2. \A i \in 1 .. n : x[i] \in 0 .. b - 1
    BY <1>1, NumberIsSeq DEF Limb
<1>3. x \in [1 .. n -> Int]
    BY NumbersAreInts
<1>4. \A i \in 1 .. n : x[i] \in 0 .. w - b
    BY <1>1, <1>2
<1>5. n > 0 => x[1] + in < w
    <2>1. n > 0 => 1 \in 1 .. n
        OBVIOUS
    <2> QED BY <1>1, <1>2, <2>1
<1>6. Carriable(x, in, n)
    BY <1>1, <1>3, <1>4, <1>5 DEF Carriable
<1> QED BY <1>6, ChainExact

\* Borrows through a number, for what is taken away at its low end.
LEMMA NumberBorrows ==
    ASSUME NEW n \in Nat, NEW x \in Numbers(n), NEW in \in Nat, in <= Base
    PROVE  ExactBorrow(Borrow(x, in), Value(x) - in, n)
<1>1. PICK b \in Nat : b = Base /\ b >= 4
    BY BaseFacts
<1>2. \A i \in 1 .. n : x[i] \in 0 .. b - 1
    BY <1>1, NumberIsSeq DEF Limb
<1>3. x \in [1 .. n -> Int]
    BY NumbersAreInts
<1>4. \A i \in 1 .. n : x[i] \in -(b - 1) .. b - 1
    BY <1>1, <1>2
<1>5. n > 0 => x[1] - in >= -b
    <2>1. n > 0 => 1 \in 1 .. n
        OBVIOUS
    <2> QED BY <1>1, <1>2, <2>1
<1>6. Borrowable(x, in, n)
    BY <1>1, <1>3, <1>4, <1>5 DEF Borrowable
<1> QED BY <1>6, BorrowExact

\* bigint_add: the limbs and the carry are the sum, for operands of any length.
LEMMA AddExact ==
    ASSUME NEW n \in Nat, NEW x \in Numbers(n), NEW y \in Numbers(n)
    PROVE  /\ ExactCarry(bigint_add(x, y), Value(x) + Value(y), n)
           /\ bigint_add(x, y).out \in {0, 1}
<1> DEFINE s == [i \in 1 .. n |-> x[i] + y[i]]
           r == bigint_add(x, y)
<1>1. PICK w \in Nat, b \in Nat : w = Word /\ b = Base /\ w >= 4 * b /\ b >= 4
    BY WordIs, BaseFacts
<1>2. \A i \in 1 .. n : x[i] \in 0 .. b - 1 /\ y[i] \in 0 .. b - 1
    BY <1>1, NumberIsSeq DEF Limb
<1>3. \A i \in 1 .. n : x[i] + y[i] \in 0 .. 2 * (b - 1)
    BY <1>2
<1>4. s \in [1 .. n -> Int] /\ \A i \in 1 .. n : s[i] \in 0 .. 2 * (b - 1) /\ s[i] = x[i] + y[i]
    BY <1>3
<1>5. r = Chain(s, 0)
    <2>1. Len(x) = n
        BY NumberIsSeq
    <2> QED BY <2>1 DEF bigint_add
<1> HIDE DEF s, r
<1>6. Carriable(s, 0, n)
    <2>1. n > 0 => 1 \in 1 .. n
        OBVIOUS
    <2>2. \A i \in 1 .. n : s[i] \in 0 .. w - b
        BY <1>1, <1>4
    <2>3. n > 0 => s[1] + 0 < w
        BY <1>1, <1>4, <2>1
    <2> QED BY <1>1, <1>4, <2>2, <2>3 DEF Carriable
<1>7. x \in [1 .. n -> Int] /\ y \in [1 .. n -> Int]
    BY NumbersAreInts
<1>8. Value(s) = Value(x) + 1 * Value(y)
    <2>1. PICK c \in Int : c = 1
        OBVIOUS
    <2>2. Combines(s, x, c, y, n)
        BY <1>2, <1>4, <2>1 DEF Combines
    <2> QED BY <1>4, <1>7, <2>1, <2>2, ValueCombines, ZenonT(30)
<1>9. PICK u \in Nat, v \in Nat, q \in Nat : u = Value(x) /\ v = Value(y) /\ q = Power(n) /\ u < q /\ v < q
    BY ValueInNat, PowerLaws
<1>10. ExactCarry(r, u + v, n)
    <2>1. ExactCarry(r, Value(s) + 0, n)
        BY <1>5, <1>6, ChainExact
    <2>2. Value(s) + 0 = u + v
        BY <1>8, <1>9
    <2> QED BY <2>1, <2>2
<1>11. r.out \in {0, 1}
    <2>1. PICK o \in Nat, l \in Nat : o = r.out /\ l = Value(r.limb)
        BY <1>10, ValueInNat DEF ExactCarry
    <2>2. l + q * o = u + v
        BY <1>9, <1>10, <2>1 DEF ExactCarry
    <2>3. ASSUME o >= 2 PROVE FALSE
        <3>1. q * o >= q * 2
            BY <2>3
        <3> QED BY <1>9, <2>2, <3>1
    <2> QED BY <2>1, <2>3
<1> QED BY <1>9, <1>10, <1>11 DEF r

\* bigint_sub: the limbs are the difference, and the borrow tells which of the
\* two operands is less.
LEMMA SubExact ==
    ASSUME NEW n \in Nat, NEW x \in Numbers(n), NEW y \in Numbers(n)
    PROVE  /\ ExactBorrow(bigint_sub(x, y), Value(x) - Value(y), n)
           /\ bigint_sub(x, y).out = IF Value(x) < Value(y) THEN 1 ELSE 0
<1> DEFINE d == [i \in 1 .. n |-> x[i] - y[i]]
           r == bigint_sub(x, y)
<1>1. PICK b \in Nat : b = Base /\ b >= 4
    BY BaseFacts
<1>2. \A i \in 1 .. n : x[i] \in 0 .. b - 1 /\ y[i] \in 0 .. b - 1
    BY <1>1, NumberIsSeq DEF Limb
<1>3. \A i \in 1 .. n : x[i] - y[i] \in -(b - 1) .. b - 1
    BY <1>2
<1>4. d \in [1 .. n -> Int] /\ \A i \in 1 .. n : d[i] \in -(b - 1) .. b - 1 /\ d[i] = x[i] - y[i]
    BY <1>3
<1>5. r = Borrow(d, 0)
    <2>1. Len(x) = n
        BY NumberIsSeq
    <2> QED BY <2>1 DEF bigint_sub
<1> HIDE DEF d, r
<1>6. Borrowable(d, 0, n)
    <2>1. n > 0 => 1 \in 1 .. n
        OBVIOUS
    <2>2. n > 0 => d[1] - 0 >= -b
        BY <1>1, <1>4, <2>1
    <2> QED BY <1>1, <1>4, <2>2 DEF Borrowable
<1>7. x \in [1 .. n -> Int] /\ y \in [1 .. n -> Int]
    BY NumbersAreInts
<1>8. Value(d) = Value(x) + (-1) * Value(y)
    <2>1. PICK c \in Int : c = -1
        OBVIOUS
    <2>2. Combines(d, x, c, y, n)
        BY <1>2, <1>4, <2>1 DEF Combines
    <2> QED BY <1>4, <1>7, <2>1, <2>2, ValueCombines, ZenonT(30)
<1>9. PICK u \in Nat, v \in Nat, q \in Nat : u = Value(x) /\ v = Value(y) /\ q = Power(n) /\ u < q /\ v < q
    BY ValueInNat, PowerLaws
<1>10. ExactBorrow(r, u - v, n)
    <2>1. ExactBorrow(r, Value(d) - 0, n)
        BY <1>5, <1>6, BorrowExact
    <2>2. Value(d) - 0 = u - v
        BY <1>8, <1>9
    <2> QED BY <2>1, <2>2
<1>11. r.out = IF u < v THEN 1 ELSE 0
    <2>1. PICK o \in Nat, l \in Nat : o = r.out /\ l = Value(r.limb) /\ l < q
        BY <1>9, <1>10, ValueInNat DEF ExactBorrow
    <2>2. l = (u - v) + q * o
        BY <1>9, <1>10, <2>1 DEF ExactBorrow
    <2>3. ASSUME o >= 2 PROVE FALSE
        <3>1. q * o >= q * 2
            BY <2>3
        <3> QED BY <1>9, <2>1, <2>2, <3>1
    <2>4. CASE o = 0
        BY <2>1, <2>2, <2>4
    <2>5. CASE o = 1
        BY <1>9, <2>1, <2>2, <2>5
    <2> QED BY <2>3, <2>4, <2>5
<1> QED BY <1>9, <1>10, <1>11 DEF r

-----------------------------------------------------------------------------
(* Multiplication.                                                         *)

\* One turn of the outer loop of bigint_mul.
MulRow(a, b, len, i, r) ==
    LET t == Chain([j \in 1 .. len |-> r[i - 1 + j] + a[i] * b[j]], 0)
    IN  Part(r, 0, i - 1) \o t.limb \o <<t.out>>

IsMul(f, a, b, len) ==
    f = [i \in 0 .. len |-> IF i = 0 THEN [k \in 1 .. len |-> 0] ELSE MulRow(a, b, len, i, f[i - 1])]

LEMMA ProductOfLimbs ==
    ASSUME NEW k \in Nat, NEW r \in 0 .. k, NEW x \in 0 .. k, NEW y \in 0 .. k
    PROVE  r + x * y \in 0 .. (k + 1) * (k + 1) - (k + 1)
<1>1. x * y \in 0 .. k * k
    <2>1. x * y >= 0 /\ x * y <= k * y /\ k * y <= k * k
        OBVIOUS
    <2> QED BY <2>1
<1>2. (k + 1) * (k + 1) - (k + 1) = k * k + k
    OBVIOUS
<1> QED BY <1>1, <1>2

LEMMA OneLimb == ASSUME NEW e \in Limb PROVE <<e>> \in Numbers(1) /\ Value(<<e>>) = e
<1>1. <<e>> \in Seq(Limb) /\ Len(<<e>>) = 1 /\ <<e>>[1] = e
    OBVIOUS
<1> DEFINE z == <<e>>
<1>2. z \in Numbers(1)
    BY <1>1, SeqIsNumber, Zenon
<1> HIDE DEF z
<1>3. Value(z) = z[1]
    BY <1>2, ValueOfOne
<1> QED BY <1>1, <1>2, <1>3 DEF z

RowExact(t, r, k, c, v, len) ==
    t \in Numbers(len + (k + 1)) /\ Value(t) = Value(r) + Power(k) * (c * v)

\* One row of bigint_mul adds a limb of one operand times the other one.
LEMMA MulRowExact ==
    ASSUME NEW len \in Nat, NEW a \in Numbers(len), NEW b \in Numbers(len),
           NEW k \in 0 .. len - 1, NEW r \in Numbers(len + k)
    PROVE  RowExact(MulRow(a, b, len, k + 1, r), r, k, a[k + 1], Value(b), len)
<1>0. len > 0 /\ k \in Nat /\ (k + 1) - 1 = k /\ k + 1 \in 1 .. len /\ k + len = len + k
    OBVIOUS
<1>1. PICK g \in Nat, w \in Nat : g = Base /\ g >= 4 /\ w = Word /\ w = g * g
    BY WordIs, BaseFacts
<1>2. PICK c \in 0 .. g - 1 : c = a[k + 1]
    <2>1. a[k + 1] \in Limb
        BY <1>0, NumberIsSeq
    <2> QED BY <1>1, <2>1 DEF Limb
<1> DEFINE s == [j \in 1 .. len |-> r[k + j] + c * b[j]]
           high == Part(r, k, len)
           low == Part(r, 0, k)
           t == Chain(s, 0)
<1>3. MulRow(a, b, len, k + 1, r) = low \o t.limb \o <<t.out>>
    BY <1>0, <1>2, Zenon DEF MulRow
<1>4. r \in Numbers(k + len)
    BY <1>0
<1>5. /\ low \in Numbers(k) /\ high \in Numbers(len)
      /\ Value(r) = Value(low) + Power(k) * Value(high)
    BY <1>0, <1>4, ValueCut
<1>6. \A j \in 1 .. len : high[j] = r[k + j]
    <2>1. len \in 0 .. (len + k) - k /\ len + k \in Nat
        BY <1>0
    <2> QED BY <1>0, <2>1, PartOfNumber
<1> HIDE DEF high, low
<1>7. \A j \in 1 .. len : high[j] \in 0 .. g - 1 /\ b[j] \in 0 .. g - 1
    BY <1>1, <1>5, NumberIsSeq, Zenon DEF Limb
<1>8. \A j \in 1 .. len : r[k + j] + c * b[j] \in 0 .. w - g
    <2> SUFFICES ASSUME NEW j \in 1 .. len PROVE r[k + j] + c * b[j] \in 0 .. w - g
        OBVIOUS
    <2>1. PICK x \in 0 .. g - 1, y \in 0 .. g - 1 : x = r[k + j] /\ y = b[j]
        BY <1>6, <1>7
    <2>2. PICK m \in Nat : m = g - 1 /\ m + 1 = g
        BY <1>1
    <2>3. x + c * y \in 0 .. (m + 1) * (m + 1) - (m + 1)
        BY <2>2, ProductOfLimbs
    <2> QED BY <1>1, <2>1, <2>2, <2>3
<1>9. s \in [1 .. len -> Int] /\ \A j \in 1 .. len : s[j] \in 0 .. w - g /\ s[j] = r[k + j] + c * b[j]
    BY <1>8
<1> HIDE DEF s
<1>10. Carriable(s, 0, len)
    <2>1. len > 0 => s[1] \in 0 .. w - g
        BY <1>9
    <2>2. len > 0 => s[1] + 0 < w
        BY <1>1, <2>1
    <2> QED BY <1>1, <1>9, <2>2, Zenon DEF Carriable
<1>11. Combines(s, high, c, b, len)
    BY <1>6, <1>9 DEF Combines
<1>12. Value(s) = Value(high) + c * Value(b)
    <2>1. high \in [1 .. len -> Int] /\ b \in [1 .. len -> Int] /\ c \in Int
        BY <1>5, NumbersAreInts
    <2> QED BY <1>9, <1>11, <2>1, ValueCombines, ZenonT(30)
<1>13. ExactCarry(t, Value(s) + 0, len)
    BY <1>10, ChainExact
<1> HIDE DEF t
<1>14. PICK l \in Nat, h \in Nat, v \in Nat, q \in Nat, m \in Nat, T \in Nat, o \in Nat :
          /\ l = Value(low) /\ h = Value(high) /\ v = Value(b) /\ q = Power(k) /\ m = Power(len)
          /\ T = Value(t.limb) /\ o = t.out
    <2>1. Value(low) \in Nat /\ Value(high) \in Nat /\ Value(b) \in Nat
        BY <1>0, <1>5, ValueInNat
    <2>2. Value(t.limb) \in Nat /\ t.out \in Nat
        BY <1>13, ValueInNat DEF ExactCarry
    <2> QED BY <1>0, <2>1, <2>2, PowerLaws, Zenon
<1>15. T + m * o = h + c * v
    BY <1>12, <1>13, <1>14 DEF ExactCarry
<1>16. o \in Limb /\ t.limb \in Numbers(len)
    <2>1. len > 0 /\ t.out <= Base - 1 /\ t.out \in Nat
        BY <1>0, <1>13 DEF ExactCarry
    <2> QED BY <1>1, <1>13, <1>14, <2>1 DEF Limb, ExactCarry
<1> DEFINE x == low \o t.limb
           z == x \o <<o>>
<1>17. x \in Numbers(k + len) /\ Value(x) = l + q * T
    <2>1. PICK y : y = t.limb
        OBVIOUS
    <2>2. y \in Numbers(len) /\ low \in Numbers(k) /\ k \in Nat
        BY <1>0, <1>5, <1>16, <2>1
    <2>3. low \o y \in Numbers(k + len) /\ Value(low \o y) = Value(low) + Power(k) * Value(y)
        BY <2>2, ValueConcat
    <2> QED BY <1>14, <2>1, <2>3
<1>18. <<o>> \in Numbers(1) /\ Value(<<o>>) = o
    BY <1>16, OneLimb
<1> HIDE DEF x
<1>19. z \in Numbers((k + len) + 1) /\ Value(z) = (l + q * T) + Power(k + len) * o
    <2>1. k + len \in Nat /\ 1 \in Nat
        BY <1>0
    <2> DEFINE e == <<o>>
    <2> HIDE DEF e
    <2>2. x \o e \in Numbers((k + len) + 1) /\ Value(x \o e) = Value(x) + Power(k + len) * Value(e)
        BY <1>17, <1>18, <2>1, ValueConcat DEF e
    <2> QED BY <1>17, <1>18, <2>2 DEF e
<1>20. Power(k + len) = q * m
    BY <1>0, <1>14, PowerSum
<1>21. (l + q * T) + (q * m) * o = (l + q * h) + q * (c * v)
    <2>1. PICK e \in Int, cv \in Int : e = T + m * o /\ cv = c * v
        BY <1>2
    <2>2. q * e = q * T + (q * m) * o
        BY <2>1
    <2>3. q * e = q * h + q * cv
        BY <1>15, <2>1
    <2>4. (q * m) * o \in Int /\ q * T \in Int /\ q * h \in Int /\ q * cv \in Int
        OBVIOUS
    <2> QED BY <2>1, <2>2, <2>3, <2>4
<1>22. MulRow(a, b, len, k + 1, r) = z
    BY <1>3, <1>14, Zenon DEF x
<1>23. (k + len) + 1 = len + (k + 1)
    BY <1>0
<1>24. Value(r) = l + q * h
    BY <1>5, <1>14
<1> HIDE DEF z
<1> QED BY <1>2, <1>14, <1>19, <1>20, <1>21, <1>22, <1>23, <1>24 DEF RowExact

\* The first rows are the limbs of 0.
LEMMA ZerosAreZero ==
    ASSUME NEW n \in Nat
    PROVE  [k \in 1 .. n |-> 0] \in Numbers(n) /\ Value([k \in 1 .. n |-> 0]) = 0
<1> DEFINE z == [k \in 1 .. n |-> 0]
<1>1. z \in Numbers(n)
    BY BaseFacts DEF Numbers, Limb
<1>2. z \in [1 .. n -> Int] /\ \A k \in 1 .. n : z[k] = 0
    OBVIOUS
<1> HIDE DEF z
<1>3. PICK c \in Int : c = 1
    OBVIOUS
<1>4. Combines(z, z, c, z, n)
    BY <1>2, <1>3 DEF Combines
<1>5. Value(z) = Value(z) + c * Value(z)
    BY <1>2, <1>4, ValueCombines
<1>7. Value(z) \in Int
    BY <1>2, ValueType
<1>6. Value(z) = 0
    <2>1. PICK v \in Int : v = Value(z)
        BY <1>7
    <2>2. v = v + c * v
        BY <1>5, <2>1
    <2>3. v = v + 1 * v
        BY <1>3, <2>2
    <2>4. v = 0
        BY <2>3
    <2> QED BY <2>1, <2>4
<1> QED BY <1>1, <1>6 DEF z

LEMMA MulIs ==
    ASSUME NEW len \in Nat, NEW a \in Numbers(len), NEW b \in Numbers(len)
    PROVE  \E f : IsMul(f, a, b, len) /\ bigint_mul(a, b) = f[len]
<1> DEFINE zeros == [k \in 1 .. len |-> 0]
           X == UNION {Numbers(len + i) : i \in 0 .. len}
           step == [z \in (1 .. len) \X X |->
                       IF z[2] \in Numbers(len + (z[1] - 1)) THEN MulRow(a, b, len, z[1], z[2]) ELSE zeros]
<1>1. zeros \in Numbers(len)
    BY ZerosAreZero
<1> HIDE DEF zeros
<1>2. ASSUME NEW i \in 1 .. len, NEW r \in Numbers(len + (i - 1))
      PROVE  MulRow(a, b, len, i, r) \in Numbers(len + i)
    <2>1. PICK k \in 0 .. len - 1 : k = i - 1 /\ k + 1 = i
        OBVIOUS
    <2>2. RowExact(MulRow(a, b, len, k + 1, r), r, k, a[k + 1], Value(b), len)
        BY <2>1, MulRowExact
    <2> QED BY <2>1, <2>2 DEF RowExact
<1>3. zeros \in X
    <2>1. 0 \in 0 .. len /\ len + 0 = len
        OBVIOUS
    <2> QED BY <1>1, <2>1
<1>4. \A i \in 0 .. len : Numbers(len + i) \subseteq X
    OBVIOUS
<1> HIDE DEF X
<1>5. \A i \in 1 .. len, r \in X :
          (IF r \in Numbers(len + (i - 1)) THEN MulRow(a, b, len, i, r) ELSE zeros) \in X
    <2> SUFFICES ASSUME NEW i \in 1 .. len, NEW r \in X, r \in Numbers(len + (i - 1))
                 PROVE  MulRow(a, b, len, i, r) \in X
        BY <1>3
    <2>1. i \in 0 .. len
        OBVIOUS
    <2> QED BY <1>2, <1>4, <2>1
<1>6. step \in [(1 .. len) \X X -> X]
    <2>1. \A z \in (1 .. len) \X X : z[1] \in 1 .. len /\ z[2] \in X
        OBVIOUS
    <2> QED BY <1>5, <2>1
<1>7. \A i \in 1 .. len, r \in X :
          step[<<i, r>>] = IF r \in Numbers(len + (i - 1)) THEN MulRow(a, b, len, i, r) ELSE zeros
    OBVIOUS
<1> HIDE DEF step
<1>8. PICK f \in [0 .. len -> X] : IsRecursion(f, len, zeros, step)
    BY <1>3, <1>6, RecursionExists, Zenon
<1>9. \A i \in 0 .. len : f[i] = IF i = 0 THEN zeros ELSE step[<<i, f[i - 1]>>]
    BY <1>8, Zenon DEF IsRecursion
<1> DEFINE S == {i \in Nat : i <= len =>
                     /\ f[i] \in Numbers(len + i)
                     /\ f[i] = IF i = 0 THEN zeros ELSE MulRow(a, b, len, i, f[i - 1])}
<1>10. 0 \in S
    <2>1. len + 0 = len /\ 0 \in 0 .. len
        OBVIOUS
    <2>2. f[0] = zeros
        BY <1>9, <2>1, Zenon
    <2> QED BY <1>1, <2>1, <2>2
<1>11. ASSUME NEW i \in Nat, i \in S PROVE i + 1 \in S
    <2> SUFFICES ASSUME i + 1 <= len
                 PROVE  /\ f[i + 1] \in Numbers(len + (i + 1))
                        /\ f[i + 1] = MulRow(a, b, len, i + 1, f[(i + 1) - 1])
        OBVIOUS
    <2>1. PICK k \in 1 .. len : k = i + 1 /\ k - 1 = i
        OBVIOUS
    <2>2. f[k - 1] \in X /\ f[k - 1] \in Numbers(len + (k - 1))
        BY <1>11, <2>1
    <2>3. f[k] = step[<<k, f[k - 1]>>]
        BY <1>9, <2>1
    <2>4. f[k] = MulRow(a, b, len, k, f[k - 1])
        BY <1>7, <2>2, <2>3
    <2>5. f[k] \in Numbers(len + k)
        BY <1>2, <2>2, <2>4
    <2> QED BY <2>1, <2>4, <2>5
<1> HIDE DEF S
<1>12. Nat \subseteq S
    BY <1>10, <1>11, NatSetInduction
<1>13. \A i \in 0 .. len : f[i] = IF i = 0 THEN zeros ELSE MulRow(a, b, len, i, f[i - 1])
    BY <1>12 DEF S
<1>14. f = [i \in 0 .. len |-> f[i]]
    OBVIOUS
<1>15. IsMul(f, a, b, len)
    BY <1>13, <1>14, Zenon DEF IsMul, zeros
<1>16. Len(a) = len
    BY NumberIsSeq
<1>17. bigint_mul(a, b) = (CHOOSE g : IsMul(g, a, b, len))[len]
    BY <1>16 DEF bigint_mul, IsMul, MulRow
<1>18. IsMul(CHOOSE g : IsMul(g, a, b, len), a, b, len)
    BY <1>15
<1> QED BY <1>17, <1>18, Zenon

ExactProduct(z, a, b, n) == z \in Numbers(n) /\ Value(z) = Value(a) * Value(b)

\* The schoolbook method is exact, for operands of any length.
LEMMA MulExact ==
    ASSUME NEW len \in Nat, NEW a \in Numbers(len), NEW b \in Numbers(len)
    PROVE  ExactProduct(bigint_mul(a, b), a, b, len + len)
<1>1. PICK f : IsMul(f, a, b, len) /\ bigint_mul(a, b) = f[len]
    BY MulIs
<1> DEFINE zeros == [k \in 1 .. len |-> 0]
<1>2. \A i \in 0 .. len : f[i] = IF i = 0 THEN zeros ELSE MulRow(a, b, len, i, f[i - 1])
    BY <1>1, Zenon DEF IsMul
<1>3. zeros \in Numbers(len) /\ Value(zeros) = 0
    BY ZerosAreZero
<1> HIDE DEF zeros
<1>4. a \in [1 .. len -> Int]
    BY NumbersAreInts
<1>5. /\ LowValue(a, 0) = 0 /\ LowValue(a, len) = Value(a)
      /\ \A i \in 0 .. len : LowValue(a, i) \in Int
      /\ \A i \in 0 .. len - 1 : LowValue(a, i + 1) = LowValue(a, i) + Power(i) * a[i + 1]
    BY <1>4, LowLaws
<1>6. PICK v \in Int : v = Value(b)
    BY ValueInNat
<1> DEFINE S == {i \in Nat : i <= len =>
                     f[i] \in Numbers(len + i) /\ Value(f[i]) = LowValue(a, i) * v}
<1>7. 0 \in S
    <2>1. f[0] = zeros /\ len + 0 = len /\ 0 * v = 0
        BY <1>2
    <2> QED BY <1>3, <1>5, <2>1
<1>8. ASSUME NEW i \in Nat, i \in S PROVE i + 1 \in S
    <2> SUFFICES ASSUME i + 1 <= len
                 PROVE  /\ f[i + 1] \in Numbers(len + (i + 1))
                        /\ Value(f[i + 1]) = LowValue(a, i + 1) * v
        OBVIOUS
    <2>1. i \in 0 .. len - 1 /\ i \in 0 .. len /\ i + 1 \in 1 .. len
        OBVIOUS
    <2>2. PICK r \in Numbers(len + i) : r = f[i] /\ Value(r) = LowValue(a, i) * v
        BY <1>8
    <2>3. f[i + 1] = MulRow(a, b, len, i + 1, r)
        <3>1. i + 1 \in 0 .. len /\ i + 1 # 0 /\ (i + 1) - 1 = i
            OBVIOUS
        <3> QED BY <1>2, <2>2, <3>1
    <2>4. RowExact(f[i + 1], r, i, a[i + 1], v, len)
        BY <1>6, <2>1, <2>2, <2>3, MulRowExact
    <2>5. PICK u \in Int, q \in Int, c \in Int : u = LowValue(a, i) /\ q = Power(i) /\ c = a[i + 1]
        <3>1. LowValue(a, i) \in Int /\ a[i + 1] \in Int
            BY <1>4, <1>5, <2>1
        <3>2. Power(i) \in Int
            BY PowerLaws
        <3> QED BY <3>1, <3>2
    <2>6. LowValue(a, i + 1) = u + q * c
        BY <1>5, <2>1, <2>5
    <2>7. Value(f[i + 1]) = u * v + q * (c * v)
        BY <2>2, <2>4, <2>5 DEF RowExact
    <2>8. u * v + q * (c * v) = (u + q * c) * v
        OBVIOUS
    <2>9. f[i + 1] \in Numbers(len + (i + 1))
        BY <2>4 DEF RowExact
    <2> QED BY <2>6, <2>7, <2>8, <2>9
<1> HIDE DEF S
<1>9. len \in S
    BY <1>7, <1>8, NatSetInduction
<1> QED BY <1>1, <1>5, <1>6, <1>9 DEF S, ExactProduct

\* u and v differ by a multiple of m.
Congruent(u, v, m) == \E k \in Int : u = v + k * m

LEMMA CongruentBy ==
    ASSUME NEW m \in Int, NEW u \in Int, NEW v \in Int, NEW k \in Int, u = v + k * m
    PROVE  Congruent(u, v, m)
BY Zenon DEF Congruent

LEMMA CongruentSame ==
    ASSUME NEW m \in Nat, NEW u \in 0 .. m - 1, NEW v \in 0 .. m - 1, Congruent(u, v, m)
    PROVE  u = v
<1>1. PICK k \in Int : u = v + k * m
    BY DEF Congruent
<1>2. ASSUME k >= 1 PROVE FALSE
    <2>1. k * m >= m
        BY <1>2
    <2> QED BY <1>1, <2>1
<1>3. ASSUME k <= -1 PROVE FALSE
    <2>1. k * m <= -m
        BY <1>3
    <2> QED BY <1>1, <2>1
<1>4. k = 0
    BY <1>2, <1>3
<1>5. k * m = 0
    BY <1>4
<1> QED BY <1>1, <1>5

LEMMA CongruentSum ==
    ASSUME NEW m \in Int, NEW u \in Int, NEW v \in Int, NEW x \in Int, NEW y \in Int,
           Congruent(u, v, m), Congruent(x, y, m)
    PROVE  Congruent(u + x, v + y, m) /\ Congruent(u - x, v - y, m)
<1>1. PICK k \in Int, l \in Int : u = v + k * m /\ x = y + l * m
    BY Zenon DEF Congruent
<1>2. u + x = (v + y) + (k + l) * m /\ u - x = (v - y) + (k - l) * m
    <2>1. (k + l) * m = k * m + l * m /\ (k - l) * m = k * m - l * m
        OBVIOUS
    <2> QED BY <1>1, <2>1
<1>3. k + l \in Int /\ k - l \in Int /\ u + x \in Int /\ v + y \in Int /\ u - x \in Int /\ v - y \in Int
    OBVIOUS
<1> QED BY <1>2, <1>3, CongruentBy, Zenon

LEMMA CongruentLaws ==
    ASSUME NEW m \in Int, NEW u \in Int, NEW k \in Int
    PROVE  /\ Congruent(u, u, m)
           /\ Congruent(u + k * m, u, m) /\ Congruent(u, u + k * m, m)
<1>1. PICK z \in Int, j \in Int, v \in Int : z = 0 /\ j = -k /\ v = u + k * m
    OBVIOUS
<1>2. u = u + z * m
    BY <1>1
<1>3. u = v + j * m
    <2>1. (-k) * m = -(k * m)
        OBVIOUS
    <2> QED BY <1>1, <2>1
<1>4. Congruent(u, u, m) /\ Congruent(v, u, m) /\ Congruent(u, v, m)
    BY <1>1, <1>2, <1>3, CongruentBy, Zenon
<1> QED BY <1>1, <1>4

LEMMA CongruentSelf == ASSUME NEW m \in Int, NEW u \in Int PROVE Congruent(u, u, m)
<1>1. PICK k \in Int : k = 0
    OBVIOUS
<1> QED BY <1>1, CongruentLaws, Zenon

LEMMA CongruentBack ==
    ASSUME NEW m \in Int, NEW u \in Int, NEW v \in Int, Congruent(u, v, m)
    PROVE  Congruent(v, u, m)
<1>1. PICK k \in Int : u = v + k * m
    BY DEF Congruent
<1> QED BY <1>1, CongruentLaws, Zenon

LEMMA CongruentChain ==
    ASSUME NEW m \in Int, NEW u \in Int, NEW v \in Int, NEW w \in Int,
           Congruent(u, v, m), Congruent(v, w, m)
    PROVE  Congruent(u, w, m)
<1>1. PICK k \in Int, l \in Int : u = v + k * m /\ v = w + l * m
    BY Zenon DEF Congruent
<1>2. PICK j \in Int : j = k + l
    OBVIOUS
<1>3. u = w + j * m
    <2>1. (k + l) * m = k * m + l * m
        OBVIOUS
    <2> QED BY <1>1, <1>2, <2>1
<1> QED BY <1>3, CongruentBy, Zenon

\* A number's lowest limb is what is left of it modulo the base.
LEMMA ValueLowest ==
    ASSUME NEW n \in Nat, NEW x \in Numbers(1 + n)
    PROVE  \E rest \in Nat : Value(x) = x[1] + Base * rest
<1> DEFINE a == Part(x, 0, 1)
           b == Part(x, 1, n)
<1>1. a \in Numbers(1) /\ b \in Numbers(n) /\ Value(x) = Value(a) + Power(1) * Value(b)
    BY ValueCut
<1>2. a[1] = x[1]
    <2>1. 1 + n \in Nat /\ 0 \in Nat /\ 1 \in 0 .. (1 + n) - 0 /\ 1 \in 1 .. 1 /\ 0 + 1 = 1
        OBVIOUS
    <2> HIDE DEF a
    <2>2. \A i \in 1 .. 1 : a[i] = x[0 + i]
        BY <2>1, PartOfNumber DEF a
    <2> QED BY <2>1, <2>2
<1> HIDE DEF a, b
<1>3. Value(a) = a[1] /\ Value(b) \in Nat
    BY <1>1, ValueOfOne, ValueInNat
<1>4. Power(1) = Base
    <2>1. PICK z \in Nat : z = 0 /\ z + 1 = 1
        OBVIOUS
    <2>2. Power(z + 1) = Base * Power(z) /\ Power(z) = 1
        BY <2>1, PowerLaws
    <2>3. Base * 1 = Base
        BY BaseFacts
    <2> QED BY <2>1, <2>2, <2>3
<1> QED BY <1>1, <1>2, <1>3, <1>4

IsHalfSum(z, x, h, top) ==
    /\ z \in Numbers(h + 1)
    /\ z[h + 1] <= top + 1
    /\ Value(z) = Value(Part(x, 0, h)) + Value(Part(x, h, h)) + Power(h) * top

\* The sum of the halves of an operand, with its carry on top, is exact.
LEMMA HalfSumExact ==
    ASSUME NEW n \in Nat, NEW x \in Numbers(n), NEW h \in Nat, h + h <= n, NEW top \in {0, 1}
    PROVE  IsHalfSum(HalfSum(x, h, top), x, h, top)
<1> DEFINE a == Part(x, 0, h)
           b == Part(x, h, h)
           s == bigint_add(a, b)
           z == HalfSum(x, h, top)
<1>1. a \in Numbers(h) /\ b \in Numbers(h)
    <2>1. h \in 0 .. n - 0 /\ h \in 0 .. n - h /\ 0 \in Nat
        OBVIOUS
    <2> QED BY <2>1, PartOfNumber
<1>2. z = Append(s.limb, (top + s.out) % Base)
    BY DEF HalfSum
<1> HIDE DEF a, b, z
<1>3. ExactCarry(s, Value(a) + Value(b), h) /\ s.out \in {0, 1}
    BY <1>1, AddExact
<1> HIDE DEF s
<1>4. PICK g \in Nat, o \in {0, 1} : g = Base /\ g >= 4 /\ o = s.out
    BY <1>3, BaseFacts
<1>5. PICK e \in 0 .. 2 : e = top + o
    OBVIOUS
<1>51. e % g = e
    BY <1>4
<1>6. z = Append(s.limb, e) /\ e \in Limb /\ s.limb \in Numbers(h)
    <2>1. e \in Limb
        BY <1>4 DEF Limb
    <2>2. s.limb \in Numbers(h)
        BY <1>3 DEF ExactCarry
    <2>3. (top + s.out) % Base = e
        BY <1>4, <1>5, <1>51
    <2> QED BY <1>2, <2>1, <2>2, <2>3
<1> DEFINE y == s.limb
<1>61. y \in Numbers(h) /\ z = Append(y, e)
    BY <1>6
<1> HIDE DEF y
<1>62. e \in Limb
    BY <1>6
<1>7. z \in Numbers(h + 1) /\ Value(z) = Value(y) + Power(h) * e /\ z[h + 1] = e
    <2>1. z \in Numbers(h + 1) /\ Value(z) = Value(y) + Power(h) * e
        BY <1>61, <1>62, ValueAppend
    <2>2. z[h + 1] = e
        BY <1>61, <1>62, AppendIs, Zenon
    <2> QED BY <2>1, <2>2
<1>8. PICK q \in Nat, u \in Nat, v \in Nat, l \in Nat :
          q = Power(h) /\ u = Value(a) /\ v = Value(b) /\ l = Value(y)
    BY <1>1, <1>61, ValueInNat, PowerLaws, Zenon
<1>9. l + q * o = u + v
    BY <1>3, <1>4, <1>8 DEF ExactCarry, y
<1>10. l + q * e = u + v + q * top
    BY <1>5, <1>9
<1>11. e <= top + 1
    BY <1>5
<1> QED BY <1>7, <1>8, <1>10, <1>11 DEF IsHalfSum, a, b, z

\* z is what is left of the difference of t and x in n + 1 limbs.
IsLeft(z, v, n) == z \in Numbers(n) /\ Congruent(Value(z), v, Power(n))

\* t -= x, as the Karatsuba steps do it: exact in the limbs that t has.
LEMMA TakeOffExact ==
    ASSUME NEW n \in Nat, NEW x \in Numbers(n), NEW m \in Nat, NEW t \in Numbers(n + (1 + m))
    PROVE  IsLeft(TakeOff(t, x), Value(t) - Value(x), n + 1)
<1> DEFINE a == Part(t, 0, n)
           b == Part(t, n, 1 + m)
           d == bigint_sub(a, x)
           z == TakeOff(t, x)
<1>1. a \in Numbers(n) /\ b \in Numbers(1 + m) /\ Value(t) = Value(a) + Power(n) * Value(b)
    BY ValueCut
<1>2. b[1] = t[n + 1]
    <2>1. n + (1 + m) \in Nat /\ 1 + m \in 0 .. (n + (1 + m)) - n /\ 1 \in 1 .. 1 + m
        OBVIOUS
    <2> HIDE DEF b
    <2>2. \A i \in 1 .. 1 + m : b[i] = t[n + i]
        BY <2>1, PartOfNumber DEF b
    <2> QED BY <2>1, <2>2
<1>3. z = Append(d.limb, (t[n + 1] - d.out) % Base)
    <2>1. Len(x) = n
        BY NumberIsSeq
    <2> QED BY <2>1 DEF TakeOff
<1> HIDE DEF a, b, z
<1>4. ExactBorrow(d, Value(a) - Value(x), n) /\ d.out \in {0, 1}
    <2>1. d.out = IF Value(a) < Value(x) THEN 1 ELSE 0
        BY <1>1, SubExact
    <2> QED BY <1>1, <2>1, SubExact
<1> HIDE DEF d
<1>5. PICK rest \in Nat : Value(b) = b[1] + Base * rest
    BY <1>1, ValueLowest
<1>6. PICK g \in Nat, c \in Nat, o \in Nat : g = Base /\ g >= 4 /\ c = t[n + 1] /\ o = d.out
    <2>1. 1 \in 1 .. 1 + m /\ 1 + m \in Nat
        OBVIOUS
    <2>2. b[1] \in Limb
        BY <1>1, <2>1, NumberIsSeq
    <2> QED BY <1>2, <1>4, <2>2, BaseFacts DEF Limb
<1>7. PICK e \in 0 .. g - 1, j \in Int : e = (c - o) % g /\ c - o = g * j + e
    <2>1. c - o \in Int
        OBVIOUS
    <2>2. \A y \in Int : y = g * (y \div g) + (y % g) /\ y \div g \in Int /\ y % g \in 0 .. g - 1
        BY <1>6
    <2> QED BY <2>1, <2>2, Zenon
<1>8. z = Append(d.limb, e) /\ e \in Limb /\ d.limb \in Numbers(n)
    BY <1>3, <1>4, <1>6, <1>7 DEF Limb, ExactBorrow
<1>9. z \in Numbers(n + 1) /\ Value(z) = Value(d.limb) + Power(n) * e
    BY <1>8, ValueAppend
<1>10. PICK q \in Nat, u \in Nat, v \in Nat, l \in Nat, T \in Nat :
          q = Power(n) /\ u = Value(a) /\ v = Value(x) /\ l = Value(d.limb) /\ T = Value(t)
    <2>1. n + (1 + m) \in Nat
        OBVIOUS
    <2>2. Value(t) \in Nat
        BY <2>1, ValueInNat
    <2>3. Value(a) \in Nat /\ Value(x) \in Nat /\ Value(d.limb) \in Nat
        BY <1>1, <1>8, ValueInNat, Zenon
    <2> QED BY <2>2, <2>3, PowerLaws, Zenon
<1>11. l = (u - v) + q * o
    BY <1>4, <1>6, <1>10 DEF ExactBorrow
<1>12. T = u + q * (c + g * rest)
    BY <1>1, <1>2, <1>5, <1>6, <1>10
<1>13. l + q * e = (T - v) + (-(j + rest)) * (g * q)
    <2>1. PICK qo \in Int, qc \in Int, qe \in Int, qj \in Int, qr \in Int :
              qo = q * o /\ qc = q * c /\ qe = q * e /\ qj = j * (g * q) /\ qr = rest * (g * q)
        OBVIOUS
    <2>2. q * (c - o) = q * (g * j + e)
        BY <1>7
    <2>3. q * (c - o) = qc - qo /\ q * (g * j + e) = qj + qe
        BY <2>1
    <2>4. T = u + qc + qr
        BY <1>12, <2>1
    <2>5. (-(j + rest)) * (g * q) = -(qj + qr)
        BY <2>1
    <2> QED BY <1>11, <2>1, <2>2, <2>3, <2>4, <2>5
<1>14. Power(n + 1) = g * q
    BY <1>6, <1>10, PowerLaws
<1>15. Congruent(Value(z), Value(t) - Value(x), Power(n + 1))
    <2>1. -(j + rest) \in Int
        OBVIOUS
    <2>2. Value(z) = (Value(t) - Value(x)) + (-(j + rest)) * Power(n + 1)
        BY <1>9, <1>10, <1>13, <1>14
    <2> QED BY <2>1, <2>2 DEF Congruent
<1> QED BY <1>9, <1>15 DEF IsLeft, z

\* A number, cut in three.
LEMMA ValueCutInThree ==
    ASSUME NEW l \in Nat, NEW m \in Nat, NEW n \in Nat, NEW x \in Numbers(l + (m + n))
    PROVE  /\ Part(x, 0, l) \in Numbers(l) /\ Part(x, l, m) \in Numbers(m)
           /\ Part(x, l + m, n) \in Numbers(n)
           /\ Value(x) = Value(Part(x, 0, l))
                           + Power(l) * (Value(Part(x, l, m)) + Power(m) * Value(Part(x, l + m, n)))
<1> DEFINE lo == Part(x, 0, l)
           up == Part(x, l, m + n)
           mid == Part(x, l, m)
           hi == Part(x, l + m, n)
<1>1. PICK k \in Nat, j \in Nat : k = m + n /\ j = l + m
    OBVIOUS
<1>2. lo \in Numbers(l) /\ up \in Numbers(k) /\ Value(x) = Value(lo) + Power(l) * Value(up)
    BY <1>1, ValueCut
<1>3. \A i \in 1 .. m + n : up[i] = x[l + i]
    <2>1. l + k \in Nat /\ k \in 0 .. (l + k) - l
        BY <1>1
    <2> QED BY <1>1, <2>1, PartOfNumber
<1>4. mid \in Numbers(m) /\ \A i \in 1 .. m : mid[i] = x[l + i]
    <2>1. l + k \in Nat /\ m \in 0 .. (l + k) - l
        BY <1>1
    <2> QED BY <1>1, <2>1, PartOfNumber
<1>5. hi \in Numbers(n) /\ \A i \in 1 .. n : hi[i] = x[(l + m) + i]
    <2>1. l + k \in Nat /\ n \in 0 .. (l + k) - j
        BY <1>1
    <2> QED BY <1>1, <2>1, PartOfNumber
<1> HIDE DEF lo, up, mid, hi
<1>6. Joins(up, mid, m, hi, n)
    <2>1. \A i \in 1 .. m : i \in 1 .. m + n
        OBVIOUS
    <2>2. \A i \in 1 .. n : m + i \in 1 .. m + n /\ l + (m + i) = (l + m) + i
        OBVIOUS
    <2>3. \A i \in 1 .. m : up[i] = mid[i]
        BY <1>3, <1>4, <2>1
    <2>4. \A i \in 1 .. n : up[m + i] = hi[i]
        BY <1>3, <1>5, <2>2
    <2> QED BY <2>3, <2>4 DEF Joins
<1>7. up \in [1 .. m + n -> Int] /\ mid \in [1 .. m -> Int] /\ hi \in [1 .. n -> Int]
    BY <1>1, <1>2, <1>4, <1>5, NumbersAreInts
<1>8. Value(up) = Value(mid) + Power(m) * Value(hi)
    BY <1>6, <1>7, ValueJoins, Zenon
<1> QED BY <1>2, <1>4, <1>5, <1>8 DEF lo, mid, hi

\* What r has room for at limb l.
HasRoom(r, t, l, m, len) ==
    /\ r \in Numbers(len) /\ t \in Numbers(m) /\ l + m <= len
    /\ Value(r) + Power(l) * Value(t) < Power(len)

\* Nothing carries out then.
LEMMA AddMiddleExact ==
    ASSUME NEW l \in Nat, NEW m \in Nat, NEW len \in Nat, NEW r, NEW t, HasRoom(r, t, l, m, len)
    PROVE  /\ AddMiddle(r, t, l) \in Numbers(len)
           /\ Value(AddMiddle(r, t, l)) = Value(r) + Power(l) * Value(t)
<1>0. PICK n \in Nat : len = l + (m + n)
    <2>1. len - l - m \in Nat /\ len = l + (m + (len - l - m))
        BY DEF HasRoom
    <2> QED BY <2>1
<1>0a. r \in Numbers(l + (m + n)) /\ t \in Numbers(m) /\ Value(r) + Power(l) * Value(t) < Power(len)
    BY <1>0 DEF HasRoom
<1> DEFINE lo == Part(r, 0, l)
           mid == Part(r, l, m)
           hi == Part(r, l + m, n)
           sum == bigint_add(mid, t)
           top == Chain(hi, sum.out)
           z == AddMiddle(r, t, l)
<1>1. PICK k \in Nat, j \in Nat : k = m + n /\ j = l + k
    OBVIOUS
<1>2. r \in Numbers(j) /\ t \in Numbers(m)
    BY <1>1, <1>0a
<1>3. Len(r) = j /\ Len(t) = m
    BY <1>2, NumberIsSeq
<1>4. z = (lo \o sum.limb) \o top.limb
    <2>1. Len(r) - l - Len(t) = n /\ l + Len(t) = l + m
        BY <1>1, <1>3
    <2> QED BY <1>3, <2>1, Zenon DEF AddMiddle
<1>5. /\ lo \in Numbers(l) /\ mid \in Numbers(m) /\ hi \in Numbers(n)
      /\ Value(r) = Value(lo) + Power(l) * (Value(mid) + Power(m) * Value(hi))
    BY <1>0a, ValueCutInThree
<1> HIDE DEF z, lo, mid, hi
<1>6. ExactCarry(sum, Value(mid) + Value(t), m) /\ sum.out \in {0, 1}
    BY <1>2, <1>5, AddExact
<1> HIDE DEF sum
<1>7. ExactCarry(top, Value(hi) + sum.out, n)
    <2>1. PICK o \in Nat : o = sum.out /\ o <= 1
        BY <1>6
    <2>2. o <= Word - Base
        <3>1. PICK g \in Nat, w \in Nat : g = Base /\ w = Word /\ w >= 4 * g /\ g >= 4
            BY WordIs, BaseFacts
        <3> QED BY <2>1, <3>1
    <2> QED BY <1>5, <2>1, <2>2, NumberCarries
<1> HIDE DEF top
<1>8. PICK s, u : s = sum.limb /\ u = top.limb
    OBVIOUS
<1>9. s \in Numbers(m) /\ u \in Numbers(n)
    BY <1>6, <1>7, <1>8 DEF ExactCarry
<1>10. PICK a \in Nat, b \in Nat, c \in Nat, d \in Nat, S \in Nat, U \in Nat, R \in Nat :
          /\ a = Value(lo) /\ b = Value(mid) /\ c = Value(hi) /\ d = Value(t)
          /\ S = Value(s) /\ U = Value(u) /\ R = Value(r)
    <2>1. Value(lo) \in Nat /\ Value(mid) \in Nat /\ Value(hi) \in Nat /\ Value(t) \in Nat
        BY <1>2, <1>5, ValueInNat
    <2>2. Value(s) \in Nat /\ Value(u) \in Nat /\ Value(r) \in Nat
        BY <1>2, <1>9, ValueInNat, Zenon
    <2> QED BY <2>1, <2>2, Zenon
<1>11. PICK x \in Nat, y \in Nat, w \in Nat : x = Power(l) /\ y = Power(m) /\ w = Power(n)
    BY PowerLaws, Zenon
<1>12. PICK o \in Nat, q \in Nat : o = sum.out /\ q = top.out
    BY <1>6, <1>7 DEF ExactCarry
<1>13. S + y * o = b + d /\ U + w * q = c + o
    BY <1>6, <1>7, <1>8, <1>10, <1>11, <1>12 DEF ExactCarry
<1>14. Power(len) = x * (y * w)
    BY <1>0, <1>1, <1>11, PowerSum
<1>15. z \in Numbers(len) /\ Value(z) = a + x * (S + y * U)
    <2>1. lo \o s \in Numbers(l + m) /\ Value(lo \o s) = Value(lo) + Power(l) * Value(s)
        BY <1>5, <1>9, ValueConcat
    <2> DEFINE f == lo \o s
    <2>2. PICK e \in Nat : e = l + m
        OBVIOUS
    <2>3. f \in Numbers(e) /\ Value(f) = a + x * S
        BY <1>10, <1>11, <2>1, <2>2
    <2>4. z = f \o u
        BY <1>4, <1>8
    <2> HIDE DEF f
    <2>5. z \in Numbers(e + n) /\ Value(z) = (a + x * S) + Power(e) * U
        <3>1. f \o u \in Numbers(e + n) /\ Value(f \o u) = Value(f) + Power(e) * Value(u)
            BY <1>9, <2>3, ValueConcat
        <3> QED BY <1>10, <2>3, <2>4, <3>1
    <2>6. Power(e) = x * y
        BY <1>11, <2>2, PowerSum
    <2>7. (a + x * S) + (x * y) * U = a + x * (S + y * U)
        OBVIOUS
    <2>8. e + n = len
        BY <1>0, <2>2
    <2> QED BY <2>5, <2>6, <2>7, <2>8
<1>16. R = a + x * (b + y * c)
    BY <1>5, <1>10, <1>11
<1>17. a + x * (S + y * U) = (R + x * d) - (x * (y * w)) * q
    <2>1. y * (U + w * q) = y * (c + o)
        BY <1>13
    <2>2. PICK yo \in Int, yU \in Int, yc \in Int, ywq \in Int :
              yo = y * o /\ yU = y * U /\ yc = y * c /\ ywq = y * (w * q)
        OBVIOUS
    <2>3. yU + ywq = yc + yo
        BY <2>1, <2>2
    <2>4. S + yU = (b + yc) + d - ywq
        BY <1>13, <2>2, <2>3
    <2>5. x * (S + yU) = x * ((b + yc) + d - ywq)
        BY <2>4
    <2>6. x * ((b + yc) + d - ywq) = x * (b + yc) + x * d - x * ywq
        OBVIOUS
    <2>7. x * ywq = (x * (y * w)) * q
        BY <2>2
    <2> QED BY <1>16, <2>2, <2>5, <2>6, <2>7
<1>18. PICK A \in Nat, B \in Nat, T \in Int : A = R + x * d /\ B = x * (y * w) /\ T = B * q
    OBVIOUS
<1>19. A < B /\ A - T >= 0
    <2>1. A < B
        BY <1>0a, <1>10, <1>11, <1>14, <1>18
    <2>2. a + x * (S + y * U) >= 0
        OBVIOUS
    <2> QED BY <1>17, <1>18, <2>1, <2>2
<1>20. q = 0
    <2>1. ASSUME q >= 1 PROVE FALSE
        <3>1. B * q >= B
            BY <2>1
        <3> QED BY <1>18, <1>19, <3>1
    <2> QED BY <2>1
<1>21. T = 0
    BY <1>18, <1>20
<1> QED BY <1>10, <1>11, <1>15, <1>17, <1>18, <1>21 DEF z

LEMMA MiddleBounds ==
    ASSUME NEW P \in Nat, NEW g \in Nat, g >= 4, P >= 1,
           NEW a \in Nat, NEW b \in Nat, NEW c \in Nat, NEW d \in Nat,
           a < P, b < P, c < 2 * P, d < 2 * P
    PROVE  a * d + c * b \in 0 .. g * (P * P) - 1
<1>1. a * d <= P * d /\ P * d <= P * (2 * P - 1)
    OBVIOUS
<1>2. c * b <= c * P /\ c * P <= (2 * P - 1) * P
    OBVIOUS
<1>3. a * d >= 0 /\ c * b >= 0
    OBVIOUS
<1>4. PICK S \in Nat : S = P * P
    OBVIOUS
<1>5. P * (2 * P - 1) = 2 * S - P /\ (2 * P - 1) * P = 2 * S - P
    BY <1>4
<1>6. g * S >= 4 * S
    BY <1>4
<1> QED BY <1>1, <1>2, <1>3, <1>4, <1>5, <1>6

\* The product of two numbers of two parts each, as Karatsuba's method takes it
\* apart.
LEMMA ProductOfParts ==
    ASSUME NEW P \in Int, NEW a \in Int, NEW b \in Int, NEW c \in Int, NEW d \in Int
    PROVE  /\ (a + P * c) * (b + P * d) = (a * b + (P * P) * (c * d)) + P * (a * d + c * b)
           /\ ((a + c) * (b + d) - a * b) - c * d = a * d + c * b
<1>1. PICK ab \in Int, ad \in Int, cb \in Int, cd \in Int :
          ab = a * b /\ ad = a * d /\ cb = c * b /\ cd = c * d
    OBVIOUS
<1>2. (a + c) * (b + d) = ab + ad + cb + cd
    BY <1>1
<1>3. (a + P * c) * (b + P * d) = ab + P * ad + P * cb + (P * P) * cd
    BY <1>1
<1>4. P * (ad + cb) = P * ad + P * cb
    OBVIOUS
<1> QED BY <1>1, <1>2, <1>3, <1>4

\* lo and hi are the products of the parts, m is what is left of the mixed ones.
MiddleAdds(z, h, k, lo, hi, a, b, c, d) ==
    /\ z \in Numbers((h + h) + ((h + 1) + k))
    /\ Value(z) = (a + Power(h) * c) * (b + Power(h) * d)

LEMMA MiddleAdded ==
    ASSUME NEW h \in Nat, NEW k \in Nat,
           NEW lo \in Numbers(h + h), NEW hi \in Numbers((h + 1) + k), NEW m,
           NEW a \in Nat, NEW b \in Nat, NEW c \in Nat, NEW d \in Nat,
           a < Power(h), b < Power(h), c < 2 * Power(h), d < 2 * Power(h),
           Value(lo) = a * b, Value(hi) = c * d,
           IsLeft(m, a * d + c * b, (h + h) + 1),
           (a + Power(h) * c) * (b + Power(h) * d) < Power((h + h) + ((h + 1) + k))
    PROVE  MiddleAdds(AddMiddle(lo \o hi, m, h), h, k, lo, hi, a, b, c, d)
<1> DEFINE r == lo \o hi
           z == AddMiddle(r, m, h)
<1>1. PICK i \in Nat, j \in Nat, l \in Nat :
          i = h + h /\ j = (h + h) + 1 /\ l = (h + 1) + k
    OBVIOUS
<1>2. PICK P \in Nat, g \in Nat : P = Power(h) /\ g = Base /\ g >= 4 /\ P >= 1
    BY PowerLaws, BaseFacts
<1>3. Power(i) = P * P /\ Power(j) = g * (P * P)
    <2>1. Power(i) = P * P
        BY <1>1, <1>2, PowerSum
    <2>2. Power(i + 1) = Base * Power(i)
        BY PowerLaws
    <2> QED BY <1>1, <1>2, <2>1, <2>2
<1>4. PICK M \in Nat : M = a * d + c * b /\ M < g * (P * P)
    BY <1>2, MiddleBounds
<1>5. m \in Numbers(j) /\ Value(m) = M
    <2>1. m \in Numbers(j) /\ Congruent(Value(m), M, Power(j))
        BY <1>1, <1>4 DEF IsLeft
    <2>2. PICK q \in Nat, v \in Nat : q = Power(j) /\ v = Value(m) /\ v < q
        BY <2>1, ValueInNat, PowerLaws
    <2>3. v \in 0 .. q - 1 /\ M \in 0 .. q - 1 /\ Congruent(v, M, q)
        BY <1>3, <1>4, <2>1, <2>2
    <2>4. v = M
        BY <2>3, CongruentSame
    <2> QED BY <2>1, <2>2, <2>4
<1>6. r \in Numbers(i + l) /\ Value(r) = a * b + (P * P) * (c * d)
    <2>1. lo \in Numbers(i) /\ hi \in Numbers(l)
        BY <1>1
    <2>2. lo \o hi \in Numbers(i + l) /\ Value(lo \o hi) = Value(lo) + Power(i) * Value(hi)
        BY <2>1, ValueConcat
    <2> QED BY <1>3, <2>2
<1> HIDE DEF r
<1>7. PICK x \in Nat, n \in Nat : x = k + 0 /\ n = h + (j + x)
    OBVIOUS
<1>8. i + l = n
    BY <1>1, <1>7
<1>9. PICK T \in Nat, R \in Nat : T = (a + P * c) * (b + P * d) /\ R = a * b + (P * P) * (c * d)
    OBVIOUS
<1>10. T = R + P * M
    BY <1>4, <1>9, ProductOfParts
<1>11. T < Power(n)
    <2>1. (h + h) + ((h + 1) + k) = n
        BY <1>1, <1>8
    <2> QED BY <1>2, <1>9, <2>1, Zenon
<1>12. Value(r) + Power(h) * Value(m) = T
    BY <1>2, <1>5, <1>6, <1>9, <1>10
<1>13. r \in Numbers(n) /\ Value(r) + Power(h) * Value(m) < Power(n)
    BY <1>6, <1>8, <1>11, <1>12
<1>14. z \in Numbers(n) /\ Value(z) = Value(r) + Power(h) * Value(m)
    <2>1. HasRoom(r, m, h, j, n)
        BY <1>5, <1>7, <1>13 DEF HasRoom
    <2> QED BY <2>1, AddMiddleExact
<1> HIDE DEF z
<1>15. (h + h) + ((h + 1) + k) = n
    BY <1>1, <1>7
<1>16. z \in Numbers((h + h) + ((h + 1) + k)) /\ Value(z) = (a + Power(h) * c) * (b + Power(h) * d)
    BY <1>2, <1>9, <1>12, <1>14, <1>15, Zenon
<1> QED BY <1>16 DEF z, r, MiddleAdds

LEMMA TwiceTakenOff ==
    ASSUME NEW n \in Nat, NEW x \in Numbers(n), NEW y \in Numbers(n), NEW t \in Numbers(n + (1 + 1))
    PROVE  IsLeft(TakeOff(TakeOff(t, x), y), (Value(t) - Value(x)) - Value(y), n + 1)
<1> DEFINE d == TakeOff(t, x)
           z == TakeOff(d, y)
<1>1. PICK e \in Nat, m \in Nat, j \in Nat : e = 1 /\ m = 0 /\ j = n + (1 + m)
    OBVIOUS
<1>2. IsLeft(d, Value(t) - Value(x), n + 1)
    <2>1. t \in Numbers(n + (1 + e))
        BY <1>1
    <2> QED BY <2>1, TakeOffExact, Zenon
<1> HIDE DEF d
<1>3. d \in Numbers(n + (1 + m))
    <2>1. n + 1 = n + (1 + m)
        BY <1>1
    <2> QED BY <1>2, <2>1 DEF IsLeft
<1>4. IsLeft(z, Value(d) - Value(y), n + 1)
    BY <1>3, TakeOffExact, Zenon
<1> HIDE DEF z
<1>5. PICK T \in Nat, X \in Nat, Y \in Nat, D \in Nat, q \in Nat :
          T = Value(t) /\ X = Value(x) /\ Y = Value(y) /\ D = Value(d) /\ q = Power(n + 1)
    <2>1. t \in Numbers(n + 2) /\ n + 2 \in Nat /\ d \in Numbers(n + 1) /\ n + 1 \in Nat
        <3>1. n + (1 + 1) = n + 2
            OBVIOUS
        <3> QED BY <1>2, <3>1 DEF IsLeft
    <2>2. Value(t) \in Nat /\ Value(d) \in Nat /\ Value(x) \in Nat /\ Value(y) \in Nat
        BY <2>1, ValueInNat
    <2> QED BY <2>1, <2>2, PowerLaws, Zenon
<1>6. Congruent(D, T - X, q) /\ Congruent(Value(z), D - Y, q) /\ z \in Numbers(n + 1)
    BY <1>2, <1>4, <1>5 DEF IsLeft
<1>7. PICK u \in Int, v \in Int, Z \in Nat : u = T - X /\ v = D - Y /\ Z = Value(z)
    <2>1. n + 1 \in Nat
        OBVIOUS
    <2>2. Value(z) \in Nat
        BY <1>6, <2>1, ValueInNat
    <2> QED BY <2>2
<1>8. Congruent(v, u - Y, q)
    <2>1. Congruent(D, u, q) /\ Congruent(Y, Y, q)
        BY <1>6, <1>7, CongruentSelf
    <2>2. Congruent(D - Y, u - Y, q)
        BY <2>1, CongruentSum
    <2> QED BY <1>7, <2>2
<1>9. Congruent(Z, u - Y, q)
    <2>1. PICK w \in Int : w = u - Y
        OBVIOUS
    <2>2. Congruent(Z, v, q) /\ Congruent(v, w, q)
        BY <1>6, <1>7, <1>8, <2>1
    <2> QED BY <2>1, <2>2, CongruentChain
<1> QED BY <1>5, <1>6, <1>7, <1>9 DEF IsLeft, z, d

\* lo and hi are the products of the parts, t that of their sums.
IsParted(lo, hi, t, h, a, b, c, d) ==
    /\ lo \in Numbers(h + h) /\ hi \in Numbers(h + h) /\ t \in Numbers((h + 1) + (h + 1))
    /\ a < Power(h) /\ b < Power(h) /\ c < Power(h) /\ d < Power(h)
    /\ Value(lo) = a * b /\ Value(hi) = c * d /\ Value(t) = (a + c) * (b + d)

\* z is the product of the numbers with the parts a, c and b, d.
IsKaratsuba(z, h, a, b, c, d) ==
    /\ z \in Numbers((h + h) + (h + h))
    /\ Value(z) = (a + Power(h) * c) * (b + Power(h) * d)

\* Whatever computes the three products of halves exactly, the step of bigint.c
\* makes the exact product of them.
LEMMA KaratsubaExact ==
    ASSUME NEW h \in Nat, h >= 1, NEW lo, NEW hi, NEW t,
           NEW a \in Nat, NEW b \in Nat, NEW c \in Nat, NEW d \in Nat,
           IsParted(lo, hi, t, h, a, b, c, d)
    PROVE  IsKaratsuba(Karatsuba(lo, hi, t, h), h, a, b, c, d)
<1> DEFINE m == TakeOff(TakeOff(t, lo), hi)
           z == AddMiddle(lo \o hi, m, h)
<1>0. Karatsuba(lo, hi, t, h) = z
    BY DEF Karatsuba
<1>1. PICK n \in Nat, k \in Nat : n = h + h /\ h = 1 + k
    <2>1. h - 1 \in Nat /\ h = 1 + (h - 1)
        OBVIOUS
    <2> QED BY <2>1
<1>2. IsLeft(m, a * d + c * b, n + 1)
    <2>1. (h + 1) + (h + 1) = n + (1 + 1)
        BY <1>1
    <2>2. t \in Numbers(n + (1 + 1)) /\ lo \in Numbers(n) /\ hi \in Numbers(n)
        BY <1>1, <2>1 DEF IsParted
    <2>3. IsLeft(m, (Value(t) - Value(lo)) - Value(hi), n + 1)
        BY <2>2, TwiceTakenOff
    <2>4. (Value(t) - Value(lo)) - Value(hi) = a * d + c * b
        <3>1. ((a + c) * (b + d) - a * b) - c * d = a * d + c * b
            BY ProductOfParts
        <3> QED BY <3>1 DEF IsParted
    <2> QED BY <2>3, <2>4
<1> HIDE DEF m, z
<1>3. PICK P \in Nat : P = Power(h) /\ P >= 1
    BY PowerLaws
<1>4. (a + P * c) * (b + P * d) < Power((h + h) + (h + h))
    <2>1. a <= P - 1 /\ b <= P - 1 /\ c <= P - 1 /\ d <= P - 1
        BY <1>3 DEF IsParted
    <2>2. P * c <= P * (P - 1) /\ P * d <= P * (P - 1) /\ P * c >= 0 /\ P * d >= 0
        BY <2>1
    <2>3. PICK S \in Nat, x \in Nat, y \in Nat : S = P * P /\ x = a + P * c /\ y = b + P * d
        OBVIOUS
    <2>4. P * (P - 1) = S - P
        BY <2>3
    <2>5. x <= S - 1 /\ y <= S - 1 /\ S >= 1
        BY <2>1, <2>2, <2>3, <2>4
    <2>6. x * y <= x * (S - 1) /\ x * (S - 1) <= (S - 1) * (S - 1)
        BY <2>5
    <2>7. (S - 1) * (S - 1) = S * S - 2 * S + 1
        OBVIOUS
    <2>8. x * y < S * S
        BY <2>5, <2>6, <2>7
    <2>9. Power(n) = S /\ Power(n + n) = S * S
        BY <1>1, <1>3, <2>3, PowerSum
    <2> QED BY <1>1, <2>3, <2>8, <2>9
<1>5. (h + 1) + k = h + h
    BY <1>1
<1>6. MiddleAdds(z, h, k, lo, hi, a, b, c, d)
    <2>1. lo \in Numbers(h + h) /\ hi \in Numbers((h + 1) + k)
        BY <1>5 DEF IsParted
    <2>2. /\ a < Power(h) /\ b < Power(h) /\ c < 2 * Power(h) /\ d < 2 * Power(h)
          /\ Value(lo) = a * b /\ Value(hi) = c * d
        BY <1>3 DEF IsParted
    <2>3. IsLeft(m, a * d + c * b, (h + h) + 1)
        BY <1>1, <1>2
    <2>4. (a + Power(h) * c) * (b + Power(h) * d) < Power((h + h) + ((h + 1) + k))
        BY <1>3, <1>4, <1>5, Zenon
    <2> QED BY <2>1, <2>2, <2>3, <2>4, MiddleAdded, Zenon DEF z
<1> QED BY <1>0, <1>5, <1>6 DEF MiddleAdds, IsKaratsuba

LEMMA ProductBelow ==
    ASSUME NEW q \in Nat, NEW x \in Nat, NEW y \in Nat, x < q, y < q
    PROVE  x * y < q * q
<1>1. x * y <= x * q /\ x * q <= (q - 1) * q
    OBVIOUS
<1>2. (q - 1) * q = q * q - q /\ q * q \in Nat
    OBVIOUS
<1> QED BY <1>1, <1>2

\* The two halves of x, and their sum.
IsHalved(x, h, lo, hi, sum) ==
    /\ lo \in Numbers(h) /\ hi \in Numbers(h) /\ sum \in Numbers(h + 1) /\ sum[h + 1] \in {0, 1}
    /\ Value(x) = Value(lo) + Power(h) * Value(hi)
    /\ Value(sum) = Value(lo) + Value(hi)

LEMMA Halved ==
    ASSUME NEW h \in Nat, NEW x \in Numbers(h + h)
    PROVE  IsHalved(x, h, Part(x, 0, h), Part(x, h, h), HalfSum(x, h, 0))
<1> DEFINE lo == Part(x, 0, h)
           hi == Part(x, h, h)
           sum == HalfSum(x, h, 0)
<1>1. lo \in Numbers(h) /\ hi \in Numbers(h) /\ Value(x) = Value(lo) + Power(h) * Value(hi)
    BY ValueCut
<1>2. IsHalfSum(sum, x, h, 0)
    <2>1. PICK n \in Nat : n = h + h
        OBVIOUS
    <2>2. x \in Numbers(n) /\ h + h <= n
        BY <2>1
    <2> QED BY <2>2, HalfSumExact
<1> HIDE DEF sum
<1>3. sum \in Numbers(h + 1) /\ sum[h + 1] <= 0 + 1 /\ Value(sum) = Value(lo) + Value(hi) + Power(h) * 0
    BY <1>2 DEF IsHalfSum
<1> HIDE DEF lo, hi
<1>4. sum[h + 1] \in {0, 1}
    <2>1. PICK n \in Nat : n = h + 1 /\ n \in 1 .. n
        OBVIOUS
    <2>2. sum[n] \in Limb /\ sum[n] <= 1
        BY <1>3, <2>1, NumberIsSeq
    <2>3. sum[n] \in Nat
        BY <2>2, BaseFacts DEF Limb
    <2> QED BY <2>1, <2>2, <2>3
<1>5. Value(sum) = Value(lo) + Value(hi)
    <2>1. PICK q \in Nat, u \in Nat, v \in Nat : q = Power(h) /\ u = Value(lo) /\ v = Value(hi)
        BY <1>1, ValueInNat, PowerLaws
    <2>2. q * 0 = 0
        OBVIOUS
    <2> QED BY <1>3, <2>1, <2>2
<1> QED BY <1>1, <1>3, <1>4, <1>5 DEF IsHalved, lo, hi, sum

\* bigint_mul16, from three products by the schoolbook method.
LEMMA Mul16Exact ==
    ASSUME NEW a \in Numbers(H + H), NEW b \in Numbers(H + H)
    PROVE  ExactProduct(bigint_mul16(a, b), a, b, (H + H) + (H + H))
<1>1. PICK h \in Nat : h = H /\ h >= 1
    BY BaseFacts
<1> DEFINE a0 == Part(a, 0, h)
           a1 == Part(a, h, h)
           as == HalfSum(a, h, 0)
           b0 == Part(b, 0, h)
           b1 == Part(b, h, h)
           bs == HalfSum(b, h, 0)
           lo == bigint_mul(a0, b0)
           hi == bigint_mul(a1, b1)
           t == bigint_mul(as, bs)
<1>2. bigint_mul16(a, b) = Karatsuba(lo, hi, t, h)
    BY <1>1 DEF bigint_mul16
<1>3. IsHalved(a, h, a0, a1, as) /\ IsHalved(b, h, b0, b1, bs)
    <2>1. a \in Numbers(h + h) /\ b \in Numbers(h + h)
        BY <1>1
    <2> QED BY <2>1, Halved
<1> HIDE DEF a0, a1, as, b0, b1, bs
<1>4. /\ a0 \in Numbers(h) /\ a1 \in Numbers(h) /\ as \in Numbers(h + 1)
      /\ b0 \in Numbers(h) /\ b1 \in Numbers(h) /\ bs \in Numbers(h + 1)
    BY <1>3, Zenon DEF IsHalved
<1>5. ExactProduct(lo, a0, b0, h + h) /\ ExactProduct(hi, a1, b1, h + h)
    BY <1>4, MulExact
<1>6. ExactProduct(t, as, bs, (h + 1) + (h + 1))
    <2>1. PICK n \in Nat : n = h + 1
        OBVIOUS
    <2>2. as \in Numbers(n) /\ bs \in Numbers(n)
        BY <1>4, <2>1, Zenon
    <2>3. ExactProduct(t, as, bs, n + n)
        BY <2>2, MulExact, Zenon
    <2> QED BY <2>1, <2>3, Zenon
<1> HIDE DEF lo, hi, t
<1>7. PICK u \in Nat, v \in Nat, x \in Nat, y \in Nat :
          /\ u = Value(a0) /\ v = Value(b0) /\ x = Value(a1) /\ y = Value(b1)
          /\ u < Power(h) /\ v < Power(h) /\ x < Power(h) /\ y < Power(h)
    BY <1>4, ValueInNat
<1>8. IsParted(lo, hi, t, h, u, v, x, y)
    BY <1>3, <1>5, <1>6, <1>7 DEF IsParted, IsHalved, ExactProduct
<1> DEFINE z == Karatsuba(lo, hi, t, h)
<1>9. /\ z \in Numbers((h + h) + (h + h))
      /\ Value(z) = (u + Power(h) * x) * (v + Power(h) * y)
    <2>1. IsKaratsuba(Karatsuba(lo, hi, t, h), h, u, v, x, y)
        BY <1>1, <1>8, KaratsubaExact
    <2> QED BY <2>1, Zenon DEF IsKaratsuba, z
<1> HIDE DEF z
<1>10. Value(a) = u + Power(h) * x /\ Value(b) = v + Power(h) * y
    BY <1>3, <1>7 DEF IsHalved
<1> QED BY <1>1, <1>2, <1>9, <1>10 DEF z, ExactProduct

\* The same for a number of an odd limb, which is 0 or 1 and goes with the upper half.
IsLongHalved(x, h, lo, hi, sum) ==
    /\ lo \in Numbers(h) /\ hi \in Numbers(h + 1) /\ sum \in Numbers(h + 1)
    /\ Value(hi) < 2 * Power(h)
    /\ Value(x) = Value(lo) + Power(h) * Value(hi)
    /\ Value(sum) = Value(lo) + Value(hi)

LEMMA LongHalved ==
    ASSUME NEW h \in Nat, NEW x \in Numbers((h + h) + 1), NEW top \in {0, 1}, top = x[(h + h) + 1]
    PROVE  IsLongHalved(x, h, Part(x, 0, h), Part(x, h, h + 1), HalfSum(x, h, top))
<1> DEFINE lo == Part(x, 0, h)
           mid == Part(x, h, h)
           hi == Part(x, h, h + 1)
           sum == HalfSum(x, h, top)
<1>1. PICK n \in Nat, m \in Nat : n = (h + h) + 1 /\ m = h + 1 /\ n = h + m
    OBVIOUS
<1>2. lo \in Numbers(h) /\ hi \in Numbers(m) /\ Value(x) = Value(lo) + Power(h) * Value(hi)
    <2>1. x \in Numbers(h + m)
        BY <1>1
    <2> QED BY <1>1, <2>1, ValueCut
<1>3. mid \in Numbers(h) /\ \A i \in 1 .. h : mid[i] = x[h + i]
    <2>1. x \in Numbers(n) /\ h \in 0 .. n - h
        BY <1>1
    <2> QED BY <2>1, PartOfNumber
<1>4. \A i \in 1 .. m : hi[i] = x[h + i]
    <2>1. x \in Numbers(n) /\ m \in 0 .. n - h
        BY <1>1
    <2> QED BY <1>1, <2>1, PartOfNumber
<1>5. IsHalfSum(sum, x, h, top)
    <2>1. x \in Numbers(n) /\ h + h <= n
        BY <1>1
    <2> QED BY <2>1, HalfSumExact
<1> HIDE DEF sum
<1>6. sum \in Numbers(h + 1) /\ Value(sum) = Value(lo) + Value(mid) + Power(h) * top
    BY <1>5 DEF IsHalfSum
<1> HIDE DEF lo, mid, hi
<1>7. Value(hi) = Value(mid) + Power(h) * top
    <2>1. hi \in [1 .. h + 1 -> Int] /\ mid \in [1 .. h -> Int]
        <3>1. hi \in [1 .. m -> Int]
            BY <1>2, NumbersAreInts
        <3> QED BY <1>1, <1>3, <3>1, NumbersAreInts, Zenon
    <2>2. \A i \in 1 .. h : hi[i] = mid[i]
        <3>1. \A i \in 1 .. h : i \in 1 .. m
            BY <1>1
        <3> QED BY <1>3, <1>4, <3>1
    <2>3. hi[h + 1] = top
        <3>1. m \in 1 .. m /\ h + m = (h + h) + 1
            BY <1>1
        <3>2. hi[m] = x[h + m]
            BY <1>4, <3>1
        <3> QED BY <1>1, <3>1, <3>2
    <2>4. Value(hi) = Value(mid) + Power(h) * hi[h + 1]
        BY <2>1, <2>2, ValueTop, Zenon
    <2> QED BY <2>3, <2>4
<1>8. PICK q \in Nat, u \in Nat, v \in Nat : q = Power(h) /\ u = Value(lo) /\ v = Value(mid) /\ v < q
    BY <1>2, <1>3, ValueInNat, PowerLaws
<1>9. v + q * top < 2 * q
    <2>1. q * 0 = 0 /\ q * 1 = q
        OBVIOUS
    <2> QED BY <1>8, <2>1
<1>10. Value(hi) < 2 * Power(h) /\ Value(sum) = Value(lo) + Value(hi)
    BY <1>6, <1>7, <1>8, <1>9
<1> QED BY <1>1, <1>2, <1>6, <1>10 DEF IsLongHalved, lo, hi, sum

\* The difference of the low limbs of two numbers.
LEMMA LowExact ==
    ASSUME NEW n \in Nat, NEW m \in Nat, NEW t \in Numbers(n + m), NEW x \in Numbers(n + m)
    PROVE  IsLeft(bigint_sub(Part(t, 0, n), Part(x, 0, n)).limb, Value(t) - Value(x), n)
<1> DEFINE t0 == Part(t, 0, n)
           t1 == Part(t, n, m)
           x0 == Part(x, 0, n)
           x1 == Part(x, n, m)
           d == bigint_sub(t0, x0)
<1>1. t0 \in Numbers(n) /\ t1 \in Numbers(m) /\ Value(t) = Value(t0) + Power(n) * Value(t1)
    BY ValueCut
<1>2. x0 \in Numbers(n) /\ x1 \in Numbers(m) /\ Value(x) = Value(x0) + Power(n) * Value(x1)
    BY ValueCut
<1> HIDE DEF t0, t1, x0, x1
<1>3. ExactBorrow(d, Value(t0) - Value(x0), n)
    BY <1>1, <1>2, SubExact
<1> HIDE DEF d
<1>4. PICK q \in Nat, a \in Nat, b \in Nat, e \in Nat, f \in Nat, o \in Nat, z \in Nat :
          /\ q = Power(n) /\ a = Value(t0) /\ b = Value(t1) /\ e = Value(x0) /\ f = Value(x1)
          /\ o = d.out /\ z = Value(d.limb)
    <2>1. Value(t0) \in Nat /\ Value(t1) \in Nat /\ Value(x0) \in Nat /\ Value(x1) \in Nat
        BY <1>1, <1>2, ValueInNat
    <2>2. d.out \in Nat /\ Value(d.limb) \in Nat
        BY <1>3, ValueInNat DEF ExactBorrow
    <2> QED BY <2>1, <2>2, PowerLaws, Zenon
<1>5. z = (a - e) + q * o /\ d.limb \in Numbers(n)
    BY <1>3, <1>4 DEF ExactBorrow
<1>6. PICK v \in Int, k \in Int : v = (a + q * b) - (e + q * f) /\ k = o - (b - f)
    OBVIOUS
<1>7. z = v + k * q
    <2>1. k * q = q * o - (q * b - q * f)
        BY <1>6
    <2> QED BY <1>5, <1>6, <2>1
<1>8. Congruent(z, v, q)
    <2>1. z \in Int /\ q \in Int
        OBVIOUS
    <2> QED BY <1>7, <2>1, CongruentBy, Zenon
<1>9. Value(t) - Value(x) = v
    BY <1>1, <1>2, <1>4, <1>6
<1> QED BY <1>4, <1>5, <1>8, <1>9 DEF IsLeft, d, t0, x0

\* A number of 2h + 1 limbs, the last of them 0 or 1.
Long(h) == {x \in Numbers((h + h) + 1) : x[(h + h) + 1] \in {0, 1}}

\* bigint_mul16c, for the sums that are one limb longer, the last at most 1.
LEMMA Mul16cExact ==
    ASSUME NEW a \in Long(H), NEW b \in Long(H)
    PROVE  ExactProduct(bigint_mul16c(a, b), a, b, ((H + H) + 1) + ((H + H) + 1))
<1>1. PICK h \in Nat, n \in Nat, j \in Nat : h = H /\ h >= 1 /\ n = h + 1 /\ j = (h + h) + 1
    BY BaseFacts
<1>2. 2 * H = h + h /\ 2 * H + 1 = (h + h) + 1 /\ H = h
    BY <1>1
<1>3. PICK p0 \in {0, 1}, p1 \in {0, 1} : p0 = a[(h + h) + 1] /\ p1 = b[(h + h) + 1]
    BY <1>1 DEF Long
<1> DEFINE a0 == Part(a, 0, h)
           a1 == Part(a, h, h + 1)
           as == HalfSum(a, h, p0)
           b0 == Part(b, 0, h)
           b1 == Part(b, h, h + 1)
           bs == HalfSum(b, h, p1)
           lo == bigint_mul(a0, b0)
           hi == bigint_mul(a1, b1)
           t == bigint_mul(as, bs)
           low == bigint_sub(Part(t, 0, j), Part(hi, 0, j)).limb
           m == TakeOff(low, lo)
           z == AddMiddle(lo \o hi, m, h)
<1>4. bigint_mul16c(a, b) = z
    BY <1>1, <1>2, <1>3 DEF bigint_mul16c
<1>5. IsLongHalved(a, h, a0, a1, as) /\ IsLongHalved(b, h, b0, b1, bs)
    <2>1. a \in Numbers((h + h) + 1) /\ b \in Numbers((h + h) + 1)
        BY <1>1 DEF Long
    <2> QED BY <1>3, <2>1, LongHalved
<1> HIDE DEF a0, a1, as, b0, b1, bs
<1>6. /\ a0 \in Numbers(h) /\ a1 \in Numbers(n) /\ as \in Numbers(n)
      /\ b0 \in Numbers(h) /\ b1 \in Numbers(n) /\ bs \in Numbers(n)
    BY <1>1, <1>5, Zenon DEF IsLongHalved
<1>7. ExactProduct(lo, a0, b0, h + h) /\ ExactProduct(hi, a1, b1, n + n) /\ ExactProduct(t, as, bs, n + n)
    BY <1>6, MulExact, Zenon
<1> HIDE DEF lo, hi, t
<1>8. lo \in Numbers(h + h) /\ hi \in Numbers(n + n) /\ t \in Numbers(n + n)
    BY <1>7 DEF ExactProduct
<1>9. PICK u \in Nat, v \in Nat, x \in Nat, y \in Nat :
          /\ u = Value(a0) /\ v = Value(b0) /\ x = Value(a1) /\ y = Value(b1)
          /\ u < Power(h) /\ v < Power(h) /\ x < 2 * Power(h) /\ y < 2 * Power(h)
    <2>1. Value(a0) \in Nat /\ Value(a0) < Power(h) /\ Value(b0) \in Nat /\ Value(b0) < Power(h)
        BY <1>6, ValueInNat
    <2>2. Value(a1) \in Nat /\ Value(b1) \in Nat
        BY <1>6, ValueInNat
    <2>3. Value(a1) < 2 * Power(h) /\ Value(b1) < 2 * Power(h)
        BY <1>5 DEF IsLongHalved
    <2> QED BY <2>1, <2>2, <2>3
<1>10. Value(lo) = u * v /\ Value(hi) = x * y /\ Value(t) = (u + x) * (v + y)
    BY <1>5, <1>7, <1>9 DEF ExactProduct, IsLongHalved
<1>11. IsLeft(low, Value(t) - Value(hi), j)
    <2>1. PICK e \in Nat : e = 1 /\ n + n = j + e
        BY <1>1
    <2>2. t \in Numbers(j + e) /\ hi \in Numbers(j + e)
        BY <1>8, <2>1
    <2> QED BY <2>2, LowExact
<1> HIDE DEF low
<1>12. IsLeft(m, Value(low) - Value(lo), j)
    <2>1. PICK e \in Nat, i \in Nat : e = 0 /\ i = h + h /\ i + (1 + e) = j /\ i + 1 = j
        BY <1>1
    <2>2. lo \in Numbers(i) /\ low \in Numbers(i + (1 + e))
        BY <1>8, <1>11, <2>1 DEF IsLeft
    <2>3. IsLeft(TakeOff(low, lo), Value(low) - Value(lo), i + 1)
        BY <2>2, TakeOffExact, Zenon
    <2> QED BY <2>1, <2>3
<1> HIDE DEF m
<1>13. IsLeft(m, u * y + x * v, j)
    <2>1. PICK T \in Nat, X \in Nat, Y \in Nat, D \in Nat, M \in Nat, q \in Nat :
              /\ T = Value(t) /\ X = Value(hi) /\ Y = Value(lo) /\ D = Value(low) /\ M = Value(m)
              /\ q = Power(j)
        <3>1. n + n \in Nat /\ h + h \in Nat
            OBVIOUS
        <3>2. low \in Numbers(j) /\ m \in Numbers(j)
            BY <1>11, <1>12 DEF IsLeft
        <3>3. Value(t) \in Nat /\ Value(hi) \in Nat /\ Value(lo) \in Nat
            BY <1>8, <3>1, ValueInNat
        <3>4. Value(low) \in Nat /\ Value(m) \in Nat
            BY <3>2, ValueInNat
        <3> QED BY <3>3, <3>4, PowerLaws, Zenon
    <2>2. PICK e \in Int, f \in Int, g \in Int : e = T - X /\ f = D - Y /\ g = e - Y
        OBVIOUS
    <2>3. Congruent(D, e, q) /\ Congruent(M, f, q)
        BY <1>11, <1>12, <2>1, <2>2 DEF IsLeft
    <2>4. Congruent(f, g, q)
        <3>1. Congruent(Y, Y, q)
            BY CongruentSelf
        <3>2. Congruent(D - Y, e - Y, q)
            BY <2>3, <3>1, CongruentSum
        <3> QED BY <2>2, <3>2
    <2>5. Congruent(M, g, q)
        BY <2>3, <2>4, CongruentChain
    <2>6. g = u * y + x * v
        <3>1. ((u + x) * (v + y) - u * v) - x * y = u * y + x * v
            BY ProductOfParts
        <3>2. g = (T - Y) - X
            BY <2>2
        <3> QED BY <1>10, <2>1, <3>1, <3>2
    <2> QED BY <1>12, <2>1, <2>5, <2>6 DEF IsLeft
<1>14. Value(a) = u + Power(h) * x /\ Value(b) = v + Power(h) * y
    BY <1>5, <1>9 DEF IsLongHalved
<1>15. (h + h) + ((h + 1) + n) = j + j /\ (h + 1) + n = n + n
    BY <1>1
<1>16. (u + Power(h) * x) * (v + Power(h) * y) < Power(j + j)
    <2>1. a \in Numbers(j) /\ b \in Numbers(j)
        BY <1>1 DEF Long
    <2>2. PICK A \in Nat, B \in Nat, q \in Nat : A = Value(a) /\ B = Value(b) /\ q = Power(j) /\ A < q /\ B < q
        BY <2>1, ValueInNat, PowerLaws
    <2>3. A * B < q * q
        BY <2>2, ProductBelow
    <2>4. Power(j + j) = q * q
        BY <2>2, PowerSum
    <2> QED BY <1>14, <2>2, <2>3, <2>4
<1>17. MiddleAdds(z, h, n, lo, hi, u, v, x, y)
    <2>1. hi \in Numbers((h + 1) + n)
        BY <1>8, <1>15
    <2>2. IsLeft(m, u * y + x * v, (h + h) + 1)
        BY <1>1, <1>13
    <2>3. (u + Power(h) * x) * (v + Power(h) * y) < Power((h + h) + ((h + 1) + n))
        BY <1>15, <1>16
    <2> QED BY <1>8, <1>9, <1>10, <2>1, <2>2, <2>3, MiddleAdded, Zenon
<1> HIDE DEF z
<1>18. z \in Numbers(j + j) /\ Value(z) = Value(a) * Value(b)
    BY <1>14, <1>15, <1>17 DEF MiddleAdds
<1> QED BY <1>1, <1>4, <1>18 DEF ExactProduct

\* bigint_mul32, the product the field uses.
LEMMA Mul32Exact ==
    ASSUME NEW a \in Numbers(N), NEW b \in Numbers(N)
    PROVE  ExactProduct(bigint_mul32(a, b), a, b, N + N)
<1>1. PICK h \in Nat : h = 2 * H /\ h = H + H /\ h >= 1 /\ N = h + h
    BY BaseFacts
<1> DEFINE a0 == Part(a, 0, h)
           a1 == Part(a, h, h)
           as == HalfSum(a, h, 0)
           b0 == Part(b, 0, h)
           b1 == Part(b, h, h)
           bs == HalfSum(b, h, 0)
           lo == bigint_mul16(a0, b0)
           hi == bigint_mul16(a1, b1)
           t == bigint_mul16c(as, bs)
<1>2. bigint_mul32(a, b) = Karatsuba(lo, hi, t, h)
    BY <1>1 DEF bigint_mul32
<1>3. IsHalved(a, h, a0, a1, as) /\ IsHalved(b, h, b0, b1, bs)
    <2>1. a \in Numbers(h + h) /\ b \in Numbers(h + h)
        BY <1>1
    <2> QED BY <2>1, Halved
<1> HIDE DEF a0, a1, as, b0, b1, bs
<1>4. /\ a0 \in Numbers(h) /\ a1 \in Numbers(h) /\ as \in Numbers(h + 1)
      /\ b0 \in Numbers(h) /\ b1 \in Numbers(h) /\ bs \in Numbers(h + 1)
    BY <1>3, Zenon DEF IsHalved
<1>5. ExactProduct(lo, a0, b0, h + h) /\ ExactProduct(hi, a1, b1, h + h)
    <2>1. a0 \in Numbers(H + H) /\ b0 \in Numbers(H + H) /\ a1 \in Numbers(H + H) /\ b1 \in Numbers(H + H)
        BY <1>1, <1>4
    <2>2. /\ ExactProduct(lo, a0, b0, (H + H) + (H + H))
          /\ ExactProduct(hi, a1, b1, (H + H) + (H + H))
        BY <2>1, Mul16Exact
    <2> QED BY <1>1, <2>2
<1>6. ExactProduct(t, as, bs, (h + 1) + (h + 1))
    <2>1. as \in Long(H) /\ bs \in Long(H)
        BY <1>1, <1>3, Zenon DEF Long, IsHalved
    <2>2. ExactProduct(t, as, bs, ((H + H) + 1) + ((H + H) + 1))
        BY <2>1, Mul16cExact, Zenon
    <2> QED BY <1>1, <2>2, Zenon
<1> HIDE DEF lo, hi, t
<1>7. PICK u \in Nat, v \in Nat, x \in Nat, y \in Nat :
          /\ u = Value(a0) /\ v = Value(b0) /\ x = Value(a1) /\ y = Value(b1)
          /\ u < Power(h) /\ v < Power(h) /\ x < Power(h) /\ y < Power(h)
    BY <1>4, ValueInNat
<1>8. IsParted(lo, hi, t, h, u, v, x, y)
    BY <1>3, <1>5, <1>6, <1>7 DEF IsParted, IsHalved, ExactProduct
<1> DEFINE z == Karatsuba(lo, hi, t, h)
<1>9. /\ z \in Numbers((h + h) + (h + h))
      /\ Value(z) = (u + Power(h) * x) * (v + Power(h) * y)
    <2>1. IsKaratsuba(Karatsuba(lo, hi, t, h), h, u, v, x, y)
        BY <1>1, <1>8, KaratsubaExact
    <2> QED BY <2>1, Zenon DEF IsKaratsuba, z
<1> HIDE DEF z
<1>10. Value(a) = u + Power(h) * x /\ Value(b) = v + Power(h) * y
    BY <1>3, <1>7 DEF IsHalved
<1> QED BY <1>1, <1>2, <1>9, <1>10 DEF z, ExactProduct

-----------------------------------------------------------------------------
(* The field.                                                              *)

\* The prime, and twice the prime, which is what 2C at the top is worth.
IsPrime(m, q, d) ==
    /\ m = p /\ q = Power(N - 1) /\ d = Power(N)
    /\ d = Base * q /\ m = TopBit * q - C /\ 2 * m = d - 2 * C
    /\ q >= Base * Base * Base /\ m > 2 * C

LEMMA PowersOfFew ==
    /\ Power(1) = Base /\ Power(2) = Base * Base /\ Power(3) = Base * Base * Base
<1>1. PICK i \in Nat, j \in Nat, g \in Nat : i = 1 /\ j = 2 /\ g = Base
    BY BaseFacts
<1>2. Power(0) = 1 /\ Power(0 + 1) = g * Power(0) /\ Power(i + 1) = g * Power(i) /\ Power(j + 1) = g * Power(j)
    BY <1>1, PowerLaws
<1>3. Power(1) = g
    <2>1. 0 + 1 = 1 /\ g * 1 = g
        OBVIOUS
    <2> QED BY <1>2, <2>1
<1>4. Power(2) = g * g
    <2>1. i + 1 = 2
        BY <1>1
    <2> QED BY <1>1, <1>2, <1>3, <2>1
<1>5. Power(3) = g * (g * g)
    <2>1. j + 1 = 3
        BY <1>1
    <2> QED BY <1>1, <1>2, <1>4, <2>1
<1>6. g * (g * g) = g * g * g
    OBVIOUS
<1> QED BY <1>1, <1>3, <1>4, <1>5, <1>6

\* The limbs of param_p are worth half of what N limbs can hold, less C.
LEMMA ThePrime ==
    /\ ParamP \in Numbers(N)
    /\ \E m \in Nat, q \in Nat, d \in Nat : IsPrime(m, q, d) /\ Value(ParamP) = m
<1>1. PICK n \in Nat, g \in Nat, h \in Nat, c \in Nat :
          /\ n = N /\ n >= 4 /\ g = Base /\ g >= 4 /\ h = TopBit /\ h >= 2 /\ g = 2 * h
          /\ c = C /\ c >= 1 /\ 2 * c <= g - 1
    BY BaseFacts
<1> DEFINE x == ParamP
<1>2. /\ x \in Numbers(N) /\ x[1] = g - c /\ x[n] = h - 1
      /\ \A i \in 2 .. n - 1 : x[i] = g - 1
    BY <1>1 DEF ParamP, Numbers, Limb
<1> HIDE DEF x
<1>3. x \in [1 .. n -> Int]
    BY <1>1, <1>2, NumbersAreInts
<1>4. /\ LowValue(x, 0) = 0 /\ LowValue(x, n) = Value(x)
      /\ \A i \in 0 .. n - 1 : LowValue(x, i + 1) = LowValue(x, i) + Power(i) * x[i + 1]
    BY <1>3, LowLaws
<1> DEFINE S == {i \in Nat : i + 2 <= n => LowValue(x, i + 1) = Power(i + 1) - c}
<1>5. 0 \in S
    <2>1. LowValue(x, 0 + 1) = LowValue(x, 0) + Power(0) * x[0 + 1]
        BY <1>1, <1>4
    <2>2. Power(0) = 1 /\ Power(0 + 1) = g * Power(0)
        BY <1>1, PowerLaws
    <2> QED BY <1>2, <1>4, <2>1, <2>2
<1>6. ASSUME NEW i \in Nat, i \in S PROVE i + 1 \in S
    <2> SUFFICES ASSUME (i + 1) + 2 <= n PROVE LowValue(x, (i + 1) + 1) = Power((i + 1) + 1) - c
        OBVIOUS
    <2>1. PICK j \in 0 .. n - 1 : j = i + 1 /\ j + 1 \in 2 .. n - 1
        OBVIOUS
    <2>2. LowValue(x, j) = Power(j) - c
        BY <1>6, <2>1
    <2>3. LowValue(x, j + 1) = LowValue(x, j) + Power(j) * x[j + 1] /\ x[j + 1] = g - 1
        BY <1>2, <1>4, <2>1
    <2>4. PICK q \in Nat : q = Power(j) /\ Power(j + 1) = g * q
        BY <1>1, PowerLaws
    <2>5. q * (g - 1) = g * q - q
        OBVIOUS
    <2> QED BY <2>1, <2>2, <2>3, <2>4, <2>5
<1> HIDE DEF S
<1>7. Nat \subseteq S
    BY <1>5, <1>6, NatSetInduction
<1>8. PICK k \in Nat, q \in Nat, d \in Nat :
          /\ k + 2 = n /\ q = Power(k + 1) /\ d = Power((k + 1) + 1) /\ d = g * q
    <2>1. n - 2 \in Nat /\ (n - 2) + 2 = n
        BY <1>1
    <2>2. PICK k \in Nat : k + 2 = n
        BY <2>1
    <2>3. PICK j \in Nat : j = k + 1
        OBVIOUS
    <2>4. PICK q \in Nat, d \in Nat : q = Power(j) /\ d = Power(j + 1)
        BY PowerLaws
    <2>5. d = g * q
        BY <1>1, <2>3, <2>4, PowerLaws
    <2> QED BY <2>2, <2>3, <2>4, <2>5
<1>9. Value(x) = (q - c) + q * (h - 1)
    <2>1. LowValue(x, k + 1) = q - c
        <3>1. k \in S
            BY <1>7
        <3> QED BY <1>8, <3>1 DEF S
    <2>2. k + 1 \in 0 .. n - 1 /\ (k + 1) + 1 = n
        BY <1>8
    <2> QED BY <1>2, <1>4, <1>8, <2>1, <2>2
<1>10. (q - c) + q * (h - 1) = h * q - c
    <2>1. q * (h - 1) = h * q - q
        OBVIOUS
    <2> QED BY <2>1
<1>11. q >= g * g * g
    <2>1. PICK j \in Nat, e \in Nat : k + 1 = e + j /\ e = 3
        <3>1. k - 2 \in Nat /\ k + 1 = 3 + (k - 2)
            BY <1>1, <1>8
        <3> QED BY <3>1
    <2>2. PICK a \in Nat, b \in Nat : a = Power(e) /\ b = Power(j) /\ b >= 1
        BY PowerLaws
    <2>3. q = a * b
        BY <1>8, <2>1, <2>2, PowerSum
    <2>4. a * b >= a
        BY <2>2
    <2>5. a = g * g * g
        BY <1>1, <2>1, <2>2, PowersOfFew
    <2> QED BY <2>3, <2>4, <2>5
<1>12. PICK m \in Int : m = h * q - c
    OBVIOUS
<1>13. 2 * m = d - 2 * c
    <2>1. g * q = 2 * (h * q)
        BY <1>1
    <2> QED BY <1>8, <1>12, <2>1
<1>14. m > 2 * c
    <2>1. g * g >= 4 * g
        BY <1>1
    <2>2. g * g * g >= 4 * (g * g)
        BY <1>1
    <2>3. h * q >= 2 * q
        BY <1>1
    <2> QED BY <1>1, <1>11, <1>12, <2>1, <2>2, <2>3
<1>15. m \in Nat
    BY <1>1, <1>14
<1>16. Value(x) = m
    BY <1>9, <1>10, <1>12
<1>17. k + 1 = N - 1 /\ (k + 1) + 1 = N
    BY <1>1, <1>8
<1>18. m = p
    BY <1>16 DEF p, x
<1>19. IsPrime(m, q, d)
    BY <1>1, <1>8, <1>11, <1>12, <1>13, <1>14, <1>17, <1>18 DEF IsPrime
<1> QED BY <1>2, <1>15, <1>16, <1>19 DEF x

LEMMA ModCongruent ==
    ASSUME NEW m \in Nat, m >= 1, NEW u \in Int
    PROVE  u % m \in 0 .. m - 1 /\ Congruent(u % m, u, m)
<1>1. PICK i \in Int, x \in 0 .. m - 1 : x = u % m /\ u = m * i + x
    <2>1. \A a \in Int : a = m * (a \div m) + (a % m) /\ a \div m \in Int /\ a % m \in 0 .. m - 1
        OBVIOUS
    <2> QED BY <2>1, Zenon
<1>2. PICK k \in Int : k = -i
    OBVIOUS
<1>3. x = u + k * m
    <2>1. (-i) * m = -(m * i)
        OBVIOUS
    <2> QED BY <1>1, <1>2, <2>1
<1>4. Congruent(x, u, m)
    <2>1. x \in Int
        BY <1>1
    <2> QED BY <1>3, <2>1, CongruentBy
<1> QED BY <1>1, <1>4

\* What is left of numbers congruent to each other is the same.
LEMMA ModSame ==
    ASSUME NEW m \in Nat, m >= 1, NEW u \in Int, NEW v \in Int, Congruent(u, v, m)
    PROVE  u % m = v % m
<1>1. PICK x \in Int, y \in Int :
          /\ x = u % m /\ x \in 0 .. m - 1 /\ Congruent(x, u, m)
          /\ y = v % m /\ y \in 0 .. m - 1 /\ Congruent(y, v, m)
    <2>1. u % m \in 0 .. m - 1 /\ Congruent(u % m, u, m)
        BY ModCongruent
    <2>2. v % m \in 0 .. m - 1 /\ Congruent(v % m, v, m)
        BY ModCongruent
    <2> QED BY <2>1, <2>2
<1>2. Congruent(x, v, m)
    BY <1>1, CongruentChain
<1>3. Congruent(v, y, m)
    BY <1>1, CongruentBack
<1>4. Congruent(x, y, m)
    BY <1>1, <1>2, <1>3, CongruentChain
<1> QED BY <1>1, <1>4, CongruentSame

LEMMA ModOfSmall == ASSUME NEW m \in Nat, NEW u \in 0 .. m - 1 PROVE u % m = u
OBVIOUS

LEMMA CongruentProduct ==
    ASSUME NEW m \in Int, NEW u \in Int, NEW v \in Int, NEW x \in Int, NEW y \in Int,
           Congruent(u, v, m), Congruent(x, y, m)
    PROVE  Congruent(u * x, v * y, m)
<1>1. PICK k \in Int, l \in Int : u = v + k * m /\ x = y + l * m
    BY Zenon DEF Congruent
<1>2. PICK j \in Int, e \in Int, f \in Int : j = v * l + k * x /\ e = u * x /\ f = v * y
    OBVIOUS
<1>3. e = f + j * m
    <2>1. (v + k * m) * x = v * x + (k * x) * m
        OBVIOUS
    <2>2. v * (y + l * m) = v * y + (v * l) * m
        OBVIOUS
    <2>3. (v * l + k * x) * m = (v * l) * m + (k * x) * m
        OBVIOUS
    <2> QED BY <1>1, <1>2, <2>1, <2>2, <2>3
<1> QED BY <1>2, <1>3, CongruentBy, Zenon

LEMMA PartWhole ==
    ASSUME NEW n \in Nat, NEW x \in Numbers(n)
    PROVE  Part(x, 0, n) = x
<1> DEFINE y == Part(x, 0, n)
<1>1. y \in Numbers(n) /\ \A i \in 1 .. n : y[i] = x[0 + i]
    BY PartOfNumber
<1>2. \A i \in 1 .. n : 0 + i = i
    OBVIOUS
<1> HIDE DEF y
<1>3. y \in [1 .. n -> Limb] /\ x \in [1 .. n -> Limb] /\ \A i \in 1 .. n : y[i] = x[i]
    BY <1>1, <1>2 DEF Numbers
<1>4. y = x
    BY <1>3
<1> QED BY <1>4 DEF y

\* The low limbs of x replaced.
LEMMA PutLow ==
    ASSUME NEW m \in Nat, NEW n \in Nat, NEW x \in Numbers(m + n), NEW y \in Numbers(m)
    PROVE  /\ Put(x, 0, y) \in Numbers(m + n)
           /\ Part(x, 0, m) \in Numbers(m) /\ Part(x, m, n) \in Numbers(n)
           /\ Value(x) = Value(Part(x, 0, m)) + Power(m) * Value(Part(x, m, n))
           /\ Value(Put(x, 0, y)) = Value(y) + Power(m) * Value(Part(x, m, n))
<1> DEFINE z == Put(x, 0, y)
           hi == Part(x, m, n)
<1>1. DOMAIN x = 1 .. m + n /\ DOMAIN y = 1 .. m
    BY DEF Numbers
<1>2. z = [i \in 1 .. m + n |-> IF i \in 1 .. m THEN y[i] ELSE x[i]]
    <2>1. \A i \in 1 .. m + n : i - 0 = i
        OBVIOUS
    <2> QED BY <1>1, <2>1 DEF Put
<1>3. (\A i \in 1 .. m : y[i] \in Limb) /\ \A i \in 1 .. m + n : x[i] \in Limb
    BY DEF Numbers
<1>4. z \in Numbers(m + n)
    BY <1>2, <1>3 DEF Numbers
<1>5. /\ Part(x, 0, m) \in Numbers(m) /\ hi \in Numbers(n)
      /\ Value(x) = Value(Part(x, 0, m)) + Power(m) * Value(hi)
    BY ValueCut
<1>6. \A i \in 1 .. n : hi[i] = x[m + i]
    <2>1. m + n \in Nat /\ n \in 0 .. (m + n) - m
        OBVIOUS
    <2> QED BY <2>1, PartOfNumber
<1> HIDE DEF z, hi
<1>7. Joins(z, y, m, hi, n)
    <2>1. \A i \in 1 .. m : i \in 1 .. m + n
        OBVIOUS
    <2>2. \A i \in 1 .. n : m + i \in 1 .. m + n /\ m + i \notin 1 .. m
        OBVIOUS
    <2>3. \A i \in 1 .. m : z[i] = y[i]
        BY <1>2, <2>1
    <2>4. \A i \in 1 .. n : z[m + i] = hi[i]
        BY <1>2, <1>6, <2>2
    <2> QED BY <2>3, <2>4 DEF Joins
<1>8. z \in [1 .. m + n -> Int] /\ y \in [1 .. m -> Int] /\ hi \in [1 .. n -> Int]
    BY <1>4, <1>5, NumbersAreInts
<1>9. Value(z) = Value(y) + Power(m) * Value(hi)
    BY <1>7, <1>8, ValueJoins, Zenon
<1> QED BY <1>4, <1>5, <1>9 DEF z, hi

\* z is an element worth v.
IsWorth(z, v) == z \in Fe /\ Congruent(Value(z), v, p)

\* fe25519_add: what is above the prime's top bit comes back in, times C, and the
\* sum of that fits again.
LEMMA AddWorth ==
    ASSUME NEW a \in Fe, NEW b \in Fe
    PROVE  IsWorth(fe25519_add(a, b), Value(a) + Value(b))
<1>1. PICK m \in Nat, q \in Nat, d \in Nat : IsPrime(m, q, d)
    BY ThePrime
<1>2. PICK n \in Nat, k \in Nat, g \in Nat, h \in Nat, c \in Nat :
          /\ n = N /\ n = k + 1 /\ k >= 3 /\ g = Base /\ g >= 4 /\ h = TopBit /\ h >= 2 /\ g = 2 * h
          /\ c = C /\ c >= 1 /\ 2 * c <= g - 1
    <2>1. N - 1 \in Nat /\ N = (N - 1) + 1 /\ N - 1 >= 3
        BY BaseFacts
    <2> QED BY <2>1, BaseFacts
<1>3. m = p /\ q = Power(k) /\ d = Power(n) /\ d = g * q /\ m = h * q - c /\ q >= g * g * g
    <2>1. N - 1 = k
        BY <1>2
    <2> QED BY <1>1, <1>2, <2>1, Zenon DEF IsPrime
<1> DEFINE s == bigint_add(a, b)
           low == Part(s.limb, 0, k)
           x == s.limb[n]
           t == Chain(low, (2 * s.out + (x \div h)) * c)
           z == fe25519_add(a, b)
<1>4. z = Append(t.limb, ((x % h) + t.out) % g)
    <2>1. N - 1 = k
        BY <1>2
    <2> QED BY <1>2, <2>1 DEF fe25519_add
<1>5. a \in Numbers(n) /\ b \in Numbers(n)
    BY <1>2 DEF Fe
<1>6. ExactCarry(s, Value(a) + Value(b), n) /\ s.out \in {0, 1}
    BY <1>5, AddExact
<1> HIDE DEF s, z
<1>7. PICK y : y = s.limb
    OBVIOUS
<1>8. y \in Numbers(k + 1)
    BY <1>2, <1>6, <1>7 DEF ExactCarry
<1>9. low \in Numbers(k) /\ Value(y) = Value(low) + q * x /\ x \in 0 .. g - 1
    <2>1. low \in Numbers(k) /\ \A i \in 1 .. k : low[i] = y[i]
        <3>1. k + 1 \in Nat /\ k \in 0 .. (k + 1) - 0
            OBVIOUS
        <3>2. Part(y, 0, k) \in Numbers(k) /\ \A i \in 1 .. k : Part(y, 0, k)[i] = y[0 + i]
            BY <1>8, <3>1, PartOfNumber
        <3>3. \A i \in 1 .. k : 0 + i = i
            OBVIOUS
        <3> QED BY <1>7, <3>2, <3>3
    <2> HIDE DEF low
    <2>2. y \in [1 .. k + 1 -> Int] /\ low \in [1 .. k -> Int]
        <3>1. k + 1 \in Nat
            OBVIOUS
        <3> QED BY <1>8, <2>1, <3>1, NumbersAreInts
    <2>3. Value(y) = Value(low) + Power(k) * y[k + 1]
        BY <2>1, <2>2, ValueTop
    <2>4. y[k + 1] \in Limb
        <3>1. k + 1 \in 1 .. k + 1 /\ k + 1 \in Nat
            OBVIOUS
        <3> QED BY <1>8, <3>1, NumberIsSeq
    <2>5. y[k + 1] = x
        BY <1>2, <1>7
    <2> QED BY <1>2, <1>3, <2>1, <2>3, <2>4, <2>5 DEF Limb
<1> HIDE DEF low
<1>10. PICK X \in 0 .. g - 1, e \in 0 .. 1, l \in 0 .. h - 1 :
           X = x /\ e = x \div h /\ l = x % h /\ X = h * e + l
    <2>1. PICK X \in 0 .. g - 1 : X = x
        BY <1>9
    <2>2. X = h * (X \div h) + (X % h) /\ X % h \in 0 .. h - 1 /\ X \div h \in Int
        BY <1>2
    <2>3. PICK e \in Int, l \in 0 .. h - 1 : e = X \div h /\ l = X % h /\ X = h * e + l
        BY <2>2
    <2>4. e >= 0
        <3>1. ASSUME e <= -1 PROVE FALSE
            <4>1. h * e <= -h
                BY <3>1
            <4> QED BY <2>3, <4>1
        <3> QED BY <3>1
    <2>5. e <= 1
        <3>1. ASSUME e >= 2 PROVE FALSE
            <4>1. h * e >= h * 2
                BY <3>1
            <4> QED BY <1>2, <2>3, <4>1
        <3> QED BY <3>1
    <2>6. e \in 0 .. 1
        BY <2>4, <2>5
    <2> QED BY <2>1, <2>3, <2>6, Zenon
<1> HIDE DEF x
<1>11. PICK o \in 0 .. 1, f \in 0 .. 3, in \in Nat : o = s.out /\ f = 2 * o + e /\ in = f * c /\ in <= 3 * c
    <2>1. PICK o \in 0 .. 1 : o = s.out
        BY <1>6
    <2>2. PICK f \in 0 .. 3 : f = 2 * o + e
        OBVIOUS
    <2>3. f * c <= 3 * c /\ f * c \in Nat
        OBVIOUS
    <2> QED BY <2>1, <2>2, <2>3
<1>12. ExactCarry(t, Value(low) + in, k)
    <2>1. (2 * s.out + (x \div h)) * c = in
        BY <1>10, <1>11
    <2>2. in <= Word - Base
        <3>1. PICK w \in Nat : w = Word /\ w >= 4 * g
            BY <1>2, WordIs
        <3> QED BY <1>2, <1>11, <3>1
    <2> QED BY <1>9, <2>1, <2>2, NumberCarries
<1> HIDE DEF t
<1>13. PICK L \in Nat, T \in Nat, r \in Nat :
          L = Value(low) /\ L < q /\ T = Value(t.limb) /\ r = t.out /\ T + q * r = L + in
    <2>1. Value(low) \in Nat /\ Value(low) < q
        BY <1>3, <1>9, ValueInNat
    <2>2. t.limb \in Numbers(k) /\ t.out \in Nat
        BY <1>12 DEF ExactCarry
    <2>3. Value(t.limb) \in Nat
        BY <2>2, ValueInNat
    <2>4. Value(t.limb) + q * t.out = Value(low) + in
        BY <1>3, <1>12 DEF ExactCarry
    <2> QED BY <2>1, <2>2, <2>3, <2>4
<1>14. r <= 1
    <2>1. g * g * g >= 2 * g
        <3>1. g * g >= 4 * g
            BY <1>2
        <3>2. g * g * g >= 4 * (g * g)
            BY <1>2
        <3> QED BY <1>2, <3>1, <3>2
    <2>2. in <= q
        <3>1. PICK G \in Nat : G = g * g * g
            OBVIOUS
        <3>2. q >= G /\ G >= 2 * g
            BY <1>3, <2>1, <3>1
        <3> QED BY <1>2, <1>11, <3>2
    <2>3. ASSUME r >= 2 PROVE FALSE
        <3>1. q * r >= q * 2
            BY <2>3
        <3> QED BY <1>13, <2>2, <3>1
    <2> QED BY <2>3
<1>15. PICK v \in 0 .. g - 1 : v = l + r
    BY <1>2, <1>14
<1>16. z = Append(t.limb, v) /\ v \in Limb
    <2>1. v % g = v
        BY <1>2
    <2>2. ((x % h) + t.out) % g = v
        BY <1>10, <1>13, <1>15, <2>1
    <2> QED BY <1>2, <1>4, <2>2 DEF Limb
<1>17. z \in Numbers(n) /\ Value(z) = T + q * v
    <2>1. PICK u : u = t.limb
        OBVIOUS
    <2>2. u \in Numbers(k)
        BY <1>12, <2>1 DEF ExactCarry
    <2>3. Append(u, v) \in Numbers(k + 1) /\ Value(Append(u, v)) = Value(u) + Power(k) * v
        BY <1>16, <2>2, ValueAppend
    <2> QED BY <1>2, <1>3, <1>13, <1>16, <2>1, <2>3
<1>18. PICK A \in Nat, B \in Nat : A = Value(a) /\ B = Value(b) /\ (L + q * X) + d * o = A + B
    <2>1. Value(a) \in Nat /\ Value(b) \in Nat
        BY <1>5, ValueInNat
    <2>2. Value(y) + d * o = Value(a) + Value(b)
        BY <1>3, <1>6, <1>7, <1>11 DEF ExactCarry
    <2> QED BY <1>9, <1>10, <1>13, <2>1, <2>2
<1>19. T + q * v = (A + B) + (-f) * m
    <2>1. PICK qh \in Int, ql \in Int, qr \in Int, hqe \in Int, hqo \in Int :
              qh = h * q /\ ql = q * l /\ qr = q * r /\ hqe = (h * q) * e /\ hqo = (h * q) * o
        OBVIOUS
    <2>2. q * X = hqe + ql
        <3>1. q * (h * e + l) = (h * q) * e + q * l
            OBVIOUS
        <3> QED BY <1>10, <2>1, <3>1, Zenon
    <2>3. d * o = 2 * hqo
        <3>1. d = 2 * (h * q)
            BY <1>2, <1>3
        <3> QED BY <2>1, <3>1
    <2>4. q * v = ql + qr
        BY <1>15, <2>1
    <2>5. (-f) * m = in - (2 * hqo + hqe)
        <3>1. (-f) * (h * q - c) = f * c - f * (h * q)
            OBVIOUS
        <3>2. f * (h * q) = 2 * hqo + hqe
            BY <1>11, <2>1
        <3> QED BY <1>3, <1>11, <3>1, <3>2
    <2>6. PICK qX \in Int, do \in Int, qv \in Int, fm \in Int :
              qX = q * X /\ do = d * o /\ qv = q * v /\ fm = (-f) * m
        OBVIOUS
    <2>7. T + qr = L + in /\ (L + qX) + do = A + B
        BY <1>13, <1>18, <2>1, <2>6
    <2>8. qX = hqe + ql /\ do = 2 * hqo /\ qv = ql + qr /\ fm = in - (2 * hqo + hqe)
        BY <2>2, <2>3, <2>4, <2>5, <2>6
    <2>9. T + qv = (A + B) + fm
        BY <2>7, <2>8
    <2> QED BY <2>6, <2>9
<1>20. Congruent(Value(z), A + B, m)
    <2>1. PICK i \in Int, j \in Int, w \in Int : i = -f /\ j = A + B /\ w = T + q * v
        OBVIOUS
    <2>2. w = j + i * m
        BY <1>19, <2>1
    <2>3. Congruent(w, j, m)
        BY <2>2, CongruentBy
    <2> QED BY <1>17, <2>1, <2>3
<1> QED BY <1>2, <1>3, <1>17, <1>18, <1>20 DEF IsWorth, Fe, z

\* lo is what the three lowest limbs of x are worth, hi the others, v what y is
\* that takes their place.
LowReplaced(x, y, P, Q, lo, hi, v) ==
    /\ P = Base * Base * Base /\ P = Power(3) /\ Power(N) = P * Q
    /\ lo = Value(Part(x, 0, 3)) /\ lo < P /\ hi < Q /\ Value(x) = lo + P * hi
    /\ Part(x, 0, 3) \in Numbers(3)
    /\ v = Value(y) /\ v < P /\ Put(x, 0, y) \in Fe /\ Value(Put(x, 0, y)) = v + P * hi

LEMMA ThreeLimbs ==
    ASSUME NEW x \in Fe, NEW y \in Numbers(3)
    PROVE  \E P \in Nat, Q \in Nat, lo \in Nat, hi \in Nat, v \in Nat :
              LowReplaced(x, y, P, Q, lo, hi, v)
<1>1. PICK m \in Nat, n \in Nat : m = 3 /\ m + n = N
    <2>1. N - 3 \in Nat /\ 3 + (N - 3) = N
        BY BaseFacts
    <2> QED BY <2>1
<1>2. x \in Numbers(m + n) /\ y \in Numbers(m)
    BY <1>1 DEF Fe
<1> DEFINE low == Part(x, 0, m)
           high == Part(x, m, n)
           z == Put(x, 0, y)
<1>3. /\ z \in Numbers(m + n) /\ low \in Numbers(m) /\ high \in Numbers(n)
      /\ Value(x) = Value(low) + Power(m) * Value(high)
      /\ Value(z) = Value(y) + Power(m) * Value(high)
    BY <1>2, PutLow
<1> HIDE DEF low, high, z
<1>4. PICK P \in Nat, Q \in Nat : P = Power(m) /\ Q = Power(n) /\ Power(N) = P * Q
    <2>1. PICK P \in Nat, Q \in Nat : P = Power(m) /\ Q = Power(n)
        BY PowerLaws
    <2>2. Power(m + n) = Power(m) * Power(n)
        BY PowerSum
    <2> QED BY <1>1, <2>1, <2>2
<1>5. PICK l \in Nat, hi \in Nat, v \in Nat :
          l = Value(low) /\ l < P /\ hi = Value(high) /\ hi < Q /\ v = Value(y) /\ v < P
    <2>1. Value(low) \in Nat /\ Value(low) < P /\ Value(high) \in Nat /\ Value(high) < Q
        BY <1>3, <1>4, ValueInNat
    <2>2. Value(y) \in Nat /\ Value(y) < P
        BY <1>2, <1>4, ValueInNat
    <2> QED BY <2>1, <2>2
<1>6. P = Base * Base * Base
    BY <1>1, <1>4, PowersOfFew
<1>7. z \in Fe
    BY <1>1, <1>3 DEF Fe
<1>8. /\ l = Value(low) /\ l < P /\ hi < Q /\ Value(x) = l + P * hi /\ low \in Numbers(3)
      /\ v = Value(y) /\ v < P /\ z \in Fe /\ Value(z) = v + P * hi
    BY <1>1, <1>3, <1>4, <1>5, <1>7
<1>9. LowReplaced(x, y, P, Q, l, hi, v)
    BY <1>1, <1>4, <1>6, <1>8 DEF LowReplaced, low, z
<1> QED BY <1>9

\* fe25519_sub: each of two underflows is made good with 2C, and after the
\* second nothing can borrow from above the third limb.
LEMMA SubWorth ==
    ASSUME NEW a \in Fe, NEW b \in Fe
    PROVE  IsWorth(fe25519_sub(a, b), Value(a) - Value(b))
<1>1. PICK m \in Nat, d \in Nat : m = p /\ d = Power(N) /\ 2 * m = d - 2 * C
    BY ThePrime DEF IsPrime
<1>2. PICK n \in Nat, g \in Nat, c \in Nat :
          n = N /\ n >= 4 /\ g = Base /\ g >= 4 /\ c = C /\ c >= 1 /\ 2 * c <= g - 1
    BY BaseFacts
<1>3. PICK i3 \in Nat : i3 = 3
    OBVIOUS
<1> DEFINE s == bigint_sub(a, b)
           e == Borrow(s.limb, s.out * 2 * c)
           f == Borrow(Part(e.limb, 0, 3), e.out * 2 * c)
           z == fe25519_sub(a, b)
<1>4. z = Put(e.limb, 0, f.limb)
    BY <1>2 DEF fe25519_sub
<1>5. a \in Numbers(n) /\ b \in Numbers(n)
    BY <1>2 DEF Fe
<1>6. ExactBorrow(s, Value(a) - Value(b), n) /\ s.out \in {0, 1}
    <2>1. ExactBorrow(s, Value(a) - Value(b), n)
        BY <1>5, SubExact
    <2> QED BY <1>2, <2>1 DEF ExactBorrow
<1> HIDE DEF s, z
<1>7. PICK x : x = s.limb /\ x \in Numbers(n)
    BY <1>6 DEF ExactBorrow
<1>8. PICK o1 \in 0 .. 1, in1 \in Nat : o1 = s.out /\ in1 = 2 * c * o1 /\ in1 <= 2 * c /\ s.out * 2 * c = in1
    <2>1. CASE s.out = 0
        <3>1. 0 * 2 * c = 0 /\ 2 * c * 0 = 0
            OBVIOUS
        <3> QED BY <2>1, <3>1
    <2>2. CASE s.out = 1
        <3>1. 1 * 2 * c = 2 * c /\ 2 * c * 1 = 2 * c
            OBVIOUS
        <3> QED BY <2>2, <3>1
    <2> QED BY <1>6, <2>1, <2>2
<1>9. ExactBorrow(e, Value(x) - in1, n) /\ e.out \in {0, 1}
    <2>1. e = Borrow(x, in1) /\ in1 <= Base
        BY <1>2, <1>7, <1>8
    <2>2. ExactBorrow(e, Value(x) - in1, n)
        BY <1>7, <2>1, NumberBorrows
    <2> QED BY <1>2, <2>2 DEF ExactBorrow
<1> HIDE DEF e
<1>10. PICK y : y = e.limb /\ y \in Numbers(n) /\ y \in Fe
    BY <1>2, <1>9 DEF ExactBorrow, Fe
<1>11. PICK o2 \in 0 .. 1, in2 \in Nat : o2 = e.out /\ in2 = 2 * c * o2 /\ in2 <= 2 * c /\ e.out * 2 * c = in2
    <2>1. CASE e.out = 0
        <3>1. 0 * 2 * c = 0 /\ 2 * c * 0 = 0
            OBVIOUS
        <3> QED BY <2>1, <3>1
    <2>2. CASE e.out = 1
        <3>1. 1 * 2 * c = 2 * c /\ 2 * c * 1 = 2 * c
            OBVIOUS
        <3> QED BY <2>2, <3>1
    <2> QED BY <1>9, <2>1, <2>2
<1>12. Part(y, 0, 3) \in Numbers(3)
    BY <1>2, <1>3, <1>10, PartOfNumber, BaseFacts
<1>13. ExactBorrow(f, Value(Part(y, 0, 3)) - in2, 3)
    <2>1. f = Borrow(Part(y, 0, 3), in2) /\ in2 <= Base
        BY <1>2, <1>10, <1>11
    <2>2. 3 \in Nat
        OBVIOUS
    <2> QED BY <1>12, <2>1, <2>2, NumberBorrows
<1> HIDE DEF f
<1>14. f.limb \in Numbers(3) /\ f.out \in Nat /\ f.out \in {0, 1}
    BY <1>13 DEF ExactBorrow
<1>14a. PICK w : w = f.limb /\ w \in Numbers(3)
    BY <1>14
<1>14b. PICK P \in Nat, Q \in Nat, lo \in Nat, hi \in Nat, v \in Nat :
          LowReplaced(y, w, P, Q, lo, hi, v)
    BY <1>10, <1>14a, ThreeLimbs, Zenon
<1>14c. z = Put(y, 0, w)
    BY <1>4, <1>10, <1>14a
<1>15. /\ P = g * g * g /\ P = Power(3) /\ d = P * Q
       /\ lo = Value(Part(y, 0, 3)) /\ lo < P /\ hi < Q /\ Value(y) = lo + P * hi
       /\ v = Value(f.limb) /\ z \in Fe /\ Value(z) = v + P * hi
    BY <1>1, <1>2, <1>14a, <1>14b, <1>14c DEF LowReplaced
<1>16. PICK A \in Nat, B \in Nat, X \in Nat, Y \in Nat, o3 \in 0 .. 1 :
          /\ A = Value(a) /\ B = Value(b) /\ X = Value(x) /\ X < d /\ Y = Value(y) /\ Y < d
          /\ o3 = f.out /\ v < P
    <2>1. Value(a) \in Nat /\ Value(b) \in Nat
        BY <1>5, ValueInNat
    <2>2. Value(x) \in Nat /\ Value(x) < d /\ Value(y) \in Nat /\ Value(y) < d
        BY <1>1, <1>2, <1>7, <1>10, ValueInNat
    <2>3. v < P
        <3>1. 3 \in Nat
            OBVIOUS
        <3> QED BY <1>14, <1>15, <3>1, ValueInNat
    <2> QED BY <1>14, <2>1, <2>2, <2>3
<1>17. X = (A - B) + d * o1 /\ Y = (X - in1) + d * o2 /\ v = (lo - in2) + P * o3 /\ Y = lo + P * hi
    <2>1. X = (A - B) + d * o1
        BY <1>1, <1>2, <1>6, <1>7, <1>8, <1>16 DEF ExactBorrow
    <2>2. Y = (X - in1) + d * o2
        BY <1>1, <1>2, <1>9, <1>10, <1>11, <1>16 DEF ExactBorrow
    <2>3. v = (lo - in2) + P * o3
        BY <1>13, <1>15, <1>16 DEF ExactBorrow
    <2> QED BY <1>15, <1>16, <2>1, <2>2, <2>3, Zenon
\* An underflow leaves the three lowest limbs high.
<1>18. P >= 4 * c
    <2>1. g * g >= 4 * g
        BY <1>2
    <2>2. g * g * g >= 4 * (g * g)
        BY <1>2
    <2> QED BY <1>2, <1>15, <2>1, <2>2
<1>19. lo - in2 >= 0
    <2>1. CASE o2 = 0
        <3>1. 2 * c * 0 = 0
            OBVIOUS
        <3> QED BY <1>11, <2>1, <3>1
    <2>2. CASE o2 = 1
        <3>1. d * 1 = d
            BY <1>1
        <3>2. Y >= d - 2 * c
            BY <1>8, <1>17, <2>2, <3>1
        <3>3. P * hi <= P * (Q - 1) /\ P * (Q - 1) = P * Q - P
            BY <1>15
        <3>4. PICK Ph \in Int : Ph = P * hi
            OBVIOUS
        <3>5. Ph <= d - P
            BY <1>15, <3>3, <3>4
        <3>6. lo >= P - 2 * c
            BY <1>17, <3>2, <3>4, <3>5
        <3> QED BY <1>11, <1>18, <3>6
    <2> QED BY <2>1, <2>2
<1>20. o3 = 0
    <2>1. CASE o3 = 1
        <3>1. P * 1 = P
            OBVIOUS
        <3>2. v >= P
            BY <1>17, <1>19, <2>1, <3>1
        <3> QED BY <1>16, <3>2
    <2>2. CASE o3 = 0
        BY <2>2
    <2> QED BY <2>1, <2>2
<1>21. PICK j \in Int : j = 2 * (o1 + o2)
    OBVIOUS
<1>22. v + P * hi = (A - B) + j * m
    <2>1. PICK Ph \in Int, do1 \in Int, do2 \in Int, Po \in Int, co1 \in Int, co2 \in Int :
              /\ Ph = P * hi /\ do1 = d * o1 /\ do2 = d * o2 /\ Po = P * o3
              /\ co1 = 2 * c * o1 /\ co2 = 2 * c * o2
        OBVIOUS
    <2>2. Po = 0
        BY <1>20, <2>1
    <2>3. X = (A - B) + do1 /\ Y = (X - co1) + do2 /\ v = (lo - co2) + Po /\ Y = lo + Ph
        BY <1>8, <1>11, <1>17, <2>1, Zenon
    <2>4. j * m = (do1 + do2) - (co1 + co2)
        <3>1. j * m = (o1 + o2) * (2 * m)
            BY <1>21
        <3>2. (o1 + o2) * (d - 2 * c) = (d * o1 + d * o2) - (2 * c * o1 + 2 * c * o2)
            OBVIOUS
        <3>3. 2 * m = d - 2 * c
            BY <1>1, <1>2
        <3> QED BY <2>1, <3>1, <3>2, <3>3
    <2> QED BY <2>1, <2>2, <2>3, <2>4
<1>23. Congruent(v + P * hi, A - B, m)
    <2>1. PICK u \in Int, r \in Int : u = v + P * hi /\ r = A - B
        OBVIOUS
    <2>2. u = r + j * m
        BY <1>22, <2>1
    <2>3. Congruent(u, r, m)
        BY <2>2, CongruentBy
    <2> QED BY <2>1, <2>3
<1> QED BY <1>1, <1>15, <1>16, <1>23, Zenon DEF IsWorth, z

\* u is what the first loop of fe25519_mul leaves of a product, v what the
\* second one does; x is what the lower and y what the upper half of it is worth.
LEMMA FoldUpperExact ==
    ASSUME NEW t \in Numbers(N + N)
    PROVE  \E x \in Nat, y \in Nat :
              /\ x < Power(N) /\ y < Power(N) /\ Value(t) = x + Power(N) * y
              /\ ExactCarry(FoldUpper(t), x + 2 * C * y, N) /\ FoldUpper(t).out <= 2 * C
<1>1. PICK n \in Nat, d \in Nat, g \in Nat, c \in Nat, k \in Nat :
          /\ n = N /\ n >= 4 /\ d = Power(N) /\ g = Base /\ g >= 4
          /\ c = C /\ c >= 1 /\ 2 * c <= g - 1 /\ k = 2 * c
    <2>1. PICK n \in Nat, g \in Nat, c \in Nat, k \in Nat :
              /\ n = N /\ n >= 4 /\ g = Base /\ g >= 4
              /\ c = C /\ c >= 1 /\ 2 * c <= g - 1 /\ k = 2 * c
        BY BaseFacts
    <2>2. PICK d \in Nat : d = Power(N)
        BY BaseFacts, PowerLaws
    <2> QED BY <2>1, <2>2
<1> DEFINE lo == Part(t, 0, n)
           hi == Part(t, n, n)
           s == [i \in 1 .. n |-> k * t[n + i] + t[i]]
           u == Chain(s, 0)
<1>2. FoldUpper(t) = u
    BY <1>1 DEF FoldUpper
<1>3. t \in Numbers(n + n)
    BY <1>1
<1>4. lo \in Numbers(n) /\ hi \in Numbers(n) /\ Value(t) = Value(lo) + Power(n) * Value(hi)
    BY <1>3, ValueCut
<1>5. (\A i \in 1 .. n : lo[i] = t[0 + i]) /\ \A i \in 1 .. n : hi[i] = t[n + i]
    <2>1. n + n \in Nat /\ n \in 0 .. (n + n) - 0 /\ n \in 0 .. (n + n) - n /\ 0 \in Nat
        OBVIOUS
    <2>2. \A i \in 1 .. n : lo[i] = t[0 + i]
        BY <1>3, <2>1, PartOfNumber
    <2>3. \A i \in 1 .. n : hi[i] = t[n + i]
        BY <1>3, <2>1, PartOfNumber
    <2> QED BY <2>2, <2>3
<1> HIDE DEF lo, hi
<1>6. \A i \in 1 .. n : lo[i] = t[i] /\ lo[i] \in 0 .. g - 1 /\ hi[i] = t[n + i] /\ hi[i] \in 0 .. g - 1
    <2>1. \A i \in 1 .. n : 0 + i = i
        OBVIOUS
    <2>2. (\A i \in 1 .. n : lo[i] \in Limb) /\ \A i \in 1 .. n : hi[i] \in Limb
        BY <1>4, NumberIsSeq
    <2>3. \A i \in 1 .. n : lo[i] = t[i]
        BY <1>5, <2>1
    <2> QED BY <1>1, <1>5, <2>2, <2>3 DEF Limb
<1>7. PICK w \in Nat : w = Word /\ w = g * g
    BY <1>1, WordIs
<1>8. \A i \in 1 .. n : k * t[n + i] + t[i] \in 0 .. w - g
    <2> SUFFICES ASSUME NEW i \in 1 .. n PROVE k * t[n + i] + t[i] \in 0 .. w - g
        OBVIOUS
    <2>1. PICK x \in 0 .. g - 1, y \in 0 .. g - 1 : x = t[i] /\ y = t[n + i]
        BY <1>6
    <2>2. PICK e \in Nat : e = g - 1 /\ e + 1 = g
        BY <1>1
    <2>3. x + k * y \in 0 .. (e + 1) * (e + 1) - (e + 1)
        BY <1>1, <2>2, ProductOfLimbs
    <2>4. k * y \in Int /\ x + k * y = k * y + x
        OBVIOUS
    <2> QED BY <1>7, <2>1, <2>2, <2>3, <2>4
<1>9. s \in [1 .. n -> Int] /\ \A i \in 1 .. n : s[i] \in 0 .. w - g /\ s[i] = k * t[n + i] + t[i]
    BY <1>8
<1> HIDE DEF s
<1>10. Carriable(s, 0, n)
    <2>1. n > 0 => s[1] \in 0 .. w - g
        BY <1>9
    <2>2. n > 0 => s[1] + 0 < w
        BY <1>1, <1>7, <2>1
    <2> QED BY <1>1, <1>7, <1>9, <2>2, Zenon DEF Carriable
<1>11. Value(s) = Value(lo) + k * Value(hi)
    <2>1. lo \in [1 .. n -> Int] /\ hi \in [1 .. n -> Int] /\ k \in Int
        BY <1>4, NumbersAreInts
    <2>2. Combines(s, lo, k, hi, n)
        <3> SUFFICES ASSUME NEW i \in 1 .. n PROVE s[i] = lo[i] + k * hi[i]
            BY DEF Combines
        <3>1. PICK x \in Int, y \in Int : x = lo[i] /\ y = hi[i] /\ x = t[i] /\ y = t[n + i]
            BY <1>6
        <3>2. s[i] = k * y + x
            BY <1>9, <3>1
        <3> QED BY <3>1, <3>2
    <2> QED BY <1>9, <2>1, <2>2, ValueCombines, SMTT(30)
<1>12. PICK x \in Nat, y \in Nat : x = Value(lo) /\ y = Value(hi) /\ x < d /\ y < d
    BY <1>1, <1>4, ValueInNat
<1>13. ExactCarry(u, x + k * y, n)
    <2>1. ExactCarry(u, Value(s) + 0, n)
        BY <1>10, ChainExact
    <2>2. Value(s) + 0 = x + k * y
        BY <1>11, <1>12
    <2> QED BY <2>1, <2>2
<1> HIDE DEF u
<1>14. u.out <= k
    <2>1. PICK o \in Nat, l \in Nat : o = u.out /\ l + d * o = x + k * y
        <3>1. u.limb \in Numbers(n) /\ u.out \in Nat /\ Value(u.limb) + Power(n) * u.out = x + k * y
            BY <1>13 DEF ExactCarry
        <3>2. Value(u.limb) \in Nat
            BY <3>1, ValueInNat
        <3> QED BY <1>1, <3>1, <3>2
    <2>2. PICK dk \in Int : dk = d * k
        OBVIOUS
    <2>3. k * y <= dk - k
        <3>1. k * y <= k * (d - 1) /\ k * (d - 1) = k * d - k
            BY <1>12
        <3>2. k * d = dk
            BY <2>2
        <3> QED BY <3>1, <3>2
    <2>4. d * o < d + dk
        BY <1>12, <2>1, <2>3
    <2>5. ASSUME o >= k + 1 PROVE FALSE
        <3>1. d * o >= d * (k + 1) /\ d * (k + 1) = dk + d
            BY <2>2, <2>5
        <3> QED BY <2>4, <3>1
    <2> QED BY <2>1, <2>5
<1>15. Value(t) = x + d * y
    BY <1>1, <1>4, <1>12
<1> QED BY <1>1, <1>2, <1>12, <1>13, <1>14, <1>15

\* What carries out of the second loop of fe25519_mul, and when it does how small
\* the rest is.
IsFolded(v, x) ==
    /\ v.limb \in Fe /\ v.out \in {0, 1}
    /\ Congruent(Value(v.limb) + 2 * C * v.out, x, p)
    /\ v.out = 1 => Value(v.limb) < (2 * C) * (2 * C)

\* What comes back in fits the temporary.
LEMMA FoldedCarry ==
    ASSUME NEW o \in Nat, o <= 2 * C
    PROVE  /\ (o * 2 * C) % Word = 2 * C * o /\ 2 * C * o \in Nat
           /\ 2 * C * o <= Word - Base /\ 2 * C * o <= (2 * C) * (2 * C)
<1>1. PICK g \in Nat, c \in Nat, k \in Nat, w \in Nat :
          /\ g = Base /\ g >= 4 /\ c = C /\ k = 2 * c /\ k <= g - 1 /\ w = Word /\ w = g * g
    BY BaseFacts, WordIs
<1>2. o * 2 * c = k * o
    BY <1>1
<1>3. PICK x \in Nat : x = k * o
    OBVIOUS
<1>4. x <= k * k /\ k * k <= k * (g - 1) /\ k * (g - 1) <= (g - 1) * (g - 1)
    BY <1>1, <1>3
<1>5. (g - 1) * (g - 1) = g * g - 2 * g + 1
    OBVIOUS
<1>6. x <= w - g /\ x <= k * k
    BY <1>1, <1>4, <1>5
<1>7. x % w = x
    <2>1. x \in 0 .. w - 1
        BY <1>1, <1>6
    <2> QED BY <2>1, ModOfSmall
<1>8. k * o = 2 * c * o
    BY <1>1
<1> QED BY <1>1, <1>2, <1>3, <1>6, <1>7, <1>8

\* The first two loops of fe25519_mul after the product.
LEMMA MulFoldedExact ==
    ASSUME NEW a \in Fe, NEW b \in Fe
    PROVE  IsFolded(MulFolded(a, b), Value(a) * Value(b))
<1> DEFINE t == bigint_mul32(a, b)
           u == FoldUpper(t)
           v == MulFolded(a, b)
<1>1. PICK n \in Nat, m \in Nat, d \in Nat, c \in Nat, k \in Nat, g \in Nat :
          /\ n = N /\ n >= 4 /\ m = p /\ d = Power(n) /\ 2 * m = d - k
          /\ c = C /\ k = 2 * c /\ k <= g - 1 /\ g = Base /\ d >= g * g
    <2>1. PICK m \in Nat, q \in Nat, d \in Nat : IsPrime(m, q, d)
        BY ThePrime
    <2>2. PICK n \in Nat, c \in Nat, k \in Nat, g \in Nat :
              n = N /\ n >= 4 /\ c = C /\ k = 2 * c /\ k <= g - 1 /\ g = Base /\ g >= 4
        BY BaseFacts
    <2>3. m = p /\ d = Power(n) /\ 2 * m = d - k /\ d = g * q /\ q >= g * g * g
        BY <2>1, <2>2, Zenon DEF IsPrime
    <2>4. d >= g * g
        <3>1. PICK G \in Nat, F \in Nat : G = g * g /\ F = G * g
            OBVIOUS
        <3>2. F >= G /\ q >= F
            BY <2>2, <2>3, <3>1
        <3>3. g * q >= q
            BY <2>2
        <3> QED BY <2>3, <3>1, <3>2, <3>3
    <2> QED BY <2>2, <2>3, <2>4, Zenon
<1>2. ExactProduct(t, a, b, N + N)
    BY Mul32Exact DEF Fe
<1> HIDE DEF t
<1>3. PICK x \in Nat, y \in Nat :
          /\ x < Power(N) /\ y < Power(N) /\ Value(t) = x + Power(N) * y
          /\ ExactCarry(u, x + 2 * C * y, N) /\ u.out <= 2 * C
    BY <1>2, FoldUpperExact DEF ExactProduct
<1>4. v = Chain(Part(u.limb, 0, N), (u.out * 2 * C) % Word)
    BY DEF MulFolded, FoldCarry, t
<1> HIDE DEF u, v
<1>5. u.limb \in Numbers(n) /\ u.out \in Nat
    BY <1>1, <1>3 DEF ExactCarry
<1>61. PICK w : w = u.limb /\ w \in Numbers(n)
    BY <1>5
<1>6. PICK o \in Nat, in \in Nat : o = u.out /\ o <= k /\ in = k * o
    <2>1. k * u.out \in Nat
        BY <1>5
    <2> QED BY <1>1, <1>3, <1>5, <2>1
<1>7. v = Chain(w, in) /\ in <= Word - Base /\ in <= k * k
    <2>1. Part(u.limb, 0, N) = w
        BY <1>1, <1>61, PartWhole
    <2>2. (o * 2 * C) % Word = 2 * C * o /\ 2 * C * o <= Word - Base /\ 2 * C * o <= (2 * C) * (2 * C)
        BY <1>1, <1>6, FoldedCarry
    <2>3. 2 * C * o = in
        BY <1>1, <1>6
    <2> QED BY <1>1, <1>4, <1>6, <2>1, <2>2, <2>3
<1>8. ExactCarry(v, Value(w) + in, n)
    BY <1>61, <1>7, <1>6, NumberCarries
<1>9. v.limb \in Numbers(n) /\ v.out \in Nat
    BY <1>8 DEF ExactCarry
<1>10. PICK U \in Nat, V \in Nat, r \in Nat, A \in Nat, B \in Nat :
          /\ U = Value(w) /\ U < d /\ V = Value(v.limb) /\ V < d /\ r = v.out
          /\ A = Value(a) /\ B = Value(b)
    <2>1. Value(w) \in Nat /\ Value(w) < d /\ Value(v.limb) \in Nat /\ Value(v.limb) < d
        BY <1>1, <1>61, <1>9, ValueInNat
    <2>2. Value(a) \in Nat /\ Value(b) \in Nat
        BY <1>1, ValueInNat DEF Fe
    <2> QED BY <1>9, <2>1, <2>2
<1>11. U + d * o = x + k * y /\ V + d * r = U + in /\ A * B = x + d * y
    <2>1. U + d * o = x + k * y
        BY <1>1, <1>3, <1>6, <1>61, <1>10 DEF ExactCarry
    <2>2. V + d * r = U + in
        BY <1>1, <1>8, <1>10 DEF ExactCarry
    <2>3. A * B = x + d * y
        BY <1>1, <1>2, <1>3, <1>10 DEF ExactProduct
    <2> QED BY <2>1, <2>2, <2>3
<1>12. k * k < d
    <2>1. k * k <= k * (g - 1) /\ k * (g - 1) <= (g - 1) * (g - 1)
        BY <1>1
    <2>2. (g - 1) * (g - 1) = g * g - 2 * g + 1 /\ g >= 1
        BY <1>1
    <2> QED BY <1>1, <2>1, <2>2
<1>13. r <= 1
    <2>1. ASSUME r >= 2 PROVE FALSE
        <3>1. d * r >= d * 2
            BY <2>1
        <3> QED BY <1>7, <1>10, <1>11, <1>12, <3>1
    <2> QED BY <2>1
<1>14. r = 1 => V < k * k
    <2>1. d * 1 = d
        OBVIOUS
    <2> QED BY <1>7, <1>10, <1>11, <2>1
<1>15. PICK j \in Int : j = -(2 * (y + o + r))
    OBVIOUS
<1>16. V + k * r = A * B + j * m
    <2>1. PICK do \in Int, dr \in Int, dy \in Int, ko \in Int, kr \in Int, ky \in Int, AB \in Int :
              /\ do = d * o /\ dr = d * r /\ dy = d * y /\ ko = k * o /\ kr = k * r /\ ky = k * y
              /\ AB = A * B
        OBVIOUS
    <2>2. U + do = x + ky /\ V + dr = U + ko /\ AB = x + dy
        BY <1>6, <1>11, <2>1
    <2>3. j * m = (ky + ko + kr) - (dy + do + dr)
        <3>1. j * m = -((y + o + r) * (2 * m))
            BY <1>15
        <3>2. (y + o + r) * (d - k) = (d * y + d * o + d * r) - (k * y + k * o + k * r)
            OBVIOUS
        <3>3. (y + o + r) * (2 * m) = (y + o + r) * (d - k)
            BY <1>1, Zenon
        <3> QED BY <2>1, <3>1, <3>2, <3>3
    <2> QED BY <2>1, <2>2, <2>3
<1>17. Congruent(V + k * r, A * B, m)
    <2>1. PICK e \in Int, f \in Int : e = V + k * r /\ f = A * B
        OBVIOUS
    <2>2. e = f + j * m
        BY <1>16, <2>1
    <2>3. Congruent(e, f, m)
        BY <2>2, CongruentBy
    <2> QED BY <2>1, <2>3
<1>18. v.limb \in Fe /\ v.out \in {0, 1}
    <2>1. r \in {0, 1}
        BY <1>13
    <2> QED BY <1>1, <1>9, <1>10, <2>1 DEF Fe
<1>19. 2 * C * r = k * r
    BY <1>1
<1> QED BY <1>1, <1>10, <1>14, <1>17, <1>18, <1>19 DEF IsFolded, v

\* The third loop carries nothing out, not even out of two limbs.
LEMMA LastFold ==
    ASSUME NEW v, NEW x \in Int, IsFolded(v, x)
    PROVE  FoldCarry(v, 2).out = 0 /\ IsWorth(FoldLast(v), x)
<1>0a. PICK n \in Nat, c \in Nat, k \in Nat, g \in Nat :
          /\ n = N /\ n >= 4 /\ c = C /\ c >= 1 /\ k = 2 * c /\ k <= g - 1 /\ g = Base /\ g >= 4
    BY BaseFacts
<1>0b. PICK o \in Nat : o = v.out /\ o <= 1
    BY DEF IsFolded
<1>1. /\ g = Base /\ g >= 4 /\ c = C /\ c >= 1 /\ k = 2 * c /\ k <= g - 1 /\ o = v.out /\ o <= 1
      /\ n = N /\ n >= 4
    BY <1>0a, <1>0b
<1>2. PICK y : y = v.limb /\ y \in Fe /\ y \in Numbers(n)
    BY <1>1 DEF IsFolded, Fe
<1>3. PICK in \in Nat : in = (v.out * 2 * C) % Word /\ in = k * o /\ in <= Word - Base /\ in <= k
    <2>1. o <= 2 * C
        BY <1>1
    <2>2. (o * 2 * C) % Word = 2 * C * o /\ 2 * C * o \in Nat /\ 2 * C * o <= Word - Base
        BY <1>1, <2>1, FoldedCarry
    <2>3. 2 * C * o = k * o /\ k * o <= k
        BY <1>1
    <2> QED BY <1>1, <2>2, <2>3
<1>4. PICK Y \in Nat : Y = Value(y) /\ (o = 1 => Y < k * k)
    <2>1. Value(y) \in Nat
        BY <1>2, ValueInNat
    <2>2. v.out = 1 => Value(v.limb) < (2 * C) * (2 * C)
        BY DEF IsFolded
    <2> QED BY <1>1, <1>2, <2>1, <2>2
\* What the lowest i limbs hold has room for it.
<1>5. ASSUME NEW i \in {2, 3} PROVE FoldCarry(v, i).out = 0
    <2> DEFINE low == Part(y, 0, i)
               z == FoldCarry(v, i)
    <2>1. z = Chain(low, in)
        BY <1>2, <1>3 DEF FoldCarry
    <2>2. PICK l \in Nat, h \in Nat, e \in Nat : i = l /\ l + h = n /\ l >= 2 /\ l = 2 + e
        <3>1. n - i \in Nat /\ i + (n - i) = n /\ i - 2 \in Nat /\ i = 2 + (i - 2) /\ i \in Nat /\ i >= 2
            BY <1>1
        <3> QED BY <3>1
    <2>3. low \in Numbers(l) /\ \E w \in Nat, P \in Nat : P = Power(l) /\ Y = Value(low) + P * w
        <3>1. y \in Numbers(l + h)
            BY <1>2, <2>2
        <3>2. /\ Part(y, 0, l) \in Numbers(l) /\ Part(y, l, h) \in Numbers(h)
              /\ Value(y) = Value(Part(y, 0, l)) + Power(l) * Value(Part(y, l, h))
            BY <3>1, ValueCut
        <3>3. Value(Part(y, l, h)) \in Nat
            BY <3>2, ValueInNat
        <3> QED BY <1>4, <2>2, <3>2, <3>3, PowerLaws, Zenon
    <2> HIDE DEF low, z
    <2>4. ExactCarry(z, Value(low) + in, l)
        BY <1>3, <2>1, <2>3, NumberCarries
    <2>5. PICK L \in Nat, P \in Nat, w \in Nat, r \in Nat, Z \in Nat :
              /\ L = Value(low) /\ L < P /\ P = Power(l) /\ Y = L + P * w /\ r = z.out /\ Z = Value(z.limb)
              /\ Z + P * r = L + in
        <3>1. PICK w \in Nat, P \in Nat : P = Power(l) /\ Y = Value(low) + P * w
            BY <2>3
        <3>2. z.limb \in Numbers(l) /\ z.out \in Nat /\ Value(z.limb) + Power(l) * z.out = Value(low) + in
            BY <2>4 DEF ExactCarry
        <3>3. Value(low) \in Nat /\ Value(low) < Power(l) /\ Value(z.limb) \in Nat
            BY <2>3, <3>2, ValueInNat
        <3> QED BY <3>1, <3>2, <3>3, Zenon
    <2>6. L + in < P
        <3>1. CASE o = 0
            <4>1. k * 0 = 0
                OBVIOUS
            <4> QED BY <1>3, <2>5, <3>1, <4>1
        <3>2. CASE o = 1
            <4>1. L <= Y
                <5>1. P * w >= 0
                    OBVIOUS
                <5> QED BY <2>5, <5>1
            <4>2. L + in < k * k + k
                BY <1>3, <1>4, <3>2, <4>1
            <4>3. k * k + k <= g * g
                <5>1. k * k <= k * (g - 1) /\ k * (g - 1) <= (g - 1) * (g - 1)
                    BY <1>1
                <5>2. (g - 1) * (g - 1) = g * g - 2 * g + 1
                    OBVIOUS
                <5> QED BY <1>1, <5>1, <5>2
            <4>4. P >= g * g
                <5>1. PICK j \in Nat : j = 2
                    OBVIOUS
                <5>2. PICK Q \in Nat, R \in Nat : Q = Power(j) /\ R = Power(e) /\ R >= 1 /\ Q = g * g
                    BY <1>1, <5>1, PowerLaws, PowersOfFew
                <5>3. P = Q * R
                    BY <2>2, <2>5, <5>1, <5>2, PowerSum
                <5>4. Q * R >= Q
                    BY <5>2
                <5> QED BY <5>2, <5>3, <5>4
            <4> QED BY <4>2, <4>3, <4>4
        <3> QED BY <1>1, <3>1, <3>2
    <2>7. r = 0
        <3>1. ASSUME r >= 1 PROVE FALSE
            <4>1. P * r >= P
                BY <3>1
            <4> QED BY <2>5, <2>6, <4>1
        <3> QED BY <3>1
    <2> QED BY <2>5, <2>7 DEF z
<1> DEFINE f == FoldCarry(v, 3)
           z == FoldLast(v)
<1>6. f = Chain(Part(y, 0, 3), in) /\ z = Put(y, 0, f.limb) /\ f.out = 0
    <2>1. f.out = 0
        BY <1>5
    <2> QED BY <1>2, <1>3, <2>1 DEF FoldCarry, FoldLast
<1> HIDE DEF f, z
<1>7. ExactCarry(f, Value(Part(y, 0, 3)) + in, 3)
    <2>1. 3 \in Nat /\ 3 \in 0 .. n - 0 /\ 0 \in Nat
        BY <1>1
    <2>2. Part(y, 0, 3) \in Numbers(3)
        BY <1>2, <2>1, PartOfNumber
    <2> QED BY <1>3, <1>6, <2>1, <2>2, NumberCarries
<1>8. PICK w : w = f.limb /\ w \in Numbers(3)
    BY <1>7 DEF ExactCarry
<1>9. PICK P \in Nat, Q \in Nat, lo \in Nat, hi \in Nat, u \in Nat : LowReplaced(y, w, P, Q, lo, hi, u)
    BY <1>2, <1>8, ThreeLimbs, Zenon
<1>10. z \in Fe /\ Value(z) = u + P * hi /\ Y = lo + P * hi /\ u = lo + in
    <2>1. z \in Fe /\ Value(z) = u + P * hi /\ Y = lo + P * hi /\ P = Power(3) /\ u = Value(w) /\ lo = Value(Part(y, 0, 3))
        BY <1>4, <1>6, <1>8, <1>9 DEF LowReplaced
    <2>2. u + P * f.out = lo + in
        BY <1>7, <1>8, <2>1 DEF ExactCarry
    <2>3. P * 0 = 0
        OBVIOUS
    <2> QED BY <1>6, <2>1, <2>2, <2>3
<1>11. Value(z) = Y + k * o
    BY <1>3, <1>10
<1>12. Congruent(Y + k * o, x, p)
    <2>1. 2 * C * o = k * o
        BY <1>1
    <2> QED BY <1>1, <1>2, <1>4, <2>1 DEF IsFolded
<1>13. IsWorth(z, x)
    BY <1>10, <1>11, <1>12 DEF IsWorth
<1> QED BY <1>5, <1>13 DEF z

\* fe25519_mul: an element that is worth the product, and a third loop that
\* would carry nothing out of two limbs.
LEMMA MulWorth ==
    ASSUME NEW a \in Fe, NEW b \in Fe
    PROVE  /\ IsWorth(fe25519_mul(a, b), Value(a) * Value(b))
           /\ FoldCarry(MulFolded(a, b), 2).out = 0
<1> DEFINE v == MulFolded(a, b)
<1>1. IsFolded(v, Value(a) * Value(b))
    BY MulFoldedExact
<1> HIDE DEF v
<1>2. Value(a) * Value(b) \in Int
    <2>1. Value(a) \in Nat /\ Value(b) \in Nat
        BY ValueInNat, BaseFacts DEF Fe
    <2> QED BY <2>1
<1>3. FoldCarry(v, 2).out = 0 /\ IsWorth(FoldLast(v), Value(a) * Value(b))
    BY <1>1, <1>2, LastFold
<1> QED BY <1>3 DEF v, fe25519_mul

\* One turn of the loop of fe25519_freeze.
Reduced(r) == LET d == bigint_sub(r, ParamP) IN bigint_cmov(r, d.limb, 1 - d.out)

LEMMA ReducedIs ==
    ASSUME NEW r \in Fe
    PROVE  /\ Reduced(r) \in Fe
           /\ Value(Reduced(r)) = IF Value(r) < p THEN Value(r) ELSE Value(r) - p
<1> DEFINE d == bigint_sub(r, ParamP)
<1>1. Reduced(r) = IF 1 - d.out = 0 THEN r ELSE d.limb
    BY DEF Reduced, bigint_cmov
<1>0b. PICK y : y = ParamP /\ y \in Numbers(N) /\ Value(y) = p
    BY ThePrime DEF IsPrime
<1>2. PICK n \in Nat, m \in Nat : n = N /\ m = p /\ y = ParamP /\ y \in Numbers(n) /\ Value(y) = m
    BY <1>0b, ThePrime, BaseFacts DEF IsPrime
<1>3. r \in Numbers(n)
    BY <1>2 DEF Fe
<1>4. ExactBorrow(d, Value(r) - m, n) /\ d.out = IF Value(r) < m THEN 1 ELSE 0
    BY <1>2, <1>3, SubExact
<1> HIDE DEF d
<1>5. PICK v \in Nat, q \in Nat : v = Value(r) /\ q = Power(n)
    BY <1>3, ValueInNat, PowerLaws
<1>6. CASE v < m
    <2>1. 1 - d.out = 0
        BY <1>4, <1>5, <1>6
    <2> QED BY <1>1, <1>2, <1>5, <1>6, <2>1
<1>7. CASE ~(v < m)
    <2>1. d.out = 0
        BY <1>4, <1>5, <1>7
    <2>2. q * 0 = 0
        OBVIOUS
    <2>3. d.limb \in Numbers(n) /\ Value(d.limb) = v - m
        BY <1>4, <1>5, <2>1, <2>2 DEF ExactBorrow
    <2> QED BY <1>1, <1>2, <1>5, <1>7, <2>1, <2>3 DEF Fe
<1> QED BY <1>6, <1>7

\* Two subtractions are enough: a number of N limbs is less than three times the
\* prime.
LEMMA FreezeIs ==
    ASSUME NEW r \in Fe
    PROVE  fe25519_freeze(r) \in Fe /\ Value(fe25519_freeze(r)) = Value(r) % p
<1>1. fe25519_freeze(r) = Reduced(Reduced(r))
    BY DEF fe25519_freeze, Reduced
<1>2. PICK m \in Nat, d \in Nat, c \in Nat : m = p /\ d = Power(N) /\ 2 * m = d - 2 * c /\ m > 2 * c /\ c = C
    <2>1. PICK m \in Nat, q \in Nat, d \in Nat : IsPrime(m, q, d)
        BY ThePrime
    <2> QED BY <2>1, BaseFacts DEF IsPrime
<1>3. PICK s : s = Reduced(r)
    OBVIOUS
<1>4. PICK v \in Nat, w \in Int : v = Value(r) /\ v < d /\ w = Value(s) /\ s \in Fe /\ w = IF v < m THEN v ELSE v - m
    <2>1. Value(r) \in Nat /\ Value(r) < d
        BY <1>2, ValueInNat, BaseFacts DEF Fe
    <2>2. s \in Fe /\ Value(s) = IF Value(r) < m THEN Value(r) ELSE Value(r) - m
        BY <1>2, <1>3, ReducedIs
    <2> QED BY <1>2, <2>1, <2>2
<1>5. PICK x : x = Reduced(s) /\ x \in Fe /\ Value(x) = IF w < m THEN w ELSE w - m
    BY <1>2, <1>4, ReducedIs, Zenon
<1>6. PICK u \in 0 .. m - 1, j \in Int : u = Value(x) /\ u = v + j * m
    <2>1. CASE v < m
        <3>1. PICK j \in Int : j = 0 /\ v = v + j * m
            OBVIOUS
        <3> QED BY <1>4, <1>5, <2>1, <3>1
    <2>2. CASE ~(v < m) /\ v - m < m
        <3>1. PICK j \in Int : j = -1
            OBVIOUS
        <3>2. v - m = v + j * m
            BY <3>1
        <3>3. Value(x) = v - m /\ v - m \in 0 .. m - 1
            BY <1>4, <1>5, <2>2
        <3> QED BY <3>2, <3>3
    <2>3. CASE ~(v < m) /\ ~(v - m < m)
        <3>1. PICK j \in Int : j = -2
            OBVIOUS
        <3>2. v - m - m = v + j * m
            BY <3>1
        <3>3. Value(x) = v - m - m /\ v - m - m \in 0 .. m - 1
            BY <1>2, <1>4, <1>5, <2>3
        <3> QED BY <3>2, <3>3, Zenon
    <2> QED BY <2>1, <2>2, <2>3
<1>7. u % m = v % m
    <2>1. m >= 1 /\ u \in Int
        BY <1>2, <1>6
    <2>2. Congruent(u, v, m)
        <3>1. v \in Int /\ m \in Int
            OBVIOUS
        <3> QED BY <1>6, <2>1, <3>1, CongruentBy, Zenon
    <2>3. v \in Int
        OBVIOUS
    <2> QED BY <2>1, <2>2, <2>3, ModSame, Zenon
<1>8. u % m = u
    BY ModOfSmall
<1> QED BY <1>1, <1>2, <1>3, <1>4, <1>5, <1>6, <1>7, <1>8

\* fe25519_getparity looks at the lowest limb, and that is enough.
LEMMA ParityIs ==
    ASSUME NEW x \in Fe
    PROVE  x[1] % 2 = Value(x) % 2
<1>1. PICK n \in Nat, g \in Nat, h \in Nat : 1 + n = N /\ g = Base /\ g = 2 * h
    <2>1. N - 1 \in Nat /\ 1 + (N - 1) = N
        BY BaseFacts
    <2> QED BY <2>1, BaseFacts, Zenon
<1>2. x \in Numbers(1 + n)
    BY <1>1 DEF Fe
<1>3. PICK rest \in Nat : Value(x) = x[1] + g * rest
    BY <1>1, <1>2, ValueLowest
<1>4. PICK e \in Nat : e = x[1]
    <2>1. 1 \in 1 .. 1 + n /\ 1 + n \in Nat
        OBVIOUS
    <2>2. x[1] \in Limb
        BY <1>2, <2>1, NumberIsSeq
    <2> QED BY <2>2, BaseFacts DEF Limb
<1>5. PICK v \in Int, k \in Int, i \in Nat : v = Value(x) /\ k = h * rest /\ i = 2 /\ v = e + k * i
    <2>1. g * rest = (h * rest) * 2
        BY <1>1
    <2>2. PICK k \in Int, v \in Int : k = h * rest /\ v = e + k * 2
        OBVIOUS
    <2> QED BY <1>3, <1>4, <2>1, <2>2
<1>6. Congruent(v, e, i)
    <2>1. e \in Int /\ i \in Int
        OBVIOUS
    <2> QED BY <1>5, <2>1, CongruentBy, Zenon
<1>7. v % i = e % i
    BY <1>5, <1>6, ModSame
<1> QED BY <1>4, <1>5, <1>7

-----------------------------------------------------------------------------
(* What the operations of the field promise, for all elements, reduced or not. *)

LEMMA PrimeIs == p \in Nat /\ p >= 1
<1>1. PICK m \in Nat, q \in Nat, d \in Nat : IsPrime(m, q, d)
    BY ThePrime
<1>2. m = p /\ m > 2 * C /\ C \in Nat
    BY <1>1, BaseFacts DEF IsPrime
<1> QED BY <1>2

LEMMA WorthMod ==
    ASSUME NEW z, NEW v \in Int, IsWorth(z, v)
    PROVE  Mod(z) = v % p
<1>1. PICK m \in Nat : m = p /\ m >= 1
    BY PrimeIs
<1>2. PICK u \in Int : u = Value(z)
    <2>1. Value(z) \in Nat
        BY ValueInNat, BaseFacts DEF IsWorth, Fe
    <2> QED BY <2>1
<1>3. Congruent(u, v, m)
    BY <1>1, <1>2 DEF IsWorth
<1>4. u % m = v % m
    BY <1>1, <1>3, ModSame
<1> QED BY <1>1, <1>2, <1>4 DEF Mod

LEMMA ModIs ==
    ASSUME NEW z \in Fe
    PROVE  \E u \in Nat, x \in Int : u = Value(z) /\ x = Mod(z) /\ x \in 0 .. p - 1 /\ Congruent(x, u, p)
<1>1. PICK m \in Nat : m = p /\ m >= 1
    BY PrimeIs
<1>2. PICK u \in Nat : u = Value(z)
    BY ValueInNat, BaseFacts DEF Fe
<1>3. u % m \in 0 .. m - 1 /\ Congruent(u % m, u, m)
    BY <1>1, ModCongruent
<1> QED BY <1>1, <1>2, <1>3 DEF Mod

\* bigint_mul32: two Karatsuba steps over the schoolbook method, with all their
\* borrows and carries, give the product of any two elements.
THEOREM MulIsExact == MulExactOn(Fe)
BY Mul32Exact DEF MulExactOn, ExactProduct, Fe

\* fe25519_add and fe25519_sub are exact modulo p, also when the operands are
\* not reduced, carry out twice or underflow twice.
THEOREM SumsAreExact == SumsExactOn(Fe)
<1> SUFFICES ASSUME NEW a \in Fe, NEW b \in Fe
             PROVE  /\ Mod(fe25519_add(a, b)) = (Mod(a) + Mod(b)) % p
                    /\ Mod(fe25519_sub(a, b)) = (Mod(a) - Mod(b)) % p
    BY DEF SumsExactOn
<1>1. PICK m \in Nat : m = p /\ m >= 1
    BY PrimeIs
<1>2. PICK u \in Nat, x \in Int : u = Value(a) /\ x = Mod(a) /\ Congruent(x, u, m)
    BY <1>1, ModIs
<1>3. PICK v \in Nat, y \in Int : v = Value(b) /\ y = Mod(b) /\ Congruent(y, v, m)
    BY <1>1, ModIs
<1>4. Congruent(x + y, u + v, m) /\ Congruent(x - y, u - v, m)
    <2>1. u \in Int /\ v \in Int /\ m \in Int
        OBVIOUS
    <2> QED BY <1>2, <1>3, <2>1, CongruentSum, Zenon
<1>5. (x + y) % m = (u + v) % m
    <2>1. PICK e \in Int, f \in Int : e = x + y /\ f = u + v
        OBVIOUS
    <2> QED BY <1>1, <1>4, <2>1, ModSame
<1>6. (x - y) % m = (u - v) % m
    <2>1. PICK e \in Int, f \in Int : e = x - y /\ f = u - v
        OBVIOUS
    <2> QED BY <1>1, <1>4, <2>1, ModSame, Zenon
<1>7. Mod(fe25519_add(a, b)) = (u + v) % m
    <2>1. PICK f \in Int : f = u + v
        OBVIOUS
    <2>2. IsWorth(fe25519_add(a, b), f)
        BY <1>2, <1>3, <2>1, AddWorth
    <2> QED BY <1>1, <2>1, <2>2, WorthMod
<1>8. Mod(fe25519_sub(a, b)) = (u - v) % m
    <2>1. PICK f \in Int : f = u - v
        OBVIOUS
    <2>2. IsWorth(fe25519_sub(a, b), f)
        BY <1>2, <1>3, <2>1, SubWorth
    <2> QED BY <1>1, <2>1, <2>2, WorthMod
<1> QED BY <1>1, <1>2, <1>3, <1>5, <1>6, <1>7, <1>8

\* fe25519_mul is exact modulo p for any two elements, reduced or not.
THEOREM ProductsAreExact == ProductsExactOn(Fe)
<1> SUFFICES ASSUME NEW a \in Fe, NEW b \in Fe
             PROVE  Mod(fe25519_mul(a, b)) = (Mod(a) * Mod(b)) % p
    BY DEF ProductsExactOn
<1>1. PICK m \in Nat : m = p /\ m >= 1
    BY PrimeIs
<1>2. PICK u \in Nat, x \in Int : u = Value(a) /\ x = Mod(a) /\ Congruent(x, u, m)
    BY <1>1, ModIs
<1>3. PICK v \in Nat, y \in Int : v = Value(b) /\ y = Mod(b) /\ Congruent(y, v, m)
    BY <1>1, ModIs
<1>4. Congruent(x * y, u * v, m)
    BY <1>2, <1>3, CongruentProduct
<1>5. PICK e \in Int, f \in Int : e = x * y /\ f = u * v
    OBVIOUS
<1>6. e % m = f % m
    BY <1>1, <1>4, <1>5, ModSame, Zenon
<1>7. IsWorth(fe25519_mul(a, b), f)
    BY <1>2, <1>3, <1>5, MulWorth
<1>8. Mod(fe25519_mul(a, b)) = f % m
    BY <1>1, <1>7, WorthMod
<1> QED BY <1>1, <1>2, <1>3, <1>5, <1>6, <1>8

\* fe25519_freeze gives the least residue of any element: the two subtractions of
\* its loop are enough; fe25519_getparity is the parity of that residue.
THEOREM FreezeIsCanonical == FreezeCanonicalOn(Fe)
<1> SUFFICES ASSUME NEW a \in Fe
             PROVE  /\ Value(fe25519_freeze(a)) = Mod(a)
                    /\ fe25519_getparity(a) = Mod(a) % 2
    BY DEF FreezeCanonicalOn
<1> DEFINE z == fe25519_freeze(a)
<1>1. z \in Fe /\ Value(z) = Mod(a)
    BY FreezeIs DEF Mod
<1> HIDE DEF z
<1>2. z[1] % 2 = Mod(a) % 2
    BY <1>1, ParityIs
<1> QED BY <1>1, <1>2 DEF z, fe25519_getparity

\* fe25519.c:103 asks it; the third loop could end after two limbs.
THEOREM TwoLimbsAreEnough == TwoLimbsEnoughOn(Fe)
BY MulWorth DEF TwoLimbsEnoughOn

-----------------------------------------------------------------------------
(* The exchange works on field elements throughout.                        *)

\* The function in Limbs().
IsRest(f, n, len) == f = [i \in 0 .. len |-> IF i = 0 THEN n ELSE f[i - 1] \div Base]

LEMMA RestExists ==
    ASSUME NEW n \in Nat, NEW len \in Nat
    PROVE  \E f : IsRest(f, n, len)
<1> DEFINE step == [z \in (1 .. len) \X Nat |-> z[2] \div Base]
           X == Nat
<1>0. Base \in Nat \ {0}
    BY BaseFacts
<1>1. \A u \in Nat : u \div Base \in Nat
    BY <1>0
<1>2. step \in [(1 .. len) \X X -> X] /\ (\A i \in 1 .. len, u \in Nat : step[<<i, u>>] = u \div Base) /\ n \in X
    BY <1>1
<1> HIDE DEF step, X
<1>3. PICK f \in [0 .. len -> X] : IsRecursion(f, len, n, step)
    BY <1>2, RecursionExists, Zenon
<1>4. ASSUME NEW i \in 0 .. len PROVE f[i] = IF i = 0 THEN n ELSE f[i - 1] \div Base
    <2>1. f[i] = IF i = 0 THEN n ELSE step[<<i, f[i - 1]>>]
        BY <1>3, Zenon DEF IsRecursion
    <2>2. i # 0 => i \in 1 .. len /\ f[i - 1] \in Nat
        BY DEF X
    <2> QED BY <1>2, <2>1, <2>2, Zenon
<1>5. f = [i \in 0 .. len |-> f[i]]
    OBVIOUS
<1> QED BY <1>4, <1>5, Zenon DEF IsRest

\* The constants of the code, written down limb by limb, have limbs.
LEMMA LimbsAreNumber ==
    ASSUME NEW n \in Nat, NEW len \in Nat
    PROVE  Limbs(n, len) \in Numbers(len)
<1> DEFINE g == CHOOSE f : IsRest(f, n, len)
<1>0. Base \in Nat \ {0}
    BY BaseFacts
<1>1. Limbs(n, len) = [i \in 1 .. len |-> g[i - 1] % Base]
    BY DEF Limbs, IsRest
<1>2. IsRest(g, n, len)
    BY RestExists
<1> HIDE DEF g
<1>3. \A i \in 0 .. len : g[i] = IF i = 0 THEN n ELSE g[i - 1] \div Base
    BY <1>2, Zenon DEF IsRest
<1> DEFINE S == {i \in Nat : i <= len => g[i] \in Nat}
<1>4. 0 \in S
    BY <1>3
<1>5. ASSUME NEW i \in Nat, i \in S PROVE i + 1 \in S
    <2> SUFFICES ASSUME i + 1 <= len PROVE g[i + 1] \in Nat
        OBVIOUS
    <2>1. i + 1 \in 0 .. len /\ i + 1 # 0 /\ (i + 1) - 1 = i /\ g[i] \in Nat
        BY <1>5
    <2>2. g[i + 1] = g[i] \div Base
        BY <1>3, <2>1
    <2> QED BY <1>0, <2>1, <2>2
<1> HIDE DEF S
<1>6. Nat \subseteq S
    BY <1>4, <1>5, NatSetInduction
<1>7. \A i \in 1 .. len : g[i - 1] \in Nat
    BY <1>6 DEF S
<1>8. \A i \in 1 .. len : g[i - 1] % Base \in Limb
    BY <1>0, <1>7 DEF Limb
<1> QED BY <1>1, <1>8 DEF Numbers

\* The operations never leave the elements.
LEMMA OperationsInFe ==
    ASSUME NEW a \in Fe, NEW b \in Fe
    PROVE  /\ fe25519_add(a, b) \in Fe /\ fe25519_sub(a, b) \in Fe
           /\ fe25519_mul(a, b) \in Fe /\ fe25519_square(a) \in Fe
<1>1. \A x, y \in Fe : fe25519_mul(x, y) \in Fe
    BY MulWorth DEF IsWorth
<1> QED BY <1>1, AddWorth, SubWorth DEF IsWorth, fe25519_square

LEMMA FeIs == Fe = [1 .. N -> 0 .. Base - 1]
BY DEF Fe, Numbers, Limb

LEMMA ConstantsInFe ==
    /\ setone \in Fe /\ setzero \in Fe
    /\ Limbs(A24, N) \in Fe /\ Limbs(BasePoint, N) \in Fe
<1>1. setone \in Fe /\ setzero \in Fe
    BY FeIs, BaseFacts DEF setone, setzero
<1>2. A24 \in Nat /\ BasePoint \in Nat
    BY ScalarAssumption, PrimeIs
<1> QED BY <1>1, <1>2, LimbsAreNumber, BaseFacts DEF Fe

LEMMA UnpackInFe ==
    ASSUME NEW x \in Fe
    PROVE  fe25519_unpack(x) \in Fe
<1>1. x[N] \in 0 .. Base - 1
    BY FeIs, BaseFacts
<1>2. x[N] % TopBit \in 0 .. Base - 1
    BY <1>1, BaseFacts
<1> QED BY <1>2, FeIs, Zenon DEF fe25519_unpack

\* Clearing and setting bits of the first and the last limb leaves limbs.
LEMMA ClampInFe ==
    ASSUME NEW s \in Fe
    PROVE  Clamp(s) \in Fe
<1>1. s[1] \in 0 .. Base - 1 /\ s[N] \in 0 .. Base - 1
    BY FeIs, BaseFacts
<1>2. s[1] - (s[1] % 2^Cleared) \in 0 .. Base - 1
    <2>1. PICK k \in Nat \ {0} : k = 2^Cleared
        BY ClearedIs
    <2>2. PICK e \in Nat : e = s[1]
        BY <1>1
    <2>3. e % k >= 0 /\ e % k <= e /\ e % k \in Int
        BY <2>1
    <2> QED BY <1>1, <2>1, <2>2, <2>3, BaseFacts
<1>3. (s[N] % (TopBit \div 2)) + TopBit \div 2 \in 0 .. Base - 1
    <2>1. PICK t \in Nat, e \in Nat, g \in Nat : t = TopBit /\ t >= 2 /\ e = s[N] /\ g = Base /\ g = 2 * t
        BY <1>1, BaseFacts
    <2>2. PICK q \in Nat : q = t \div 2 /\ q >= 1 /\ 2 * q <= t
        BY <2>1
    <2>3. e % q \in 0 .. q - 1
        BY <2>2
    <2> QED BY <2>1, <2>2, <2>3
<1> QED BY <1>2, <1>3, FeIs, Zenon DEF Clamp

LEMMA BitsIs == Bits \in Nat /\ Bits >= 1
<1>1. PICK v \in Nat, n \in Nat : v = W /\ v >= 1 /\ n = N /\ n >= 4
    BY FieldAssumption, BaseFacts
<1>2. v * n >= n /\ v * n \in Int
    BY <1>1
<1> QED BY <1>1, <1>2 DEF Bits

\* One turn of ladderstep, product by product.
LEMMA WorkIsSteppedInFe ==
    ASSUME NEW w \in Work
    PROVE  ladderstep(w) \in Work
<1>0. w.x0 \in Fe /\ w.xp \in Fe /\ w.zp \in Fe /\ w.xq \in Fe /\ w.zq \in Fe
    BY DEF Work
<1> DEFINE t1 == fe25519_add(w.xp, w.zp)
           t2 == fe25519_sub(w.xp, w.zp)
           t7 == fe25519_square(t2)
           t6 == fe25519_square(t1)
           t5 == fe25519_sub(t6, t7)
           t3 == fe25519_add(w.xq, w.zq)
           t4 == fe25519_sub(w.xq, w.zq)
           u2 == fe25519_mul(t3, t2)
           u3 == fe25519_mul(t4, t1)
           xq == fe25519_square(fe25519_add(u3, u2))
           sq == fe25519_square(fe25519_sub(u3, u2))
           zq == fe25519_mul(sq, w.x0)
           xp == fe25519_mul(t6, t7)
           v  == fe25519_mul(t5, Limbs(A24, N))
           s  == fe25519_add(v, t7)
           zp == fe25519_mul(s, t5)
<1>1. t1 \in Fe /\ t2 \in Fe /\ t3 \in Fe /\ t4 \in Fe
    BY <1>0, OperationsInFe, Zenon
<1> HIDE DEF t1, t2, t3, t4
<1>2. t7 \in Fe /\ t6 \in Fe /\ u2 \in Fe /\ u3 \in Fe
    BY <1>1, OperationsInFe, Zenon
<1> HIDE DEF t7, t6, u2, u3
<1>3. t5 \in Fe /\ xp \in Fe /\ fe25519_add(u3, u2) \in Fe /\ fe25519_sub(u3, u2) \in Fe
    BY <1>2, OperationsInFe, Zenon
<1>4. xq \in Fe /\ sq \in Fe
    BY <1>3, OperationsInFe, Zenon
<1> HIDE DEF t5, xp, xq, sq
<1>5. zq \in Fe /\ v \in Fe
    BY <1>0, <1>3, <1>4, OperationsInFe, ConstantsInFe
<1> HIDE DEF zq, v
<1>6. s \in Fe
    BY <1>2, <1>5, OperationsInFe, Zenon
<1> HIDE DEF s
<1>7. zp \in Fe
    BY <1>3, <1>6, OperationsInFe, Zenon
<1>8. ladderstep(w) = [x0 |-> w.x0, xq |-> xq, zq |-> zq, xp |-> xp, zp |-> zp]
    BY DEF ladderstep, t1, t2, t3, t4, t5, t6, t7, u2, u3, xq, sq, zq, xp, v, s, zp
<1> HIDE DEF zp
<1> QED BY <1>0, <1>3, <1>4, <1>5, <1>7, <1>8 DEF Work

LEMMA WorkIsSwappedInFe ==
    ASSUME NEW w \in Work, NEW b
    PROVE  work_cswap(w, b) \in Work
BY Zenon DEF work_cswap, Work

LEMMA WorkStartsInFe ==
    ASSUME NEW x \in Fe
    PROVE  LadderStart(x) \in Work
BY ConstantsInFe DEF LadderStart, Work

\* The powers of fe25519_invert.
IsPow(f, z) ==
    f = [i \in 0 .. Bits |->
            IF i = 0 THEN setone
            ELSE LET s == fe25519_square(f[i - 1])
                 IN  IF Bit(Limbs(p - 2, N), Bits - i) = 1 THEN fe25519_mul(s, z) ELSE s]

LEMMA PowExists ==
    ASSUME NEW z \in Fe
    PROVE  \E f \in [0 .. Bits -> Fe] : IsPow(f, z)
<1> DEFINE Next1(i, u) == IF Bit(Limbs(p - 2, N), Bits - i) = 1
                          THEN fe25519_mul(fe25519_square(u), z) ELSE fe25519_square(u)
           step == [y \in (1 .. Bits) \X Fe |-> Next1(y[1], y[2])]
           one == setone
<1>1. ASSUME NEW i, NEW u \in Fe PROVE Next1(i, u) \in Fe
    <2>1. fe25519_square(u) \in Fe
        BY OperationsInFe
    <2>2. fe25519_mul(fe25519_square(u), z) \in Fe
        BY <2>1, OperationsInFe, Zenon
    <2> QED BY <2>1, <2>2
<1>2. step \in [(1 .. Bits) \X Fe -> Fe] /\ \A i \in 1 .. Bits, u \in Fe : step[<<i, u>>] = Next1(i, u)
    <2> HIDE DEF Next1
    <2> QED BY <1>1
<1>3. one \in Fe
    BY ConstantsInFe
<1> HIDE DEF step, one
<1>4. PICK f \in [0 .. Bits -> Fe] : IsRecursion(f, Bits, one, step)
    BY <1>2, <1>3, BitsIs, RecursionExists, Zenon
<1>5. ASSUME NEW i \in 0 .. Bits PROVE f[i] = IF i = 0 THEN setone ELSE Next1(i, f[i - 1])
    <2> HIDE DEF Next1
    <2>1. f[i] = IF i = 0 THEN one ELSE step[<<i, f[i - 1]>>]
        BY <1>4, Zenon DEF IsRecursion
    <2>2. i # 0 => i \in 1 .. Bits /\ f[i - 1] \in Fe
        BY BitsIs
    <2> QED BY <1>2, <2>1, <2>2, Zenon DEF one
<1>6. f = [i \in 0 .. Bits |-> f[i]]
    OBVIOUS
<1>7. IsPow(f, z)
    BY <1>5, <1>6, Zenon DEF IsPow
<1> QED BY <1>7

\* z^(p-2), square by square.
LEMMA InverseInFe ==
    ASSUME NEW z \in Fe
    PROVE  fe25519_invert(z) \in Fe
<1> DEFINE Next1(i, u) == IF Bit(Limbs(p - 2, N), Bits - i) = 1
                          THEN fe25519_mul(fe25519_square(u), z) ELSE fe25519_square(u)
<1>1. ASSUME NEW i, NEW u \in Fe PROVE Next1(i, u) \in Fe
    <2>1. fe25519_square(u) \in Fe
        BY OperationsInFe
    <2>2. fe25519_mul(fe25519_square(u), z) \in Fe
        BY <2>1, OperationsInFe, Zenon
    <2> QED BY <2>1, <2>2
<1> DEFINE g == CHOOSE h : IsPow(h, z)
<1>8. IsPow(g, z) /\ fe25519_invert(z) = g[Bits]
    BY PowExists, Zenon DEF fe25519_invert, IsPow
<1> HIDE DEF g
<1>9. \A i \in 0 .. Bits : g[i] = IF i = 0 THEN setone ELSE Next1(i, g[i - 1])
    BY <1>8, Zenon DEF IsPow
<1> HIDE DEF Next1
<1> DEFINE S == {i \in Nat : i <= Bits => g[i] \in Fe}
<1>10. 0 \in S
    BY <1>9, ConstantsInFe, BitsIs
<1>11. ASSUME NEW i \in Nat, i \in S PROVE i + 1 \in S
    <2> SUFFICES ASSUME i + 1 <= Bits PROVE g[i + 1] \in Fe
        OBVIOUS
    <2>1. i + 1 \in 0 .. Bits /\ i + 1 # 0 /\ (i + 1) - 1 = i /\ g[i] \in Fe
        BY <1>11, BitsIs
    <2>2. g[i + 1] = Next1(i + 1, g[i])
        BY <1>9, <2>1
    <2> QED BY <1>1, <2>1, <2>2
<1> HIDE DEF S
<1>12. Nat \subseteq S
    BY <1>10, <1>11, NatSetInduction
<1> QED BY <1>8, <1>12, BitsIs DEF S

\* What a multiplication ends with is a frozen element.
LEMMA EndIsReduced ==
    ASSUME NEW w \in Work
    PROVE  ScalarMultEnds(w) \in Fe /\ Value(ScalarMultEnds(w)) \in 0 .. p - 1
<1> DEFINE x == fe25519_mul(w.xp, fe25519_invert(w.zp))
<1>1. x \in Fe
    BY InverseInFe, OperationsInFe, Zenon DEF Work
<1>2. ScalarMultEnds(w) = fe25519_freeze(x)
    BY DEF ScalarMultEnds, fe25519_pack
<1> HIDE DEF x
<1>3. ScalarMultEnds(w) \in Fe /\ Value(ScalarMultEnds(w)) = Value(x) % p
    BY <1>1, <1>2, FreezeIs
<1>4. PICK m \in Nat, u \in Nat : m = p /\ m >= 1 /\ u = Value(x)
    <2>1. Value(x) \in Nat
        BY <1>1, ValueInNat, BaseFacts DEF Fe
    <2> QED BY <2>1, PrimeIs
<1>5. u % m \in 0 .. m - 1
    BY <1>4
<1> QED BY <1>3, <1>4, <1>5

\* TypeOK is not inductive alone: a public key could be made from no secret.
\* KeysReduced is what the peer may rely on.
KeysReduced ==
    \A a \in Party : /\ public[a] # None => Value(public[a]) \in 0 .. p - 1
                     /\ shared[a] # None => Value(shared[a]) \in 0 .. p - 1

Inv ==
    /\ TypeOK /\ InStep /\ KeysReduced
    /\ \A a \in Party : public[a] # None => secret[a] # None
    /\ call # None => secret[call.who] # None

LEMMA InStepTypes ==
    ASSUME InStep'
    PROVE  prefix' \in Nat /\ prevbit' \in {0, 1} /\ multiple' \in [p : Nat, q : Nat]
<1>1. prefix' \in Nat
    BY DEF InStep
<1>2. prevbit' \in {0, 1}
    BY Zenon DEF InStep
<1>3. \/ multiple' = [p |-> prefix', q |-> prefix' + 1]
      \/ multiple' = [p |-> prefix' + 1, q |-> prefix']
    BY DEF InStep
<1> QED BY <1>1, <1>2, <1>3

LEMMA InvInit == Init => Inv
<1> SUFFICES ASSUME Init PROVE Inv
    OBVIOUS
<1>1. LadderStart(setzero) \in Work
    BY ConstantsInFe, WorkStartsInFe
<1>2. Bits \in Nat
    BY BitsIs
<1>3. TypeOK
    BY <1>1, <1>2 DEF Init, TypeOK, Nobody
<1>4. InStep
    BY InStepInit
<1> QED BY <1>3, <1>4 DEF Init, Inv, KeysReduced, Nobody

\* Both kinds of scalar multiplication start from a secret key and an element.
LEMMA StartsKeepsInv ==
    ASSUME Inv, NEW a \in Party, NEW what \in {"public", "shared"}, NEW point \in Fe,
           secret[a] # None, Starts(a, what, point), InStep'
    PROVE  Inv'
<1>1. Clamp(secret[a]) \in Fe
    BY ClampInFe DEF Inv, TypeOK
<1>2. LadderStart(fe25519_unpack(point)) \in Work
    BY UnpackInFe, WorkStartsInFe
<1>3. call' \in Call /\ work' \in Work /\ bit' \in -1 .. Bits - 1
    BY <1>1, <1>2, BitsIs DEF Starts, Call
<1>4. TypeOK'
    BY <1>3 DEF Inv, TypeOK, Starts, keys
<1>5. call'.who = a
    BY DEF Starts
<1> QED BY <1>4, <1>5 DEF Inv, KeysReduced, Starts, keys

\* Each action of the exchange keeps it.
LEMMA InvNext == Inv /\ [Next]_vars => Inv'
<1> SUFFICES ASSUME Inv, [Next]_vars PROVE Inv'
    OBVIOUS
<1>0. InStep'
    BY InStepNext DEF Inv
<1>1. ASSUME NEW a \in Party, SecretKey(a) PROVE Inv'
    <2>1. PICK r \in Randoms, rest \in Leftovers :
              /\ random' = [random EXCEPT ![a] = r]
              /\ secret' = [secret EXCEPT ![a] = CopiedKey(r, rest)]
        BY <1>1, Zenon DEF SecretKey
    <2>2. r \in Fe /\ rest \in Fe
        BY ExchangeAssumption
    <2>3. CopiedKey(r, rest) \in Fe
        <3> DEFINE c == [i \in 1 .. N |-> IF i <= Copied THEN r[i] ELSE rest[i]]
        <3>1. c \in Fe
            BY <2>2, FeIs
        <3> HIDE DEF c
        <3>2. Clamp(c) \in Fe
            BY <3>1, ClampInFe
        <3> QED BY <3>2 DEF CopiedKey, c
    <2>4. UNCHANGED <<peer, public, shared, call, work, bit, prevbit, prefix, multiple>>
        BY <1>1 DEF SecretKey, ladder
    <2>5. TypeOK'
        BY <2>1, <2>2, <2>3, <2>4 DEF Inv, TypeOK
    <2>6. \A e \in Party : public'[e] # None => secret'[e] # None
        BY <2>1, <2>3, <2>4, ExchangeAssumption DEF Inv, TypeOK
    <2>7. call' = None
        BY <1>1 DEF SecretKey, Acts, ladder
    <2> QED BY <1>0, <2>4, <2>5, <2>6, <2>7 DEF Inv, KeysReduced
<1>2. ASSUME NEW a \in Party, PublicKey(a) PROVE Inv'
    <2>1. secret[a] # None /\ Starts(a, "public", Limbs(BasePoint, N))
        BY <1>2 DEF PublicKey
    <2> QED BY <1>0, <2>1, StartsKeepsInv, ConstantsInFe
<1>3. ASSUME NEW a \in Party, SharedSecret(a) PROVE Inv'
    <2>1. secret[a] # None
        BY <1>3 DEF SharedSecret, Inv
    <2>2. Alice \in Party /\ Bob \in Party /\ Strangers \subseteq Fe
        BY ExchangeAssumption
    <2>3. PICK point : Starts(a, "shared", point) /\ point \in Fe
        <3>1. CASE a = Bob /\ Starts(a, "shared", public[Alice])
            BY <1>3, <2>2, <3>1 DEF SharedSecret, Acts, Inv, TypeOK
        <3>2. CASE a = Alice /\ peer # Bob /\ Starts(a, "shared", peer)
            BY <2>2, <3>2 DEF Inv, TypeOK
        <3>3. CASE public[Bob] # None /\ Starts(a, "shared", public[Bob])
            BY <2>2, <3>3 DEF Inv, TypeOK
        <3> QED BY <1>3, <3>1, <3>2, <3>3 DEF SharedSecret
    <2> QED BY <1>0, <2>1, <2>3, StartsKeepsInv
<1>4. ASSUME LadderBit PROVE Inv'
    <2>1. PICK next \in {0, 1} : Turn(IF next = prevbit THEN 0 ELSE 1, next) /\ call # None /\ bit >= 0
        BY <1>4, BitIsBit DEF LadderBit
    <2>2. PICK b : work' = ladderstep(work_cswap(work, b))
        BY <2>1 DEF Turn
    <2>3. work' \in Work
        <3>1. work \in Work
            BY DEF Inv, TypeOK
        <3> QED BY <2>2, <3>1, WorkIsSwappedInFe, WorkIsSteppedInFe
    <2>4. bit' \in -1 .. Bits - 1
        BY <2>1, BitsIs DEF Turn, Inv, TypeOK
    <2>5. prefix' \in Nat /\ prevbit' \in {0, 1} /\ multiple' \in [p : Nat, q : Nat]
        BY <1>0, InStepTypes
    <2>6. UNCHANGED <<peer, random, secret, public, shared, call>>
        BY <2>1 DEF Turn, keys
    <2>7. TypeOK'
        BY <2>3, <2>4, <2>5, <2>6 DEF Inv, TypeOK
    <2> QED BY <1>0, <2>6, <2>7 DEF Inv, KeysReduced
<1>5. ASSUME Ends PROVE Inv'
    <2>1. PICK r : r = ScalarMultEnds(work) /\ r \in Fe /\ Value(r) \in 0 .. p - 1
        BY EndIsReduced DEF Inv, TypeOK
    <2>2. call.who \in Party /\ call # None
        BY <1>5 DEF Ends, Inv, TypeOK, Call
    <2>3. UNCHANGED <<peer, random, secret, work, bit, prevbit, prefix, multiple>> /\ call' = None
        BY <1>5 DEF Ends
    <2>4. \/ public' = [public EXCEPT ![call.who] = r] /\ shared' = shared
          \/ shared' = [shared EXCEPT ![call.who] = r] /\ public' = public
        BY <1>5, <2>1 DEF Ends
    <2>5. TypeOK'
        BY <2>1, <2>2, <2>3, <2>4 DEF Inv, TypeOK
    <2>6. KeysReduced'
        BY <2>1, <2>2, <2>4 DEF Inv, TypeOK, KeysReduced
    <2>7. \A a \in Party : public'[a] # None => secret'[a] # None
        BY <2>2, <2>3, <2>4 DEF Inv, TypeOK
    <2> QED BY <1>0, <2>3, <2>5, <2>6, <2>7 DEF Inv
<1>6. ASSUME UNCHANGED vars PROVE Inv'
    BY <1>6 DEF vars, keys, ladder, Inv, TypeOK, InStep, KeysReduced
<1> QED BY <1>1, <1>2, <1>3, <1>4, <1>5, <1>6 DEF Next

\* Every key, and all that the ladder works on, is an element of the field, and the
\* ladder is always at one of the bits of its scalar or past the last.
THEOREM TypesAreRight == Spec => []TypeOK
<1>1. Inv => TypeOK
    BY DEF Inv
<1> QED BY <1>1, InvInit, InvNext, PTL DEF Spec

\* All the field arithmetic on what the ladder works on, at every bit of every
\* multiplication, is exact: the property the runs check in a field of 127.
THEOREM FieldAlwaysExact == Spec => []FieldIsExact
<1>1. Inv => FieldIsExact
    <2> SUFFICES ASSUME Inv PROVE FieldIsExact
        OBVIOUS
    <2> DEFINE S == IF call = None THEN {} ELSE {work.xp, work.zq}
    <2>1. S \subseteq Fe
        BY DEF Inv, TypeOK, Work
    <2> HIDE DEF S
    <2>2. MulExactOn(S)
        BY <2>1, MulIsExact DEF MulExactOn
    <2>3. ProductsExactOn(S)
        BY <2>1, ProductsAreExact DEF ProductsExactOn
    <2>4. SumsExactOn(S)
        BY <2>1, SumsAreExact DEF SumsExactOn
    <2>5. FreezeCanonicalOn(S)
        BY <2>1, FreezeIsCanonical DEF FreezeCanonicalOn
    <2>6. TwoLimbsEnoughOn(S)
        BY <2>1, TwoLimbsAreEnough DEF TwoLimbsEnoughOn
    <2> QED BY <2>2, <2>3, <2>4, <2>5, <2>6 DEF FieldIsExact, S
<1> QED BY <1>1, InvInit, InvNext, PTL DEF Spec

\* No public key and no shared secret leaves mladder without being frozen: what
\* the peer gets is the least residue, whatever the point and the scalar were.
THEOREM KeysAlwaysReduced == Spec => []KeysReduced
<1>1. Inv => KeysReduced
    BY DEF Inv
<1> QED BY <1>1, InvInit, InvNext, PTL DEF Spec
-----------------------------------------------------------------------------
(* The bits of a number.                                                   *)

\* A number is a quotient and a rest in one way.
LEMMA DivisionIs ==
    ASSUME NEW b \in Nat, b >= 1, NEW q \in Nat, NEW r \in 0 .. b - 1, NEW x \in Nat, x = b * q + r
    PROVE  x \div b = q /\ x % b = r
<1>1. PICK k \in Int, e \in Int : k = x \div b /\ e = x % b /\ e \in 0 .. b - 1 /\ x = b * k + e
    OBVIOUS
<1>2. b * (q - k) = e - r
    <2>1. b * (q - k) = b * q - b * k
        OBVIOUS
    <2> QED BY <1>1, <2>1
<1>3. q - k = 0
    <2>1. CASE q - k >= 1
        <3>1. b * (q - k) >= b
            BY <2>1
        <3> QED BY <1>1, <1>2, <3>1
    <2>2. CASE q - k <= -1
        <3>1. b * (q - k) <= -b
            BY <2>2
        <3> QED BY <1>1, <1>2, <3>1
    <2> QED BY <1>1, <2>1, <2>2
<1> QED BY <1>1, <1>2, <1>3

LEMMA Division ==
    ASSUME NEW b \in Nat, b >= 1, NEW x \in Nat
    PROVE  \E q \in Nat, r \in Nat : q = x \div b /\ r = x % b /\ r \in 0 .. b - 1 /\ x = b * q + r
OBVIOUS

\* The bit above the rest.
LEMMA BitAbove ==
    ASSUME NEW t \in Nat, t >= 1, NEW x \in Nat
    PROVE  x % (2 * t) = (x % t) + (IF (x \div t) % 2 = 1 THEN 1 ELSE 0) * t
<1>1. PICK q \in Nat, r \in Nat : q = x \div t /\ r = x % t /\ r \in 0 .. t - 1 /\ x = t * q + r
    BY Division
<1>2. PICK a \in Nat, b \in Nat : b = q % 2 /\ b \in {0, 1} /\ q = 2 * a + b
    OBVIOUS
<1>3. x = (2 * t) * a + (t * b + r)
    <2>1. t * q = t * (2 * a) + t * b /\ t * (2 * a) = (2 * t) * a
        BY <1>2
    <2>2. PICK e \in Int, f \in Int, g \in Int : e = t * q /\ f = t * b /\ g = (2 * t) * a
        OBVIOUS
    <2> QED BY <1>1, <2>1, <2>2
<1>4. PICK s \in Nat, d \in Nat : s = 2 * t /\ s >= 1 /\ d = t * b + r /\ d \in 0 .. s - 1
    <2>1. PICK e \in Int : e = t * b /\ e \in {0, t}
        <3>1. t * 0 = 0 /\ t * 1 = t /\ t \in Int
            OBVIOUS
        <3> QED BY <1>2, <3>1
    <2>2. 2 * t \in Nat /\ 2 * t >= 1 /\ e + r \in 0 .. 2 * t - 1
        BY <1>1, <2>1
    <2> QED BY <2>1, <2>2
<1>5. x % s = d
    BY <1>3, <1>4, DivisionIs
<1> QED BY <1>1, <1>2, <1>4, <1>5

\* What bit i of a number weighs, and what the bits below it are worth.
Weight(i)  == 2^(i % W) * Power(i \div W)
Rest(e, i) == LowValue(e, i \div W) + (e[(i \div W) + 1] % 2^(i % W)) * Power(i \div W)

\* The bits of a limb go on in the next.
LEMMA NextBit ==
    ASSUME NEW i \in Nat
    PROVE  \E q \in Nat, r \in 0 .. W - 1 :
               /\ q = i \div W /\ r = i % W /\ i = W * q + r
               /\ r < W - 1 => (i + 1) \div W = q /\ (i + 1) % W = r + 1
               /\ r = W - 1 => (i + 1) \div W = q + 1 /\ (i + 1) % W = 0
<1>1. PICK b \in Nat : b = W /\ b >= 1
    BY FieldAssumption
<1>2. PICK q \in Nat, r \in Nat : q = i \div b /\ r = i % b /\ r \in 0 .. b - 1 /\ i = b * q + r
    BY <1>1, Division
<1>3. ASSUME r < b - 1 PROVE (i + 1) \div b = q /\ (i + 1) % b = r + 1
    <2>1. PICK j \in Nat, k \in Nat : j = i + 1 /\ k = r + 1
        OBVIOUS
    <2>2. j = b * q + k /\ k \in 0 .. b - 1
        BY <1>2, <1>3, <2>1
    <2>3. j \div b = q /\ j % b = k
        BY <1>1, <2>2, DivisionIs
    <2> QED BY <2>1, <2>3
<1>4. ASSUME r = b - 1 PROVE (i + 1) \div b = q + 1 /\ (i + 1) % b = 0
    <2>1. PICK j \in Nat, k \in Nat : j = i + 1 /\ k = q + 1
        OBVIOUS
    <2>2. b * k = b * q + b
        BY <2>1
    <2>3. j = b * k + 0 /\ 0 \in 0 .. b - 1
        BY <1>1, <1>2, <1>4, <2>1, <2>2
    <2>4. j \div b = k /\ j % b = 0
        BY <1>1, <2>3, DivisionIs
    <2> QED BY <2>1, <2>4
<1> QED BY <1>1, <1>2, <1>3, <1>4, Zenon

LEMMA WeightLaws ==
    /\ Weight(0) = 1
    /\ \A i \in Nat : Weight(i) \in Nat \ {0} /\ Weight(i + 1) = 2 * Weight(i)
<1>1. Weight(0) = 1
    <2>1. PICK b \in Nat : b = W /\ b >= 1
        BY FieldAssumption
    <2>2. 0 \div b = 0 /\ 0 % b = 0
        BY <2>1
    <2>3. Weight(0) = 2^0 * Power(0)
        BY <2>1, <2>2, Zenon DEF Weight
    <2> QED BY <2>3, TwoIs, PowerLaws
<1>2. ASSUME NEW i \in Nat PROVE Weight(i) \in Nat \ {0} /\ Weight(i + 1) = 2 * Weight(i)
    <2>1. PICK q \in Nat, r \in 0 .. W - 1 :
               /\ q = i \div W /\ r = i % W
               /\ r < W - 1 => (i + 1) \div W = q /\ (i + 1) % W = r + 1
               /\ r = W - 1 => (i + 1) \div W = q + 1 /\ (i + 1) % W = 0
        BY NextBit, Zenon
    <2>2. PICK g \in Nat : g = Power(q) /\ g >= 1 /\ Power(q + 1) = Base * g
        BY PowerLaws
    <2>3. PICK t \in Nat : t = 2^r /\ t >= 1 /\ 2^(r + 1) = 2 * t
        BY TwoIs
    <2>4. Weight(i) = t * g
        BY <2>1, <2>2, <2>3 DEF Weight
    <2>5. t * g \in Nat \ {0} /\ (2 * t) * g = 2 * (t * g)
        BY <2>2, <2>3
    <2>6. CASE r < W - 1
        <3>1. Weight(i + 1) = (2 * t) * g
            BY <2>1, <2>2, <2>3, <2>6 DEF Weight
        <3> QED BY <2>4, <2>5, <3>1
    <2>7. CASE r = W - 1
        <3>1. Base = 2 * t
            BY <2>3, <2>7, TwoIs DEF Base
        <3>2. Weight(i + 1) = 2^0 * (Base * g)
            BY <2>1, <2>2, <2>7, Zenon DEF Weight
        <3>3. 2^0 = 1 /\ 1 * ((2 * t) * g) = (2 * t) * g
            BY TwoIs
        <3>4. Weight(i + 1) = (2 * t) * g
            BY <3>1, <3>2, <3>3
        <3> QED BY <2>4, <2>5, <3>4
    <2>8. W \in Nat
        BY FieldAssumption
    <2> QED BY <2>1, <2>4, <2>5, <2>6, <2>7, <2>8
<1> QED BY <1>1, <1>2

\* A limb of a number, and the number of the limbs below it.
LEMMA LimbAt ==
    ASSUME NEW e \in Fe, NEW q \in 0 .. N - 1
    PROVE  \E l \in Int, g \in Nat, x \in Nat :
               /\ l = LowValue(e, q) /\ g = Power(q) /\ g >= 1 /\ x = e[q + 1] /\ x < Base
               /\ LowValue(e, q + 1) = l + g * x
<1>1. N \in Nat /\ e \in Numbers(N) /\ e \in [1 .. N -> Int]
    BY BaseFacts, NumbersAreInts DEF Fe
<1>2. LowValue(e, q) \in Int /\ LowValue(e, q + 1) = LowValue(e, q) + Power(q) * e[q + 1]
    <2>1. q \in 0 .. N
        BY <1>1
    <2> QED BY <1>1, <2>1, LowLaws
<1>3. Power(q) \in Nat \ {0}
    BY PowerLaws
<1>4. e[q + 1] \in 0 .. Base - 1
    <2>1. q + 1 \in 1 .. N
        BY <1>1
    <2> QED BY <2>1, FeIs
<1> QED BY <1>2, <1>3, <1>4, BaseFacts

\* The last bit of the ladder is the second but last of a number.
LEMMA LastBit ==
    \E n \in Nat : n = N - 1 /\ Bits \div W = n /\ Bits % W = W - 1 /\ Bits = W * n + (W - 1)
<1>1. PICK b \in Nat, n \in Nat, m \in Nat : b = W /\ b >= 1 /\ m = N /\ n = m - 1
    BY FieldAssumption, BaseFacts
<1>2. b * m = b * n + b
    BY <1>1
<1>3. PICK k \in Nat, j \in Nat : k = b - 1 /\ j = Bits /\ j = b * n + k
    <2>1. Bits = b * m - 1
        BY <1>1 DEF Bits
    <2>2. b * n + (b - 1) \in Nat /\ b - 1 \in Nat
        BY <1>1
    <2> QED BY <1>2, <2>1, <2>2
<1>4. k \in 0 .. b - 1
    BY <1>1, <1>3
<1>5. j = b * n + k
    BY <1>3
<1>6. j \div b = n /\ j % b = k
    BY <1>1, <1>4, <1>5, DivisionIs
<1> QED BY <1>1, <1>3, <1>6

RestGrows(e, i) ==
    /\ Rest(e, i) \in Int
    /\ Rest(e, i + 1) = Rest(e, i) + Bit(e, i) * Weight(i)

LEMMA RestGrowsByBit ==
    ASSUME NEW e \in Fe, NEW i \in 0 .. Bits - 1
    PROVE  RestGrows(e, i)
<1>0. PICK n \in Nat, b \in Nat : n = N - 1 /\ b = W /\ b >= 1 /\ Bits = b * n + (b - 1) /\ i \in Nat
    BY LastBit, FieldAssumption, BitsIs
<1>1. PICK q \in Nat, r \in 0 .. b - 1 :
           /\ q = i \div b /\ r = i % b /\ i = b * q + r
           /\ r < b - 1 => (i + 1) \div b = q /\ (i + 1) % b = r + 1
           /\ r = b - 1 => (i + 1) \div b = q + 1 /\ (i + 1) % b = 0
    <2>1. i \in Nat
        BY <1>0
    <2>2. PICK q \in Nat, r \in 0 .. W - 1 :
           /\ q = i \div W /\ r = i % W /\ i = W * q + r
           /\ r < W - 1 => (i + 1) \div W = q /\ (i + 1) % W = r + 1
           /\ r = W - 1 => (i + 1) \div W = q + 1 /\ (i + 1) % W = 0
        BY <2>1, NextBit, Zenon
    <2> QED BY <1>0, <2>2, Zenon
<1>2. q <= n
    <2>1. CASE q >= n + 1
        <3>1. PICK d \in Nat : q = n + 1 + d
            <4>1. q - (n + 1) \in Nat /\ q = n + 1 + (q - (n + 1))
                BY <2>1
            <4> QED BY <4>1
        <3>2. b * q = b * n + b + b * d /\ b * d >= 0
            BY <3>1
        <3>3. PICK u \in Int, v \in Int, w \in Int : u = b * q /\ v = b * n /\ w = b * d
            OBVIOUS
        <3> QED BY <1>0, <1>1, <3>2, <3>3
    <2> QED BY <2>1
<1>3. N \in Nat /\ q \in 0 .. N - 1
    BY <1>0, <1>2, BaseFacts
<1>4. PICK l \in Int, g \in Nat, x \in Nat :
           /\ l = LowValue(e, q) /\ g = Power(q) /\ g >= 1 /\ x = e[q + 1] /\ x < Base
           /\ LowValue(e, q + 1) = l + g * x
    BY <1>3, LimbAt
<1>5. PICK t \in Nat : t = 2^r /\ t >= 1 /\ 2^(r + 1) = 2 * t
    BY <1>0, TwoIs
<1>6. PICK c \in {0, 1} : c = Bit(e, i) /\ c = IF (x \div t) % 2 = 1 THEN 1 ELSE 0
    BY <1>0, <1>1, <1>4, <1>5 DEF Bit
<1>7. x % (2 * t) = (x % t) + c * t
    BY <1>5, <1>6, BitAbove, Zenon
<1>8. PICK y \in Int : y = x % t
    BY <1>5
<1>9. Rest(e, i) = l + y * g /\ Weight(i) = t * g
    BY <1>0, <1>1, <1>4, <1>5, <1>8 DEF Rest, Weight
<1>10. (y + c * t) * g = y * g + c * (t * g)
    <2>1. (y + 0) * g = y * g + 0 /\ (y + t) * g = y * g + t * g /\ c \in {0, 1}
        OBVIOUS
    <2>2. 0 * t = 0 /\ 1 * t = t /\ 0 * (t * g) = 0 /\ 1 * (t * g) = t * g
        OBVIOUS
    <2> QED BY <2>1, <2>2
<1>11. Rest(e, i + 1) = l + (y + c * t) * g
    <2>1. CASE r < b - 1
        <3>1. Rest(e, i + 1) = l + (x % 2^(r + 1)) * g
            BY <1>0, <1>1, <1>4, <2>1 DEF Rest
        <3> QED BY <1>5, <1>7, <1>8, <3>1, Zenon
    <2>2. CASE r = b - 1
        <3>1. Base = 2 * t
            BY <1>0, <1>5, <2>2, TwoIs DEF Base
        <3>2. x % (2 * t) = x
            BY <1>4, <3>1
        <3>3. Rest(e, i + 1) = LowValue(e, q + 1) + (e[(q + 1) + 1] % 2^0) * Power(q + 1)
            BY <1>0, <1>1, <2>2, Zenon DEF Rest
        <3>4. q + 1 \in 0 .. N - 1
            <4>1. b * (q + 1) = b * q + b /\ b * (q + 1) \in Int
                OBVIOUS
            <4>2. i + 1 = b * (q + 1)
                BY <1>0, <1>1, <2>2, <4>1
            <4>3. i + 1 <= Bits
                BY <1>0
            <4>4. CASE q = n
                <5>1. b * q = b * n
                    BY <4>4
                <5> QED BY <1>0, <4>1, <4>2, <4>3, <5>1
            <4> QED BY <1>0, <1>2, <1>3, <4>4
        <3>5. PICK z \in Int, h \in Int : z = e[(q + 1) + 1] /\ h = Power(q + 1)
            BY <3>4, LimbAt
        <3>6. z % 2^0 = 0 /\ 0 * h = 0
            BY TwoIs
        <3>7. Rest(e, i + 1) = l + g * x
            BY <1>4, <3>3, <3>5, <3>6
        <3>8. g * x = x * g
            OBVIOUS
        <3> QED BY <1>7, <1>8, <3>2, <3>7, <3>8, Zenon
    <2> QED BY <1>1, <1>0, <2>1, <2>2
<1>12. y * g \in Int
    OBVIOUS
<1>13. Rest(e, i + 1) = Rest(e, i) + c * (t * g)
    <2>1. PICK d \in Int : d = y * g
        OBVIOUS
    <2>2. PICK k \in Int : k = c * (t * g)
        OBVIOUS
    <2> QED BY <1>9, <1>10, <1>11, <2>1, <2>2
<1> QED BY <1>6, <1>9, <1>12, <1>13 DEF RestGrows

LEMMA RestEnds ==
    ASSUME NEW e \in Fe
    PROVE  Rest(e, 0) = 0 /\ (e[N] < TopBit => Rest(e, Bits) = Value(e))
<1>1. Rest(e, 0) = 0
    <2>1. PICK b \in Nat : b = W /\ b >= 1
        BY FieldAssumption
    <2>2. 0 \div b = 0 /\ 0 % b = 0
        BY <2>1
    <2>3. Rest(e, 0) = LowValue(e, 0) + (e[0 + 1] % 2^0) * Power(0)
        BY <2>1, <2>2, Zenon DEF Rest
    <2>4. 0 \in 0 .. N - 1
        BY BaseFacts
    <2>5. PICK x \in Int : x = e[0 + 1]
        BY <2>4, LimbAt
    <2>6. LowValue(e, 0) = 0
        BY LowLaws, NumbersAreInts, BaseFacts DEF Fe
    <2>7. x % 2^0 = 0 /\ Power(0) = 1
        BY TwoIs, PowerLaws
    <2> QED BY <2>3, <2>5, <2>6, <2>7
<1>2. ASSUME e[N] < TopBit PROVE Rest(e, Bits) = Value(e)
    <2>1. PICK n \in Nat : n = N - 1 /\ Bits \div W = n /\ Bits % W = W - 1
        BY LastBit
    <2>2. n \in 0 .. N - 1 /\ n + 1 = N
        BY <2>1, BaseFacts
    <2>3. PICK l \in Int, g \in Nat, x \in Nat :
               /\ l = LowValue(e, n) /\ g = Power(n) /\ x = e[n + 1]
               /\ LowValue(e, n + 1) = l + g * x
        BY <2>2, LimbAt, Zenon
    <2>4. PICK t \in Nat : t >= 2 /\ t = 2^(W - 1) /\ TopBit = t
        <3>1. PICK t \in Nat : t >= 2 /\ t = 2^(W - 1) /\ Base = 2 * t
            BY TwoIs DEF Base
        <3> QED BY <3>1, BaseFacts
    <2>5. x % t = x
        <3>1. x < t
            BY <1>2, <2>2, <2>3, <2>4
        <3> QED BY <2>4, <3>1
    <2>6. Rest(e, Bits) = l + (x % t) * g
        BY <2>1, <2>2, <2>3, <2>4 DEF Rest
    <2>7. Value(e) = LowValue(e, N)
        BY LowLaws, NumbersAreInts, BaseFacts DEF Fe
    <2>8. x * g = g * x
        OBVIOUS
    <2> QED BY <2>2, <2>3, <2>5, <2>6, <2>7, <2>8
<1> QED BY <1>1, <1>2

\* The bits gone over from the top, as a number, and those still to come.
Taken(e, k, j) == k \in Nat /\ Value(e) = k * Weight(j) + Rest(e, j)

LEMMA TakenStarts ==
    ASSUME NEW e \in Fe, e[N] < TopBit
    PROVE  Taken(e, 0, Bits)
<1>1. PICK g \in Nat : g = Weight(Bits)
    BY WeightLaws, BitsIs
<1>2. Value(e) \in Nat
    BY ValueInNat, BaseFacts DEF Fe
<1> QED BY <1>1, <1>2, RestEnds DEF Taken

LEMMA TakenNext ==
    ASSUME NEW e \in Fe, NEW j \in 0 .. Bits - 1, NEW k, Taken(e, k, j + 1)
    PROVE  Taken(e, 2 * k + Bit(e, j), j)
<1>1. PICK g \in Nat : g = Weight(j) /\ Weight(j + 1) = 2 * g
    BY WeightLaws
<1>2. PICK c \in {0, 1} : c = Bit(e, j)
    BY BitIsBit
<1>3. PICK r \in Int : r = Rest(e, j) /\ Rest(e, j + 1) = r + c * g
    BY <1>1, <1>2, RestGrowsByBit DEF RestGrows
<1>4. k \in Nat /\ Value(e) = k * (2 * g) + (r + c * g)
    BY <1>1, <1>3 DEF Taken
<1>5. k * (2 * g) + (r + c * g) = (2 * k + c) * g + r
    <2>1. (2 * k + 0) * g = k * (2 * g) /\ (2 * k + 1) * g = k * (2 * g) + g
        BY <1>4
    <2> QED BY <1>4, <2>1
<1>6. 2 * k + c \in Nat
    BY <1>4
<1> QED BY <1>1, <1>2, <1>3, <1>4, <1>5, <1>6 DEF Taken

LEMMA TakenAll ==
    ASSUME NEW e \in Fe, NEW k, Taken(e, k, 0)
    PROVE  k = Value(e)
<1>1. Value(e) = k * 1 + 0 /\ k \in Nat
    BY WeightLaws, RestEnds DEF Taken
<1> QED BY <1>1
-----------------------------------------------------------------------------
(* Numbers and their limbs.                                                *)

\* Limbs() undoes Value().
LEMMA LimbsWorth ==
    ASSUME NEW n \in Nat, NEW len \in Nat, n < Power(len)
    PROVE  Limbs(n, len) \in Numbers(len) /\ Value(Limbs(n, len)) = n
<1> DEFINE f == CHOOSE h : IsRest(h, n, len)
<1>0. PICK b \in Nat : b = Base /\ b >= 4
    BY BaseFacts
<1>1. Limbs(n, len) = [i \in 1 .. len |-> f[i - 1] % b]
    BY <1>0 DEF Limbs, IsRest
<1>2. IsRest(f, n, len)
    BY RestExists
<1> HIDE DEF f
<1>3. \A i \in 0 .. len : f[i] = IF i = 0 THEN n ELSE f[i - 1] \div b
    BY <1>0, <1>2, Zenon DEF IsRest
<1> DEFINE x == Limbs(n, len)
<1>4. x \in Numbers(len) /\ x \in [1 .. len -> Int]
    BY LimbsAreNumber, NumbersAreInts
<1>5. \A i \in 1 .. len : x[i] = f[i - 1] % b
    BY <1>1
<1> HIDE DEF x
<1>6. /\ LowValue(x, 0) = 0 /\ LowValue(x, len) = Value(x)
      /\ \A i \in 0 .. len - 1 : LowValue(x, i + 1) = LowValue(x, i) + Power(i) * x[i + 1]
    BY <1>4, LowLaws, Zenon
<1> DEFINE S == {i \in Nat : i <= len => f[i] \in Nat /\ n = LowValue(x, i) + Power(i) * f[i]}
<1>7. 0 \in S
    <2>1. f[0] = n /\ Power(0) = 1
        BY <1>3, PowerLaws
    <2> QED BY <1>6, <2>1
<1>8. ASSUME NEW i \in Nat, i \in S PROVE i + 1 \in S
    <2> SUFFICES ASSUME i + 1 <= len
                 PROVE  f[i + 1] \in Nat /\ n = LowValue(x, i + 1) + Power(i + 1) * f[i + 1]
        OBVIOUS
    <2>1. PICK u \in Nat, g \in Nat : u = f[i] /\ g = Power(i) /\ Power(i + 1) = b * g
        <3>1. f[i] \in Nat
            BY <1>8
        <3>2. Power(i) \in Nat /\ Power(i + 1) = Base * Power(i)
            BY PowerLaws
        <3> QED BY <1>0, <3>1, <3>2
    <2>2. n = LowValue(x, i) + g * u
        BY <1>8, <2>1
    <2>3. i + 1 \in 0 .. len /\ i + 1 # 0 /\ (i + 1) - 1 = i /\ i \in 0 .. len - 1 /\ i + 1 \in 1 .. len
        OBVIOUS
    <2>4. f[i + 1] = u \div b /\ x[i + 1] = u % b
        BY <1>3, <1>5, <2>1, <2>3
    <2>5. PICK q \in Nat, r \in Nat : q = u \div b /\ r = u % b /\ u = b * q + r
        BY <1>0, Division
    <2>6. g * u = g * r + (b * g) * q
        <3>1. g * (b * q + r) = g * r + (b * g) * q
            BY <1>0
        <3> QED BY <2>5, <3>1, Zenon
    <2>7. LowValue(x, i) = n - g * u
        <3>1. LowValue(x, i) \in Int
            BY <1>4, <2>3, LowLaws
        <3> QED BY <2>2, <3>1
    <2>8. LowValue(x, i + 1) = (n - g * u) + g * r
        BY <1>6, <2>1, <2>3, <2>4, <2>5, <2>7
    <2>9. PICK c \in Int, d \in Int, e \in Int : c = g * u /\ d = g * r /\ e = (b * g) * q
        OBVIOUS
    <2> QED BY <2>1, <2>4, <2>5, <2>6, <2>8, <2>9
<1> HIDE DEF S
<1>9. Nat \subseteq S
    BY <1>7, <1>8, NatSetInduction
<1>10. PICK u \in Nat, g \in Nat : u = f[len] /\ g = Power(len) /\ n = Value(x) + g * u
    <2>1. f[len] \in Nat /\ n = LowValue(x, len) + Power(len) * f[len]
        BY <1>9 DEF S
    <2>2. Power(len) \in Nat
        BY PowerLaws
    <2> QED BY <1>6, <2>1, <2>2
<1>11. Value(x) \in Nat
    BY <1>4, ValueInNat
<1>12. u = 0
    <2>1. CASE u >= 1
        <3>1. g * u >= g
            BY <2>1
        <3> QED BY <1>10, <1>11, <3>1
    <2> QED BY <2>1
<1>13. g * 0 = 0
    OBVIOUS
<1> QED BY <1>4, <1>10, <1>11, <1>12, <1>13 DEF x

\* Numbers of one length that are worth the same are the same.
LEMMA ValueTells ==
    ASSUME NEW n \in Nat, NEW x \in Numbers(n), NEW y \in Numbers(n), Value(x) = Value(y)
    PROVE  x = y
<1> DEFINE S == {m \in Nat : \A u, v \in Numbers(m) : Value(u) = Value(v) => u = v}
<1>1. 0 \in S
    BY DEF Numbers
<1>2. ASSUME NEW m \in Nat, m \in S PROVE m + 1 \in S
    <2> SUFFICES ASSUME NEW u \in Numbers(m + 1), NEW v \in Numbers(m + 1), Value(u) = Value(v)
                 PROVE  u = v
        OBVIOUS
    <2> DEFINE a == [i \in 1 .. m |-> u[i]]
               b == [i \in 1 .. m |-> v[i]]
    <2>1. /\ a \in Numbers(m) /\ (\A i \in 1 .. m : a[i] = u[i])
          /\ b \in Numbers(m) /\ (\A i \in 1 .. m : b[i] = v[i])
        BY DEF Numbers
    <2> HIDE DEF a, b
    <2>2. /\ a \in [1 .. m -> Int] /\ b \in [1 .. m -> Int]
          /\ u \in [1 .. m + 1 -> Int] /\ v \in [1 .. m + 1 -> Int]
        BY <2>1, NumbersAreInts
    <2>3. Value(u) = Value(a) + Power(m) * u[m + 1]
        BY <2>1, <2>2, ValueTop, Zenon
    <2>4. Value(v) = Value(b) + Power(m) * v[m + 1]
        BY <2>1, <2>2, ValueTop, Zenon
    <2>5. PICK g \in Nat, c \in Nat, d \in Nat :
              g = Power(m) /\ g >= 1 /\ c = Value(a) /\ c < g /\ d = Value(b) /\ d < g
        BY <2>1, PowerLaws, ValueInNat
    <2>6. PICK e \in Nat, f \in Nat : e = u[m + 1] /\ f = v[m + 1]
        BY BaseFacts DEF Numbers, Limb
    <2>7. PICK z \in Nat : z = g * e + c /\ z = g * f + d
        <3>1. Value(u) = c + g * e /\ Value(v) = d + g * f
            BY <2>3, <2>4, <2>5, <2>6, Zenon
        <3>2. c + g * e \in Nat /\ c + g * e = g * e + c /\ d + g * f = g * f + d
            BY <2>5
        <3> QED BY <3>1, <3>2, Zenon
    <2>8. z \div g = e /\ z % g = c
        <3>1. c \in 0 .. g - 1 /\ g >= 1
            BY <2>5
        <3>2. z = g * e + c
            BY <2>7
        <3> QED BY <3>1, <3>2, DivisionIs
    <2>9. z \div g = f /\ z % g = d
        <3>1. d \in 0 .. g - 1 /\ g >= 1
            BY <2>5
        <3>2. z = g * f + d
            BY <2>7
        <3> QED BY <3>1, <3>2, DivisionIs
    <2>10. a = b
        BY <1>2, <2>1, <2>5, <2>8, <2>9
    <2>11. \A i \in 1 .. m + 1 : u[i] = v[i]
        <3> SUFFICES ASSUME NEW i \in 1 .. m + 1 PROVE u[i] = v[i]
            OBVIOUS
        <3>1. CASE i = m + 1
            BY <2>6, <2>8, <2>9, <3>1
        <3>2. CASE i \in 1 .. m
            BY <2>1, <2>10, <3>2
        <3> QED BY <3>1, <3>2
    <2> QED BY <2>11 DEF Numbers
<1> HIDE DEF S
<1>3. Nat \subseteq S
    BY <1>1, <1>2, NatSetInduction
<1> QED BY <1>3 DEF S

\* What the top limb tells: bit 2^Bits of the number is clear.
LEMMA BelowTopBit ==
    ASSUME NEW e \in Fe
    PROVE  /\ e[N] < TopBit => Value(e) < p + C
           /\ Value(e) < p => e[N] < TopBit
<1>1. PICK n \in Nat, g \in Nat, x \in Nat, m \in Nat :
          /\ n = N - 1 /\ g = Power(n) /\ g >= 1 /\ x = e[n + 1] /\ n + 1 = N
          /\ Value(e) = LowValue(e, n) + g * x /\ m = p
    <2>1. PICK n \in Nat : n = N - 1 /\ n \in 0 .. N - 1 /\ n + 1 = N
        BY BaseFacts
    <2>2. LowValue(e, N) = Value(e)
        BY LowLaws, NumbersAreInts, BaseFacts DEF Fe
    <2>3. PICK g \in Nat, x \in Nat : /\ g = Power(n) /\ g >= 1 /\ x = e[n + 1]
                                      /\ LowValue(e, n + 1) = LowValue(e, n) + g * x
        BY <2>1, LimbAt
    <2> QED BY <2>1, <2>2, <2>3, PrimeIs
<1>2. PICK l \in Nat : l = LowValue(e, n) /\ l < g
    <2>1. [k \in 1 .. n |-> e[k]] \in Numbers(n)
        BY <1>1, BaseFacts DEF Fe, Numbers
    <2> QED BY <1>1, <2>1, ValueInNat, Zenon DEF LowValue
<1>3. PICK t \in Nat, c \in Nat : t = TopBit /\ t >= 2 /\ c = C /\ m = t * g - c
    <2>1. PICK q \in Nat : q = Power(N - 1) /\ p = TopBit * q - C
        BY ThePrime DEF IsPrime
    <2> QED BY <1>1, <2>1, BaseFacts
<1>4. PICK y \in Int, z \in Int : y = g * x /\ z = t * g
    OBVIOUS
<1>5. x < t => y + g <= z
    <2> SUFFICES ASSUME x < t PROVE y + g <= z
        OBVIOUS
    <2>1. PICK d \in Nat : t = (x + 1) + d
        <3>1. t - (x + 1) \in Nat /\ t = (x + 1) + (t - (x + 1))
            OBVIOUS
        <3> QED BY <3>1
    <2>2. t * g = g * x + g + d * g /\ d * g >= 0 /\ d * g \in Int
        BY <2>1
    <2> QED BY <1>4, <2>2
<1>6. x >= t => y >= z
    <2> SUFFICES ASSUME x >= t PROVE y >= z
        OBVIOUS
    <2>1. PICK d \in Nat : x = t + d
        <3>1. x - t \in Nat /\ x = t + (x - t)
            OBVIOUS
        <3> QED BY <3>1
    <2>2. g * x = t * g + g * d /\ g * d >= 0 /\ g * d \in Int
        BY <2>1
    <2> QED BY <1>4, <2>2
<1> QED BY <1>1, <1>2, <1>3, <1>4, <1>5, <1>6

\* A reduced key is taken for what it is.
LEMMA UnpackIs ==
    ASSUME NEW v \in 0 .. p - 1
    PROVE  /\ Limbs(v, N) \in Fe /\ Value(Limbs(v, N)) = v
           /\ Mod(fe25519_unpack(Limbs(v, N))) = v
<1>1. PICK m \in Nat : m = p /\ m >= 1 /\ m < Power(N)
    <2>1. PICK m \in Nat, d \in Nat : m = p /\ d = Power(N) /\ 2 * m = d - 2 * C
        BY ThePrime DEF IsPrime
    <2> QED BY <2>1, PrimeIs, BaseFacts
<1>2. Limbs(v, N) \in Numbers(N) /\ Value(Limbs(v, N)) = v
    <2>1. v \in Nat /\ v < Power(N) /\ N \in Nat
        BY <1>1, BaseFacts, PowerLaws
    <2> QED BY <2>1, LimbsWorth
<1> DEFINE x == Limbs(v, N)
<1>3. x \in Fe /\ Value(x) = v
    BY <1>2 DEF Fe
<1> HIDE DEF x
<1>4. x[N] < TopBit /\ x[N] \in Nat
    <2>1. v < p
        BY <1>1
    <2> QED BY <1>3, <2>1, BelowTopBit, FeIs, BaseFacts
<1>5. x[N] % TopBit = x[N]
    BY <1>4, BaseFacts
<1>6. fe25519_unpack(x) = x
    BY <1>3, <1>5, FeIs DEF fe25519_unpack
<1>7. v % m = v
    BY <1>1
<1> QED BY <1>1, <1>3, <1>6, <1>7 DEF Mod, x

\* A scalar is even and below the power of two above p.
LEMMA ClampIs ==
    ASSUME NEW s \in Fe
    PROVE  /\ Clamp(s) \in Fe /\ Clamp(s)[N] < TopBit
           /\ Value(Clamp(s)) \in 0 .. p + C - 1 /\ Value(Clamp(s)) % 2 = 0
<1> DEFINE e == Clamp(s)
<1>1. e \in Fe
    BY ClampInFe
<1>2. s[1] \in Nat /\ s[N] \in Nat
    BY FeIs, BaseFacts
<1>3. e[1] = s[1] - (s[1] % 2^Cleared) /\ e[N] = (s[N] % (TopBit \div 2)) + TopBit \div 2
    BY BaseFacts, FeIs DEF Clamp
<1> HIDE DEF e
<1>4. e[1] % 2 = 0
    <2>1. PICK k \in Nat : k >= 2 /\ k = 2^Cleared /\ k % 2 = 0
        BY ClearedIs
    <2>2. PICK x \in Nat : x = s[1]
        BY <1>2
    <2>3. PICK q \in Nat, r \in Nat : q = x \div k /\ r = x % k /\ x = k * q + r
        <3>1. k >= 1
            BY <2>1
        <3> QED BY <3>1, Division
    <2>4. PICK h \in Nat : k = 2 * h
        BY <2>1
    <2>5. PICK y \in Nat : y = h * q /\ k * q = 2 * y
        <3>1. h * q \in Nat /\ (2 * h) * q = 2 * (h * q)
            OBVIOUS
        <3> QED BY <2>4, <3>1
    <2>6. e[1] = 2 * y
        BY <1>3, <2>1, <2>2, <2>3, <2>5
    <2>7. (2 * y) % 2 = 0
        OBVIOUS
    <2> QED BY <2>6, <2>7
<1>5. e[N] < TopBit
    <2>1. PICK t \in Nat, q \in Nat, x \in Nat : t = TopBit /\ q = t \div 2 /\ q >= 1 /\ 2 * q <= t /\ x = s[N]
        <3>1. PICK t \in Nat, x \in Nat : t = TopBit /\ t >= 2 /\ x = s[N]
            BY <1>2, BaseFacts
        <3>2. t \div 2 \in Nat /\ t \div 2 >= 1 /\ 2 * (t \div 2) <= t
            BY <3>1
        <3> QED BY <3>1, <3>2, Zenon
    <2>2. x % q \in 0 .. q - 1
        BY <2>1
    <2> QED BY <1>3, <2>1, <2>2
<1>6. Value(e) % 2 = 0
    BY <1>1, <1>4, ParityIs
<1>7. Value(e) \in Nat /\ Value(e) < p + C
    BY <1>1, <1>5, BelowTopBit, ValueInNat, BaseFacts DEF Fe
<1>8. p \in Nat /\ C \in Nat
    BY PrimeIs, BaseFacts
<1> QED BY <1>1, <1>5, <1>6, <1>7, <1>8 DEF e
-----------------------------------------------------------------------------
(* Reckoning modulo p.                                                     *)

\* y stands for e modulo p.
Rep(y, e) == y \in Int /\ e \in Int /\ Congruent(y, e, p)

LEMMA PrimeIsPrime == \E m \in Nat : m = p /\ m = Prime /\ m >= 4
BY SameField, CurveAssumption, PrimeIs

LEMMA RepItself == ASSUME NEW e \in Int PROVE Rep(e, e)
BY CongruentSelf, PrimeIs DEF Rep

LEMMA RepLaws ==
    ASSUME NEW y, NEW e, NEW z, NEW f, Rep(y, e), Rep(z, f)
    PROVE  Rep(y + z, e + f) /\ Rep(y - z, e - f) /\ Rep(y * z, e * f)
<1>1. p \in Int
    BY PrimeIs
<1>2. Congruent(y + z, e + f, p) /\ Congruent(y - z, e - f, p)
    BY <1>1, CongruentSum, Zenon DEF Rep
<1>3. Congruent(y * z, e * f, p)
    BY <1>1, CongruentProduct, Zenon DEF Rep
<1> QED BY <1>2, <1>3 DEF Rep

LEMMA RepRest == ASSUME NEW y, NEW e, Rep(y, e) PROVE Rep(y % p, e) /\ y % p \in 0 .. p - 1
<1>1. PICK m \in Nat : m = p /\ m >= 1
    BY PrimeIs
<1>2. y % m \in 0 .. m - 1 /\ Congruent(y % m, y, m)
    BY <1>1, ModCongruent DEF Rep
<1>3. PICK r \in Int : r = y % m
    BY <1>2
<1>4. Congruent(r, e, m)
    BY <1>1, <1>2, <1>3, CongruentChain DEF Rep
<1> QED BY <1>1, <1>2, <1>3, <1>4 DEF Rep

LEMMA RepsSame == ASSUME NEW y, NEW z, NEW e, Rep(y, e), Rep(z, e) PROVE y % p = z % p
<1>1. PICK m \in Nat : m = p /\ m >= 1
    BY PrimeIs
<1>2. y % m = e % m /\ z % m = e % m
    BY <1>1, ModSame, Zenon DEF Rep
<1> QED BY <1>1, <1>2

LEMMA RepOfRests ==
    ASSUME NEW y \in 0 .. p - 1, NEW z \in 0 .. p - 1, NEW e, Rep(y, e), Rep(z, e)
    PROVE  y = z
<1>1. PICK m \in Nat : m = p /\ m >= 1
    BY PrimeIs
<1>2. y % m = y /\ z % m = z
    BY <1>1
<1> QED BY <1>1, <1>2, RepsSame

\* The operations of the field, on what their operands stand for.
LEMMA FieldReps ==
    ASSUME NEW a \in Fe, NEW b \in Fe, NEW e, NEW f, Rep(Mod(a), e), Rep(Mod(b), f)
    PROVE  /\ Rep(Mod(fe25519_add(a, b)), e + f) /\ Rep(Mod(fe25519_sub(a, b)), e - f)
           /\ Rep(Mod(fe25519_mul(a, b)), e * f)
<1>1. PICK y, z : y = Mod(a) /\ z = Mod(b)
    OBVIOUS
<1>2. Rep(y + z, e + f) /\ Rep(y - z, e - f) /\ Rep(y * z, e * f)
    BY <1>1, RepLaws
<1>3. Rep((y + z) % p, e + f) /\ Rep((y - z) % p, e - f) /\ Rep((y * z) % p, e * f)
    BY <1>2, RepRest, Zenon
<1>4. /\ Mod(fe25519_add(a, b)) = (y + z) % p /\ Mod(fe25519_sub(a, b)) = (y - z) % p
      /\ Mod(fe25519_mul(a, b)) = (y * z) % p
    BY <1>1, SumsAreExact, ProductsAreExact DEF SumsExactOn, ProductsExactOn
<1> QED BY <1>3, <1>4

LEMMA SquareReps ==
    ASSUME NEW a \in Fe, NEW e, Rep(Mod(a), e)
    PROVE  Rep(Mod(fe25519_square(a)), e * e)
BY FieldReps DEF fe25519_square

LEMMA ModIsRest == ASSUME NEW a \in Fe PROVE Mod(a) \in 0 .. p - 1 /\ Mod(a) \in Int /\ Rep(Mod(a), Mod(a))
<1>1. PICK x \in Int : x = Mod(a) /\ x \in 0 .. p - 1
    BY ModIs
<1> QED BY <1>1, RepItself
-----------------------------------------------------------------------------
(* A turn of the ladder is Montgomery's formulas.                          *)

\* What Doubled() and Added() stand for.
DoubledX(x, z) == ((x + z) * (x + z)) * ((x - z) * (x - z))
DoubledZ(x, z) ==
    (A24 * (((x + z) * (x + z)) - ((x - z) * (x - z))) + ((x - z) * (x - z)))
    * (((x + z) * (x + z)) - ((x - z) * (x - z)))
CrossM(x, z, u, v) == (u + v) * (x - z)
CrossN(x, z, u, v) == (u - v) * (x + z)
AddedX(x, z, u, v) == (CrossN(x, z, u, v) + CrossM(x, z, u, v)) * (CrossN(x, z, u, v) + CrossM(x, z, u, v))
AddedZ(x, z, u, v, k) ==
    ((CrossN(x, z, u, v) - CrossM(x, z, u, v)) * (CrossN(x, z, u, v) - CrossM(x, z, u, v))) * k

Pairs == [x : 0 .. p - 1, z : 0 .. p - 1]

LEMMA PairIs ==
    ASSUME NEW c, NEW x \in 0 .. p - 1, NEW z \in 0 .. p - 1, c = [x |-> x, z |-> z]
    PROVE  c \in Pairs /\ c.x = x /\ c.z = z
BY DEF Pairs

LEMMA DoubledReps ==
    ASSUME NEW c, NEW x, NEW z, Rep(c.x, x), Rep(c.z, z)
    PROVE  /\ Doubled(c) \in Pairs
           /\ Rep(Doubled(c).x, DoubledX(x, z)) /\ Rep(Doubled(c).z, DoubledZ(x, z))
<1>1. Prime = p /\ Quarter = A24 /\ A24 \in Int
    BY SameField, ScalarAssumption, PrimeIs
<1>2. Rep(A24, A24)
    BY <1>1, RepItself
<1> DEFINE ss == (x + z) * (x + z)
           dd == (x - z) * (x - z)
           s == ((c.x + c.z) * (c.x + c.z)) % p
           d == ((c.x - c.z) * (c.x - c.z)) % p
           t == s - d
<1>3. Rep(c.x + c.z, x + z) /\ Rep(c.x - c.z, x - z)
    BY RepLaws
<1>4. Rep((c.x + c.z) * (c.x + c.z), ss) /\ Rep((c.x - c.z) * (c.x - c.z), dd)
    BY <1>3, RepLaws
<1>5. Rep(s, ss) /\ Rep(d, dd)
    BY <1>4, RepRest
<1>6. Doubled(c) = [x |-> (s * d) % p, z |-> ((A24 * t + d) * t) % p]
    BY <1>1 DEF Doubled
<1> HIDE DEF s, d, ss, dd
<1>7. Rep(t, ss - dd) /\ Rep(s * d, ss * dd)
    BY <1>5, RepLaws
<1> HIDE DEF t
<1>8. Rep(A24 * t, A24 * (ss - dd))
    BY <1>2, <1>7, RepLaws
<1>9. Rep(A24 * t + d, A24 * (ss - dd) + dd)
    BY <1>5, <1>8, RepLaws
<1>10. Rep((A24 * t + d) * t, (A24 * (ss - dd) + dd) * (ss - dd))
    BY <1>7, <1>9, RepLaws
<1>11. /\ Rep((s * d) % p, ss * dd) /\ (s * d) % p \in 0 .. p - 1
       /\ Rep(((A24 * t + d) * t) % p, (A24 * (ss - dd) + dd) * (ss - dd))
       /\ ((A24 * t + d) * t) % p \in 0 .. p - 1
    BY <1>7, <1>10, RepRest
<1>12. Doubled(c) \in Pairs /\ Doubled(c).x = (s * d) % p /\ Doubled(c).z = ((A24 * t + d) * t) % p
    BY <1>6, <1>11, PairIs, Zenon
<1> QED BY <1>11, <1>12, Zenon DEF DoubledX, DoubledZ, ss, dd

LEMMA AddedReps ==
    ASSUME NEW c, NEW x, NEW z, Rep(c.x, x), Rep(c.z, z),
           NEW e, NEW u, NEW v, Rep(e.x, u), Rep(e.z, v), NEW a, NEW k, Rep(a, k)
    PROVE  /\ Added(c, e, a) \in Pairs
           /\ Rep(Added(c, e, a).x, AddedX(x, z, u, v)) /\ Rep(Added(c, e, a).z, AddedZ(x, z, u, v, k))
<1>1. Prime = p
    BY SameField
<1> DEFINE mm == CrossM(x, z, u, v)
           nn == CrossN(x, z, u, v)
           m == ((e.x + e.z) * (c.x - c.z)) % p
           n == ((e.x - e.z) * (c.x + c.z)) % p
           q == ((n - m) * (n - m)) % p
<1>2. Rep(e.x + e.z, u + v) /\ Rep(e.x - e.z, u - v) /\ Rep(c.x + c.z, x + z) /\ Rep(c.x - c.z, x - z)
    BY RepLaws
<1>3. Rep((e.x + e.z) * (c.x - c.z), mm) /\ Rep((e.x - e.z) * (c.x + c.z), nn)
    BY <1>2, RepLaws DEF CrossM, CrossN
<1>4. Rep(m, mm) /\ Rep(n, nn)
    BY <1>3, RepRest
<1>5. Added(c, e, a) = [x |-> ((n + m) * (n + m)) % p, z |-> (q * a) % p]
    BY <1>1 DEF Added
<1> HIDE DEF m, n, mm, nn
<1>6. Rep(n + m, nn + mm) /\ Rep(n - m, nn - mm)
    BY <1>4, RepLaws
<1>7. Rep((n + m) * (n + m), (nn + mm) * (nn + mm)) /\ Rep((n - m) * (n - m), (nn - mm) * (nn - mm))
    BY <1>6, RepLaws
<1>8. Rep(q, (nn - mm) * (nn - mm))
    BY <1>7, RepRest
<1> HIDE DEF q
<1>9. Rep(q * a, ((nn - mm) * (nn - mm)) * k)
    BY <1>8, RepLaws
<1>10. /\ Rep(((n + m) * (n + m)) % p, (nn + mm) * (nn + mm)) /\ ((n + m) * (n + m)) % p \in 0 .. p - 1
       /\ Rep((q * a) % p, ((nn - mm) * (nn - mm)) * k) /\ (q * a) % p \in 0 .. p - 1
    BY <1>7, <1>9, RepRest
<1>11. /\ Added(c, e, a) \in Pairs
       /\ Added(c, e, a).x = ((n + m) * (n + m)) % p /\ Added(c, e, a).z = (q * a) % p
    BY <1>5, <1>10, PairIs, Zenon
<1> QED BY <1>10, <1>11, Zenon DEF AddedX, AddedZ, mm, nn

PairP(w) == [x |-> Mod(w.xp), z |-> Mod(w.zp)]
PairQ(w) == [x |-> Mod(w.xq), z |-> Mod(w.zq)]

\* ladderstep, product by product.
LEMMA StepReps ==
    ASSUME NEW w \in Work, NEW x, NEW z, NEW u, NEW v, NEW k,
           Rep(Mod(w.xp), x), Rep(Mod(w.zp), z), Rep(Mod(w.xq), u), Rep(Mod(w.zq), v),
           Rep(Mod(w.x0), k)
    PROVE  /\ Rep(Mod(ladderstep(w).xp), DoubledX(x, z)) /\ Rep(Mod(ladderstep(w).zp), DoubledZ(x, z))
           /\ Rep(Mod(ladderstep(w).xq), AddedX(x, z, u, v))
           /\ Rep(Mod(ladderstep(w).zq), AddedZ(x, z, u, v, k))
           /\ ladderstep(w).x0 = w.x0
<1>0. w.x0 \in Fe /\ w.xp \in Fe /\ w.zp \in Fe /\ w.xq \in Fe /\ w.zq \in Fe
    BY DEF Work
<1> DEFINE t1 == fe25519_add(w.xp, w.zp)
           t2 == fe25519_sub(w.xp, w.zp)
           t7 == fe25519_square(t2)
           t6 == fe25519_square(t1)
           t5 == fe25519_sub(t6, t7)
           t3 == fe25519_add(w.xq, w.zq)
           t4 == fe25519_sub(w.xq, w.zq)
           u2 == fe25519_mul(t3, t2)
           u3 == fe25519_mul(t4, t1)
           s3 == fe25519_add(u3, u2)
           d3 == fe25519_sub(u3, u2)
           xq == fe25519_square(s3)
           sq == fe25519_square(d3)
           zq == fe25519_mul(sq, w.x0)
           xp == fe25519_mul(t6, t7)
           v5 == fe25519_mul(t5, Limbs(A24, N))
           s  == fe25519_add(v5, t7)
           zp == fe25519_mul(s, t5)
           ss == (x + z) * (x + z)
           dd == (x - z) * (x - z)
           mm == CrossM(x, z, u, v)
           nn == CrossN(x, z, u, v)
           aa == Limbs(A24, N)
<1>1. /\ ladderstep(w).x0 = w.x0 /\ ladderstep(w).xp = xp /\ ladderstep(w).zp = zp
      /\ ladderstep(w).xq = xq /\ ladderstep(w).zq = zq
    BY DEF ladderstep
<1>2. aa \in Fe /\ Rep(Mod(aa), A24)
    <2>1. A24 \in 0 .. p - 1 /\ A24 \in Int
        BY ScalarAssumption, PrimeIs
    <2>2. Mod(aa) = A24
        <3>1. PICK m \in Nat, y \in Nat : m = p /\ y = A24 /\ y < m
            BY <2>1, PrimeIs
        <3>2. Value(aa) = y
            BY <2>1, <3>1, UnpackIs
        <3>3. y % m = y
            BY <3>1
        <3> QED BY <3>1, <3>2, <3>3 DEF Mod
    <2> QED BY <2>1, <2>2, UnpackIs, RepItself
<1> HIDE DEF aa
<1>3. /\ t1 \in Fe /\ Rep(Mod(t1), x + z) /\ t2 \in Fe /\ Rep(Mod(t2), x - z)
      /\ t3 \in Fe /\ Rep(Mod(t3), u + v) /\ t4 \in Fe /\ Rep(Mod(t4), u - v)
    BY <1>0, FieldReps, OperationsInFe, Zenon
<1> HIDE DEF t1, t2, t3, t4
<1>4. t7 \in Fe /\ Rep(Mod(t7), dd) /\ t6 \in Fe /\ Rep(Mod(t6), ss)
    BY <1>3, SquareReps, OperationsInFe
<1>5. u2 \in Fe /\ Rep(Mod(u2), mm) /\ u3 \in Fe /\ Rep(Mod(u3), nn)
    BY <1>3, FieldReps, OperationsInFe, Zenon DEF CrossM, CrossN
<1> HIDE DEF t6, t7, u2, u3, ss, dd, mm, nn
<1>6. /\ t5 \in Fe /\ Rep(Mod(t5), ss - dd) /\ xp \in Fe /\ Rep(Mod(xp), ss * dd)
      /\ s3 \in Fe /\ Rep(Mod(s3), nn + mm) /\ d3 \in Fe /\ Rep(Mod(d3), nn - mm)
    BY <1>4, <1>5, FieldReps, OperationsInFe, Zenon
<1> HIDE DEF t5, xp, s3, d3
<1>7. xq \in Fe /\ Rep(Mod(xq), (nn + mm) * (nn + mm)) /\ sq \in Fe /\ Rep(Mod(sq), (nn - mm) * (nn - mm))
    BY <1>6, SquareReps, OperationsInFe
<1> HIDE DEF xq, sq
<1>8. zq \in Fe /\ Rep(Mod(zq), ((nn - mm) * (nn - mm)) * k)
    BY <1>0, <1>7, FieldReps, OperationsInFe, Zenon
<1>9. v5 \in Fe /\ Rep(Mod(v5), A24 * (ss - dd))
    <2>1. v5 \in Fe /\ Rep(Mod(v5), (ss - dd) * A24)
        BY <1>2, <1>6, FieldReps, OperationsInFe DEF aa
    <2>2. PICK g \in Int, h \in Int : g = ss - dd /\ h = A24
        BY <1>2, <1>6 DEF Rep
    <2>3. g * h = h * g
        OBVIOUS
    <2> QED BY <2>1, <2>2, <2>3
<1> HIDE DEF zq, v5
<1>10. s \in Fe /\ Rep(Mod(s), A24 * (ss - dd) + dd)
    BY <1>4, <1>9, FieldReps, OperationsInFe, Zenon
<1> HIDE DEF s
<1>11. Rep(Mod(zp), (A24 * (ss - dd) + dd) * (ss - dd))
    BY <1>6, <1>10, FieldReps
<1> HIDE DEF zp
<1>12. Rep(Mod(xp), DoubledX(x, z)) /\ Rep(Mod(zp), DoubledZ(x, z))
    BY <1>6, <1>11, Zenon DEF DoubledX, DoubledZ, ss, dd
<1>13. Rep(Mod(xq), AddedX(x, z, u, v)) /\ Rep(Mod(zq), AddedZ(x, z, u, v, k))
    BY <1>7, <1>8, Zenon DEF AddedX, AddedZ, mm, nn
<1> QED BY <1>1, <1>12, <1>13

\* One turn of ladderstep is one use of Montgomery's formulas, for all elements,
\* reduced or not.
THEOREM StepIsMontgomery ==
    ASSUME NEW w \in Work
    PROVE  /\ ladderstep(w).x0 = w.x0
           /\ PairP(ladderstep(w)) = Doubled(PairP(w))
           /\ PairQ(ladderstep(w)) = Added(PairP(w), PairQ(w), Mod(w.x0))
<1>1. w.x0 \in Fe /\ w.xp \in Fe /\ w.zp \in Fe /\ w.xq \in Fe /\ w.zq \in Fe
    BY DEF Work
<1>2. PICK x, z, u, v, k :
          /\ x = Mod(w.xp) /\ z = Mod(w.zp) /\ u = Mod(w.xq) /\ v = Mod(w.zq) /\ k = Mod(w.x0)
    OBVIOUS
<1>3. Rep(x, x) /\ Rep(z, z) /\ Rep(u, u) /\ Rep(v, v) /\ Rep(k, k)
    BY <1>1, <1>2, ModIsRest
<1> DEFINE r == ladderstep(w)
<1>4. /\ Rep(Mod(r.xp), DoubledX(x, z)) /\ Rep(Mod(r.zp), DoubledZ(x, z))
      /\ Rep(Mod(r.xq), AddedX(x, z, u, v)) /\ Rep(Mod(r.zq), AddedZ(x, z, u, v, k))
      /\ r.x0 = w.x0
    BY <1>2, <1>3, StepReps
<1>5. r \in Work
    BY WorkIsSteppedInFe
<1> HIDE DEF r
<1>6. Mod(r.xp) \in 0 .. p - 1 /\ Mod(r.zp) \in 0 .. p - 1 /\ Mod(r.xq) \in 0 .. p - 1 /\ Mod(r.zq) \in 0 .. p - 1
    BY <1>5, ModIsRest DEF Work
<1> DEFINE c == PairP(w)
           e == PairQ(w)
<1>7. c.x = x /\ c.z = z /\ e.x = u /\ e.z = v
    BY <1>2 DEF PairP, PairQ
<1> HIDE DEF c, e
<1>8. Doubled(c) \in Pairs /\ Rep(Doubled(c).x, DoubledX(x, z)) /\ Rep(Doubled(c).z, DoubledZ(x, z))
    BY <1>3, <1>7, DoubledReps
<1>9. /\ Added(c, e, k) \in Pairs
      /\ Rep(Added(c, e, k).x, AddedX(x, z, u, v)) /\ Rep(Added(c, e, k).z, AddedZ(x, z, u, v, k))
    BY <1>3, <1>7, AddedReps
<1>10. PICK d \in Pairs, f \in Pairs : d = Doubled(c) /\ f = Added(c, e, k)
    BY <1>8, <1>9
<1>11. d.x \in 0 .. p - 1 /\ d.z \in 0 .. p - 1 /\ f.x \in 0 .. p - 1 /\ f.z \in 0 .. p - 1
    BY DEF Pairs
<1>12. Mod(r.xp) = d.x /\ Mod(r.zp) = d.z /\ Mod(r.xq) = f.x /\ Mod(r.zq) = f.z
    BY <1>4, <1>6, <1>8, <1>9, <1>10, <1>11, RepOfRests
<1>13. PairP(r) = d /\ PairQ(r) = f
    BY <1>12 DEF PairP, PairQ, Pairs
<1> QED BY <1>2, <1>4, <1>10, <1>13 DEF r, c, e
-----------------------------------------------------------------------------
(* Powers and inverses modulo p.                                           *)

\* The function in ToThe().
IsToThe(f, x, n) == f = [i \in 0 .. n |-> IF i = 0 THEN 1 ELSE (f[i - 1] * x) % Prime]

LEMMA ToTheExists ==
    ASSUME NEW x \in Int, NEW n \in Nat
    PROVE  \E f \in [0 .. n -> 0 .. p - 1] : IsToThe(f, x, n)
<1> DEFINE X == 0 .. p - 1
           step == [z \in (1 .. n) \X X |-> (z[2] * x) % Prime]
           one == 1
<1>0. PICK m \in Nat : m = p /\ m = Prime /\ m >= 4
    BY PrimeIsPrime
<1>1. /\ step \in [(1 .. n) \X X -> X] /\ one \in X
      /\ \A i \in 1 .. n, u \in X : step[<<i, u>>] = (u * x) % Prime
    <2>1. \A u \in X : (u * x) % m \in 0 .. m - 1
        <3> TAKE u \in X
        <3>1. PICK d \in Int : d = u * x
            BY <1>0
        <3> QED BY <1>0, <3>1
    <2> QED BY <1>0, <2>1
<1> HIDE DEF step, one, X
<1>2. PICK f \in [0 .. n -> X] : IsRecursion(f, n, one, step)
    BY <1>1, RecursionExists, Zenon
<1>3. ASSUME NEW i \in 0 .. n PROVE f[i] = IF i = 0 THEN 1 ELSE (f[i - 1] * x) % Prime
    <2>1. f[i] = IF i = 0 THEN one ELSE step[<<i, f[i - 1]>>]
        BY <1>2, Zenon DEF IsRecursion
    <2>2. i # 0 => i \in 1 .. n /\ f[i - 1] \in X
        OBVIOUS
    <2> QED BY <1>1, <2>1, <2>2, Zenon DEF one
<1>4. f = [i \in 0 .. n |-> f[i]]
    OBVIOUS
<1>5. IsToThe(f, x, n)
    BY <1>3, <1>4, Zenon DEF IsToThe
<1> QED BY <1>5 DEF X

LEMMA ToTheIs ==
    ASSUME NEW x \in Int, NEW n \in Nat, NEW f, IsToThe(f, x, n), NEW m \in Nat, NEW g, IsToThe(g, x, m)
    PROVE  \A i \in Nat : i <= n /\ i <= m => f[i] = g[i]
<1> DEFINE S == {i \in Nat : i <= n /\ i <= m => f[i] = g[i]}
<1>1. /\ \A i \in 0 .. n : f[i] = IF i = 0 THEN 1 ELSE (f[i - 1] * x) % Prime
      /\ \A i \in 0 .. m : g[i] = IF i = 0 THEN 1 ELSE (g[i - 1] * x) % Prime
    BY Zenon DEF IsToThe
<1>2. 0 \in S
    BY <1>1
<1>3. ASSUME NEW i \in Nat, i \in S PROVE i + 1 \in S
    <2> SUFFICES ASSUME i + 1 <= n, i + 1 <= m PROVE f[i + 1] = g[i + 1]
        OBVIOUS
    <2>1. f[i] = g[i]
        BY <1>3
    <2>2. i + 1 \in 0 .. n /\ i + 1 \in 0 .. m /\ i + 1 # 0 /\ (i + 1) - 1 = i
        OBVIOUS
    <2> QED BY <1>1, <2>1, <2>2
<1> HIDE DEF S
<1>4. Nat \subseteq S
    BY <1>2, <1>3, NatSetInduction
<1> QED BY <1>4 DEF S

LEMMA ToTheSame ==
    ASSUME NEW x \in Int, NEW n \in Nat, NEW m \in Nat, n <= m,
           NEW f, IsToThe(f, x, n), NEW g, IsToThe(g, x, m)
    PROVE  f[n] = g[n]
<1>1. \A i \in Nat : i <= n /\ i <= m => f[i] = g[i]
    BY ToTheIs
<1> QED BY <1>1

LEMMA ToTheUnfolds ==
    ASSUME NEW x \in Int, NEW n \in Nat
    PROVE  \E f \in [0 .. n -> 0 .. p - 1] : IsToThe(f, x, n) /\ ToThe(x, n) = f[n]
<1> DEFINE g == CHOOSE f : IsToThe(f, x, n)
<1>1. PICK f \in [0 .. n -> 0 .. p - 1] : IsToThe(f, x, n)
    BY ToTheExists, Zenon
<1>2. IsToThe(g, x, n) /\ ToThe(x, n) = g[n]
    BY <1>1, Zenon DEF ToThe, IsToThe
<1> HIDE DEF g
<1>3. f[n] = g[n]
    BY <1>1, <1>2, ToTheIs
<1> QED BY <1>1, <1>2, <1>3

LEMMA ToTheLaws ==
    ASSUME NEW x \in Int
    PROVE  /\ ToThe(x, 0) = 1
           /\ \A n \in Nat : /\ ToThe(x, n) \in 0 .. p - 1
                             /\ ToThe(x, n + 1) = (ToThe(x, n) * x) % p
<1>1. ToThe(x, 0) = 1
    <2>1. PICK f \in [0 .. 0 -> 0 .. p - 1] : IsToThe(f, x, 0) /\ ToThe(x, 0) = f[0]
        BY ToTheUnfolds, Zenon
    <2>2. 0 \in 0 .. 0
        OBVIOUS
    <2> QED BY <2>1, <2>2, Zenon DEF IsToThe
<1>2. ASSUME NEW n \in Nat PROVE ToThe(x, n) \in 0 .. p - 1 /\ ToThe(x, n + 1) = (ToThe(x, n) * x) % p
    <2>1. PICK f \in [0 .. n -> 0 .. p - 1] : IsToThe(f, x, n) /\ ToThe(x, n) = f[n]
        BY ToTheUnfolds, Zenon
    <2>2. PICK m \in Nat : m = n + 1
        OBVIOUS
    <2>3. PICK g \in [0 .. m -> 0 .. p - 1] : IsToThe(g, x, m) /\ ToThe(x, m) = g[m]
        BY ToTheUnfolds, Zenon
    <2>4. f[n] = g[n]
        <3>1. IsToThe(f, x, n) /\ IsToThe(g, x, m) /\ m \in Nat /\ n <= m
            BY <2>1, <2>2, <2>3
        <3> QED BY <3>1, ToTheSame
    <2>5. \A i \in 0 .. m : g[i] = IF i = 0 THEN 1 ELSE (g[i - 1] * x) % Prime
        BY <2>3, Zenon DEF IsToThe
    <2>6. m \in 0 .. m /\ m # 0 /\ m - 1 = n
        BY <2>2
    <2>7. g[m] = (g[n] * x) % Prime
        BY <2>5, <2>6
    <2> QED BY <2>1, <2>2, <2>3, <2>4, <2>7, SameField
<1> QED BY <1>1, <1>2

LEMMA RepChain == ASSUME NEW y, NEW e, NEW f, Rep(y, e), Rep(e, f) PROVE Rep(y, f)
BY CongruentChain, PrimeIs DEF Rep

LEMMA RepBack == ASSUME NEW y, NEW e, Rep(y, e) PROVE Rep(e, y)
BY CongruentBack, PrimeIs DEF Rep

\* Exponents add up.
LEMMA ToTheSum ==
    ASSUME NEW x \in Int, NEW a \in Nat
    PROVE  \A b \in Nat : Rep(ToThe(x, a + b), ToThe(x, a) * ToThe(x, b))
<1> DEFINE S == {b \in Nat : Rep(ToThe(x, a + b), ToThe(x, a) * ToThe(x, b))}
<1>0. ASSUME NEW n \in Nat
      PROVE  /\ ToThe(x, n) \in Int /\ Rep(ToThe(x, n), ToThe(x, n))
             /\ Rep(ToThe(x, n + 1), ToThe(x, n) * x) /\ ToThe(x, n) * x \in Int
    <2>1. ToThe(x, n) \in Int /\ ToThe(x, n + 1) = (ToThe(x, n) * x) % p
        BY ToTheLaws, PrimeIs
    <2>2. Rep(ToThe(x, n), ToThe(x, n)) /\ ToThe(x, n) * x \in Int
        BY <2>1, RepItself
    <2>3. Rep(ToThe(x, n) * x, ToThe(x, n) * x)
        BY <2>2, RepItself
    <2>4. Rep((ToThe(x, n) * x) % p, ToThe(x, n) * x)
        BY <2>3, RepRest
    <2> QED BY <2>1, <2>2, <2>4
<1>1. 0 \in S
    <2>1. PICK y \in Int : y = ToThe(x, a) /\ Rep(y, y)
        BY <1>0
    <2>2. y * 1 = y /\ a + 0 = a
        OBVIOUS
    <2> QED BY <2>1, <2>2, ToTheLaws
<1>2. ASSUME NEW b \in Nat, b \in S PROVE b + 1 \in S
    <2>1. PICK y \in Int, z \in Int, w \in Int : y = ToThe(x, a) /\ z = ToThe(x, b) /\ w = ToThe(x, a + b)
        <3>1. a + b \in Nat
            OBVIOUS
        <3> QED BY <1>0, <3>1, Zenon
    <2>2. Rep(w, y * z) /\ Rep(x, x) /\ Rep(y, y)
        BY <1>2, <2>1, RepItself
    <2>3. Rep(w * x, (y * z) * x)
        BY <2>2, RepLaws, Zenon
    <2>4. PICK n \in Nat : n = a + b
        OBVIOUS
    <2>5. Rep(ToThe(x, n + 1), w * x)
        BY <1>0, <2>1, <2>4
    <2>6. Rep(ToThe(x, n + 1), (y * z) * x)
        BY <2>3, <2>5, RepChain
    <2>7. Rep(ToThe(x, b + 1), z * x)
        BY <1>0, <2>1
    <2>8. Rep(y * ToThe(x, b + 1), y * (z * x))
        BY <2>2, <2>7, RepLaws, Zenon
    <2>9. y * (z * x) = (y * z) * x /\ n + 1 = a + (b + 1)
        BY <2>4
    <2>10. Rep((y * z) * x, y * ToThe(x, b + 1))
        BY <2>8, <2>9, RepBack
    <2>11. Rep(ToThe(x, n + 1), y * ToThe(x, b + 1))
        BY <2>6, <2>10, RepChain
    <2>12. Rep(ToThe(x, a + (b + 1)), ToThe(x, a) * ToThe(x, b + 1))
        BY <2>1, <2>9, <2>11, Zenon
    <2> QED BY <2>12
<1> HIDE DEF S
<1>3. Nat \subseteq S
    BY <1>1, <1>2, NatSetInduction
<1> QED BY <1>3 DEF S

\* l has an inverse.
Unit(l) == l \in Int /\ \E k \in Int : Rep(k * l, 1)

\* Fermat's little theorem gives it.
LEMMA UnitIs == ASSUME NEW l \in 1 .. p - 1 PROVE Unit(l)
<1>1. PICK m \in Nat, n \in Nat : m = p /\ m = Prime /\ n = m - 2 /\ n + 1 = Prime - 1
    BY PrimeIsPrime
<1>2. l \in Int /\ l \in 1 .. Prime - 1
    BY <1>1
<1>3. PICK k \in Int : k = ToThe(l, n)
    BY <1>2, ToTheLaws, PrimeIs
<1>4. ToThe(l, n + 1) = (k * l) % p /\ ToThe(l, n + 1) = 1
    BY <1>1, <1>2, <1>3, ToTheLaws, FermatAssumption
<1>5. k * l \in Int
    BY <1>2
<1>6. Rep(k * l, k * l)
    BY <1>5, RepItself
<1>7. Rep((k * l) % p, k * l)
    BY <1>6, RepRest
<1>8. Rep(k * l, 1)
    BY <1>4, <1>7, RepBack
<1> QED BY <1>2, <1>8, Zenon DEF Unit

LEMMA UnitProduct == ASSUME NEW k, NEW l, Unit(k), Unit(l) PROVE Unit(k * l)
<1>1. PICK a \in Int, b \in Int : Rep(a * k, 1) /\ Rep(b * l, 1)
    BY Zenon DEF Unit
<1>2. Rep((a * k) * (b * l), 1 * 1)
    BY <1>1, RepLaws
<1>3. k \in Int /\ l \in Int
    BY DEF Unit
<1>4. (a * k) * (b * l) = (a * b) * (k * l) /\ 1 * 1 = 1
    BY <1>3
<1>5. Rep((a * b) * (k * l), 1)
    BY <1>2, <1>4
<1>6. a * b \in Int /\ k * l \in Int
    BY <1>3
<1> QED BY <1>5, <1>6, Zenon DEF Unit

\* A unit times something is not zero, if that is not.
LEMMA UnitCancels ==
    ASSUME NEW l, Unit(l), NEW z \in 0 .. p - 1, Rep(0, l * z)
    PROVE  z = 0
<1>1. PICK k \in Int : Rep(k * l, 1)
    BY DEF Unit
<1>2. z \in Int /\ l \in Int /\ Rep(z, z) /\ Rep(k, k)
    BY PrimeIs, RepItself DEF Unit
<1>3. Rep((k * l) * z, 1 * z)
    BY <1>1, <1>2, RepLaws, Zenon
<1>4. Rep(k * 0, k * (l * z))
    BY <1>2, RepLaws, Zenon
<1>5. k * 0 = 0 /\ k * (l * z) = (k * l) * z /\ 1 * z = z
    BY <1>2
<1>6. Rep(0, z)
    BY <1>3, <1>4, <1>5, RepChain
<1>7. 0 \in 0 .. p - 1
    BY PrimeIs
<1> QED BY <1>2, <1>6, <1>7, RepOfRests
-----------------------------------------------------------------------------
(* Projective coordinates stand for a point whatever their common factor.  *)

\* d is l times c.
Scaled(d, l, c) == Rep(d.x, l * c.x) /\ Rep(d.z, l * c.z)

LEMMA PointIs ==
    ASSUME NEW P \in Point
    PROVE  /\ P.inf \in BOOLEAN /\ P.x \in 0 .. p - 1 /\ P.x \in Int
           /\ Coordinates(P) \in Pairs
<1>1. PICK m \in Nat : m = p /\ m = Prime /\ m >= 4
    BY PrimeIsPrime
<1>2. P.inf \in BOOLEAN /\ P.x \in 0 .. m - 1
    BY <1>1 DEF Point, Residues
<1>3. Coordinates(P) \in Pairs
    BY <1>1, <1>2 DEF Coordinates, Pairs
<1> QED BY <1>1, <1>2, <1>3

LEMMA PairParts == ASSUME NEW c \in Pairs PROVE c.x \in 0 .. p - 1 /\ c.x \in Int /\ c.z \in 0 .. p - 1 /\ c.z \in Int
BY PrimeIs DEF Pairs

LEMMA StandsIsScaled ==
    ASSUME NEW P \in Point, NEW c \in Pairs, StandsFor(c, P)
    PROVE  \E l \in Int : Unit(l) /\ Scaled(c, l, Coordinates(P))
<1>1. /\ P.inf \in BOOLEAN /\ P.x \in Int
      /\ c.x \in 0 .. p - 1 /\ c.x \in Int /\ c.z \in 0 .. p - 1 /\ c.z \in Int
    BY PointIs, PairParts
<1>2. PICK x \in Int, z \in Int : x = c.x /\ z = c.z /\ Rep(x, x) /\ Rep(z, z)
    BY <1>1, RepItself
<1>3. CASE P.inf
    <2>1. x # 0 /\ z = 0
        BY <1>2, <1>3 DEF StandsFor
    <2>2. x \in 1 .. p - 1
        BY <1>1, <1>2, <2>1, PrimeIs
    <2>3. Unit(x)
        BY <2>2, UnitIs
    <2>4. Coordinates(P).x = 1 /\ Coordinates(P).z = 0
        BY <1>3 DEF Coordinates
    <2>5. x * 1 = x /\ x * 0 = 0
        OBVIOUS
    <2>6. Scaled(c, x, Coordinates(P))
        BY <1>2, <2>1, <2>4, <2>5 DEF Scaled
    <2> QED BY <2>3, <2>6
<1>4. CASE ~P.inf
    <2>1. z # 0 /\ x = (P.x * z) % p
        BY <1>2, <1>4, SameField DEF StandsFor
    <2>2. z \in 1 .. p - 1
        BY <1>1, <1>2, <2>1, PrimeIs
    <2>3. Unit(z)
        BY <2>2, UnitIs
    <2>4. PICK a \in Int : a = P.x
        BY <1>1
    <2>5. Coordinates(P).x = a /\ Coordinates(P).z = 1
        BY <1>4, <2>4 DEF Coordinates
    <2>6. a * z \in Int /\ a * z = z * a /\ z * 1 = z
        OBVIOUS
    <2>7. Rep((a * z) % p, a * z)
        BY <2>6, RepItself, RepRest
    <2>8. Rep(x, z * a)
        BY <2>1, <2>4, <2>6, <2>7
    <2>9. Scaled(c, z, Coordinates(P))
        BY <1>2, <2>5, <2>6, <2>8 DEF Scaled
    <2> QED BY <2>3, <2>9
<1> QED BY <1>1, <1>3, <1>4

LEMMA ScaledStands ==
    ASSUME NEW P \in Point, NEW c \in Pairs, StandsFor(c, P), NEW d \in Pairs, NEW l, Unit(l), Scaled(d, l, c)
    PROVE  StandsFor(d, P)
<1>1. /\ P.inf \in BOOLEAN /\ P.x \in Int /\ l \in Int
      /\ c.x \in 0 .. p - 1 /\ c.x \in Int /\ c.z \in 0 .. p - 1 /\ c.z \in Int
      /\ d.x \in 0 .. p - 1 /\ d.x \in Int /\ d.z \in 0 .. p - 1 /\ d.z \in Int
    BY PointIs, PairParts DEF Unit
<1>2. PICK x, z, u, v : x = c.x /\ z = c.z /\ u = d.x /\ v = d.z
    OBVIOUS
<1>3. Rep(u, l * x) /\ Rep(v, l * z)
    BY <1>2 DEF Scaled
<1>4. u = 0 => x = 0
    <2> SUFFICES ASSUME u = 0 PROVE x = 0
        OBVIOUS
    <2>1. Rep(0, l * x)
        BY <1>3
    <2> QED BY <1>1, <1>2, <2>1, UnitCancels
<1>5. v = 0 => z = 0
    <2> SUFFICES ASSUME v = 0 PROVE z = 0
        OBVIOUS
    <2>1. Rep(0, l * z)
        BY <1>3
    <2> QED BY <1>1, <1>2, <2>1, UnitCancels
<1>6. CASE P.inf
    <2>1. x # 0 /\ z = 0
        BY <1>2, <1>6 DEF StandsFor
    <2>2. l * 0 = 0 /\ Rep(0, 0) /\ 0 \in 0 .. p - 1
        BY <1>1, PrimeIs, RepItself
    <2>3. Rep(v, 0)
        BY <1>3, <2>1, <2>2
    <2>4. v = 0
        BY <1>1, <1>2, <2>2, <2>3, RepOfRests
    <2> QED BY <1>2, <1>4, <1>6, <2>1, <2>4 DEF StandsFor
<1>7. CASE ~P.inf
    <2>1. PICK a \in Int : a = P.x /\ Rep(a, a)
        BY <1>1, RepItself
    <2>2. z # 0 /\ x = (a * z) % p
        BY <1>2, <1>7, <2>1, SameField DEF StandsFor
    <2>3. v # 0
        BY <1>5, <2>2
    <2>4. Rep(a * z, a * z) /\ a * z \in Int
        BY <1>1, <1>2, RepItself
    <2>5. Rep(x, a * z)
        BY <2>2, <2>4, RepRest
    <2>6. Rep(l, l)
        BY <1>1, RepItself
    <2>7. Rep(l * x, l * (a * z))
        BY <2>5, <2>6, RepLaws
    <2>8. Rep(u, l * (a * z))
        BY <1>3, <2>7, RepChain
    <2>9. Rep(a * v, a * (l * z))
        BY <1>3, <2>1, RepLaws
    <2>10. a * (l * z) = l * (a * z)
        BY <1>1, <1>2
    <2>11. Rep((a * v) % p, l * (a * z)) /\ (a * v) % p \in 0 .. p - 1
        BY <2>9, <2>10, RepRest
    <2>12. u = (a * v) % p
        BY <1>1, <1>2, <2>8, <2>11, RepOfRests
    <2> QED BY <1>2, <1>7, <2>1, <2>3, <2>12, SameField DEF StandsFor
<1> QED BY <1>1, <1>6, <1>7

\* A common factor comes out of the formulas.
LEMMA DoubledTakesOut ==
    ASSUME NEW l \in Int, NEW x \in Int, NEW z \in Int
    PROVE  /\ DoubledX(l * x, l * z) = ((l * l) * (l * l)) * DoubledX(x, z)
           /\ DoubledZ(l * x, l * z) = ((l * l) * (l * l)) * DoubledZ(x, z)
           /\ DoubledX(x, z) \in Int /\ DoubledZ(x, z) \in Int
<1>1. PICK a \in Int : a = A24
    BY ScalarAssumption, PrimeIs
<1>2. PICK s \in Int, d \in Int : s = (x + z) * (x + z) /\ d = (x - z) * (x - z)
    OBVIOUS
<1>3. PICK k \in Int : k = l * l
    OBVIOUS
<1>4. (l * x + l * z) * (l * x + l * z) = k * s
    <2>1. PICK e \in Int : e = x + z
        OBVIOUS
    <2>2. l * x + l * z = l * e
        BY <2>1
    <2>3. (l * e) * (l * e) = (l * l) * (e * e)
        OBVIOUS
    <2> QED BY <1>2, <1>3, <2>1, <2>2, <2>3
<1>5. (l * x - l * z) * (l * x - l * z) = k * d
    <2>1. PICK e \in Int : e = x - z
        OBVIOUS
    <2>2. l * x - l * z = l * e
        BY <2>1
    <2>3. (l * e) * (l * e) = (l * l) * (e * e)
        OBVIOUS
    <2> QED BY <1>2, <1>3, <2>1, <2>2, <2>3
<1>6. /\ DoubledX(x, z) = s * d /\ DoubledX(l * x, l * z) = (k * s) * (k * d)
      /\ DoubledZ(x, z) = (a * (s - d) + d) * (s - d)
      /\ DoubledZ(l * x, l * z) = (a * (k * s - k * d) + k * d) * (k * s - k * d)
    BY <1>1, <1>2, <1>4, <1>5, Zenon DEF DoubledX, DoubledZ
<1>7. (k * s) * (k * d) = (k * k) * (s * d)
    OBVIOUS
<1>8. (a * (k * s - k * d) + k * d) * (k * s - k * d) = (k * k) * ((a * (s - d) + d) * (s - d))
    <2>1. PICK t \in Int : t = s - d /\ k * s - k * d = k * t
        <3>1. s - d \in Int /\ k * s - k * d = k * (s - d)
            OBVIOUS
        <3> QED BY <3>1
    <2>2. (a * (k * t) + k * d) * (k * t) = (k * k) * ((a * t + d) * t)
        OBVIOUS
    <2> QED BY <2>1, <2>2
<1>9. s * d \in Int /\ (a * (s - d) + d) * (s - d) \in Int
    OBVIOUS
<1> QED BY <1>3, <1>6, <1>7, <1>8, <1>9

FactorsComeOut(l, x, z, h, u, v, k) ==
    /\ AddedX(l * x, l * z, h * u, h * v) = ((h * l) * (h * l)) * AddedX(x, z, u, v)
    /\ AddedZ(l * x, l * z, h * u, h * v, k) = ((h * l) * (h * l)) * AddedZ(x, z, u, v, k)

LEMMA AddedTakesOut ==
    ASSUME NEW l \in Int, NEW x \in Int, NEW z \in Int, NEW h \in Int, NEW u \in Int, NEW v \in Int, NEW k \in Int
    PROVE  FactorsComeOut(l, x, z, h, u, v, k)
<1>1. PICK a \in Int, b \in Int, c \in Int, d \in Int : a = u + v /\ b = x - z /\ c = u - v /\ d = x + z
    OBVIOUS
<1>2. h * u + h * v = h * a /\ l * x - l * z = l * b /\ h * u - h * v = h * c /\ l * x + l * z = l * d
    BY <1>1
<1>3. PICK m \in Int, n \in Int, q \in Int : m = a * b /\ n = c * d /\ q = h * l
    OBVIOUS
<1>4. CrossM(x, z, u, v) = m /\ CrossN(x, z, u, v) = n
    BY <1>1, <1>3 DEF CrossM, CrossN
<1>5. CrossM(l * x, l * z, h * u, h * v) = q * m /\ CrossN(l * x, l * z, h * u, h * v) = q * n
    <2>1. (h * a) * (l * b) = (h * l) * (a * b) /\ (h * c) * (l * d) = (h * l) * (c * d)
        OBVIOUS
    <2> QED BY <1>2, <1>3, <2>1 DEF CrossM, CrossN
<1>6. (q * n + q * m) * (q * n + q * m) = (q * q) * ((n + m) * (n + m))
    <2>1. PICK e \in Int : e = n + m /\ q * n + q * m = q * e
        <3>1. n + m \in Int /\ q * n + q * m = q * (n + m)
            OBVIOUS
        <3> QED BY <3>1
    <2>2. (q * e) * (q * e) = (q * q) * (e * e)
        OBVIOUS
    <2> QED BY <2>1, <2>2
<1>7. ((q * n - q * m) * (q * n - q * m)) * k = (q * q) * (((n - m) * (n - m)) * k)
    <2>1. PICK e \in Int : e = n - m /\ q * n - q * m = q * e
        <3>1. n - m \in Int /\ q * n - q * m = q * (n - m)
            OBVIOUS
        <3> QED BY <3>1
    <2>2. ((q * e) * (q * e)) * k = (q * q) * ((e * e) * k)
        OBVIOUS
    <2> QED BY <2>1, <2>2
<1> QED BY <1>3, <1>4, <1>5, <1>6, <1>7 DEF FactorsComeOut, AddedX, AddedZ

LEMMA DoubledScales ==
    ASSUME NEW c \in Pairs, NEW d \in Pairs, NEW l \in Int, Scaled(d, l, c)
    PROVE  Scaled(Doubled(d), (l * l) * (l * l), Doubled(c)) /\ Doubled(d) \in Pairs /\ Doubled(c) \in Pairs
<1>1. PICK x \in Int, z \in Int : x = c.x /\ z = c.z /\ Rep(c.x, x) /\ Rep(c.z, z)
    BY PairParts, RepItself
<1>2. Rep(d.x, l * x) /\ Rep(d.z, l * z)
    BY <1>1 DEF Scaled
<1>3. /\ Doubled(c) \in Pairs
      /\ Rep(Doubled(c).x, DoubledX(x, z)) /\ Rep(Doubled(c).z, DoubledZ(x, z))
    BY <1>1, DoubledReps
<1>4. /\ Doubled(d) \in Pairs
      /\ Rep(Doubled(d).x, DoubledX(l * x, l * z)) /\ Rep(Doubled(d).z, DoubledZ(l * x, l * z))
    BY <1>2, DoubledReps
<1>5. PICK k \in Int : k = (l * l) * (l * l) /\ Rep(k, k)
    <2>1. (l * l) * (l * l) \in Int
        OBVIOUS
    <2> QED BY <2>1, RepItself
<1>6. /\ Rep(Doubled(d).x, k * DoubledX(x, z)) /\ Rep(Doubled(d).z, k * DoubledZ(x, z))
    BY <1>4, <1>5, DoubledTakesOut
<1>7. Rep(k * Doubled(c).x, k * DoubledX(x, z)) /\ Rep(k * Doubled(c).z, k * DoubledZ(x, z))
    BY <1>3, <1>5, RepLaws
<1>8. Rep(k * DoubledX(x, z), k * Doubled(c).x) /\ Rep(k * DoubledZ(x, z), k * Doubled(c).z)
    BY <1>7, RepBack
<1>9. Rep(Doubled(d).x, k * Doubled(c).x) /\ Rep(Doubled(d).z, k * Doubled(c).z)
    BY <1>6, <1>8, RepChain
<1> QED BY <1>3, <1>4, <1>5, <1>9 DEF Scaled

LEMMA AddedScales ==
    ASSUME NEW c \in Pairs, NEW d \in Pairs, NEW l \in Int, Scaled(d, l, c),
           NEW e \in Pairs, NEW f \in Pairs, NEW h \in Int, Scaled(f, h, e), NEW u \in Int
    PROVE  Scaled(Added(d, f, u), (h * l) * (h * l), Added(c, e, u)) /\ Added(d, f, u) \in Pairs /\ Added(c, e, u) \in Pairs
<1>1. PICK x \in Int, z \in Int : x = c.x /\ z = c.z /\ Rep(c.x, x) /\ Rep(c.z, z)
    BY PairParts, RepItself
<1>2. PICK y \in Int, v \in Int : y = e.x /\ v = e.z /\ Rep(e.x, y) /\ Rep(e.z, v)
    BY PairParts, RepItself
<1>3. Rep(d.x, l * x) /\ Rep(d.z, l * z) /\ Rep(f.x, h * y) /\ Rep(f.z, h * v) /\ Rep(u, u)
    BY <1>1, <1>2, RepItself DEF Scaled
<1>4. /\ Added(c, e, u) \in Pairs
      /\ Rep(Added(c, e, u).x, AddedX(x, z, y, v)) /\ Rep(Added(c, e, u).z, AddedZ(x, z, y, v, u))
    BY <1>1, <1>2, <1>3, AddedReps
<1>5. /\ Added(d, f, u) \in Pairs
      /\ Rep(Added(d, f, u).x, AddedX(l * x, l * z, h * y, h * v))
      /\ Rep(Added(d, f, u).z, AddedZ(l * x, l * z, h * y, h * v, u))
    BY <1>3, AddedReps
<1>6. PICK k \in Int : k = (h * l) * (h * l) /\ Rep(k, k)
    <2>1. (h * l) * (h * l) \in Int
        OBVIOUS
    <2> QED BY <2>1, RepItself
<1>7. Rep(Added(d, f, u).x, k * AddedX(x, z, y, v)) /\ Rep(Added(d, f, u).z, k * AddedZ(x, z, y, v, u))
    <2>1. /\ AddedX(l * x, l * z, h * y, h * v) = ((h * l) * (h * l)) * AddedX(x, z, y, v)
          /\ AddedZ(l * x, l * z, h * y, h * v, u) = ((h * l) * (h * l)) * AddedZ(x, z, y, v, u)
        <3>1. FactorsComeOut(l, x, z, h, y, v, u)
            BY AddedTakesOut, Zenon
        <3> QED BY <3>1 DEF FactorsComeOut
    <2> QED BY <1>5, <1>6, <2>1
<1>8. Rep(k * Added(c, e, u).x, k * AddedX(x, z, y, v)) /\ Rep(k * Added(c, e, u).z, k * AddedZ(x, z, y, v, u))
    BY <1>4, <1>6, RepLaws
<1>9. Rep(k * AddedX(x, z, y, v), k * Added(c, e, u).x) /\ Rep(k * AddedZ(x, z, y, v, u), k * Added(c, e, u).z)
    BY <1>8, RepBack
<1>10. Rep(Added(d, f, u).x, k * Added(c, e, u).x) /\ Rep(Added(d, f, u).z, k * Added(c, e, u).z)
    BY <1>7, <1>9, RepChain
<1> QED BY <1>4, <1>5, <1>6, <1>10 DEF Scaled

\* The sum does not depend on which of the two is first.
LEMMA AddedSymmetric ==
    ASSUME NEW c \in Pairs, NEW e \in Pairs, NEW u \in Int
    PROVE  Added(c, e, u) = Added(e, c, u)
<1>1. PICK x \in Int, z \in Int : x = c.x /\ z = c.z /\ Rep(c.x, x) /\ Rep(c.z, z)
    BY PairParts, RepItself
<1>2. PICK y \in Int, v \in Int : y = e.x /\ v = e.z /\ Rep(e.x, y) /\ Rep(e.z, v)
    BY PairParts, RepItself
<1>3. Rep(u, u)
    BY RepItself
<1>4. /\ Added(c, e, u) \in Pairs
      /\ Rep(Added(c, e, u).x, AddedX(x, z, y, v)) /\ Rep(Added(c, e, u).z, AddedZ(x, z, y, v, u))
    BY <1>1, <1>2, <1>3, AddedReps
<1>5. /\ Added(e, c, u) \in Pairs
      /\ Rep(Added(e, c, u).x, AddedX(y, v, x, z)) /\ Rep(Added(e, c, u).z, AddedZ(y, v, x, z, u))
    BY <1>1, <1>2, <1>3, AddedReps
<1>6. PICK m \in Int, n \in Int : m = (y + v) * (x - z) /\ n = (y - v) * (x + z)
    OBVIOUS
<1>7. (x + z) * (y - v) = n /\ (x - z) * (y + v) = m
    BY <1>6
<1>8. /\ CrossM(x, z, y, v) = m /\ CrossN(x, z, y, v) = n
      /\ CrossM(y, v, x, z) = n /\ CrossN(y, v, x, z) = m
    BY <1>6, <1>7 DEF CrossM, CrossN
<1>9. (m + n) * (m + n) = (n + m) * (n + m) /\ ((m - n) * (m - n)) * u = ((n - m) * (n - m)) * u
    OBVIOUS
<1>10. AddedX(y, v, x, z) = AddedX(x, z, y, v) /\ AddedZ(y, v, x, z, u) = AddedZ(x, z, y, v, u)
    BY <1>8, <1>9 DEF AddedX, AddedZ
<1>11. PICK a \in Pairs, b \in Pairs : a = Added(c, e, u) /\ b = Added(e, c, u)
    BY <1>4, <1>5
<1>12. a.x \in 0 .. p - 1 /\ a.z \in 0 .. p - 1 /\ b.x \in 0 .. p - 1 /\ b.z \in 0 .. p - 1
    BY PairParts
<1>13. a.x = b.x /\ a.z = b.z
    BY <1>4, <1>5, <1>10, <1>11, <1>12, RepOfRests
<1> QED BY <1>11, <1>13 DEF Pairs
-----------------------------------------------------------------------------
(* The multiples of a point.                                               *)

\* The function in Multiples().
IsMultiples(f, x, max) ==
    f = [k \in 0 .. max |-> IF k = 0 THEN Infinity
                            ELSE IF k % 2 = 1 THEN Plus(CurveOf(x), f[k - 1], PointOf(x))
                            ELSE Plus(CurveOf(x), f[k \div 2], f[k \div 2])]

LEMMA MultiplesExist ==
    ASSUME NEW x, NEW max \in Nat
    PROVE  \E f : IsMultiples(f, x, max)
<1> DEFINE S == {n \in Nat : \E f : IsMultiples(f, x, n)}
           first == Infinity
           after(P) == Plus(CurveOf(x), P, PointOf(x))
           twice(P) == Plus(CurveOf(x), P, P)
           Term(f, k) == IF k = 0 THEN first
                          ELSE IF k % 2 = 1 THEN after(f[k - 1]) ELSE twice(f[k \div 2])
<1>1. \A n \in Nat : \A f : IsMultiples(f, x, n) <=> f = [k \in 0 .. n |-> Term(f, k)]
    BY DEF IsMultiples
<1>2. \A f, g, k : k \in Nat /\ (k # 0 => g[k - 1] = f[k - 1] /\ g[k \div 2] = f[k \div 2])
                     => Term(g, k) = Term(f, k)
    <2> HIDE DEF after, twice, first
    <2> QED OBVIOUS
<1>3. \A f : Term(f, 0) = first
    OBVIOUS
<1> HIDE DEF Term, after, twice, first
<1>4. 0 \in S
    <2> DEFINE f == [k \in 0 .. 0 |-> first]
    <2>1. f = [k \in 0 .. 0 |-> Term(f, k)]
        BY <1>3
    <2>2. IsMultiples(f, x, 0)
        BY <1>1, <2>1, Zenon
    <2> QED BY <2>2
<1>5. ASSUME NEW n \in Nat, n \in S PROVE n + 1 \in S
    <2>1. PICK f : f = [k \in 0 .. n |-> Term(f, k)]
        BY <1>1, <1>5
    <2> DEFINE g == [k \in 0 .. n + 1 |-> IF k <= n THEN f[k] ELSE Term(f, k)]
    <2>2. ASSUME NEW k \in 0 .. n + 1 PROVE g[k] = Term(g, k)
        <3>1. \A j \in 0 .. n : f[j] = Term(f, j)
            BY <2>1
        <3>2. \A j \in 0 .. n + 1 : g[j] = IF j <= n THEN f[j] ELSE Term(f, j)
            OBVIOUS
        <3> HIDE DEF g
        <3>3. g[k] = Term(f, k)
            BY <3>1, <3>2
        <3>4. \A j \in 0 .. n : g[j] = f[j]
            BY <3>2
        <3>5. k # 0 => k - 1 \in 0 .. n /\ k \div 2 \in 0 .. n
            OBVIOUS
        <3>6. k # 0 => g[k - 1] = f[k - 1] /\ g[k \div 2] = f[k \div 2]
            BY <3>4, <3>5
        <3>7. k \in Nat
            OBVIOUS
        <3>8. Term(g, k) = Term(f, k)
            BY <1>2, <3>6, <3>7, Zenon
        <3> QED BY <3>3, <3>8, Zenon
    <2>3. g = [k \in 0 .. n + 1 |-> g[k]]
        OBVIOUS
    <2> HIDE DEF g
    <2>4. g = [k \in 0 .. n + 1 |-> Term(g, k)]
        BY <2>2, <2>3, Zenon
    <2>5. n + 1 \in Nat
        OBVIOUS
    <2>6. IsMultiples(g, x, n + 1)
        BY <1>1, <2>4, <2>5, Zenon
    <2> QED BY <2>5, <2>6
<1> HIDE DEF S
<1>6. Nat \subseteq S
    BY <1>4, <1>5, NatSetInduction
<1> QED BY <1>6 DEF S

\* The multiples start with the point at infinity and the point itself.
LEMMA FirstMultiples ==
    ASSUME NEW x, NEW max \in Nat, max >= 1
    PROVE  Multiples(x, max)[0] = Infinity /\ Multiples(x, max)[1] = PointOf(x)
<1> DEFINE m == CHOOSE f : IsMultiples(f, x, max)
<1>1. Multiples(x, max) = [k \in 0 .. max |-> m[k]]
    BY DEF Multiples, IsMultiples
<1>2. IsMultiples(m, x, max)
    BY MultiplesExist
<1> HIDE DEF m
<1>3. \A k \in 0 .. max : m[k] = IF k = 0 THEN Infinity
                                 ELSE IF k % 2 = 1 THEN Plus(CurveOf(x), m[k - 1], PointOf(x))
                                 ELSE Plus(CurveOf(x), m[k \div 2], m[k \div 2])
    BY <1>2, Zenon DEF IsMultiples
<1>4. 0 \in 0 .. max /\ 1 \in 0 .. max /\ 1 - 1 = 0 /\ 1 # 0 /\ 1 % 2 = 1
    OBVIOUS
<1>5. m[0] = Infinity /\ m[1] = Plus(CurveOf(x), m[0], PointOf(x))
    BY <1>3, <1>4
<1>6. m[1] = PointOf(x)
    BY <1>5 DEF Plus, Infinity
<1> QED BY <1>1, <1>4, <1>5, <1>6

\* The coordinates the proofs speak of.
MultipleOf(u, k) == XOf[u][k]

LEMMA MultipleIs ==
    ASSUME NEW u \in 1 .. p - 1
    PROVE  /\ MultipleOf(u, 0) = Infinity
           /\ MultipleOf(u, 1).inf = FALSE /\ MultipleOf(u, 1).x = u
           /\ \A k \in 0 .. 2 * (p + C) : MultipleOf(u, k) \in Point
<1>1. PICK m \in Nat, c \in Nat : m = p /\ m = Prime /\ m >= 4 /\ c = C /\ c >= 1
    BY PrimeIsPrime, BaseFacts
<1>2. XOf[u] = Multiples(u, 2 * (Prime + C))
    BY <1>1 DEF XOf
<1>3. 2 * (Prime + C) \in Nat /\ 2 * (Prime + C) >= 1
    BY <1>1
<1>4. MultipleOf(u, 0) = Infinity /\ MultipleOf(u, 1) = PointOf(u)
    BY <1>2, <1>3, FirstMultiples DEF MultipleOf
<1>5. \A k \in 0 .. 2 * (Prime + C) : MultipleOf(u, k) \in Point
    BY <1>1, PointsAssumption DEF MultipleOf
<1> QED BY <1>1, <1>4, <1>5 DEF PointOf

\* Any coordinates of a multiple, doubled, are coordinates of twice that.
LEMMA DoublingStands ==
    ASSUME NEW u \in 1 .. p - 1, NEW k \in 0 .. p + C - 1, NEW c \in Pairs, StandsFor(c, MultipleOf(u, k))
    PROVE  StandsFor(Doubled(c), MultipleOf(u, 2 * k))
<1>1. PICK m \in Nat, q \in Nat : m = p /\ m = Prime /\ m >= 4 /\ q = C
    BY PrimeIsPrime, BaseFacts
<1>2. k \in 0 .. 2 * (p + C) /\ 2 * k \in 0 .. 2 * (p + C)
    BY <1>1
<1>3. PICK P \in Point, Q \in Point : P = MultipleOf(u, k) /\ Q = MultipleOf(u, 2 * k)
    BY <1>2, MultipleIs, Zenon
<1>4. PICK b \in Pairs : b = Coordinates(P)
    BY PointIs
<1>5. PICK l \in Int : Unit(l) /\ Scaled(c, l, b)
    BY <1>3, <1>4, StandsIsScaled
<1>6. StandsFor(Doubled(b), Q)
    <2>1. u \in 1 .. Prime - 1 /\ k \in 0 .. Prime + C - 1
        BY <1>1
    <2> QED BY <1>3, <1>4, <2>1, FormulasAssumption DEF MultipleOf
<1>7. Scaled(Doubled(c), (l * l) * (l * l), Doubled(b)) /\ Doubled(c) \in Pairs /\ Doubled(b) \in Pairs
    BY <1>5, DoubledScales
<1>8. Unit((l * l) * (l * l))
    BY <1>5, UnitProduct, Zenon
<1> QED BY <1>3, <1>6, <1>7, <1>8, ScaledStands

\* Any coordinates of two neighbouring multiples give coordinates of their sum.
LEMMA AddingStands ==
    ASSUME NEW u \in 1 .. p - 1, NEW k \in 0 .. p + C - 1,
           NEW c \in Pairs, StandsFor(c, MultipleOf(u, k)),
           NEW e \in Pairs, StandsFor(e, MultipleOf(u, k + 1))
    PROVE  StandsFor(Added(c, e, u), MultipleOf(u, 2 * k + 1)) /\ StandsFor(Added(e, c, u), MultipleOf(u, 2 * k + 1))
<1>1. PICK m \in Nat, q \in Nat : m = p /\ m = Prime /\ m >= 4 /\ q = C
    BY PrimeIsPrime, BaseFacts
<1>2. k \in 0 .. 2 * (p + C) /\ k + 1 \in 0 .. 2 * (p + C) /\ 2 * k + 1 \in 0 .. 2 * (p + C) /\ u \in Int
    BY <1>1
<1>3. PICK P \in Point, R \in Point, Q \in Point :
          P = MultipleOf(u, k) /\ R = MultipleOf(u, k + 1) /\ Q = MultipleOf(u, 2 * k + 1)
    BY <1>2, MultipleIs, Zenon
<1>4. PICK b \in Pairs, d \in Pairs : b = Coordinates(P) /\ d = Coordinates(R)
    BY PointIs
<1>5. PICK l \in Int : Unit(l) /\ Scaled(c, l, b)
    BY <1>3, <1>4, StandsIsScaled
<1>6. PICK h \in Int : Unit(h) /\ Scaled(e, h, d)
    BY <1>3, <1>4, StandsIsScaled
<1>7. StandsFor(Added(b, d, u), Q)
    <2>1. u \in 1 .. Prime - 1 /\ k \in 0 .. Prime + C - 1
        BY <1>1
    <2> QED BY <1>3, <1>4, <2>1, FormulasAssumption DEF MultipleOf
<1>8. Scaled(Added(c, e, u), (h * l) * (h * l), Added(b, d, u)) /\ Added(c, e, u) \in Pairs /\ Added(b, d, u) \in Pairs
    BY <1>2, <1>5, <1>6, AddedScales
<1>9. Unit((h * l) * (h * l))
    BY <1>5, <1>6, UnitProduct
<1>10. StandsFor(Added(c, e, u), Q)
    BY <1>7, <1>8, <1>9, ScaledStands
<1>11. Added(e, c, u) = Added(c, e, u)
    BY <1>2, AddedSymmetric
<1> QED BY <1>3, <1>10, <1>11
-----------------------------------------------------------------------------
(* The inverse, and what a multiplication ends with.                       *)

LEMMA OneAndZero == Mod(setone) = 1 /\ Mod(setzero) = 0
<1>1. PICK m \in Nat, n \in Nat, k \in Nat : m = p /\ m >= 4 /\ n = N /\ n >= 4 /\ k = n - 1 /\ 1 + k = n
    BY PrimeIsPrime, BaseFacts
<1>2. Value(setzero) = 0
    BY <1>1, ZerosAreZero DEF setzero
<1>3. Value(setone) = 1
    <2> DEFINE y == [i \in 1 .. k |-> 0]
               x == <<1>>
    <2>1. x \in Numbers(1) /\ Value(x) = 1 /\ y \in Numbers(k) /\ Value(y) = 0
        BY OneLimb, ZerosAreZero, BaseFacts DEF Limb
    <2>2. x \in [1 .. 1 -> Int] /\ y \in [1 .. k -> Int]
        BY <2>1, NumbersAreInts
    <2>3. setone \in [1 .. 1 + k -> Int]
        BY <1>1 DEF setone
    <2>4. Joins(setone, x, 1, y, k)
        BY <1>1 DEF Joins, setone
    <2> HIDE DEF x, y
    <2>5. Value(setone) = Value(x) + Power(1) * Value(y)
        BY <2>2, <2>3, <2>4, ValueJoins, Zenon
    <2>6. Power(1) \in Int
        BY PowerLaws
    <2> QED BY <2>1, <2>5, <2>6
<1>4. 1 % m = 1 /\ 0 % m = 0
    BY <1>1
<1> QED BY <1>1, <1>2, <1>3, <1>4 DEF Mod

\* The exponent of fe25519_invert.
LEMMA ExponentIs ==
    \E e \in Fe : e = Limbs(p - 2, N) /\ Value(e) = p - 2 /\ e[N] < TopBit
<1>1. PICK m \in Nat : m = p /\ m >= 4
    BY PrimeIsPrime
<1>2. p - 2 \in 0 .. p - 1 /\ p - 2 < p
    BY <1>1
<1>3. Limbs(p - 2, N) \in Fe /\ Value(Limbs(p - 2, N)) = p - 2
    BY <1>2, UnpackIs
<1> QED BY <1>2, <1>3, BelowTopBit

\* Square by square, fe25519_invert gets to z^(p-2).
PowerSoFar(r, z, e, j) ==
    r \in Fe /\ \E k \in Nat : Taken(e, k, j) /\ Rep(Mod(r), ToThe(Mod(z), k))

LEMMA PowerStep ==
    ASSUME NEW z \in Fe, NEW e \in Fe, NEW j \in 0 .. Bits - 1, NEW r, PowerSoFar(r, z, e, j + 1)
    PROVE  PowerSoFar(IF Bit(e, j) = 1 THEN fe25519_mul(fe25519_square(r), z) ELSE fe25519_square(r), z, e, j)
<1>1. PICK k \in Nat : Taken(e, k, j + 1) /\ Rep(Mod(r), ToThe(Mod(z), k)) /\ r \in Fe
    BY DEF PowerSoFar
<1>2. PICK x \in Int : x = Mod(z) /\ Rep(x, x)
    BY ModIsRest
<1>3. PICK t \in Int : t = ToThe(x, k)
    BY <1>2, ToTheLaws, PrimeIs
<1>4. PICK c \in {0, 1} : c = Bit(e, j)
    BY BitIsBit
<1>5. Taken(e, 2 * k + c, j)
    BY <1>1, <1>4, TakenNext
<1> DEFINE s == fe25519_square(r)
<1>6. s \in Fe /\ Rep(Mod(s), t * t)
    BY <1>1, <1>2, <1>3, SquareReps, OperationsInFe
<1> HIDE DEF s
<1>7. PICK n \in Nat : n = k + k /\ n = 2 * k
    OBVIOUS
<1>8. Rep(ToThe(x, n), t * t)
    BY <1>2, <1>3, <1>7, ToTheSum
<1>9. Rep(Mod(s), ToThe(x, n))
    BY <1>6, <1>8, RepBack, RepChain
<1>10. CASE c = 1
    <2> DEFINE y == fe25519_mul(s, z)
    <2>1. y \in Fe /\ Rep(Mod(y), ToThe(x, n) * x)
        BY <1>2, <1>6, <1>9, FieldReps, OperationsInFe
    <2> HIDE DEF y
    <2>2. ToThe(x, n + 1) = (ToThe(x, n) * x) % p /\ ToThe(x, n) \in Int
        <3>1. ToThe(x, n + 1) = (ToThe(x, n) * x) % p /\ ToThe(x, n) \in 0 .. p - 1
            BY <1>2, ToTheLaws, Zenon
        <3> QED BY <3>1, PrimeIs
    <2>3. ToThe(x, n) * x \in Int
        BY <1>2, <2>2
    <2>4. Rep(ToThe(x, n + 1), ToThe(x, n) * x)
        BY <2>2, <2>3, RepItself, RepRest
    <2>5. Rep(Mod(y), ToThe(x, n + 1))
        BY <2>1, <2>4, RepBack, RepChain
    <2>6. 2 * k + c = n + 1 /\ n + 1 \in Nat
        BY <1>7, <1>10
    <2>7. PowerSoFar(y, z, e, j)
        BY <1>2, <1>5, <2>1, <2>5, <2>6 DEF PowerSoFar
    <2> QED BY <1>4, <1>10, <2>7 DEF s, y
<1>11. CASE c = 0
    <2>1. 2 * k + c = n
        BY <1>7, <1>11
    <2>2. PowerSoFar(s, z, e, j)
        BY <1>2, <1>5, <1>6, <1>9, <2>1 DEF PowerSoFar
    <2> QED BY <1>4, <1>11, <2>2 DEF s
<1> QED BY <1>10, <1>11

\* The powers of fe25519_invert, bit by bit of p - 2, are those of a field element
\* that need not be reduced.
THEOREM InverseIsPower ==
    ASSUME NEW z \in Fe
    PROVE  fe25519_invert(z) \in Fe /\ Mod(fe25519_invert(z)) = ToThe(Mod(z), p - 2)
<1>1. PICK e \in Fe : e = Limbs(p - 2, N) /\ Value(e) = p - 2 /\ e[N] < TopBit
    BY ExponentIs
<1>2. PICK n \in Nat : n = Bits /\ n >= 1
    BY BitsIs
<1> DEFINE Next1(i, u) == IF Bit(e, n - i) = 1
                          THEN fe25519_mul(fe25519_square(u), z) ELSE fe25519_square(u)
           g == CHOOSE h : IsPow(h, z)
<1>3. IsPow(g, z) /\ fe25519_invert(z) = g[n]
    BY <1>2, PowExists, Zenon DEF fe25519_invert, IsPow
<1> HIDE DEF g
<1>4. \A i \in 0 .. n : g[i] = IF i = 0 THEN setone ELSE Next1(i, g[i - 1])
    BY <1>1, <1>2, <1>3, Zenon DEF IsPow
<1> DEFINE S == {i \in Nat : i <= n => PowerSoFar(g[i], z, e, n - i)}
<1>5. 0 \in S
    <2>1. Taken(e, 0, n)
        BY <1>1, <1>2, TakenStarts
    <2>2. PICK x \in Int : x = Mod(z)
        BY ModIsRest
    <2>3. ToThe(x, 0) = 1 /\ Rep(1, 1) /\ Mod(setone) = 1 /\ setone \in Fe
        BY <2>2, ToTheLaws, RepItself, OneAndZero, ConstantsInFe
    <2>4. PowerSoFar(setone, z, e, n)
        BY <2>1, <2>2, <2>3 DEF PowerSoFar
    <2>5. g[0] = setone /\ n - 0 = n
        BY <1>4
    <2> QED BY <2>4, <2>5
<1>6. ASSUME NEW i \in Nat, i \in S PROVE i + 1 \in S
    <2> SUFFICES ASSUME i + 1 <= n PROVE PowerSoFar(g[i + 1], z, e, n - (i + 1))
        OBVIOUS
    <2>1. PICK j \in 0 .. n - 1 : j = n - (i + 1) /\ j + 1 = n - i
        OBVIOUS
    <2>2. i + 1 \in 0 .. n /\ i + 1 # 0 /\ (i + 1) - 1 = i
        OBVIOUS
    <2>3. PowerSoFar(g[i], z, e, j + 1)
        BY <1>6, <2>1
    <2>4. g[i + 1] = Next1(i + 1, g[i])
        BY <1>4, <2>2
    <2>5. j \in 0 .. Bits - 1
        BY <1>2
    <2> QED BY <2>1, <2>3, <2>4, <2>5, PowerStep
<1> HIDE DEF S
<1>7. Nat \subseteq S
    BY <1>5, <1>6, NatSetInduction
<1>8. PowerSoFar(g[n], z, e, 0)
    <2>1. n - n = 0
        OBVIOUS
    <2> QED BY <1>7, <2>1 DEF S
<1>9. PICK k \in Nat : Taken(e, k, 0) /\ Rep(Mod(g[n]), ToThe(Mod(z), k)) /\ g[n] \in Fe
    BY <1>8 DEF PowerSoFar
<1>10. k = p - 2
    BY <1>1, <1>9, TakenAll
<1>11. PICK x \in Int : x = Mod(z)
    BY ModIsRest
<1>12. ToThe(x, k) \in 0 .. p - 1 /\ ToThe(x, k) \in Int
    <2>1. ToThe(x, k) \in 0 .. p - 1
        BY <1>11, ToTheLaws, Zenon
    <2> QED BY <2>1, PrimeIs
<1>13. Rep(ToThe(x, k), ToThe(x, k))
    BY <1>12, RepItself
<1>14. Mod(g[n]) = ToThe(x, k)
    BY <1>9, <1>11, <1>12, <1>13, ModIsRest, RepOfRests
<1> QED BY <1>3, <1>9, <1>10, <1>11, <1>14

LEMMA XOfType ==
    ASSUME NEW u \in 0 .. p - 1, NEW k \in 0 .. 2 * (p + C)
    PROVE  XOfMultiple(u, k) \in 0 .. p - 1
<1>1. p \in Nat /\ p >= 1
    BY PrimeIs
<1>2. CASE u = 0
    <2>1. XOfMultiple(u, k) = 0
        BY <1>2 DEF XOfMultiple
    <2> QED BY <1>1, <2>1
<1>3. CASE u # 0
    <2>1. u \in 1 .. p - 1
        BY <1>1, <1>3
    <2>2. PICK P \in Point : P = MultipleOf(u, k)
        BY <2>1, MultipleIs, Zenon
    <2>3. XOfMultiple(u, k) = IF P.inf THEN 0 ELSE P.x
        BY <1>3, <2>2 DEF XOfMultiple, MultipleOf
    <2>4. P.inf \in BOOLEAN /\ P.x \in 0 .. p - 1
        BY PointIs
    <2> QED BY <1>1, <2>3, <2>4
<1> QED BY <1>2, <1>3

\* The last lines of a multiplication, in numbers.
LEMMA EndIs ==
    ASSUME NEW w \in Work
    PROVE  /\ ScalarMultEnds(w) \in Fe /\ Value(ScalarMultEnds(w)) \in 0 .. p - 1
           /\ Rep(Value(ScalarMultEnds(w)), Mod(w.xp) * ToThe(Mod(w.zp), p - 2))
<1>1. w.xp \in Fe /\ w.zp \in Fe
    BY DEF Work
<1>2. PICK i \in Fe : i = fe25519_invert(w.zp) /\ Mod(i) = ToThe(Mod(w.zp), p - 2)
    BY <1>1, InverseIsPower
<1> DEFINE y == fe25519_mul(w.xp, i)
<1>3. y \in Fe /\ Rep(Mod(y), Mod(w.xp) * Mod(i))
    <2>1. Rep(Mod(w.xp), Mod(w.xp)) /\ Rep(Mod(i), Mod(i))
        BY <1>1, ModIsRest
    <2> QED BY <1>1, <2>1, FieldReps, OperationsInFe, Zenon
<1>4. ScalarMultEnds(w) = fe25519_freeze(y)
    BY <1>2 DEF ScalarMultEnds, fe25519_pack
<1> HIDE DEF y
<1>5. Value(ScalarMultEnds(w)) = Mod(y) /\ ScalarMultEnds(w) \in Fe
    BY <1>3, <1>4, FreezeIs DEF Mod
<1>6. Mod(y) \in 0 .. p - 1
    BY <1>3, ModIsRest
<1> QED BY <1>2, <1>3, <1>5, <1>6

LEMMA EndsAtMultiple ==
    ASSUME NEW w \in Work, NEW u \in 1 .. p - 1, NEW k \in 0 .. 2 * (p + C),
           StandsFor(PairP(w), MultipleOf(u, k))
    PROVE  Value(ScalarMultEnds(w)) = XOfMultiple(u, k)
<1>1. PICK x \in Int, z \in Int :
          x = Mod(w.xp) /\ x \in 0 .. p - 1 /\ Rep(x, x) /\ z = Mod(w.zp) /\ z \in 0 .. p - 1 /\ Rep(z, z)
    BY ModIsRest DEF Work
<1>2. PICK P \in Point : P = MultipleOf(u, k)
    BY MultipleIs, Zenon
<1>3. P.inf \in BOOLEAN /\ P.x \in 0 .. p - 1 /\ P.x \in Int
    BY PointIs
<1>4. PICK v \in 0 .. p - 1 : v = Value(ScalarMultEnds(w)) /\ Rep(v, x * ToThe(z, p - 2))
    BY <1>1, EndIs
<1>5. XOfMultiple(u, k) = IF P.inf THEN 0 ELSE P.x
    <2>1. u # 0
        BY PrimeIs
    <2> QED BY <1>2, <2>1 DEF XOfMultiple, MultipleOf
<1>6. PICK m \in Nat, n \in Nat : m = p /\ m = Prime /\ m >= 4 /\ n = m - 2 /\ n = p - 2 /\ n + 1 = Prime - 1
    BY PrimeIsPrime
<1>7. PICK t \in Int : t = ToThe(z, n)
    BY <1>6, ToTheLaws
<1>8. ToThe(z, n + 1) = (t * z) % p
    BY <1>6, <1>7, ToTheLaws, Zenon
<1>9. CASE P.inf
    <2>1. z = 0
        BY <1>1, <1>2, <1>9 DEF StandsFor, PairP
    <2>2. t = 0
        <3>1. PICK j \in Nat : j + 1 = n
            <4>1. n - 1 \in Nat /\ (n - 1) + 1 = n
                BY <1>6
            <4> QED BY <4>1
        <3>2. PICK s \in Int : s = ToThe(z, j)
            BY <1>6, ToTheLaws
        <3>3. t = (s * z) % p
            BY <1>7, <3>1, <3>2, ToTheLaws
        <3>4. s * 0 = 0 /\ 0 % m = 0
            BY <1>6
        <3> QED BY <1>6, <2>1, <3>3, <3>4, Zenon
    <2>3. x * 0 = 0 /\ Rep(0, 0) /\ 0 \in 0 .. p - 1
        BY RepItself, PrimeIs
    <2>4. Rep(v, 0)
        BY <1>4, <1>6, <1>7, <2>2, <2>3
    <2>5. v = 0
        BY <2>3, <2>4, RepOfRests
    <2> QED BY <1>4, <1>5, <1>9, <2>5
<1>10. CASE ~P.inf
    <2>1. PICK a \in Int : a = P.x /\ a \in 0 .. p - 1 /\ Rep(a, a)
        BY <1>3, RepItself
    <2>2. z # 0 /\ x = (a * z) % p
        BY <1>1, <1>2, <1>10, <2>1, SameField DEF StandsFor, PairP
    <2>3. z \in 1 .. Prime - 1
        BY <1>1, <1>6, <2>2
    <2>4. (t * z) % p = 1
        BY <1>6, <1>8, <2>3, FermatAssumption
    <2>5. t * z \in Int /\ a * z \in Int
        OBVIOUS
    <2>6. Rep(t * z, t * z) /\ Rep(a * z, a * z) /\ Rep(t, t)
        BY <2>5, RepItself
    <2>7. Rep(1, t * z) /\ Rep(x, a * z)
        BY <2>2, <2>4, <2>6, RepRest
    <2>8. Rep(x * t, (a * z) * t)
        BY <2>6, <2>7, RepLaws, Zenon
    <2>9. Rep(v, (a * z) * t)
        BY <1>4, <1>6, <1>7, <2>8, RepChain, Zenon
    <2>10. Rep(a * 1, a * (t * z))
        BY <2>1, <2>7, RepLaws
    <2>11. a * 1 = a /\ a * (t * z) = (a * z) * t
        OBVIOUS
    <2>12. Rep(a, (a * z) * t)
        BY <2>10, <2>11
    <2>13. v = a
        BY <2>1, <2>9, <2>12, RepOfRests
    <2> QED BY <1>4, <1>5, <1>10, <2>1, <2>13
<1> QED BY <1>3, <1>9, <1>10

LEMMA EndsAtZero ==
    ASSUME NEW w \in Work, Mod(w.xp) = 0 \/ Mod(w.zp) = 0
    PROVE  Value(ScalarMultEnds(w)) = 0
<1>1. PICK x \in Int, z \in Int : x = Mod(w.xp) /\ z = Mod(w.zp)
    BY ModIsRest DEF Work
<1>2. PICK v \in 0 .. p - 1 : v = Value(ScalarMultEnds(w)) /\ Rep(v, x * ToThe(z, p - 2))
    BY <1>1, EndIs
<1>3. PICK m \in Nat, n \in Nat, j \in Nat : m = p /\ m >= 4 /\ n = p - 2 /\ n = j + 1
    <2>1. PICK m \in Nat : m = p /\ m >= 4
        BY PrimeIsPrime
    <2>2. m - 2 \in Nat /\ m - 3 \in Nat /\ m - 2 = (m - 3) + 1
        BY <2>1
    <2> QED BY <2>1, <2>2
<1>4. PICK t \in Int : t = ToThe(z, n)
    BY <1>1, <1>3, ToTheLaws
<1>5. z = 0 => t = 0
    <2>1. PICK s \in Int : s = ToThe(z, j)
        BY <1>3, ToTheLaws
    <2>2. t = (s * z) % p
        BY <1>3, <1>4, <2>1, ToTheLaws
    <2>3. s * 0 = 0 /\ 0 % m = 0
        BY <1>3
    <2> QED BY <1>3, <2>2, <2>3
<1>6. x * t = 0
    <2>1. 0 * t = 0 /\ x * 0 = 0
        OBVIOUS
    <2> QED BY <1>1, <1>5, <2>1
<1>7. Rep(v, 0) /\ Rep(0, 0) /\ 0 \in 0 .. p - 1
    BY <1>2, <1>3, <1>4, <1>6, RepItself
<1>8. v = 0
    BY <1>7, RepOfRests
<1> QED BY <1>2, <1>8
-----------------------------------------------------------------------------
(* The ladder.                                                             *)

\* The two pairs of coordinates stand for the multiples m.p and m.q of the point
\* with coordinate x0; the code has no point with coordinate 0, and gets 0.
PointsRight(w, m) ==
    IF Mod(w.x0) = 0 THEN (Mod(w.xp) = 0 \/ Mod(w.zp) = 0) /\ (Mod(w.xq) = 0 \/ Mod(w.zq) = 0)
    ELSE /\ StandsFor(PairP(w), MultipleOf(Mod(w.x0), m.p))
         /\ StandsFor(PairQ(w), MultipleOf(Mod(w.x0), m.q))

LEMMA PointsStartRight ==
    ASSUME NEW x \in Fe
    PROVE  PointsRight(LadderStart(x), [p |-> 0, q |-> 1])
<1>1. PICK u \in Int : u = Mod(x) /\ u \in 0 .. p - 1
    BY ModIsRest
<1> DEFINE w == LadderStart(x)
<1>2. /\ Mod(w.x0) = u /\ Mod(w.xp) = 1 /\ Mod(w.zp) = 0 /\ Mod(w.xq) = u /\ Mod(w.zq) = 1
    BY <1>1, OneAndZero DEF LadderStart
<1> DEFINE m == [p |-> 0, q |-> 1]
<1>0. m.p = 0 /\ m.q = 1
    OBVIOUS
<1> HIDE DEF w, m
<1>3. CASE u = 0
    <2>1. Mod(w.x0) = 0 /\ Mod(w.zp) = 0 /\ Mod(w.xq) = 0
        BY <1>2, <1>3
    <2>2. PointsRight(w, m)
        BY <2>1, Zenon DEF PointsRight
    <2> QED BY <2>2 DEF w, m
<1>4. CASE u # 0
    <2>1. u \in 1 .. p - 1
        BY <1>1, <1>4, PrimeIs
    <2>2. PICK P, Q : P = MultipleOf(u, 0) /\ Q = MultipleOf(u, 1) /\ P.inf = TRUE /\ Q.inf = FALSE /\ Q.x = u
        <3>1. Infinity.inf = TRUE
            BY DEF Infinity
        <3>2. /\ MultipleOf(u, 0) = Infinity
              /\ MultipleOf(u, 1).inf = FALSE /\ MultipleOf(u, 1).x = u
            BY <2>1, MultipleIs, Zenon
        <3>3. PICK P, Q : P = MultipleOf(u, 0) /\ Q = MultipleOf(u, 1)
            OBVIOUS
        <3> QED BY <3>1, <3>2, <3>3, Zenon
    <2>3. PairP(w).x = 1 /\ PairP(w).z = 0 /\ PairQ(w).x = u /\ PairQ(w).z = 1
        BY <1>2 DEF PairP, PairQ
    <2>4. StandsFor(PairP(w), P)
        BY <2>2, <2>3 DEF StandsFor
    <2>5. u = (u * 1) % Prime
        <3>1. PICK q \in Nat : q = p /\ q = Prime
            BY PrimeIsPrime
        <3>2. u * 1 = u /\ u % q = u
            BY <1>1, <3>1
        <3> QED BY <3>1, <3>2
    <2>6. StandsFor(PairQ(w), Q)
        BY <2>2, <2>3, <2>5 DEF StandsFor
    <2>7. PointsRight(w, m)
        <3>1. Mod(w.x0) # 0 /\ Mod(w.x0) = u
            BY <1>2, <1>4
        <3>2. StandsFor(PairP(w), MultipleOf(u, m.p)) /\ StandsFor(PairQ(w), MultipleOf(u, m.q))
            BY <1>0, <2>2, <2>4, <2>6
        <3> QED BY <3>1, <3>2 DEF PointsRight
    <2> QED BY <2>7 DEF w, m
<1> QED BY <1>3, <1>4

\* The conditional swap does not disturb it.
LEMMA SwapKeepsPoints ==
    ASSUME NEW w, NEW m, PointsRight(w, m), NEW b
    PROVE  PointsRight(work_cswap(w, b), IF b = 0 THEN m ELSE [p |-> m.q, q |-> m.p])
<1>1. CASE b = 0
    BY <1>1 DEF work_cswap
<1>2. CASE b # 0
    BY <1>2 DEF work_cswap, PointsRight, PairP, PairQ
<1> QED BY <1>1, <1>2

LEMMA ZeroStays ==
    ASSUME NEW w \in Work, Mod(w.x0) = 0, Mod(w.xp) = 0 \/ Mod(w.zp) = 0
    PROVE  Mod(ladderstep(w).zp) = 0 /\ Mod(ladderstep(w).zq) = 0
<1>1. PICK x \in Int, z \in Int, u \in Int, v \in Int :
          /\ x = Mod(w.xp) /\ Rep(x, x) /\ z = Mod(w.zp) /\ Rep(z, z)
          /\ u = Mod(w.xq) /\ Rep(u, u) /\ v = Mod(w.zq) /\ Rep(v, v)
    BY ModIsRest DEF Work
<1>2. Rep(0, 0) /\ 0 \in 0 .. p - 1
    BY RepItself, PrimeIs
<1> DEFINE r == ladderstep(w)
<1>3. Rep(Mod(r.zp), DoubledZ(x, z)) /\ Rep(Mod(r.zq), AddedZ(x, z, u, v, 0))
    BY <1>1, <1>2, StepReps
<1>4. r \in Work
    BY WorkIsSteppedInFe
<1> HIDE DEF r
<1>5. DoubledZ(x, z) = 0
    <2>1. (x + z) * (x + z) = (x - z) * (x - z)
        <3>1. CASE x = 0
            <4>1. (0 + z) * (0 + z) = (0 - z) * (0 - z)
                OBVIOUS
            <4> QED BY <3>1, <4>1
        <3>2. CASE z = 0
            <4>1. (x + 0) * (x + 0) = (x - 0) * (x - 0)
                OBVIOUS
            <4> QED BY <3>2, <4>1
        <3> QED BY <1>1, <3>1, <3>2
    <2>2. PICK s \in Int : s = (x + z) * (x + z)
        OBVIOUS
    <2>3. PICK a \in Int : a = A24
        BY ScalarAssumption, PrimeIs
    <2>4. (a * (s - s) + s) * (s - s) = 0
        <3>1. s - s = 0
            OBVIOUS
        <3>2. (a * 0 + s) * 0 = 0
            OBVIOUS
        <3> QED BY <3>1, <3>2
    <2>5. DoubledZ(x, z) = (a * (s - s) + s) * (s - s)
        BY <2>1, <2>2, <2>3 DEF DoubledZ
    <2> QED BY <2>4, <2>5
<1>6. AddedZ(x, z, u, v, 0) = 0
    <2>1. PICK m \in Int, n \in Int : m = CrossM(x, z, u, v) /\ n = CrossN(x, z, u, v)
        <3>1. (u + v) * (x - z) \in Int /\ (u - v) * (x + z) \in Int
            OBVIOUS
        <3> QED BY <3>1 DEF CrossM, CrossN
    <2>2. ((n - m) * (n - m)) * 0 = 0
        OBVIOUS
    <2> QED BY <2>1, <2>2 DEF AddedZ
<1>7. Mod(r.zp) \in 0 .. p - 1 /\ Mod(r.zq) \in 0 .. p - 1
    BY <1>4, ModIsRest DEF Work
<1>8. Mod(r.zp) = 0 /\ Mod(r.zq) = 0
    BY <1>2, <1>3, <1>5, <1>6, <1>7, RepOfRests
<1> QED BY <1>8 DEF r

LEMMA PairsOfWork ==
    ASSUME NEW w \in Work
    PROVE  PairP(w) \in Pairs /\ PairQ(w) \in Pairs /\ Mod(w.x0) \in 0 .. p - 1
<1>1. /\ Mod(w.x0) \in 0 .. p - 1 /\ Mod(w.xp) \in 0 .. p - 1 /\ Mod(w.zp) \in 0 .. p - 1
      /\ Mod(w.xq) \in 0 .. p - 1 /\ Mod(w.zq) \in 0 .. p - 1
    BY ModIsRest DEF Work
<1> QED BY <1>1 DEF PairP, PairQ, Pairs

\* One turn goes from two neighbouring multiples to the two of the next prefix.
LEMMA StepKeepsPoints ==
    ASSUME NEW w \in Work, NEW m, PointsRight(w, m), NEW k \in 0 .. p + C - 2,
           \/ m.p = k /\ m.q = k + 1
           \/ m.p = k + 1 /\ m.q = k
    PROVE  PointsRight(ladderstep(w), [p |-> 2 * m.p, q |-> 2 * k + 1])
<1>1. PICK q \in Nat, c \in Nat : q = p /\ q >= 4 /\ c = C /\ c >= 1
    BY PrimeIsPrime, BaseFacts
<1> DEFINE r == ladderstep(w)
<1>2. /\ r.x0 = w.x0 /\ PairP(r) = Doubled(PairP(w))
      /\ PairQ(r) = Added(PairP(w), PairQ(w), Mod(w.x0))
    BY StepIsMontgomery
<1>3. CASE Mod(w.x0) = 0
    <2>1. Mod(w.xp) = 0 \/ Mod(w.zp) = 0
        BY <1>3 DEF PointsRight
    <2>2. Mod(r.zp) = 0 /\ Mod(r.zq) = 0
        BY <1>3, <2>1, ZeroStays
    <2> HIDE DEF r
    <2>3. PointsRight(r, [p |-> 2 * m.p, q |-> 2 * k + 1])
        BY <1>2, <1>3, <2>2 DEF PointsRight
    <2> QED BY <2>3 DEF r
<1>4. CASE Mod(w.x0) # 0
    <2> HIDE DEF r
    <2>1. PICK u \in 1 .. p - 1 : u = Mod(w.x0)
        BY <1>1, <1>4, PairsOfWork
    <2>2. PICK d \in Pairs, e \in Pairs : d = PairP(w) /\ e = PairQ(w)
        BY PairsOfWork
    <2>3. StandsFor(d, MultipleOf(u, m.p)) /\ StandsFor(e, MultipleOf(u, m.q))
        BY <1>4, <2>1, <2>2 DEF PointsRight
    <2>4. k \in 0 .. p + C - 1 /\ k + 1 \in 0 .. p + C - 1
        BY <1>1
    <2>5. StandsFor(Doubled(d), MultipleOf(u, 2 * m.p))
        <3>1. m.p \in 0 .. p + C - 1
            BY <2>4
        <3> QED BY <2>3, <3>1, DoublingStands
    <2>6. StandsFor(Added(d, e, u), MultipleOf(u, 2 * k + 1))
        <3>1. CASE m.p = k /\ m.q = k + 1
            BY <2>3, <2>4, <3>1, AddingStands
        <3>2. CASE m.p = k + 1 /\ m.q = k
            BY <2>3, <2>4, <3>2, AddingStands
        <3> QED BY <3>1, <3>2
    <2>7. PointsRight(r, [p |-> 2 * m.p, q |-> 2 * k + 1])
        BY <1>2, <1>4, <2>1, <2>2, <2>5, <2>6 DEF PointsRight
    <2> QED BY <2>7 DEF r
<1> QED BY <1>3, <1>4

\* What the bits still to come are worth is not negative.
LEMMA RestIsNat ==
    ASSUME NEW e \in Fe
    PROVE  \A i \in 0 .. Bits : Rest(e, i) \in Nat
<1> DEFINE S == {i \in Nat : i <= Bits => Rest(e, i) \in Nat}
<1>1. 0 \in S
    BY RestEnds
<1>2. ASSUME NEW i \in Nat, i \in S PROVE i + 1 \in S
    <2> SUFFICES ASSUME i + 1 <= Bits PROVE Rest(e, i + 1) \in Nat
        OBVIOUS
    <2>1. i \in 0 .. Bits - 1
        BY BitsIs
    <2>2. PICK r \in Nat, g \in Nat, b \in {0, 1} : r = Rest(e, i) /\ g = Weight(i) /\ b = Bit(e, i)
        BY <1>2, <2>1, BitsIs, WeightLaws, BitIsBit
    <2>3. Rest(e, i + 1) = r + b * g
        BY <2>1, <2>2, RestGrowsByBit DEF RestGrows
    <2>4. 0 * g = 0 /\ 1 * g = g
        OBVIOUS
    <2> QED BY <2>2, <2>3, <2>4
<1> HIDE DEF S
<1>3. Nat \subseteq S
    BY <1>1, <1>2, NatSetInduction
<1> QED BY <1>3 DEF S

\* The bits gone over are worth no more than the number.
LEMMA TakenBound ==
    ASSUME NEW e \in Fe, NEW j \in 0 .. Bits, NEW k, Taken(e, k, j)
    PROVE  k \in Nat /\ k <= Value(e)
<1>1. PICK g \in Nat, r \in Nat : g = Weight(j) /\ g >= 1 /\ r = Rest(e, j)
    BY WeightLaws, RestIsNat
<1>2. k \in Nat /\ Value(e) = k * g + r
    BY <1>1 DEF Taken
<1>3. k * g >= k /\ k * g \in Nat
    BY <1>1, <1>2
<1> QED BY <1>1, <1>2, <1>3
-----------------------------------------------------------------------------
(* The key exchange.                                                       *)

\* What a call works on: the point is the base point or the peer's key, the bits
\* gone over are those of the scalar, and the pairs stand for their multiples.
CallRight ==
    /\ call.scalar = Clamp(secret[call.who])
    /\ Taken(call.scalar, prefix, bit + 1)
    /\ PointsRight(work, multiple)
    /\ call.what = "public" => Mod(work.x0) = BasePoint /\ public[call.who] = None
    /\ call.what = "shared" =>
           /\ public[call.who] # None /\ PeersKey(call.who) # None
           /\ Mod(work.x0) = Mod(fe25519_unpack(PeersKey(call.who)))
    /\ call.who = Bob => peer = Bob

PublicRight(a) ==
    public[a] # None => public[a] = Limbs(XOfMultiple(BasePoint, Value(Clamp(secret[a]))), N)

\* A shared secret is made from keys that are there, and stay what they are.
SharedRight(a) ==
    shared[a] # None =>
        /\ public[a] # None /\ PeersKey(a) # None
        /\ a = Bob => peer = Bob
        /\ shared[a] = Limbs(XOfMultiple(Mod(fe25519_unpack(PeersKey(a))), Value(Clamp(secret[a]))), N)

KeysInv ==
    /\ Inv
    /\ call # None => CallRight
    /\ \A a \in Party : PublicRight(a) /\ SharedRight(a)

LEMMA KeysInvInit == Init => KeysInv
<1> SUFFICES ASSUME Init PROVE KeysInv
    OBVIOUS
<1>1. Inv
    BY InvInit
<1> QED BY <1>1 DEF Init, KeysInv, PublicRight, SharedRight, Nobody

\* A multiplication starts from nothing gone over.
LEMMA StartsRight ==
    ASSUME Inv, NEW a \in Party, NEW what \in {"public", "shared"}, NEW point \in Fe,
           Starts(a, what, point), secret[a] # None, a = Bob => peer = Bob,
           what = "public" => Mod(fe25519_unpack(point)) = BasePoint /\ public[a] = None,
           what = "shared" => public[a] # None /\ PeersKey(a) # None /\ point = PeersKey(a)
    PROVE  CallRight'
<1>1. PICK s \in Fe : s = Clamp(secret[a]) /\ s[N] < TopBit
    BY ClampIs DEF Inv, TypeOK
<1>2. PICK y \in Fe : y = fe25519_unpack(point)
    BY UnpackInFe
<1>3. /\ call' = [who |-> a, what |-> what, scalar |-> s]
      /\ work' = LadderStart(y) /\ bit' = Bits - 1 /\ prefix' = 0 /\ multiple' = [p |-> 0, q |-> 1]
      /\ UNCHANGED <<peer, secret, public>>
    BY <1>1, <1>2 DEF Starts, keys
<1>4. call'.who = a /\ call'.what = what /\ call'.scalar = s
    BY <1>3
<1>5. Taken(s, 0, Bits)
    BY <1>1, TakenStarts
<1>6. Taken(call.scalar, prefix, bit + 1)'
    <2>1. bit' + 1 = Bits
        BY <1>3, BitsIs
    <2> QED BY <1>3, <1>4, <1>5, <2>1 DEF Taken, Value, Weight, Rest
<1>7. PointsRight(LadderStart(y), [p |-> 0, q |-> 1])
    BY <1>2, PointsStartRight
<1>8. PointsRight(work, multiple)'
    BY <1>3, <1>7 DEF PointsRight
<1>9. Mod(work'.x0) = Mod(fe25519_unpack(point))
    BY <1>2, <1>3 DEF LadderStart
<1>10. PeersKey(a)' = PeersKey(a)
    BY <1>3 DEF PeersKey
<1> QED BY <1>1, <1>3, <1>4, <1>6, <1>8, <1>9, <1>10 DEF CallRight

\* One turn goes over one bit.
LEMMA TurnRight ==
    ASSUME Inv, call # None, CallRight, LadderBit
    PROVE  CallRight'
<1>1. PICK next \in {0, 1} : next = Bit(call.scalar, bit) /\ Turn(IF next = prevbit THEN 0 ELSE 1, next) /\ bit >= 0
    BY BitIsBit DEF LadderBit
<1>2. PICK s \in Fe, j \in 0 .. Bits - 1 : s = call.scalar /\ j = bit
    BY <1>1 DEF Inv, TypeOK, Call
<1>3. PICK k \in Nat : k = prefix
    BY DEF Inv, InStep
<1>4. Taken(s, 2 * k + next, j)
    <2>1. Taken(s, k, j + 1)
        BY <1>2, <1>3 DEF CallRight
    <2> QED BY <1>1, <1>2, <2>1, TakenNext, Zenon
<1>5. k \in 0 .. p + C - 2
    <2>1. secret[call.who] \in Fe
        BY DEF Inv, TypeOK, Call
    <2>2. Value(s) \in 0 .. p + C - 1
        BY <1>2, <2>1, ClampIs DEF CallRight
    <2>3. PICK m \in Nat : m = 2 * k + next
        BY <1>3, <1>1
    <2>4. m <= Value(s)
        BY <1>2, <1>4, <2>3, BitsIs, TakenBound
    <2>5. PICK q \in Nat, c \in Nat : q = p /\ q >= 4 /\ c = C
        BY PrimeIsPrime, BaseFacts
    <2>6. PICK v \in Int : v = Value(s) /\ v <= q + c - 1
        BY <2>2, <2>5
    <2>7. 2 * k <= q + c - 1
        BY <1>1, <1>3, <2>3, <2>4, <2>6
    <2> QED BY <1>3, <2>5, <2>7
<1> DEFINE swap == IF next = prevbit THEN 0 ELSE 1
           m == IF swap = 0 THEN multiple ELSE [p |-> multiple.q, q |-> multiple.p]
           v == work_cswap(work, swap)
<1>6. /\ work' = ladderstep(v) /\ multiple' = [p |-> 2 * m.p, q |-> m.p + m.q]
      /\ prefix' = 2 * k + next /\ bit' = j - 1
      /\ UNCHANGED <<peer, secret, public, call>>
    BY <1>1, <1>2, <1>3 DEF Turn, keys
<1>7. \/ m.p = k /\ m.q = k + 1
      \/ m.p = k + 1 /\ m.q = k
    <2>1. \/ multiple.p = k /\ multiple.q = k + 1
          \/ multiple.p = k + 1 /\ multiple.q = k
        <3>1. multiple = [p |-> k, q |-> k + 1] \/ multiple = [p |-> k + 1, q |-> k]
            BY <1>3 DEF Inv, InStep
        <3> QED BY <3>1
    <2>2. CASE swap = 0
        BY <2>1, <2>2
    <2>3. CASE swap # 0
        BY <2>1, <2>3
    <2> QED BY <2>2, <2>3
<1>8. PointsRight(v, m)
    BY SwapKeepsPoints DEF CallRight
<1>9. v \in Work /\ v.x0 = work.x0
    <2>1. work \in Work
        BY DEF Inv, TypeOK
    <2>2. v.x0 = work.x0
        BY DEF work_cswap
    <2> QED BY <2>1, <2>2, WorkIsSwappedInFe
<1> HIDE DEF m, v
<1>10. PointsRight(ladderstep(v), [p |-> 2 * m.p, q |-> 2 * k + 1])
    BY <1>5, <1>7, <1>8, <1>9, StepKeepsPoints
<1>11. m.p + m.q = 2 * k + 1
    BY <1>3, <1>7
<1>12. PointsRight(work, multiple)'
    BY <1>6, <1>10, <1>11 DEF PointsRight
<1>13. work'.x0 = work.x0
    BY <1>6, <1>9, StepIsMontgomery
<1>14. Taken(call.scalar, prefix, bit + 1)'
    <2>1. bit' + 1 = j
        BY <1>6
    <2> QED BY <1>2, <1>4, <1>6, <2>1 DEF Taken
<1>15. PeersKey(call.who)' = PeersKey(call.who)
    BY <1>6 DEF PeersKey
<1> QED BY <1>6, <1>12, <1>13, <1>14, <1>15 DEF CallRight

\* After the last bit, which is 0, xp and zp stand for the multiple the scalar
\* names, although nothing swaps them back.
LEMMA EndsRight ==
    ASSUME Inv, call # None, CallRight, bit < 0
    PROVE  ScalarMultEnds(work) = Limbs(XOfMultiple(Mod(work.x0), Value(Clamp(secret[call.who]))), N)
<1>1. PICK s \in Fe : s = call.scalar /\ s = Clamp(secret[call.who])
    BY DEF Inv, TypeOK, Call, CallRight
<1>2. PICK k \in 0 .. p + C - 1 : k = Value(s) /\ k % 2 = 0
    <2>1. secret[call.who] \in Fe
        BY DEF Inv, TypeOK, Call
    <2> QED BY <1>1, <2>1, ClampIs
<1>3. prefix = k
    <2>1. bit + 1 = 0
        BY BitsIs DEF Inv, TypeOK
    <2>2. Taken(s, prefix, 0)
        BY <1>1, <2>1 DEF CallRight
    <2> QED BY <1>2, <2>2, TakenAll
<1>4. multiple.p = k
    <2>1. prevbit = 0
        BY <1>2, <1>3 DEF Inv, InStep
    <2> QED BY <1>3, <2>1 DEF Inv, InStep
<1>5. PICK u \in 0 .. p - 1 : u = Mod(work.x0)
    BY PairsOfWork DEF Inv, TypeOK
<1>6. work \in Work
    BY DEF Inv, TypeOK
<1>7. k \in 0 .. 2 * (p + C)
    <2>1. PICK q \in Nat, c \in Nat : q = p /\ c = C
        BY PrimeIsPrime, BaseFacts
    <2> QED BY <1>2, <2>1
<1>8. Value(ScalarMultEnds(work)) = XOfMultiple(u, k)
    <2>1. CASE u = 0
        <3>1. Mod(work.xp) = 0 \/ Mod(work.zp) = 0
            BY <1>5, <2>1 DEF CallRight, PointsRight
        <3>2. XOfMultiple(u, k) = 0
            BY <2>1 DEF XOfMultiple
        <3> QED BY <1>6, <3>1, <3>2, EndsAtZero
    <2>2. CASE u # 0
        <3>1. StandsFor(PairP(work), MultipleOf(u, k))
            BY <1>4, <1>5, <2>2 DEF CallRight, PointsRight
        <3>2. u \in 1 .. p - 1
            BY <1>5, <2>2, PrimeIs
        <3> QED BY <1>6, <1>7, <3>1, <3>2, EndsAtMultiple
    <2> QED BY <2>1, <2>2
<1>9. PICK x \in 0 .. p - 1 : x = XOfMultiple(u, k)
    BY <1>7, XOfType
<1>10. Limbs(x, N) \in Fe /\ Value(Limbs(x, N)) = x
    BY UnpackIs
<1>11. ScalarMultEnds(work) \in Fe
    BY <1>6, EndIs
<1>12. ScalarMultEnds(work) = Limbs(x, N)
    BY <1>8, <1>9, <1>10, <1>11, BaseFacts, ValueTells DEF Fe
<1> QED BY <1>1, <1>2, <1>5, <1>9, <1>12

\* Each action of the exchange keeps it.
LEMMA KeysInvNext == KeysInv /\ [Next]_vars => KeysInv'
<1> SUFFICES ASSUME KeysInv, [Next]_vars PROVE KeysInv'
    OBVIOUS
<1>0. Inv' /\ Inv /\ Alice \in Party /\ Bob \in Party /\ Alice # Bob
    BY InvNext, ExchangeAssumption DEF KeysInv
<1>1. ASSUME NEW a \in Party, SecretKey(a) PROVE KeysInv'
    <2>1. UNCHANGED <<peer, public, shared, call>> /\ call = None /\ secret[a] = None
        BY <1>1 DEF SecretKey, Acts, ladder
    <2>2. \A b \in Party \ {a} : secret'[b] = secret[b]
        BY <1>0, <1>1 DEF SecretKey, Inv, TypeOK
    <2>3. public[a] = None /\ shared[a] = None
        BY <2>1 DEF KeysInv, Inv, SharedRight
    <2>4. ASSUME NEW b \in Party PROVE PublicRight(b)' /\ SharedRight(b)'
        <3>1. CASE b = a
            BY <2>1, <2>3, <3>1 DEF PublicRight, SharedRight
        <3>2. CASE b # a
            BY <2>1, <2>2, <3>2 DEF KeysInv, PublicRight, SharedRight, PeersKey
        <3> QED BY <3>1, <3>2
    <2> QED BY <1>0, <2>1, <2>4 DEF KeysInv
<1>2. ASSUME NEW a \in Party, NEW what, NEW point, Starts(a, what, point), CallRight' PROVE KeysInv'
    <2>1. UNCHANGED <<peer, secret, public, shared>>
        BY <1>2 DEF Starts, keys
    <2>2. ASSUME NEW b \in Party PROVE PublicRight(b)' /\ SharedRight(b)'
        BY <2>1 DEF KeysInv, PublicRight, SharedRight, PeersKey
    <2> QED BY <1>0, <1>2, <2>2 DEF KeysInv
<1>3. ASSUME NEW a \in Party, PublicKey(a) PROVE KeysInv'
    <2>1. /\ secret[a] # None /\ public[a] = None /\ (a = Bob => peer = Bob)
          /\ Starts(a, "public", Limbs(BasePoint, N))
        BY <1>3 DEF PublicKey, Acts
    <2>2. Limbs(BasePoint, N) \in Fe /\ Mod(fe25519_unpack(Limbs(BasePoint, N))) = BasePoint
        <3>1. BasePoint \in 0 .. p - 1
            BY ScalarAssumption, PrimeIs
        <3> QED BY <3>1, UnpackIs
    <2>3. CallRight'
        BY <1>0, <2>1, <2>2, StartsRight
    <2> QED BY <1>2, <2>1, <2>3
<1>4. ASSUME NEW a \in Party, SharedSecret(a) PROVE KeysInv'
    <2>1. public[a] # None /\ (a = Bob => peer = Bob /\ public[Alice] # None)
        BY <1>4 DEF SharedSecret, Acts
    <2>2. secret[a] # None
        BY <1>0, <2>1 DEF Inv
    <2>3. peer = Bob \/ (peer \in Fe /\ peer # None)
        <3>1. Strangers \subseteq Fe /\ None \notin Fe
            BY ExchangeAssumption
        <3> QED BY <1>0, <3>1 DEF Inv, TypeOK
    <2>4. Starts(a, "shared", PeersKey(a)) /\ PeersKey(a) # None
        BY <1>0, <1>4, <2>1, <2>3 DEF SharedSecret, PeersKey
    <2>5. PeersKey(a) \in Fe
        BY <1>0, <2>3, <2>4 DEF PeersKey, Inv, TypeOK
    <2>6. PICK key1 \in Fe : key1 = PeersKey(a)
        BY <2>5
    <2>7. CallRight'
        BY <1>0, <2>1, <2>2, <2>4, <2>6, StartsRight
    <2> QED BY <1>2, <2>4, <2>7
<1>5. ASSUME LadderBit PROVE KeysInv'
    <2>1. call # None /\ UNCHANGED <<peer, secret, public, shared>>
        BY <1>5 DEF LadderBit, Turn, keys
    <2>2. CallRight'
        BY <1>0, <1>5, <2>1, TurnRight DEF KeysInv
    <2>3. ASSUME NEW b \in Party PROVE PublicRight(b)' /\ SharedRight(b)'
        BY <2>1 DEF KeysInv, PublicRight, SharedRight, PeersKey
    <2> QED BY <1>0, <2>2, <2>3 DEF KeysInv
<1>6. ASSUME Ends PROVE KeysInv'
    <2>1. call # None /\ bit < 0 /\ call' = None /\ UNCHANGED <<peer, secret>>
        BY <1>6 DEF Ends
    <2>2. CallRight
        BY <2>1 DEF KeysInv
    <2>3. PICK a \in Party : a = call.who
        BY <1>0, <2>1 DEF Inv, TypeOK, Call
    <2>4. PICK r : r = ScalarMultEnds(work) /\ r = Limbs(XOfMultiple(Mod(work.x0), Value(Clamp(secret[a]))), N)
        BY <1>0, <2>1, <2>2, <2>3, EndsRight
    <2>5. CASE call.what = "public"
        <3>1. public' = [public EXCEPT ![a] = r] /\ shared' = shared
            BY <1>6, <2>3, <2>4, <2>5 DEF Ends
        <3>2. public[a] = None /\ Mod(work.x0) = BasePoint
            BY <2>2, <2>3, <2>5 DEF CallRight
        <3>3. public'[a] = r /\ \A b \in Party \ {a} : public'[b] = public[b]
            BY <1>0, <3>1 DEF Inv, TypeOK
        <3>4. ASSUME NEW b \in Party PROVE PublicRight(b)'
            <4>1. PublicRight(b)
                BY DEF KeysInv
            <4> QED BY <2>1, <2>4, <3>2, <3>3, <4>1 DEF PublicRight
        <3>5. ASSUME NEW b \in Party PROVE SharedRight(b)'
            <4>1. CASE shared[b] = None
                BY <3>1, <4>1 DEF SharedRight
            <4>2. CASE shared[b] # None
                <5>1. SharedRight(b)
                    BY DEF KeysInv
                <5>2. public[b] # None /\ PeersKey(b) # None
                    BY <4>2, <5>1 DEF SharedRight
                <5>3. public'[b] = public[b]
                    BY <3>2, <3>3, <5>2
                <5>4. PeersKey(b)' = PeersKey(b)
                    BY <1>0, <2>1, <3>2, <3>3, <5>2 DEF PeersKey
                <5> QED BY <2>1, <3>1, <5>1, <5>3, <5>4 DEF SharedRight
            <4> QED BY <4>1, <4>2
        <3> QED BY <1>0, <2>1, <3>4, <3>5 DEF KeysInv
    <2>6. CASE call.what = "shared"
        <3>1. shared' = [shared EXCEPT ![a] = r] /\ public' = public
            BY <1>6, <2>3, <2>4, <2>6 DEF Ends
        <3>2. /\ public[a] # None /\ PeersKey(a) # None /\ (a = Bob => peer = Bob)
              /\ Mod(work.x0) = Mod(fe25519_unpack(PeersKey(a)))
            BY <2>2, <2>3, <2>6 DEF CallRight
        <3>3. shared'[a] = r /\ \A b \in Party \ {a} : shared'[b] = shared[b]
            BY <1>0, <3>1 DEF Inv, TypeOK
        <3>4. ASSUME NEW b \in Party PROVE PublicRight(b)' /\ PeersKey(b)' = PeersKey(b)
            BY <2>1, <3>1 DEF KeysInv, PublicRight, PeersKey
        <3>5. ASSUME NEW b \in Party PROVE SharedRight(b)'
            <4>1. SharedRight(b) /\ PeersKey(b)' = PeersKey(b)
                BY <3>4 DEF KeysInv
            <4> QED BY <2>1, <2>4, <3>1, <3>2, <3>3, <4>1 DEF SharedRight
        <3> QED BY <1>0, <2>1, <3>4, <3>5 DEF KeysInv
    <2> QED BY <1>0, <2>1, <2>5, <2>6 DEF Inv, TypeOK, Call
<1>7. ASSUME UNCHANGED vars PROVE KeysInv'
    <2>1. UNCHANGED <<peer, secret, public, shared, call, work, bit, prefix, multiple>>
        BY <1>7 DEF vars, keys, ladder
    <2>2. CallRight' = CallRight
        BY <2>1 DEF CallRight, PeersKey, PointsRight, Taken
    <2>3. ASSUME NEW b \in Party PROVE PublicRight(b)' /\ SharedRight(b)'
        BY <2>1 DEF KeysInv, PublicRight, SharedRight, PeersKey
    <2> QED BY <1>0, <2>1, <2>2, <2>3 DEF KeysInv
<1> QED BY <1>1, <1>3, <1>4, <1>5, <1>6, <1>7 DEF Next

\* Through every multiplication the two pairs of coordinates of mladder() stand
\* for the multiples of the point the bits gone over call for.
THEOREM LadderAlwaysRight == Spec => []LadderIsRight
<1>1. KeysInv => LadderIsRight
    BY DEF KeysInv, CallRight, PointsRight, LadderIsRight, PairP, PairQ, MultipleOf
<1> QED BY <1>1, KeysInvInit, KeysInvNext, PTL DEF Spec

\* Every key of the exchange is the reduced coordinate of the multiple that the
\* clamped secret names, of the base point or of whatever the peer has sent.
THEOREM KeysAlwaysMultiples == Spec => []KeysAreMultiples
<1>1. KeysInv => KeysAreMultiples
    BY DEF KeysInv, PublicRight, SharedRight, KeysAreMultiples
<1> QED BY <1>1, KeysInvInit, KeysInvNext, PTL DEF Spec

\* Both ends compute the same secret, whatever random bytes they start from.
THEOREM SecretsAlwaysAgree == Spec => []SharedSecretsAgree
<1>1. KeysInv => SharedSecretsAgree
    <2> SUFFICES ASSUME KeysInv, shared[Alice] # None, shared[Bob] # None
                 PROVE  shared[Alice] = shared[Bob]
        BY DEF SharedSecretsAgree
    <2>1. Inv /\ Alice \in Party /\ Bob \in Party /\ Alice # Bob
        BY ExchangeAssumption DEF KeysInv
    <2>2. peer = Bob
        BY <2>1 DEF KeysInv, SharedRight
    <2>3. PeersKey(Alice) = public[Bob] /\ PeersKey(Bob) = public[Alice]
        BY <2>1, <2>2 DEF PeersKey
    <2>4. public[Alice] # None /\ public[Bob] # None
        BY <2>1 DEF KeysInv, SharedRight
    <2>5. PICK j \in 0 .. p + C - 1, k \in 0 .. p + C - 1 :
              j = Value(Clamp(secret[Alice])) /\ k = Value(Clamp(secret[Bob]))
        <3>1. secret[Alice] \in Fe /\ secret[Bob] \in Fe
            BY <2>1, <2>4 DEF Inv, TypeOK
        <3> QED BY <3>1, ClampIs, Zenon
    <2>6. PICK q \in Nat, c \in Nat : q = p /\ q = Prime /\ c = C
        BY PrimeIsPrime, BaseFacts
    <2>7. j \in 0 .. 2 * (p + C) /\ k \in 0 .. 2 * (p + C)
        BY <2>6
    <2>8. BasePoint \in 0 .. p - 1
        BY ScalarAssumption, PrimeIs
    <2>9. PICK x \in 0 .. p - 1, y \in 0 .. p - 1 : x = XOfMultiple(BasePoint, j) /\ y = XOfMultiple(BasePoint, k)
        BY <2>7, <2>8, XOfType
    <2>10. public[Alice] = Limbs(x, N) /\ public[Bob] = Limbs(y, N)
        BY <2>1, <2>4, <2>5, <2>9 DEF KeysInv, PublicRight
    <2>11. Mod(fe25519_unpack(public[Alice])) = x /\ Mod(fe25519_unpack(public[Bob])) = y
        BY <2>10, UnpackIs
    <2>12. shared[Alice] = Limbs(XOfMultiple(y, j), N)
        BY <2>1, <2>3, <2>5, <2>11 DEF KeysInv, SharedRight
    <2>13. shared[Bob] = Limbs(XOfMultiple(x, k), N)
        BY <2>1, <2>3, <2>5, <2>11 DEF KeysInv, SharedRight
    <2>14. XOfMultiple(y, j) = XOfMultiple(x, k)
        <3>1. j \in 0 .. Prime + C - 1 /\ k \in 0 .. Prime + C - 1
            BY <2>6
        <3> QED BY <2>9, <3>1, MultiplesAssumption
    <2> QED BY <2>12, <2>13, <2>14
<1> QED BY <1>1, KeysInvInit, KeysInvNext, PTL DEF Spec
=============================================================================
