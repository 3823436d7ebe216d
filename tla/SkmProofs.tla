----------------------------- MODULE SkmProofs ------------------------------
(***************************************************************************)
(* Theorems about the encryption, for every key and every text: each step  *)
(* of a round and of the key's expansion is undone by its inverse, so that *)
(* decryption goes back through the states of encryption, block by block;  *)
(* the rounds are those of the standard; the check for UTF-8 accepts what  *)
(* it should; and a text comes back.                                       *)
(***************************************************************************)
EXTENDS Skm, DataLemmas

-----------------------------------------------------------------------------
(* AES, byte by byte.                                                      *)

\* Exclusive or, byte by byte.
LEMMA XorLaws ==
    ASSUME NEW a, NEW b, NEW c
    PROVE  /\ a ++ b = b ++ a
           /\ (a ++ b) ++ c = a ++ (b ++ c)
           /\ (a ++ b) ++ b = a
           /\ a ++ a = {} /\ a ++ {} = a
BY DEF ++

LEMMA XorIsByte == ASSUME NEW a \in Byte, NEW b \in Byte PROVE a ++ b \in Byte
BY DEF ++, Byte

\* A bit of twice x.
LEMMA BitOfXtime ==
    ASSUME NEW x \in Byte, NEW j
    PROVE  j \in rj_xtime(x) <=>
              /\ j \in 0 .. 7
              /\ (j - 1 \in x) # (7 \in x /\ j \in {0, 1, 3, 4})
<1>1. j \in ShiftLeft(x) <=> j \in 1 .. 7 /\ j - 1 \in x
    <2>1. ASSUME j \in ShiftLeft(x) PROVE j \in 1 .. 7 /\ j - 1 \in x
        BY <2>1 DEF ShiftLeft, Byte
    <2>2. ASSUME j \in 1 .. 7, j - 1 \in x PROVE j \in ShiftLeft(x)
        <3>1. j - 1 \in x \ {7} /\ (j - 1) + 1 = j
            BY <2>2
        <3> QED BY <3>1 DEF ShiftLeft
    <2> QED BY <2>1, <2>2
<1>2. j \in rj_xtime(x) <=> (j \in ShiftLeft(x)) # (7 \in x /\ j \in {0, 1, 3, 4})
    BY DEF rj_xtime, ++, X1b
<1>3. j - 1 \in x => j \in 0 .. 8 \/ j \notin Int
    BY DEF Byte
<1> QED BY <1>1, <1>2 DEF Byte

LEMMA XtimeIsByte == ASSUME NEW x \in Byte PROVE rj_xtime(x) \in Byte
BY BitOfXtime DEF Byte

\* Doubling is linear, which is all that the mixing needs of it.
LEMMA XtimeIsLinear ==
    ASSUME NEW x \in Byte, NEW y \in Byte
    PROVE  rj_xtime(x ++ y) = rj_xtime(x) ++ rj_xtime(y)
<1>1. x ++ y \in Byte
    BY XorIsByte
<1>2. ASSUME NEW j PROVE j \in rj_xtime(x ++ y) <=> j \in rj_xtime(x) ++ rj_xtime(y)
    <2>1. \A k : k \in x ++ y <=> ((k \in x) # (k \in y))
        BY DEF ++
    <2>2. j \in rj_xtime(x) ++ rj_xtime(y) <=> ((j \in rj_xtime(x)) # (j \in rj_xtime(y)))
        BY DEF ++
    <2> QED BY <1>1, <2>1, <2>2, BitOfXtime
<1> QED BY <1>2, Zenon

LEMMA XtimeOfNothing == rj_xtime({}) = {}
BY BitOfXtime DEF Byte

LEMMA RowMovesUndone == \A i \in 1 .. 16 : RowMovesInv[i] + 1 \in 1 .. 16 /\ RowMoves[RowMovesInv[i] + 1] + 1 = i
<1>1. \A i \in 1 .. 16 : i = 1 \/ i = 2 \/ i = 3 \/ i = 4 \/ i = 5 \/ i = 6 \/ i = 7 \/ i = 8 \/ i = 9
                         \/ i = 10 \/ i = 11 \/ i = 12 \/ i = 13 \/ i = 14 \/ i = 15 \/ i = 16
    OBVIOUS
<1> QED BY <1>1 DEF RowMoves, RowMovesInv

\* aes_shiftRows_inv moves every byte back.
LEMMA ShiftUndone == ASSUME NEW x \in Block PROVE aes_shiftRows_inv(aes_shiftRows(x)) = x
<1>1. \A i \in 1 .. 16 : aes_shiftRows(x)[RowMovesInv[i] + 1] = x[i]
    BY RowMovesUndone DEF aes_shiftRows
<1>2. aes_shiftRows_inv(aes_shiftRows(x)) = [i \in 1 .. 16 |-> x[i]]
    BY <1>1 DEF aes_shiftRows_inv
<1> QED BY <1>2 DEF Block

LEMMA ShiftIsBlock == ASSUME NEW x \in Block PROVE aes_shiftRows(x) \in Block
<1>1. \A i \in 1 .. 16 : RowMoves[i] + 1 \in 1 .. 16
    <2>1. \A i \in 1 .. 16 : i = 1 \/ i = 2 \/ i = 3 \/ i = 4 \/ i = 5 \/ i = 6 \/ i = 7 \/ i = 8 \/ i = 9
                             \/ i = 10 \/ i = 11 \/ i = 12 \/ i = 13 \/ i = 14 \/ i = 15 \/ i = 16
        OBVIOUS
    <2> QED BY <2>1 DEF RowMoves
<1> QED BY <1>1 DEF aes_shiftRows, Block

\* The inverse box undoes the box.
LEMMA SubUndone == ASSUME NEW x \in Block PROVE aes_subBytes_inv(aes_subBytes(x)) = x
<1>1. \A i \in 1 .. 16 : rj_sbox_inv[rj_sbox[x[i]]] = x[i]
    BY BoxesAssumption DEF Block
<1>2. aes_subBytes_inv(aes_subBytes(x)) = [i \in 1 .. 16 |-> x[i]]
    BY <1>1 DEF aes_subBytes_inv, aes_subBytes
<1> QED BY <1>2 DEF Block

LEMMA SubIsBlock == ASSUME NEW x \in Block PROVE aes_subBytes(x) \in Block
BY BoxesAssumption DEF aes_subBytes, Block

\* Adding the same key again takes it away.
LEMMA KeyAddedTwice ==
    ASSUME NEW x \in Block, NEW k, NEW from
    PROVE  aes_addRoundKey(aes_addRoundKey(x, k, from), k, from) = x
<1>1. \A i \in 1 .. 16 : (x[i] ++ k[from + i]) ++ k[from + i] = x[i]
    BY XorLaws
<1>2. aes_addRoundKey(aes_addRoundKey(x, k, from), k, from) = [i \in 1 .. 16 |-> x[i]]
    BY <1>1 DEF aes_addRoundKey
<1> QED BY <1>2 DEF Block

LEMMA KeyAddedIsBlock ==
    ASSUME NEW x \in Block, NEW k \in Key, NEW from \in {0, 16}
    PROVE  aes_addRoundKey(x, k, from) \in Block
<1>1. \A i \in 1 .. 16 : from + i \in 1 .. 32
    OBVIOUS
<1>2. \A i \in 1 .. 16 : x[i] ++ k[from + i] \in Byte
    BY <1>1, XorIsByte DEF Block, Key
<1> QED BY <1>2 DEF aes_addRoundKey, Block

\* Byte n, from byte i on, of the column that byte i is in.
Place(i, n) == ((i - 1) \div 4) * 4 + ((i + n - 2) % 4) + 1

LEMMA PlaceIs ==
    ASSUME NEW i \in 1 .. 16, NEW n \in 1 .. 4, NEW m \in 1 .. 4
    PROVE  /\ Place(i, n) \in 1 .. 16
           /\ Place(Place(i, n), m) = Place(i, ((n + m - 2) % 4) + 1)
           /\ Place(i, 1) = i
BY DEF Place

LEMMA AroundIs ==
    ASSUME NEW x, NEW i \in 1 .. 16
    PROVE  \A n \in 1 .. 4 : Around(x, i)[n] = x[Place(i, n)]
BY DEF Around, Place

\* The bytes a, b, c, d of a column are mixed into a1, b1, c1, d1; what
\* aes_mixColumns_inv makes of these in the place of a is a.
LEMMA MixOfColumn ==
    ASSUME NEW a \in Byte, NEW b \in Byte, NEW c \in Byte, NEW d \in Byte
    PROVE  LET e  == a ++ b ++ c ++ d
               a1 == a ++ e ++ rj_xtime(a ++ b)
               b1 == b ++ e ++ rj_xtime(b ++ c)
               c1 == c ++ e ++ rj_xtime(c ++ d)
               d1 == d ++ e ++ rj_xtime(d ++ a)
               e1 == a1 ++ b1 ++ c1 ++ d1
               x1 == e1 ++ rj_xtime(rj_xtime(rj_xtime(e1) ++ a1 ++ c1))
           IN  a1 ++ x1 ++ rj_xtime(a1 ++ b1) = a
<1> DEFINE A == rj_xtime(a)  B == rj_xtime(b)  G == rj_xtime(c)  D == rj_xtime(d)
           e  == a ++ b ++ c ++ d
           a1 == a ++ e ++ rj_xtime(a ++ b)
           b1 == b ++ e ++ rj_xtime(b ++ c)
           c1 == c ++ e ++ rj_xtime(c ++ d)
           d1 == d ++ e ++ rj_xtime(d ++ a)
           e1 == a1 ++ b1 ++ c1 ++ d1
           x1 == e1 ++ rj_xtime(rj_xtime(rj_xtime(e1) ++ a1 ++ c1))
<1>1. /\ rj_xtime(a ++ b) = A ++ B /\ rj_xtime(b ++ c) = B ++ G
      /\ rj_xtime(c ++ d) = G ++ D /\ rj_xtime(d ++ a) = D ++ A
    BY XtimeIsLinear
<1>2. A \in Byte /\ B \in Byte /\ G \in Byte /\ D \in Byte
    BY XtimeIsByte
<1>3. e \in Byte /\ a ++ b \in Byte /\ c ++ d \in Byte /\ a ++ c \in Byte
    BY XorIsByte
<1>4. rj_xtime(e) = A ++ B ++ G ++ D
    <2>1. rj_xtime((a ++ b) ++ c) = rj_xtime(a ++ b) ++ G /\ (a ++ b) ++ c \in Byte
        BY <1>3, XtimeIsLinear, XorIsByte
    <2>2. rj_xtime(((a ++ b) ++ c) ++ d) = rj_xtime((a ++ b) ++ c) ++ D
        BY <2>1, XtimeIsLinear
    <2> QED BY <1>1, <2>1, <2>2
<1>5. /\ a1 = a ++ e ++ (A ++ B) /\ b1 = b ++ e ++ (B ++ G)
      /\ c1 = c ++ e ++ (G ++ D) /\ d1 = d ++ e ++ (D ++ A)
    BY <1>1
<1> HIDE DEF A, B, G, D
<1>6. e1 = e
    <2> HIDE DEF a1, b1, c1, d1
    <2> QED BY <1>5 DEF ++
<1>7. rj_xtime(e1) ++ a1 ++ c1 = a ++ c
    <2> HIDE DEF a1, c1, e1
    <2>1. rj_xtime(e1) = A ++ B ++ G ++ D
        BY <1>4, <1>6
    <2> QED BY <1>5, <2>1 DEF ++
<1>8. x1 = e ++ rj_xtime(A ++ G)
    <2>1. rj_xtime(a ++ c) = A ++ G
        BY XtimeIsLinear DEF A, G
    <2> HIDE DEF e1, a1, c1
    <2> QED BY <1>6, <1>7, <2>1
<1>9. rj_xtime(a1 ++ b1) = (A ++ B) ++ rj_xtime(A ++ G)
    <2>1. a1 ++ b1 = (a ++ b) ++ (A ++ G)
        <3> HIDE DEF a1, b1
        <3> QED BY <1>5 DEF ++
    <2>2. A ++ G \in Byte
        BY <1>2, XorIsByte
    <2>3. rj_xtime((a ++ b) ++ (A ++ G)) = rj_xtime(a ++ b) ++ rj_xtime(A ++ G)
        BY <1>3, <2>2, XtimeIsLinear
    <2>4. rj_xtime(a ++ b) = A ++ B
        BY <1>1 DEF A, B
    <2> HIDE DEF a1, b1
    <2> QED BY <2>1, <2>3, <2>4
<1>10. a1 ++ x1 ++ rj_xtime(a1 ++ b1) = a
    <2> DEFINE t == rj_xtime(a1 ++ b1)  u == rj_xtime(A ++ G)
    <2>1. t = (A ++ B) ++ u /\ x1 = e ++ u
        BY <1>8, <1>9
    <2> HIDE DEF t, u, a1, x1
    <2>2. a1 ++ x1 ++ t = a
        BY <1>5, <2>1 DEF ++
    <2> QED BY <2>2 DEF t
<1> QED BY <1>10

LEMMA MixIsBlock == ASSUME NEW x \in Block PROVE aes_mixColumns(x) \in Block
<1> SUFFICES ASSUME NEW i \in 1 .. 16 PROVE aes_mixColumns(x)[i] \in Byte
    BY DEF aes_mixColumns, Block
<1>1. \A n \in 1 .. 4 : Around(x, i)[n] \in Byte
    <2> SUFFICES ASSUME NEW n \in 1 .. 4 PROVE Around(x, i)[n] \in Byte
        OBVIOUS
    <2>1. Around(x, i)[n] = x[Place(i, n)] /\ Place(i, n) \in 1 .. 16
        BY AroundIs, PlaceIs, ZenonT(30)
    <2> QED BY <2>1 DEF Block
<1>2. PICK a \in Byte, b \in Byte, c \in Byte, d \in Byte :
          Around(x, i)[1] = a /\ Around(x, i)[2] = b /\ Around(x, i)[3] = c /\ Around(x, i)[4] = d
    BY <1>1
<1>3. aes_mixColumns(x)[i] = a ++ (a ++ b ++ c ++ d) ++ rj_xtime(a ++ b)
    BY <1>2 DEF aes_mixColumns
<1>4. a ++ b \in Byte /\ a ++ b ++ c \in Byte /\ a ++ b ++ c ++ d \in Byte
    BY XorIsByte
<1>5. rj_xtime(a ++ b) \in Byte
    BY <1>4, XtimeIsByte
<1> QED BY <1>3, <1>4, <1>5, XorIsByte

\* A byte after aes_mixColumns.
LEMMA MixedByte ==
    ASSUME NEW x, NEW i \in 1 .. 16
    PROVE  aes_mixColumns(x)[i] =
              x[Place(i, 1)] ++ (x[Place(i, 1)] ++ x[Place(i, 2)] ++ x[Place(i, 3)] ++ x[Place(i, 4)])
                  ++ rj_xtime(x[Place(i, 1)] ++ x[Place(i, 2)])
<1>1. /\ Around(x, i)[1] = x[Place(i, 1)] /\ Around(x, i)[2] = x[Place(i, 2)]
      /\ Around(x, i)[3] = x[Place(i, 3)] /\ Around(x, i)[4] = x[Place(i, 4)]
    <2>1. \A n \in 1 .. 4 : Around(x, i)[n] = x[Place(i, n)]
        BY AroundIs, Zenon
    <2> QED BY <2>1
<1> QED BY <1>1 DEF aes_mixColumns

LEMMA Rotated ==
    ASSUME NEW a, NEW b, NEW c, NEW d
    PROVE  /\ b ++ c ++ d ++ a = a ++ b ++ c ++ d
           /\ c ++ d ++ a ++ b = a ++ b ++ c ++ d
           /\ d ++ a ++ b ++ c = a ++ b ++ c ++ d
BY DEF ++

\* aes_mixColumns_inv undoes aes_mixColumns.
LEMMA MixUndone == ASSUME NEW x \in Block PROVE aes_mixColumns_inv(aes_mixColumns(x)) = x
<1> DEFINE y == aes_mixColumns(x)
<1>1. ASSUME NEW i \in 1 .. 16 PROVE aes_mixColumns_inv(y)[i] = x[i]
    <2>1. PICK a \in Byte, b \in Byte, c \in Byte, d \in Byte :
              a = x[Place(i, 1)] /\ b = x[Place(i, 2)] /\ c = x[Place(i, 3)] /\ d = x[Place(i, 4)]
        <3>1. \A n \in 1 .. 4 : Place(i, n) \in 1 .. 16
            BY PlaceIs
        <3>2. \A j \in 1 .. 16 : x[j] \in Byte
            BY DEF Block
        <3>3. \A n \in 1 .. 4 : x[Place(i, n)] \in Byte
            BY <3>1, <3>2
        <3> QED BY <3>3
    <2> DEFINE e == a ++ b ++ c ++ d
    <2>2. ASSUME NEW n \in 1 .. 4
          PROVE  /\ Place(i, n) \in 1 .. 16
                 /\ \A m \in 1 .. 4 : Place(Place(i, n), m) = Place(i, ((n + m - 2) % 4) + 1)
        BY PlaceIs
    <2>3. y[Place(i, 1)] = a ++ e ++ rj_xtime(a ++ b)
        <3>1. Place(Place(i, 1), 1) = Place(i, 1) /\ Place(Place(i, 1), 2) = Place(i, 2)
              /\ Place(Place(i, 1), 3) = Place(i, 3) /\ Place(Place(i, 1), 4) = Place(i, 4)
            BY <2>2
        <3> QED BY <2>1, <2>2, <3>1, MixedByte
    <2>4. y[Place(i, 2)] = b ++ e ++ rj_xtime(b ++ c)
        <3>1. Place(Place(i, 2), 1) = Place(i, 2) /\ Place(Place(i, 2), 2) = Place(i, 3)
              /\ Place(Place(i, 2), 3) = Place(i, 4) /\ Place(Place(i, 2), 4) = Place(i, 1)
            BY <2>2
        <3>2. y[Place(i, 2)] = b ++ (b ++ c ++ d ++ a) ++ rj_xtime(b ++ c)
            BY <2>1, <2>2, <3>1, MixedByte
        <3> QED BY <3>2, Rotated
    <2>5. y[Place(i, 3)] = c ++ e ++ rj_xtime(c ++ d)
        <3>1. Place(Place(i, 3), 1) = Place(i, 3) /\ Place(Place(i, 3), 2) = Place(i, 4)
              /\ Place(Place(i, 3), 3) = Place(i, 1) /\ Place(Place(i, 3), 4) = Place(i, 2)
            BY <2>2
        <3>2. y[Place(i, 3)] = c ++ (c ++ d ++ a ++ b) ++ rj_xtime(c ++ d)
            BY <2>1, <2>2, <3>1, MixedByte
        <3> QED BY <3>2, Rotated
    <2>6. y[Place(i, 4)] = d ++ e ++ rj_xtime(d ++ a)
        <3>1. Place(Place(i, 4), 1) = Place(i, 4) /\ Place(Place(i, 4), 2) = Place(i, 1)
              /\ Place(Place(i, 4), 3) = Place(i, 2) /\ Place(Place(i, 4), 4) = Place(i, 3)
            BY <2>2
        <3>2. y[Place(i, 4)] = d ++ (d ++ a ++ b ++ c) ++ rj_xtime(d ++ a)
            BY <2>1, <2>2, <3>1, MixedByte
        <3> QED BY <3>2, Rotated
    <2> HIDE DEF y
    <2>7. /\ Around(y, i)[1] = y[Place(i, 1)] /\ Around(y, i)[2] = y[Place(i, 2)]
          /\ Around(y, i)[3] = y[Place(i, 3)] /\ Around(y, i)[4] = y[Place(i, 4)]
        <3>1. \A n \in 1 .. 4 : Around(y, i)[n] = y[Place(i, n)]
            BY AroundIs, Zenon
        <3> QED BY <3>1
    <2> DEFINE a1 == a ++ e ++ rj_xtime(a ++ b)
               b1 == b ++ e ++ rj_xtime(b ++ c)
               c1 == c ++ e ++ rj_xtime(c ++ d)
               d1 == d ++ e ++ rj_xtime(d ++ a)
               e1 == a1 ++ b1 ++ c1 ++ d1
               x1 == e1 ++ rj_xtime(rj_xtime(rj_xtime(e1) ++ a1 ++ c1))
    <2>8. a1 ++ x1 ++ rj_xtime(a1 ++ b1) = a
        BY MixOfColumn
    <2>9. Around(y, i)[1] = a1 /\ Around(y, i)[2] = b1 /\ Around(y, i)[3] = c1 /\ Around(y, i)[4] = d1
        BY <2>3, <2>4, <2>5, <2>6, <2>7
    <2> HIDE DEF a1, b1, c1, d1, e
    <2>10. aes_mixColumns_inv(y)[i] = a1 ++ x1 ++ rj_xtime(a1 ++ b1)
        BY <2>9 DEF aes_mixColumns_inv
    <2>11. x[i] = a
        BY <2>1, PlaceIs
    <2> QED BY <2>8, <2>10, <2>11
<1> HIDE DEF y
<1>2. aes_mixColumns_inv(y) = [i \in 1 .. 16 |-> aes_mixColumns_inv(y)[i]]
    BY DEF aes_mixColumns_inv
<1>3. x = [i \in 1 .. 16 |-> x[i]]
    BY DEF Block
<1>4. aes_mixColumns_inv(y) = x
    BY <1>1, <1>2, <1>3
<1> QED BY <1>4 DEF y

-----------------------------------------------------------------------------
(* The key, forwards and backwards.                                        *)

\* The function in aes_expandEncKey().
IsExpanded(f, k, rc) ==
    f = [i \in 1 .. 32 |-> k[i] ++ (IF i <= 4 THEN TakenIn(k, i, rc) ELSE TakenIn(f, i, rc))]

LEMMA TakenInIsByte ==
    ASSUME NEW k, NEW i \in 1 .. 32, NEW rc \in Byte,
           i <= 4 => \A j \in 29 .. 32 : k[j] \in Byte,
           i > 4 => k[i - 4] \in Byte
    PROVE  TakenIn(k, i, rc) \in Byte
<1>1. \A x \in Byte : rj_sbox[x] \in Byte
    BY BoxesAssumption
<1>2. {} \in Byte
    BY DEF Byte
<1>3. CASE i <= 4
    <2>1. 29 + (i % 4) \in 29 .. 32
        OBVIOUS
    <2>2. rj_sbox[k[29 + (i % 4)]] \in Byte
        BY <1>1, <1>3, <2>1
    <2> QED BY <1>2, <1>3, <2>2, XorIsByte DEF TakenIn
<1>4. CASE ~(i <= 4)
    <2>1. k[i - 4] \in Byte
        BY <1>4
    <2> QED BY <1>1, <1>4, <2>1 DEF TakenIn
<1> QED BY <1>3, <1>4

\* There is such a function, because each byte takes in one that is lower.
LEMMA ExpandedExists ==
    ASSUME NEW k \in Key, NEW rc \in Byte
    PROVE  \E f \in Key : IsExpanded(f, k, rc)
<1> DEFINE Has(m) == \E f \in Key :
                        \A i \in 1 .. 32 : i <= m => f[i] = k[i] ++ (IF i <= 4 THEN TakenIn(k, i, rc) ELSE TakenIn(f, i, rc))
           S == {m \in Nat : Has(m)}
<1>1. 0 \in S
    <2>1. \A i \in 1 .. 32 : ~(i <= 0)
        OBVIOUS
    <2>2. Has(0)
        BY <2>1
    <2> QED BY <2>2
<1>2. ASSUME NEW m \in Nat, m \in S PROVE m + 1 \in S
    <2>1. PICK f \in Key : \A i \in 1 .. 32 : i <= m => f[i] = k[i] ++ (IF i <= 4 THEN TakenIn(k, i, rc) ELSE TakenIn(f, i, rc))
        BY <1>2
    <2>2. PICK n \in Nat : n = m + 1
        OBVIOUS
    <2>3. CASE n > 32
        <3>1. \A i \in 1 .. 32 : i <= m
            BY <2>2, <2>3
        <3>2. Has(n)
            BY <2>1, <3>1
        <3> QED BY <2>2, <3>2
    <2>4. CASE n \in 1 .. 32
        <3> DEFINE v == k[n] ++ (IF n <= 4 THEN TakenIn(k, n, rc) ELSE TakenIn(f, n, rc))
                   g == [f EXCEPT ![n] = v]
        <3>1. v \in Byte
            <4>1. TakenIn(k, n, rc) \in Byte
                <5>1. \A j \in 1 .. 32 : k[j] \in Byte
                    BY DEF Key
                <5>2. n > 4 => n - 4 \in 1 .. 32
                    BY <2>4
                <5> QED BY <2>4, <5>1, <5>2, TakenInIsByte
            <4>2. TakenIn(f, n, rc) \in Byte
                <5>1. \A j \in 1 .. 32 : f[j] \in Byte
                    BY DEF Key
                <5>2. n > 4 => n - 4 \in 1 .. 32
                    BY <2>4
                <5> QED BY <2>4, <5>1, <5>2, TakenInIsByte
            <4> QED BY <2>4, <4>1, <4>2, XorIsByte DEF Key
        <3> HIDE DEF v
        <3>2. g \in Key /\ g[n] = v /\ \A i \in 1 .. 32 : i # n => g[i] = f[i]
            BY <2>4, <3>1 DEF Key
        <3> HIDE DEF g
        <3>3. ASSUME NEW i \in 1 .. 32, i <= n, i > 4 PROVE TakenIn(g, i, rc) = TakenIn(f, i, rc)
            <4>1. i - 4 \in 1 .. 32 /\ i - 4 # n
                BY <3>3
            <4> QED BY <3>2, <3>3, <4>1 DEF TakenIn
        <3>4. ASSUME NEW i \in 1 .. 32, i <= n
              PROVE  g[i] = k[i] ++ (IF i <= 4 THEN TakenIn(k, i, rc) ELSE TakenIn(g, i, rc))
            <4>1. CASE i = n
                BY <3>2, <3>3, <3>4, <4>1 DEF v
            <4>2. CASE i # n
                <5>1. i <= m /\ g[i] = f[i]
                    BY <2>2, <3>2, <3>4, <4>2
                <5> QED BY <2>1, <3>3, <3>4, <5>1
            <4> QED BY <4>1, <4>2
        <3>5. Has(n)
            BY <3>2, <3>4
        <3> QED BY <2>2, <3>5
    <2> QED BY <2>2, <2>3, <2>4
<1> HIDE DEF S
<1>3. Nat \subseteq S
    BY <1>1, <1>2, NatSetInduction
<1>4. 32 \in S
    BY <1>3
<1>5. PICK f \in Key : \A i \in 1 .. 32 : i <= 32 => f[i] = k[i] ++ (IF i <= 4 THEN TakenIn(k, i, rc) ELSE TakenIn(f, i, rc))
    BY <1>4 DEF S
<1>6. \A i \in 1 .. 32 : f[i] = k[i] ++ (IF i <= 4 THEN TakenIn(k, i, rc) ELSE TakenIn(f, i, rc))
    BY <1>5
<1>7. f = [i \in 1 .. 32 |-> f[i]]
    BY DEF Key
<1>8. IsExpanded(f, k, rc)
    BY <1>6, <1>7, Zenon DEF IsExpanded
<1> QED BY <1>8

LEMMA ExpandedIsKey ==
    ASSUME NEW k \in Key, NEW rc \in Byte, NEW f, IsExpanded(f, k, rc)
    PROVE  f \in Key
<1>0. /\ f = [i \in 1 .. 32 |-> f[i]]
      /\ \A i \in 1 .. 32 : f[i] = k[i] ++ (IF i <= 4 THEN TakenIn(k, i, rc) ELSE TakenIn(f, i, rc))
    BY Zenon DEF IsExpanded
<1> DEFINE S == {m \in Nat : \A i \in 1 .. 32 : i <= m => f[i] \in Byte}
<1>1. 0 \in S
    OBVIOUS
<1>2. ASSUME NEW m \in Nat, m \in S PROVE m + 1 \in S
    <2>1. \A j \in 1 .. 32 : k[j] \in Byte
        BY DEF Key
    <2>2. ASSUME NEW i \in 1 .. 32, i = m + 1 PROVE f[i] \in Byte
        <3>1. CASE i <= 4
            <4>1. TakenIn(k, i, rc) \in Byte
                BY <2>1, <3>1, TakenInIsByte
            <4>2. k[i] ++ TakenIn(k, i, rc) \in Byte
                BY <2>1, <4>1, XorIsByte
            <4> QED BY <1>0, <3>1, <4>2
        <3>2. CASE i > 4
            <4>1. i - 4 \in 1 .. 32 /\ i - 4 <= m
                BY <2>2, <3>2
            <4>2. f[i - 4] \in Byte
                BY <1>2, <4>1
            <4>3. TakenIn(f, i, rc) \in Byte
                BY <3>2, <4>2, TakenInIsByte
            <4>4. k[i] ++ TakenIn(f, i, rc) \in Byte
                BY <2>1, <4>3, XorIsByte
            <4> QED BY <1>0, <3>2, <4>4
        <3> QED BY <3>1, <3>2
    <2>3. ASSUME NEW i \in 1 .. 32, i <= m + 1 PROVE f[i] \in Byte
        <3>1. i = m + 1 \/ i <= m
            BY <2>3
        <3> QED BY <1>2, <2>2, <3>1
    <2> QED BY <2>3
<1> HIDE DEF S
<1>3. Nat \subseteq S
    BY <1>1, <1>2, NatSetInduction
<1>4. 32 \in S
    BY <1>3
<1>5. \A i \in 1 .. 32 : f[i] \in Byte
    BY <1>4 DEF S
<1> QED BY <1>0, <1>5 DEF Key

LEMMA WholeKey == ASSUME NEW f \in Key PROVE SubSeq(f, 1, 32) = f
<1>1. f \in Seq(Byte) /\ Len(f) = 32
    BY FunctionIsSeq, Zenon DEF Key
<1>2. \A i \in 1 .. 32 : f[i] \in Byte
    BY DEF Key
<1> DEFINE g == SubSeq(f, 1, 32)
<1>3. g \in Seq(Byte) /\ Len(g) = 32 - 1 + 1 /\ \A i \in 1 .. 32 - 1 + 1 : g[i] = f[1 + i - 1]
    BY <1>1, <1>2, SubSeqProperties
<1> HIDE DEF g
<1>4. Len(g) = 32 /\ \A i \in 1 .. 32 : g[i] = f[i]
    BY <1>3
<1>5. g = f
    BY <1>1, <1>3, <1>4, SeqEqual, Zenon
<1> QED BY <1>5 DEF g

\* aes_expandEncKey makes a key of a key, the bytes of which it takes in as it
\* goes.
LEMMA ExpandEncKeyIs ==
    ASSUME NEW k \in Key, NEW rc \in Byte
    PROVE  aes_expandEncKey(k, rc) \in Key /\ IsExpanded(aes_expandEncKey(k, rc), k, rc)
<1> DEFINE f == CHOOSE g : IsExpanded(g, k, rc)
<1>1. IsExpanded(f, k, rc)
    BY ExpandedExists
<1>2. f \in Key
    BY <1>1, ExpandedIsKey
<1>3. aes_expandEncKey(k, rc) = SubSeq(f, 1, 32)
    BY DEF aes_expandEncKey, IsExpanded
<1> HIDE DEF f
<1>4. aes_expandEncKey(k, rc) = f
    BY <1>2, <1>3, WholeKey
<1> QED BY <1>1, <1>2, <1>4

\* aes_expandDecKey undoes aes_expandEncKey.
LEMMA ExpansionUndone ==
    ASSUME NEW k \in Key, NEW rc \in Byte
    PROVE  aes_expandDecKey(aes_expandEncKey(k, rc), rc) = k
<1>1. PICK f \in Key : f = aes_expandEncKey(k, rc) /\ IsExpanded(f, k, rc)
    BY ExpandEncKeyIs
<1>2. \A i \in 1 .. 32 : f[i] = k[i] ++ (IF i <= 4 THEN TakenIn(k, i, rc) ELSE TakenIn(f, i, rc))
    BY <1>1, Zenon DEF IsExpanded
<1> DEFINE undone == [i \in 1 .. 32 |-> IF i <= 4 THEN f[i] ELSE f[i] ++ TakenIn(f, i, rc)]
<1>3. \A i \in 5 .. 32 : undone[i] = k[i]
    <2> SUFFICES ASSUME NEW i \in 5 .. 32 PROVE undone[i] = k[i]
        OBVIOUS
    <2>1. i \in 1 .. 32 /\ ~(i <= 4)
        OBVIOUS
    <2>2. undone[i] = f[i] ++ TakenIn(f, i, rc)
        BY <2>1
    <2>3. f[i] = k[i] ++ TakenIn(f, i, rc)
        BY <1>2, <2>1
    <2> QED BY <2>2, <2>3, XorLaws
<1> HIDE DEF undone
<1>4. ASSUME NEW i \in 1 .. 4 PROVE f[i] ++ TakenIn(undone, i, rc) = k[i]
    <2>1. i \in 1 .. 32 /\ i <= 4 /\ 29 + (i % 4) \in 5 .. 32
        OBVIOUS
    <2>2. undone[29 + (i % 4)] = k[29 + (i % 4)]
        BY <1>3, <2>1
    <2>3. TakenIn(undone, i, rc) = TakenIn(k, i, rc)
        BY <2>1, <2>2 DEF TakenIn
    <2>4. f[i] = k[i] ++ TakenIn(k, i, rc)
        BY <1>2, <2>1
    <2> QED BY <2>3, <2>4, XorLaws
<1>5. aes_expandDecKey(f, rc) = [i \in 1 .. 32 |-> IF i <= 4 THEN f[i] ++ TakenIn(undone, i, rc) ELSE undone[i]]
    BY DEF aes_expandDecKey, undone
<1>6. aes_expandDecKey(f, rc) = [i \in 1 .. 32 |-> k[i]]
    <2>1. ASSUME NEW i \in 1 .. 32
          PROVE  (IF i <= 4 THEN f[i] ++ TakenIn(undone, i, rc) ELSE undone[i]) = k[i]
        <3>1. i \in 1 .. 4 \/ (i \in 5 .. 32 /\ ~(i <= 4))
            OBVIOUS
        <3> QED BY <1>3, <1>4, <3>1
    <2> QED BY <1>5, <2>1
<1>7. k = [i \in 1 .. 32 |-> k[i]]
    BY DEF Key
<1> QED BY <1>1, <1>6, <1>7

\* The round constant, forwards and backwards.
LEMMA RconSteps ==
    ASSUME NEW n \in 0 .. 6
    PROVE  /\ rj_xtime({n}) = {n + 1} /\ FD({n + 1}) = {n}
           /\ {n} \in Byte
<1>1. {n} \in Byte
    BY DEF Byte
<1>2. rj_xtime({n}) = {n + 1}
    <2>1. \A j : j \in rj_xtime({n}) <=> j \in 0 .. 7 /\ j - 1 = n
        BY <1>1, BitOfXtime
    <2> QED BY <2>1
<1>3. FD({n + 1}) = {n}
    <2>1. {n + 1} \ {0} = {n + 1} /\ 0 \notin {n + 1}
        OBVIOUS
    <2>2. ShiftRight({n + 1}) = {n}
        BY <2>1 DEF ShiftRight
    <2> QED BY <2>1, <2>2 DEF FD, ++
<1> QED BY <1>1, <1>2, <1>3

-----------------------------------------------------------------------------
(* The keys of the rounds.                                                 *)

\* What aes256_init goes through; schedule[n].key is that of rounds 2n, 2n + 1.
IsSchedule(f, k) ==
    f = [n \in 0 .. 7 |->
            IF n = 0 THEN [key |-> k, rcon |-> {0}]
            ELSE [key |-> aes_expandEncKey(f[n - 1].key, f[n - 1].rcon), rcon |-> rj_xtime(f[n - 1].rcon)]]

Expanding == [key : Key, rcon : Byte]

LEMMA ScheduleExists == ASSUME NEW k \in Key PROVE \E f : IsSchedule(f, k)
<1> DEFINE step == [z \in (1 .. 7) \X Expanding |->
                       [key |-> aes_expandEncKey(z[2].key, z[2].rcon), rcon |-> rj_xtime(z[2].rcon)]]
           first == [key |-> k, rcon |-> {0}]
<1>1. first \in Expanding
    BY DEF Expanding, Byte
<1>2. step \in [(1 .. 7) \X Expanding -> Expanding]
    <2>1. ASSUME NEW z \in (1 .. 7) \X Expanding
          PROVE  [key |-> aes_expandEncKey(z[2].key, z[2].rcon), rcon |-> rj_xtime(z[2].rcon)] \in Expanding
        <3>1. z[2].key \in Key /\ z[2].rcon \in Byte
            BY DEF Expanding
        <3>2. aes_expandEncKey(z[2].key, z[2].rcon) \in Key
            BY <3>1, ExpandEncKeyIs
        <3>3. rj_xtime(z[2].rcon) \in Byte
            BY <3>1, XtimeIsByte
        <3> QED BY <3>2, <3>3 DEF Expanding
    <2> QED BY <2>1
<1>3. \A i \in 1 .. 7, u \in Expanding :
          step[<<i, u>>] = [key |-> aes_expandEncKey(u.key, u.rcon), rcon |-> rj_xtime(u.rcon)]
    <2>1. \A i \in 1 .. 7, u \in Expanding : <<i, u>> \in (1 .. 7) \X Expanding
        OBVIOUS
    <2> QED BY <2>1
<1> HIDE DEF step, first
<1>4. PICK f \in [0 .. 7 -> Expanding] : IsRecursion(f, 7, first, step)
    BY <1>1, <1>2, RecursionExists, Zenon
<1>5. ASSUME NEW n \in 0 .. 7
      PROVE  f[n] = IF n = 0 THEN first
                    ELSE [key |-> aes_expandEncKey(f[n - 1].key, f[n - 1].rcon), rcon |-> rj_xtime(f[n - 1].rcon)]
    <2>1. f[n] = IF n = 0 THEN first ELSE step[<<n, f[n - 1]>>]
        BY <1>4, Zenon DEF IsRecursion
    <2>2. n # 0 => n \in 1 .. 7 /\ f[n - 1] \in Expanding
        OBVIOUS
    <2> QED BY <1>3, <2>1, <2>2, Zenon
<1>6. f = [n \in 0 .. 7 |-> f[n]]
    OBVIOUS
<1>7. IsSchedule(f, k)
    BY <1>5, <1>6, Zenon DEF IsSchedule, first
<1> QED BY <1>7

Schedule == CHOOSE f : IsSchedule(f, CipherKey)

K(n) == Schedule[n].key

\* Each key of the schedule is the one before it expanded with its number as the
\* round constant; decryption starts from the last one.
LEMMA ScheduleIs ==
    /\ K(0) = CipherKey /\ Ctx.enckey = K(0) /\ Ctx.deckey = K(7)
    /\ \A n \in 0 .. 7 : K(n) \in Key
    /\ \A n \in 0 .. 6 : K(n + 1) = aes_expandEncKey(K(n), {n})
<1>0. CipherKey \in Key
    BY SkmAssumption
<1>1. IsSchedule(Schedule, CipherKey)
    BY <1>0, ScheduleExists DEF Schedule
<1>2. \A n \in 0 .. 7 : Schedule[n] = IF n = 0 THEN [key |-> CipherKey, rcon |-> {0}]
            ELSE [key |-> aes_expandEncKey(Schedule[n - 1].key, Schedule[n - 1].rcon),
                  rcon |-> rj_xtime(Schedule[n - 1].rcon)]
    BY <1>1, Zenon DEF IsSchedule
<1>3. Schedule[0] = [key |-> CipherKey, rcon |-> {0}]
    BY <1>2
<1>4. \A n \in 0 .. 6 : Schedule[n + 1] =
            [key |-> aes_expandEncKey(Schedule[n].key, Schedule[n].rcon), rcon |-> rj_xtime(Schedule[n].rcon)]
    <2> SUFFICES ASSUME NEW n \in 0 .. 6
                 PROVE  Schedule[n + 1] = [key |-> aes_expandEncKey(Schedule[n].key, Schedule[n].rcon),
                                           rcon |-> rj_xtime(Schedule[n].rcon)]
        OBVIOUS
    <2>1. n + 1 \in 0 .. 7 /\ n + 1 # 0 /\ (n + 1) - 1 = n
        OBVIOUS
    <2> QED BY <1>2, <2>1, Zenon
<1> DEFINE S == {n \in Nat : n <= 7 => Schedule[n].key \in Key /\ Schedule[n].rcon = {n}}
<1>5. 0 \in S
    BY <1>0, <1>3
<1>6. ASSUME NEW n \in Nat, n \in S PROVE n + 1 \in S
    <2> SUFFICES ASSUME n + 1 <= 7 PROVE Schedule[n + 1].key \in Key /\ Schedule[n + 1].rcon = {n + 1}
        OBVIOUS
    <2>1. n \in 0 .. 6 /\ Schedule[n].key \in Key /\ Schedule[n].rcon = {n}
        BY <1>6
    <2>2. {n} \in Byte /\ rj_xtime({n}) = {n + 1}
        BY <2>1, RconSteps, Zenon
    <2>3. aes_expandEncKey(Schedule[n].key, {n}) \in Key
        BY <2>1, <2>2, ExpandEncKeyIs
    <2>4. Schedule[n + 1] = [key |-> aes_expandEncKey(Schedule[n].key, {n}), rcon |-> {n + 1}]
        BY <1>4, <2>1, <2>2, Zenon
    <2> QED BY <2>3, <2>4
<1> HIDE DEF S
<1>7. Nat \subseteq S
    BY <1>5, <1>6, NatSetInduction
<1>8. \A n \in 0 .. 7 : Schedule[n].key \in Key /\ Schedule[n].rcon = {n}
    BY <1>7 DEF S
<1>9. \A n \in 0 .. 6 : K(n + 1) = aes_expandEncKey(K(n), {n})
    <2> SUFFICES ASSUME NEW n \in 0 .. 6 PROVE K(n + 1) = aes_expandEncKey(K(n), {n})
        BY Zenon
    <2>1. Schedule[n].rcon = {n}
        BY <1>8
    <2>2. Schedule[n + 1] = [key |-> aes_expandEncKey(Schedule[n].key, {n}), rcon |-> rj_xtime({n})]
        BY <1>4, <2>1, Zenon
    <2> QED BY <2>2 DEF K
<1>10. Ctx = [enckey |-> CipherKey, deckey |-> Schedule[7].key]
    BY DEF Ctx, aes256_init, Schedule, IsSchedule
<1> QED BY <1>3, <1>8, <1>9, <1>10 DEF K

-----------------------------------------------------------------------------
(* A round, forwards and backwards.                                        *)

\* What round r of encryption makes of x.
Stirred(x, r) ==
    IF r = 14 THEN aes_shiftRows(aes_subBytes(x))
    ELSE aes_mixColumns(aes_shiftRows(aes_subBytes(x)))

Half(r) == IF r % 2 = 1 THEN 16 ELSE 0

RoundOf(x, r) == aes_addRoundKey(Stirred(x, r), K(r \div 2), Half(r))

LEMMA StirredIsBlock == ASSUME NEW x \in Block, NEW r PROVE Stirred(x, r) \in Block
<1>1. aes_subBytes(x) \in Block
    BY SubIsBlock
<1>2. aes_shiftRows(aes_subBytes(x)) \in Block
    BY <1>1, ShiftIsBlock
<1>3. aes_mixColumns(aes_shiftRows(aes_subBytes(x))) \in Block
    BY <1>2, MixIsBlock
<1> QED BY <1>2, <1>3 DEF Stirred

LEMMA RoundIsBlock == ASSUME NEW x \in Block, NEW r \in 1 .. 14 PROVE RoundOf(x, r) \in Block
<1>1. K(r \div 2) \in Key /\ Half(r) \in {0, 16}
    <2>1. r \div 2 \in 0 .. 7
        OBVIOUS
    <2> QED BY <2>1, ScheduleIs DEF Half
<1>2. Stirred(x, r) \in Block
    BY StirredIsBlock
<1> QED BY <1>1, <1>2, KeyAddedIsBlock DEF RoundOf

\* What a step of decrypt() makes of a round's result, with that round's key, is
\* what the round started from.
LEMMA RoundUndone ==
    ASSUME NEW x \in Block, NEW r \in 1 .. 13
    PROVE  aes_subBytes_inv(aes_shiftRows_inv(aes_mixColumns_inv(
               aes_addRoundKey(RoundOf(x, r), K(r \div 2), Half(r))))) = x
<1>1. aes_subBytes(x) \in Block
    BY SubIsBlock
<1>2. aes_shiftRows(aes_subBytes(x)) \in Block
    BY <1>1, ShiftIsBlock
<1>3. Stirred(x, r) = aes_mixColumns(aes_shiftRows(aes_subBytes(x)))
    BY DEF Stirred
<1>4. aes_addRoundKey(RoundOf(x, r), K(r \div 2), Half(r)) = Stirred(x, r)
    <2>1. Stirred(x, r) \in Block
        BY StirredIsBlock
    <2> QED BY <2>1, KeyAddedTwice DEF RoundOf
<1>5. aes_mixColumns_inv(Stirred(x, r)) = aes_shiftRows(aes_subBytes(x))
    BY <1>2, <1>3, MixUndone
<1>6. aes_shiftRows_inv(aes_shiftRows(aes_subBytes(x))) = aes_subBytes(x)
    BY <1>1, ShiftUndone
<1>7. aes_subBytes_inv(aes_subBytes(x)) = x
    BY SubUndone
<1> QED BY <1>4, <1>5, <1>6, <1>7, Zenon

LEMMA LastRoundUndone ==
    ASSUME NEW x \in Block
    PROVE  aes_subBytes_inv(aes_shiftRows_inv(aes_addRoundKey(RoundOf(x, 14), K(7), 0))) = x
<1>1. aes_subBytes(x) \in Block
    BY SubIsBlock
<1>2. Stirred(x, 14) = aes_shiftRows(aes_subBytes(x))
    BY DEF Stirred
<1>3. aes_addRoundKey(RoundOf(x, 14), K(7), 0) = Stirred(x, 14)
    <2>1. Stirred(x, 14) \in Block
        BY StirredIsBlock
    <2>2. 14 \div 2 = 7 /\ Half(14) = 0
        BY DEF Half
    <2>3. RoundOf(x, 14) = aes_addRoundKey(Stirred(x, 14), K(7), 0)
        BY <2>2, Zenon DEF RoundOf
    <2> QED BY <2>1, <2>3, KeyAddedTwice
<1>4. aes_shiftRows_inv(aes_shiftRows(aes_subBytes(x))) = aes_subBytes(x)
    BY <1>1, ShiftUndone
<1>5. aes_subBytes_inv(aes_subBytes(x)) = x
    BY SubUndone
<1> QED BY <1>2, <1>3, <1>4, <1>5, Zenon

-----------------------------------------------------------------------------
(* What the trace of the blocks is like, and what is made of its ends.     *)

\* s is what a block went through so far.
IsTrace(s) ==
    /\ s \in Seq(Block) /\ Len(s) \in 1 .. 15
    /\ \A r \in 1 .. Len(s) - 1 : s[r + 1] = RoundOf(s[r], r)

TracesAreRounds(t) ==
    /\ t \in Seq(Seq(Block))
    /\ \A b \in 1 .. Len(t) : IsTrace(t[b])

\* The bytes c are the ends of the first m blocks.
HoldsEnds(c, m, t) ==
    /\ c \in Seq(Byte) /\ Len(c) = 16 * m
    /\ m <= Len(t)
    /\ \A b \in 1 .. m : /\ Len(t[b]) = 15
                         /\ \A j \in 1 .. 16 : c[16 * (b - 1) + j] = t[b][15][j]

LEMMA BlockIsSeq == ASSUME NEW x \in Block PROVE x \in Seq(Byte) /\ Len(x) = 16
BY FunctionIsSeq, Zenon DEF Block

LEMMA SeqOfSeqs ==
    ASSUME NEW n \in Nat, NEW t \in [1 .. n -> Seq(Block)]
    PROVE  t \in Seq(Seq(Block)) /\ Len(t) = n
BY FunctionIsSeq

\* The bytes d are the bytes c and then the bytes x.
IsJoined(d, c, x) ==
    /\ d \in Seq(Byte) /\ Len(d) = Len(c) + Len(x)
    /\ \A i \in 1 .. Len(c) + Len(x) : d[i] = IF i <= Len(c) THEN c[i] ELSE x[i - Len(c)]

LEMMA JoinedBytes == ASSUME NEW c \in Seq(Byte), NEW x \in Seq(Byte) PROVE IsJoined(c \o x, c, x)
BY ConcatProperties DEF IsJoined

LEMMA TraceBegins == ASSUME NEW x \in Block PROVE IsTrace(<<x>>)
<1>1. <<x>> \in Seq(Block) /\ Len(<<x>>) = 1
    OBVIOUS
<1> QED BY <1>1 DEF IsTrace

LEMMA TraceGoesOn ==
    ASSUME NEW s, IsTrace(s), NEW r \in 1 .. 14, Len(s) = r, NEW u, u = Append(s, RoundOf(s[r], r))
    PROVE  IsTrace(u) /\ Len(u) = r + 1 /\ u[r + 1] = RoundOf(s[r], r)
<1> DEFINE x == RoundOf(s[r], r)
<1>1. s[r] \in Block /\ s \in Seq(Block)
    BY ElementOfSeq DEF IsTrace
<1>2. x \in Block
    BY <1>1, RoundIsBlock
<1> HIDE DEF x
<1>3. /\ u \in Seq(Block) /\ Len(u) = Len(s) + 1
      /\ \A i \in 1 .. Len(s) : u[i] = s[i]
      /\ u[Len(s) + 1] = x
    <2>1. u = Append(s, x)
        BY DEF x
    <2> QED BY <1>1, <1>2, <2>1, AppendedTo DEF IsAppended
<1>4. ASSUME NEW i \in 1 .. r PROVE u[i + 1] = RoundOf(u[i], i)
    <2>1. CASE i = r
        BY <1>3, <2>1 DEF x
    <2>2. CASE i # r
        <3>1. i \in 1 .. Len(s) - 1 /\ i + 1 \in 1 .. Len(s) /\ i \in 1 .. Len(s)
            BY <2>2
        <3>2. s[i + 1] = RoundOf(s[i], i)
            BY <3>1 DEF IsTrace
        <3>3. u[i + 1] = s[i + 1] /\ u[i] = s[i]
            BY <1>3, <3>1
        <3> QED BY <3>2, <3>3
    <2> QED BY <2>1, <2>2
<1>5. Len(u) = r + 1 /\ Len(u) \in 1 .. 15 /\ Len(u) - 1 = r
    BY <1>3
<1>6. IsTrace(u)
    BY <1>3, <1>4, <1>5 DEF IsTrace
<1>7. u[r + 1] = x
    BY <1>3
<1> QED BY <1>5, <1>6, <1>7 DEF x

\* A block's trace is begun.
LEMMA TracesBegin ==
    ASSUME NEW t, TracesAreRounds(t), NEW x \in Block, NEW u, u = Append(t, <<x>>)
    PROVE  /\ TracesAreRounds(u) /\ Len(u) = Len(t) + 1 /\ u[Len(t) + 1] = <<x>>
           /\ \A b \in 1 .. Len(t) : u[b] = t[b]
<1> DEFINE s == <<x>>
<1>1. s \in Seq(Block) /\ IsTrace(s)
    BY TraceBegins
<1> HIDE DEF s
<1>2. t \in Seq(Seq(Block)) /\ Len(t) \in Nat /\ u = Append(t, s)
    BY LenProperties DEF TracesAreRounds, s
<1>3. u \in Seq(Seq(Block)) /\ Len(u) = Len(t) + 1
      /\ (\A b \in 1 .. Len(t) : u[b] = t[b]) /\ u[Len(t) + 1] = s
    <2> DEFINE Some == Seq(Block)
    <2>1. s \in Some /\ t \in Seq(Some)
        BY <1>1, <1>2
    <2> HIDE DEF Some
    <2>2. u \in Seq(Some) /\ IsAppended(u, t, s)
        BY <1>2, <2>1, AppendedTo, Zenon
    <2> QED BY <2>2 DEF IsAppended, Some
<1>4. ASSUME NEW b \in 1 .. Len(u) PROVE IsTrace(u[b])
    <2>1. b \in 1 .. Len(t) \/ b = Len(t) + 1
        BY <1>2, <1>3
    <2> QED BY <1>1, <1>3, <2>1, Zenon DEF TracesAreRounds
<1> QED BY <1>3, <1>4, Zenon DEF TracesAreRounds, s

\* The last block's trace goes on.
GoesOn(u, t, n, r) ==
    /\ TracesAreRounds(u) /\ Len(u) = n
    /\ \A b \in 1 .. n - 1 : u[b] = t[b]
    /\ Len(u[n]) = r + 1 /\ u[n][r + 1] = RoundOf(t[n][r], r)

LEMMA TracesGoOn ==
    ASSUME NEW t, TracesAreRounds(t), NEW n \in Nat \ {0}, n = Len(t),
           NEW r \in 1 .. 14, Len(t[n]) = r,
           NEW u, u = [t EXCEPT ![n] = Append(t[n], RoundOf(t[n][r], r))]
    PROVE  GoesOn(u, t, n, r)
<1>1. t \in [1 .. n -> Seq(Block)]
    BY DEF TracesAreRounds
<1>2. n \in 1 .. n /\ IsTrace(t[n])
    BY DEF TracesAreRounds
<1> DEFINE s == Append(t[n], RoundOf(t[n][r], r))
<1>3. IsTrace(s) /\ Len(s) = r + 1 /\ s[r + 1] = RoundOf(t[n][r], r)
    <2>1. PICK w : w = t[n]
        OBVIOUS
    <2>2. IsTrace(w) /\ Len(w) = r
        BY <1>2, <2>1
    <2> DEFINE v == Append(w, RoundOf(w[r], r))
    <2>3. IsTrace(v) /\ Len(v) = r + 1 /\ v[r + 1] = RoundOf(w[r], r)
        BY <2>2, TraceGoesOn, Zenon
    <2>4. s = v
        BY <2>1
    <2> HIDE DEF s, v
    <2> QED BY <2>1, <2>3, <2>4
<1>4. u = [t EXCEPT ![n] = s]
    OBVIOUS
<1> HIDE DEF s
<1>5. s \in Seq(Block)
    BY <1>3 DEF IsTrace
<1>6. u \in [1 .. n -> Seq(Block)] /\ u[n] = s /\ \A b \in 1 .. n : b # n => u[b] = t[b]
    BY <1>1, <1>2, <1>4, <1>5
<1>7. u \in Seq(Seq(Block)) /\ Len(u) = n
    BY <1>6, SeqOfSeqs, Zenon
<1>8. \A b \in 1 .. n : IsTrace(u[b])
    BY <1>3, <1>6, Zenon DEF TracesAreRounds
<1>9. \A b \in 1 .. n - 1 : u[b] = t[b]
    BY <1>6
<1> QED BY <1>3, <1>6, <1>7, <1>8, <1>9 DEF TracesAreRounds, GoesOn

LEMMA EndsStay ==
    ASSUME NEW c, NEW m \in Nat, NEW t, HoldsEnds(c, m, t), NEW u, Len(u) \in Nat, m <= Len(u),
           \A b \in 1 .. m : u[b] = t[b]
    PROVE  HoldsEnds(c, m, u)
<1>1. \A b \in 1 .. m : /\ Len(t[b]) = 15
                         /\ \A j \in 1 .. 16 : c[16 * (b - 1) + j] = t[b][15][j]
    BY Zenon DEF HoldsEnds
<1>2. \A b \in 1 .. m : /\ Len(u[b]) = 15
                         /\ \A j \in 1 .. 16 : c[16 * (b - 1) + j] = u[b][15][j]
    <2> SUFFICES ASSUME NEW b \in 1 .. m
                 PROVE  /\ Len(u[b]) = 15
                        /\ \A j \in 1 .. 16 : c[16 * (b - 1) + j] = u[b][15][j]
        BY Zenon
    <2>1. u[b] = t[b]
        OBVIOUS
    <2> QED BY <1>1, <2>1, Zenon
<1>3. c \in Seq(Byte) /\ Len(c) = 16 * m
    BY DEF HoldsEnds
<1> QED BY <1>2, <1>3, Zenon DEF HoldsEnds

\* Where byte j of block b is, and that it is not in a block after m.
LEMMA ByteOfBlock ==
    ASSUME NEW m \in Nat, NEW b \in 1 .. m, NEW j \in 1 .. 16
    PROVE  16 * (b - 1) + j \in 1 .. 16 * m + 16 /\ 16 * (b - 1) + j <= 16 * m
OBVIOUS

LEMMA EndAdded ==
    ASSUME NEW c, NEW m \in Nat, NEW t, HoldsEnds(c, m, t), m + 1 <= Len(t),
           Len(t[m + 1]) = 15, NEW x \in Block, t[m + 1][15] = x, NEW d, d = c \o x
    PROVE  HoldsEnds(d, m + 1, t)
<1>1. x \in Seq(Byte) /\ Len(x) = 16
    BY BlockIsSeq
<1>2. c \in Seq(Byte) /\ Len(c) = 16 * m
    BY DEF HoldsEnds
<1>3. /\ d \in Seq(Byte) /\ Len(d) = Len(c) + Len(x)
      /\ \A i \in 1 .. Len(c) + Len(x) : d[i] = IF i <= Len(c) THEN c[i] ELSE x[i - Len(c)]
    <2>1. IsJoined(c \o x, c, x)
        BY <1>1, <1>2, JoinedBytes
    <2> QED BY <2>1, Zenon DEF IsJoined
<1>4. Len(d) = 16 * (m + 1)
    BY <1>1, <1>2, <1>3
<1>5. ASSUME NEW b \in 1 .. m + 1, NEW j \in 1 .. 16 PROVE d[16 * (b - 1) + j] = t[b][15][j]
    <2>1. PICK i \in Nat : i = 16 * (b - 1) + j
        OBVIOUS
    <2>2. CASE b = m + 1
        <3>1. i \in 1 .. 16 * m + 16 /\ ~(i <= 16 * m) /\ i - 16 * m = j
            BY <2>1, <2>2
        <3>2. d[i] = x[j]
            BY <1>1, <1>2, <1>3, <3>1
        <3> QED BY <2>1, <2>2, <3>2, Zenon
    <2>3. CASE b \in 1 .. m
        <3>1. i \in 1 .. 16 * m + 16 /\ i <= 16 * m
            BY <2>1, <2>3, ByteOfBlock, Zenon
        <3>2. d[i] = c[i]
            BY <1>1, <1>2, <1>3, <3>1
        <3>3. c[i] = t[b][15][j]
            BY <2>1, <2>3, Zenon DEF HoldsEnds
        <3> QED BY <2>1, <3>2, <3>3
    <2>4. b = m + 1 \/ b \in 1 .. m
        OBVIOUS
    <2> QED BY <2>2, <2>3, <2>4, Zenon
<1>6. \A b \in 1 .. m + 1 : Len(t[b]) = 15
    <2> SUFFICES ASSUME NEW b \in 1 .. m + 1 PROVE Len(t[b]) = 15
        OBVIOUS
    <2>1. b = m + 1 \/ b \in 1 .. m
        OBVIOUS
    <2> QED BY <2>1 DEF HoldsEnds
<1> QED BY <1>3, <1>4, <1>5, <1>6, Zenon DEF HoldsEnds

-----------------------------------------------------------------------------
(* The invariant of the host's calls.                                      *)

Idle == doing = "none" /\ cipher = Nothing /\ trace = <<>> /\ round = Nothing

\* encrypt() has done m blocks, and is between two blocks ...
Between(m) ==
    /\ doing = "encrypt" /\ cipher = Nothing /\ given = text
    /\ at = 16 * m /\ at < Len(text) + 16
    /\ HoldsEnds(out, m, trace)
    /\ round = Nothing /\ Len(trace) = m

\* ... or inside one.
Inside(m) ==
    /\ doing = "encrypt" /\ cipher = Nothing /\ given = text
    /\ at = 16 * m /\ at < Len(text)
    /\ HoldsEnds(out, m, trace)
    /\ round \in 1 .. 14 /\ Len(trace) = m + 1 /\ Len(trace[m + 1]) = round
    /\ buf = trace[m + 1][round]
    /\ key = K((round - 1) \div 2) /\ rcon = {(round - 1) \div 2}

\* encrypt() returned m blocks.
Encrypted(m) ==
    /\ cipher # Nothing /\ doing # "encrypt"
    /\ HoldsEnds(cipher, m, trace)
    /\ Len(trace) = m /\ 16 * m = Size(Len(text))
    /\ doing = "none" => round = Nothing

\* decrypt() has gone back through m blocks of what it was given.
Decrypting(m) ==
    /\ Len(given) \in Nat /\ Len(given) <= Len(cipher)
    /\ \A i \in 1 .. Len(given) : given[i] = cipher[i]
    /\ at = 16 * m
    /\ \/ round = Nothing
       \/ /\ round \in 0 .. 13
          /\ key = K((round + 1) \div 2) /\ rcon = {(round + 1) \div 2}
          /\ at + 16 <= Len(given) => buf = trace[m + 1][round + 1]

CryptInv ==
    /\ text \in Seq(Byte)
    /\ TracesAreRounds(trace)
    /\ \/ Idle
       \/ \E m \in Nat : Between(m)
       \/ \E m \in Nat : Inside(m)
       \/ /\ \E m \in Nat : Encrypted(m)
          /\ doing = "decrypt" => \E m \in Nat : Decrypting(m)

LEMMA SizeIs ==
    ASSUME NEW len \in Nat, NEW m \in Nat
    PROVE  /\ 16 * m < len + 16 => 16 * m <= Size(len)
           /\ 16 * m < len + 16 /\ 16 * m >= len => 16 * m = Size(len)
<1>1. PICK q \in Nat, e \in 0 .. 15 : len = 16 * q + e /\ e = len % 16
    <2>1. len \div 16 \in Nat /\ len % 16 \in 0 .. 15 /\ len = 16 * (len \div 16) + (len % 16)
        OBVIOUS
    <2> QED BY <2>1
<1>2. CASE e = 0
    BY <1>1, <1>2 DEF Size
<1>3. CASE e # 0
    <2>1. Size(len) = 16 * (q + 1)
        BY <1>1, <1>3 DEF Size
    <2> QED BY <1>1, <1>3, <2>1
<1> QED BY <1>2, <1>3

\* The invariant says both what has to fit and that decryption goes back.
LEMMA CryptInvSays == ASSUME CryptInv PROVE EncodedFits /\ DecryptionRetraces
<1>0. Len(text) \in Nat
    BY LenProperties DEF CryptInv
<1>1. CASE Idle
    BY <1>1 DEF Idle, EncodedFits, DecryptionRetraces
<1>2. ASSUME NEW m \in Nat, Between(m) \/ Inside(m) PROVE EncodedFits /\ DecryptionRetraces
    <2>1. Len(out) = 16 * m /\ 16 * m < Len(text) + 16 /\ given = text /\ doing = "encrypt" /\ cipher = Nothing
        BY <1>0, <1>2 DEF Between, Inside, HoldsEnds
    <2>2. Len(out) <= Size(Len(text))
        BY <1>0, <2>1, SizeIs
    <2> QED BY <2>1, <2>2 DEF EncodedFits, DecryptionRetraces
<1>3. ASSUME NEW m \in Nat, Encrypted(m), doing = "decrypt" => \E d \in Nat : Decrypting(d)
      PROVE  EncodedFits /\ DecryptionRetraces
    <2>1. EncodedFits
        BY <1>3 DEF Encrypted, EncodedFits, HoldsEnds
    <2>2. ASSUME doing = "decrypt", round # Nothing, at + 16 <= Len(given)
          PROVE  buf = trace[at \div 16 + 1][round + 1]
        <3>1. PICK d \in Nat : Decrypting(d)
            BY <1>3, <2>2
        <3>2. at \div 16 = d /\ buf = trace[d + 1][round + 1]
            BY <2>2, <3>1 DEF Decrypting
        <3> QED BY <3>2
    <2> QED BY <2>1, <2>2 DEF DecryptionRetraces
<1> QED BY <1>1, <1>2, <1>3 DEF CryptInv

LEMMA CryptInvInit == CryptInit => CryptInv
<1> SUFFICES ASSUME CryptInit PROVE CryptInv
    OBVIOUS
<1>1. text \in Seq(Byte)
    BY SkmAssumption DEF CryptInit
<1>2. trace = <<>> /\ Idle
    BY DEF CryptInit, Idle
<1>3. TracesAreRounds(<<>>)
    BY DEF TracesAreRounds
<1> QED BY <1>1, <1>2, <1>3 DEF CryptInv

LEMMA InvEncrypt == ASSUME CryptInv, Encrypt PROVE CryptInv'
<1>1. /\ doing = "none" /\ cipher = Nothing
      /\ doing' = "encrypt" /\ given' = text /\ at' = 0 /\ out' = <<>>
      /\ UNCHANGED <<text, cipher, round, trace>>
    BY DEF Encrypt, host, block
<1>2. Idle
    BY <1>1 DEF CryptInv, Between, Inside, Encrypted
<1>3. Len(text) \in Nat /\ text \in Seq(Byte) /\ TracesAreRounds(trace)
    BY LenProperties DEF CryptInv
<1>4. HoldsEnds(<<>>, 0, <<>>)
    BY DEF HoldsEnds
<1>5. Between(0)'
    BY <1>1, <1>2, <1>3, <1>4 DEF Between, Idle
<1>6. TracesAreRounds(trace)'
    BY <1>1, <1>3
<1> QED BY <1>1, <1>3, <1>5, <1>6 DEF CryptInv

LEMMA InvEncryptBlock == ASSUME CryptInv, EncryptBlock PROVE CryptInv'
<1>1. /\ doing = "encrypt" /\ round = Nothing /\ at < Len(given)
      /\ buf' = aes_addRoundKey(LoadPadded(given, at, buf), Ctx.enckey, 0)
      /\ key' = Ctx.enckey /\ rcon' = {0} /\ round' = 1
      /\ trace' = Append(trace, <<buf'>>)
      /\ UNCHANGED <<text, cipher, doing, given, at, out>>
    BY DEF EncryptBlock, host
<1>2. PICK m \in Nat : Between(m)
    <2>1. ~Idle /\ \A m \in Nat : ~Encrypted(m)
        BY <1>1 DEF Idle, Encrypted
    <2>2. \A m \in Nat : ~Inside(m)
        <3>1. Nothing \notin 1 .. 14
            BY SkmAssumption
        <3> QED BY <1>1, <3>1 DEF Inside
    <2> QED BY <2>1, <2>2 DEF CryptInv
<1>3. text \in Seq(Byte) /\ TracesAreRounds(trace) /\ given = text /\ at = 16 * m
      /\ Len(trace) = m /\ cipher = Nothing /\ HoldsEnds(out, m, trace)
    BY <1>2 DEF CryptInv, Between
<1>4. LoadPadded(given, at, buf) \in Block
    <2>1. at \in Nat /\ Len(text) \in Nat /\ \A i \in 1 .. Len(text) : text[i] \in Byte
        BY <1>3, LenProperties, ElementOfSeq
    <2>2. \A i \in 1 .. 16 : at + i <= Len(text) => at + i \in 1 .. Len(text)
        BY <2>1
    <2>3. {} \in Byte
        BY DEF Byte
    <2> QED BY <1>3, <2>1, <2>2, <2>3 DEF LoadPadded, Block
<1>5. buf' \in Block
    <2>1. Ctx.enckey \in Key
        BY ScheduleIs
    <2> QED BY <1>1, <1>4, <2>1, KeyAddedIsBlock
<1>6. PICK x, u : x \in Block /\ x = buf' /\ u = trace' /\ u = Append(trace, <<x>>)
    BY <1>1, <1>5
<1>7. /\ TracesAreRounds(u) /\ Len(u) = m + 1 /\ u[m + 1] = <<x>>
      /\ \A b \in 1 .. m : u[b] = trace[b]
    BY <1>3, <1>6, TracesBegin, Zenon
<1>8. HoldsEnds(out, m, u)
    <2>1. Len(u) \in Nat /\ m <= Len(u)
        BY <1>7
    <2> QED BY <1>3, <1>7, <2>1, EndsStay
<1>9. Len(u[m + 1]) = 1 /\ u[m + 1][1] = x
    BY <1>7
<1>10. key' = K(0) /\ (1 - 1) \div 2 = 0
    BY <1>1, ScheduleIs
<1>11. Inside(m)'
    BY <1>1, <1>3, <1>6, <1>7, <1>8, <1>9, <1>10 DEF Inside
<1> QED BY <1>1, <1>3, <1>6, <1>7, <1>11 DEF CryptInv

\* What the two actions for a round of encryption have in common.
LEMMA RoundGoesOn ==
    ASSUME CryptInv, NEW m \in Nat, Inside(m), buf' = RoundOf(buf, round), Traced
    PROVE  /\ TracesAreRounds(trace)' /\ Len(trace') = m + 1
           /\ HoldsEnds(out, m, trace')
           /\ Len(trace'[m + 1]) = round + 1 /\ trace'[m + 1][round + 1] = buf'
<1>1. PICK r \in 1 .. 14, n \in Nat \ {0} : r = round /\ n = m + 1
    BY DEF Inside
<1>2. PICK u, t, x : u = trace' /\ t = trace /\ x = buf'
    OBVIOUS
<1>3. /\ TracesAreRounds(t) /\ n = Len(t) /\ Len(t[n]) = r /\ HoldsEnds(out, m, t)
      /\ x = RoundOf(t[n][r], r)
    BY <1>1, <1>2 DEF CryptInv, Inside
<1>4. u = [t EXCEPT ![n] = Append(t[n], RoundOf(t[n][r], r))]
    BY <1>1, <1>2, <1>3, Zenon DEF Traced
<1>5. /\ TracesAreRounds(u) /\ Len(u) = n
      /\ \A b \in 1 .. n - 1 : u[b] = t[b]
      /\ Len(u[n]) = r + 1 /\ u[n][r + 1] = RoundOf(t[n][r], r)
    <2>1. GoesOn(u, t, n, r)
        BY <1>3, <1>4, TracesGoOn, Zenon
    <2> QED BY <2>1, Zenon DEF GoesOn
<1>6. HoldsEnds(out, m, u)
    <2>1. Len(u) \in Nat /\ m <= Len(u) /\ \A b \in 1 .. m : u[b] = t[b]
        BY <1>1, <1>5
    <2> QED BY <1>3, <2>1, EndsStay
<1> QED BY <1>1, <1>2, <1>3, <1>5, <1>6

LEMMA InsideNow ==
    ASSUME CryptInv, doing = "encrypt", round \in 1 .. 14
    PROVE  \E m \in Nat : Inside(m)
<1>1. Nothing \notin 1 .. 14
    BY SkmAssumption
<1> QED BY <1>1, Zenon DEF CryptInv, Idle, Between, Encrypted

LEMMA InvEncryptRound == ASSUME CryptInv, EncryptRound PROVE CryptInv'
<1>1. /\ doing = "encrypt" /\ round \in 1 .. 13 /\ round' = round + 1 /\ Traced
      /\ UNCHANGED <<text, cipher, doing, given, at, out>>
    BY DEF EncryptRound, host
<1>2. PICK m \in Nat : Inside(m)
    <2>1. round \in 1 .. 14
        BY <1>1
    <2> QED BY <1>1, <2>1, InsideNow
<1>3. PICK r \in 1 .. 13 : r = round
    BY <1>1
<1> DEFINE mixed == aes_mixColumns(aes_shiftRows(aes_subBytes(buf)))
<1>4. key = K((r - 1) \div 2) /\ rcon = {(r - 1) \div 2} /\ Stirred(buf, r) = mixed
    <2>1. Stirred(buf, r) = mixed
        BY <1>3 DEF Stirred
    <2> QED BY <1>2, <1>3, <2>1 DEF Inside
<1>5. buf' = RoundOf(buf, r) /\ key' = K(r \div 2) /\ rcon' = {r \div 2}
    <2>1. CASE r % 2 = 1
        <3>1. buf' = aes_addRoundKey(mixed, key, 16) /\ UNCHANGED <<key, rcon>>
            BY <1>3, <2>1 DEF EncryptRound
        <3>2. (r - 1) \div 2 = r \div 2 /\ Half(r) = 16
            BY <2>1 DEF Half
        <3> HIDE DEF mixed
        <3> QED BY <1>4, <3>1, <3>2 DEF RoundOf
    <2>2. CASE r % 2 # 1
        <3>1. /\ key' = aes_expandEncKey(key, rcon) /\ rcon' = rj_xtime(rcon)
              /\ buf' = aes_addRoundKey(mixed, key', 0)
            BY <1>3, <2>2 DEF EncryptRound
        <3>2. PICK n \in 0 .. 6 : n = (r - 1) \div 2 /\ n + 1 = r \div 2
            BY <2>2
        <3>3. key' = K(n + 1) /\ rcon' = {n + 1}
            BY <1>4, <3>1, <3>2, ScheduleIs, RconSteps, Zenon
        <3>4. Half(r) = 0
            BY <2>2 DEF Half
        <3> HIDE DEF mixed
        <3> QED BY <1>4, <3>1, <3>2, <3>3, <3>4, Zenon DEF RoundOf
    <2> QED BY <2>1, <2>2
<1>6. /\ TracesAreRounds(trace)' /\ Len(trace') = m + 1
      /\ HoldsEnds(out, m, trace')
      /\ Len(trace'[m + 1]) = r + 1 /\ trace'[m + 1][r + 1] = buf'
    BY <1>1, <1>2, <1>3, <1>5, RoundGoesOn
<1>7. round' = r + 1 /\ r + 1 \in 1 .. 14 /\ (r + 1) - 1 = r
    BY <1>1, <1>3
<1>8. Inside(m)'
    BY <1>1, <1>2, <1>5, <1>6, <1>7, Zenon DEF Inside
<1>9. text' \in Seq(Byte)
    BY <1>1 DEF CryptInv
<1> QED BY <1>6, <1>8, <1>9 DEF CryptInv

LEMMA InvEncryptLastRound == ASSUME CryptInv, EncryptLastRound PROVE CryptInv'
<1>1. /\ doing = "encrypt" /\ round = 14 /\ Traced
      /\ key' = aes_expandEncKey(key, rcon)
      /\ buf' = aes_addRoundKey(aes_shiftRows(aes_subBytes(buf)), key', 0)
      /\ round' = Nothing /\ at' = at + 16 /\ out' = out \o buf'
      /\ UNCHANGED <<text, cipher, doing, given>>
    BY DEF EncryptLastRound, host
<1>2. PICK m \in Nat : Inside(m)
    BY <1>1, InsideNow
<1>3. key = K(6) /\ rcon = {6} /\ Len(trace[m + 1]) = 14 /\ Len(trace) = m + 1
    BY <1>1, <1>2 DEF Inside
<1>4. key' = K(7)
    <2>1. K(6 + 1) = aes_expandEncKey(K(6), {6})
        BY ScheduleIs
    <2> QED BY <1>1, <1>3, <2>1
<1>5. buf' = RoundOf(buf, 14)
    <2>1. 14 \div 2 = 7 /\ Half(14) = 0
        BY DEF Half
    <2>2. Stirred(buf, 14) = aes_shiftRows(aes_subBytes(buf))
        BY DEF Stirred
    <2> QED BY <1>1, <1>4, <2>1, <2>2, Zenon DEF RoundOf
<1>6. /\ TracesAreRounds(trace)' /\ Len(trace') = m + 1
      /\ HoldsEnds(out, m, trace')
      /\ Len(trace'[m + 1]) = 15 /\ trace'[m + 1][15] = buf'
    BY <1>1, <1>2, <1>5, RoundGoesOn
<1>7. buf' \in Block
    <2>1. PICK s : s = trace'[m + 1] /\ IsTrace(s)
        BY <1>6 DEF TracesAreRounds
    <2> QED BY <1>6, <2>1, ElementOfSeq DEF IsTrace
<1>8. HoldsEnds(out', m + 1, trace')
    <2>1. PICK u, x, d : u = trace' /\ x = buf' /\ d = out'
        OBVIOUS
    <2>2. m + 1 <= Len(u) /\ x \in Block /\ d = out \o x
        BY <1>1, <1>6, <1>7, <2>1
    <2>3. HoldsEnds(out, m, u) /\ Len(u[m + 1]) = 15 /\ u[m + 1][15] = x
        BY <1>6, <2>1
    <2>4. HoldsEnds(d, m + 1, u)
        BY <2>2, <2>3, EndAdded, Zenon
    <2> QED BY <2>1, <2>4
<1>9. /\ given = text /\ cipher = Nothing /\ at = 16 * m /\ at < Len(text)
      /\ text \in Seq(Byte) /\ Len(text) \in Nat
    BY <1>2, LenProperties DEF Inside, CryptInv
<1>10. Between(m + 1)'
    BY <1>1, <1>6, <1>8, <1>9 DEF Between
<1> QED BY <1>1, <1>6, <1>9, <1>10 DEF CryptInv

LEMMA InvEncryptReturns == ASSUME CryptInv, EncryptReturns PROVE CryptInv'
<1>1. /\ doing = "encrypt" /\ round = Nothing /\ at >= Len(given)
      /\ doing' = "none" /\ cipher' = out
      /\ UNCHANGED <<text, round, trace>>
    BY DEF EncryptReturns, block
<1>2. PICK m \in Nat : Between(m)
    <2>1. ~Idle /\ \A m \in Nat : ~Encrypted(m)
        BY <1>1 DEF Idle, Encrypted
    <2>2. \A m \in Nat : ~Inside(m)
        <3>1. Nothing \notin 1 .. 14
            BY SkmAssumption
        <3> QED BY <1>1, <3>1 DEF Inside
    <2> QED BY <2>1, <2>2 DEF CryptInv
<1>3. /\ given = text /\ at = 16 * m /\ at < Len(text) + 16
      /\ HoldsEnds(out, m, trace) /\ Len(trace) = m
      /\ text \in Seq(Byte) /\ Len(text) \in Nat
    BY <1>2, LenProperties DEF Between, CryptInv
<1>4. 16 * m = Size(Len(text))
    BY <1>1, <1>3, SizeIs
<1>5. cipher' # Nothing
    BY <1>1, <1>3, SkmAssumption DEF HoldsEnds
<1>6. Encrypted(m)'
    BY <1>1, <1>3, <1>4, <1>5 DEF Encrypted
<1> QED BY <1>1, <1>3, <1>6 DEF CryptInv

LEMMA InvDecrypt == ASSUME CryptInv, Decrypt PROVE CryptInv'
<1>1. /\ doing = "none" /\ cipher # Nothing /\ doing' = "decrypt" /\ at' = 0
      /\ UNCHANGED <<text, cipher, round, trace>>
    BY DEF Decrypt, host
<1>2. PICK lost \in Cuts : lost <= Len(cipher) /\ given' = SubSeq(cipher, 1, Len(cipher) - lost)
    BY Zenon DEF Decrypt
<1>3. PICK m \in Nat : Encrypted(m)
    BY <1>1 DEF CryptInv, Idle, Between, Inside
<1>4. cipher \in Seq(Byte) /\ Len(cipher) = 16 * m
    BY <1>3 DEF Encrypted, HoldsEnds
<1>5. PICK n \in Nat : n = Len(cipher) - lost /\ n <= Len(cipher)
    <2>1. lost \in Nat
        BY SkmAssumption
    <2>2. PICK c \in Nat : c = Len(cipher)
        BY <1>4
    <2>3. lost <= c
        BY <1>2, <2>2
    <2>4. c - lost \in Nat /\ c - lost <= c
        BY <2>1, <2>3
    <2> QED BY <2>2, <2>4
<1>6. Len(given') = n /\ \A i \in 1 .. n : given'[i] = cipher[i]
    <2>1. \A i \in 1 .. n : cipher[i] \in Byte
        BY <1>4, <1>5, ElementOfSeq
    <2> DEFINE g == SubSeq(cipher, 1, n)
    <2>2. Len(g) = n - 1 + 1 /\ \A i \in 1 .. n - 1 + 1 : g[i] = cipher[1 + i - 1]
        BY <1>4, <1>5, <2>1, SubSeqProperties
    <2>3. given' = g
        BY <1>2, <1>5
    <2> HIDE DEF g
    <2> QED BY <1>5, <2>2, <2>3
<1>7. round = Nothing
    BY <1>1, <1>3 DEF Encrypted
<1>8. Decrypting(0)'
    BY <1>1, <1>5, <1>6, <1>7 DEF Decrypting
<1>9. Encrypted(m)'
    BY <1>1, <1>3 DEF Encrypted
<1>10. (text \in Seq(Byte))' /\ TracesAreRounds(trace)'
    BY <1>1 DEF CryptInv
<1> QED BY <1>8, <1>9, <1>10 DEF CryptInv

\* What is so when decrypt() runs, and what it leaves alone.
Decrypts(m, d) ==
    /\ text \in Seq(Byte) /\ TracesAreRounds(trace)
    /\ Encrypted(m) /\ Decrypting(d) /\ doing = "decrypt"

Leaves == UNCHANGED <<host, doing, given, trace>>

LEMMA DecryptsNow ==
    ASSUME CryptInv, doing = "decrypt"
    PROVE  \E m, d \in Nat : Decrypts(m, d)
BY DEF CryptInv, Idle, Between, Inside, Decrypts

LEMMA DecryptsStill ==
    ASSUME NEW m \in Nat, NEW d \in Nat, Decrypts(m, d), Leaves, NEW e \in Nat, Decrypting(e)'
    PROVE  CryptInv'
<1>1. UNCHANGED <<text, cipher, doing, trace>>
    BY DEF Leaves, host
<1>2. (text \in Seq(Byte))' /\ TracesAreRounds(trace)'
    BY <1>1 DEF Decrypts
<1>3. Encrypted(m)'
    BY <1>1 DEF Decrypts, Encrypted
<1> QED BY <1>2, <1>3 DEF CryptInv

\* The whole block that decrypt() is at: its trace is complete.
LEMMA WholeBlock ==
    ASSUME NEW m \in Nat, NEW d \in Nat, Decrypts(m, d), at + 16 <= Len(given)
    PROVE  /\ d + 1 \in 1 .. m /\ IsTrace(trace[d + 1]) /\ Len(trace[d + 1]) = 15
           /\ \A j \in 1 .. 16 : given[at + j] = trace[d + 1][15][j]
<1>1. /\ Len(cipher) = 16 * m /\ Len(given) <= Len(cipher) /\ at = 16 * d /\ Len(trace) = m
      /\ Len(given) \in Nat /\ \A i \in 1 .. Len(given) : given[i] = cipher[i]
    BY Zenon DEF Decrypts, Encrypted, Decrypting, HoldsEnds
<1>2. d + 1 \in 1 .. m
    BY <1>1
<1>3. PICK b \in 1 .. m : b = d + 1
    BY <1>2
<1>4. /\ IsTrace(trace[b]) /\ Len(trace[b]) = 15
      /\ \A j \in 1 .. 16 : cipher[16 * (b - 1) + j] = trace[b][15][j]
    BY <1>1, Zenon DEF Decrypts, Encrypted, HoldsEnds, TracesAreRounds
<1>5. ASSUME NEW j \in 1 .. 16 PROVE given[at + j] = trace[b][15][j]
    <2>0. PICK n \in Nat, a \in Nat : n = Len(given) /\ a = at /\ a = 16 * d /\ a + 16 <= n
        BY <1>1
    <2>1. 16 * (b - 1) + j = a + j /\ a + j \in 1 .. n
        BY <1>3, <2>0
    <2> QED BY <1>1, <1>4, <2>0, <2>1, Zenon
<1> QED BY <1>2, <1>3, <1>4, <1>5

LEMMA InvDecryptBlock == ASSUME CryptInv, DecryptBlock PROVE CryptInv'
<1> DEFINE loaded == [k \in 1 .. 16 |-> IF at + k <= Len(given) THEN given[at + k] ELSE buf[k]]
<1>1. /\ doing = "decrypt"
      /\ buf' = aes_subBytes_inv(aes_shiftRows_inv(aes_addRoundKey(loaded, Ctx.deckey, 0)))
      /\ key' = Ctx.deckey /\ rcon' = {7} /\ round' = 13
      /\ UNCHANGED <<given, at>> /\ Leaves
    BY DEF DecryptBlock, Leaves, host
<1>2. PICK m \in Nat, d \in Nat : Decrypts(m, d)
    BY <1>1, DecryptsNow, Zenon
<1>3. Ctx.deckey = K(7)
    BY ScheduleIs
<1>4. ASSUME at + 16 <= Len(given) PROVE buf' = trace[d + 1][14]
    <2>1. PICK s : s = trace[d + 1] /\ IsTrace(s) /\ Len(s) = 15
                   /\ \A j \in 1 .. 16 : given[at + j] = s[15][j]
        <3>1. /\ IsTrace(trace[d + 1]) /\ Len(trace[d + 1]) = 15
              /\ \A j \in 1 .. 16 : given[at + j] = trace[d + 1][15][j]
            BY <1>2, <1>4, WholeBlock, Zenon
        <3> QED BY <3>1, Zenon
    <2>2. s[14] \in Block /\ s[15] \in Block /\ s[15] = RoundOf(s[14], 14)
        <3>1. s \in Seq(Block) /\ \A r \in 1 .. 14 : s[r + 1] = RoundOf(s[r], r)
            BY <2>1 DEF IsTrace
        <3>2. s[14] \in Block /\ s[15] \in Block
            <4>1. \A i \in 1 .. Len(s) : s[i] \in Block
                BY <3>1, ElementOfSeq, Zenon
            <4> QED BY <2>1, <4>1
        <3>3. s[14 + 1] = RoundOf(s[14], 14)
            BY <3>1
        <3> QED BY <3>2, <3>3
    <2>3. at \in Nat /\ Len(given) \in Nat
        BY <1>2 DEF Decrypts, Decrypting
    <2>4. loaded = [j \in 1 .. 16 |-> s[15][j]]
        <3>1. \A j \in 1 .. 16 : at + j <= Len(given)
            BY <1>4, <2>3
        <3> QED BY <2>1, <3>1
    <2>5. s[15] = [j \in 1 .. 16 |-> s[15][j]]
        BY <2>2 DEF Block
    <2> HIDE DEF loaded
    <2>6. loaded = RoundOf(s[14], 14)
        BY <2>2, <2>4, <2>5
    <2> QED BY <1>1, <1>3, <2>1, <2>2, <2>6, LastRoundUndone
<1> HIDE DEF loaded
<1>5. key' = K((13 + 1) \div 2) /\ rcon' = {(13 + 1) \div 2}
    BY <1>1, <1>3
<1>6. Decrypting(d)'
    BY <1>1, <1>2, <1>4, <1>5 DEF Decrypts, Decrypting, Leaves, host
<1> QED BY <1>1, <1>2, <1>6, DecryptsStill

LEMMA InvDecryptRound == ASSUME CryptInv, DecryptRound PROVE CryptInv'
<1>1. /\ doing = "decrypt" /\ round \in 1 .. 13 /\ round' = round - 1
      /\ buf' = aes_subBytes_inv(aes_shiftRows_inv(aes_mixColumns_inv(
                    aes_addRoundKey(buf, key', Half(round)))))
      /\ UNCHANGED <<given, at>> /\ Leaves
    BY DEF DecryptRound, Half, Leaves, host
<1>2. PICK m \in Nat, d \in Nat : Decrypts(m, d)
    BY <1>1, DecryptsNow
<1>3. PICK r \in 1 .. 13 : r = round
    BY <1>1
<1>4. /\ key = K((r + 1) \div 2) /\ rcon = {(r + 1) \div 2}
      /\ at + 16 <= Len(given) => buf = trace[d + 1][r + 1]
    <2>1. round # Nothing
        BY <1>1, SkmAssumption
    <2> QED BY <1>2, <1>3, <2>1 DEF Decrypts, Decrypting
<1>5. key' = K(r \div 2) /\ rcon' = {r \div 2}
    <2>1. CASE r % 2 = 1
        <3>1. rcon' = FD(rcon) /\ key' = aes_expandDecKey(key, rcon')
            BY <1>3, <2>1 DEF DecryptRound
        <3>2. PICK n \in 0 .. 6 : n = r \div 2 /\ (r + 1) \div 2 = n + 1
            BY <2>1
        <3>3. rcon' = {n} /\ {n} \in Byte
            BY <1>4, <3>1, <3>2, RconSteps, Zenon
        <3>4. K(n) \in Key /\ K(n + 1) = aes_expandEncKey(K(n), {n})
            <4>1. n \in 0 .. 7
                OBVIOUS
            <4> QED BY <4>1, ScheduleIs
        <3>5. key' = K(n)
            BY <1>4, <3>1, <3>2, <3>3, <3>4, ExpansionUndone, Zenon
        <3> QED BY <3>2, <3>3, <3>5
    <2>2. CASE r % 2 # 1
        <3>1. UNCHANGED <<key, rcon>>
            BY <1>3, <2>2 DEF DecryptRound
        <3>2. (r + 1) \div 2 = r \div 2
            BY <2>2
        <3> QED BY <1>4, <3>1, <3>2
    <2> QED BY <2>1, <2>2
<1>6. ASSUME at + 16 <= Len(given) PROVE buf' = trace[d + 1][r]
    <2>1. PICK s : s = trace[d + 1] /\ IsTrace(s) /\ Len(s) = 15
        BY <1>2, <1>6, WholeBlock, Zenon
    <2>2. s[r] \in Block /\ s[r + 1] = RoundOf(s[r], r)
        <3>1. s \in Seq(Block) /\ \A i \in 1 .. Len(s) - 1 : s[i + 1] = RoundOf(s[i], i)
            BY <2>1 DEF IsTrace
        <3>2. \A i \in 1 .. Len(s) : s[i] \in Block
            BY <3>1, ElementOfSeq
        <3>3. r \in 1 .. Len(s) /\ r \in 1 .. Len(s) - 1
            BY <2>1
        <3>4. s[r] \in Block
            BY <3>2, <3>3
        <3>5. s[r + 1] = RoundOf(s[r], r)
            BY <3>1, <3>3
        <3> QED BY <3>4, <3>5
    <2>3. buf = RoundOf(s[r], r)
        BY <1>4, <1>6, <2>1, <2>2
    <2> QED BY <1>1, <1>3, <1>5, <2>1, <2>2, <2>3, RoundUndone
<1>7. round' = r - 1 /\ r - 1 \in 0 .. 13 /\ (r - 1) + 1 = r
    BY <1>1, <1>3
<1>8. Decrypting(d)'
    BY <1>1, <1>2, <1>5, <1>6, <1>7, Zenon DEF Decrypts, Decrypting, Leaves, host
<1> QED BY <1>1, <1>2, <1>8, DecryptsStill

LEMMA InvDecryptLastRound == ASSUME CryptInv, DecryptLastRound PROVE CryptInv'
<1>1. doing = "decrypt" /\ round' = Nothing /\ at' = at + 16 /\ Leaves
    BY DEF DecryptLastRound, Leaves, host
<1>2. PICK m \in Nat, d \in Nat : Decrypts(m, d)
    BY <1>1, DecryptsNow
<1>3. Decrypting(d + 1)'
    BY <1>1, <1>2 DEF Decrypts, Decrypting, Leaves, host
<1> QED BY <1>1, <1>2, <1>3, DecryptsStill

LEMMA InvDecryptReturns == ASSUME CryptInv, DecryptReturns PROVE CryptInv'
<1>1. /\ doing = "decrypt" /\ round = Nothing /\ doing' = "none"
      /\ UNCHANGED <<text, cipher, round, trace>>
    BY DEF DecryptReturns, block
<1>2. PICK m \in Nat, d \in Nat : Decrypts(m, d)
    BY <1>1, DecryptsNow
<1>3. Encrypted(m)'
    BY <1>1, <1>2 DEF Decrypts, Encrypted
<1>4. (text \in Seq(Byte))' /\ TracesAreRounds(trace)'
    BY <1>1, <1>2 DEF Decrypts
<1> QED BY <1>1, <1>3, <1>4 DEF CryptInv

LEMMA CryptInvStep == CryptInv /\ [CryptNext]_cryptVars => CryptInv'
<1> SUFFICES ASSUME CryptInv, [CryptNext]_cryptVars PROVE CryptInv'
    OBVIOUS
<1>1. CASE UNCHANGED cryptVars
    <2>1. UNCHANGED <<text, cipher, doing, given, at, out, buf, key, rcon, round, trace>>
        BY <1>1 DEF cryptVars, host, block
    <2> QED BY <2>1 DEF CryptInv, Idle, Between, Inside, Encrypted, Decrypting
<1> QED BY <1>1, InvEncrypt, InvEncryptBlock, InvEncryptRound, InvEncryptLastRound, InvEncryptReturns,
           InvDecrypt, InvDecryptBlock, InvDecryptRound, InvDecryptLastRound, InvDecryptReturns
        DEF CryptNext

-----------------------------------------------------------------------------
(* The theorems.                                                           *)

\* For every key and every text, what encrypt() has written never goes beyond
\* the array that it allocates from the text's length, and fills that array when
\* the call returns.
THEOREM EncodedAlwaysFits == CryptSpec => []EncodedFits
<1>1. CryptInit => CryptInv
    BY CryptInvInit
<1>2. CryptInv /\ [CryptNext]_cryptVars => CryptInv'
    BY CryptInvStep
<1>3. CryptInv => EncodedFits
    BY CryptInvSays
<1> QED BY <1>1, <1>2, <1>3, PTL DEF CryptSpec

\* For every key, every text and every part of the ciphertext that is decrypted,
\* each round of decrypt() of a whole block restores the state that the block
\* had before the same round of encrypt(): with the inverse steps in their order
\* and the round keys computed backwards from the last one.
THEOREM DecryptionAlwaysRetraces == CryptSpec => []DecryptionRetraces
<1>1. CryptInit => CryptInv
    BY CryptInvInit
<1>2. CryptInv /\ [CryptNext]_cryptVars => CryptInv'
    BY CryptInvStep
<1>3. CryptInv => DecryptionRetraces
    BY CryptInvSays
<1> QED BY <1>1, <1>2, <1>3, PTL DEF CryptSpec

-----------------------------------------------------------------------------
(* The rounds of the code and those of the standard.                       *)

LEMMA XorIsXor == ASSUME NEW a, NEW b PROVE FIPS197!Xor(a, b) = a ++ b
BY DEF FIPS197!Xor, ++

LEMMA TimesXIsXtime == ASSUME NEW x \in Byte PROVE FIPS197!TimesX(x) = rj_xtime(x)
<1>1. \A j : j \in FIPS197!TimesX(x) <=> j \in 0 .. 7 /\ ((j - 1 \in x) # (7 \in x /\ j \in {0, 1, 3, 4}))
    BY DEF FIPS197!TimesX
<1>2. \A j : j \in FIPS197!TimesX(x) <=> j \in rj_xtime(x)
    BY <1>1, BitOfXtime
<1> QED BY <1>2

\* Where the standard takes the byte from that the rows' shift moves to n.
LEMMA RowMovesAre ==
    ASSUME NEW n \in 1 .. 16
    PROVE  4 * ((((n - 1) \div 4) + ((n - 1) % 4)) % 4) + ((n - 1) % 4) + 1 = RowMoves[n] + 1
<1>1. PICK row \in 0 .. 3, col \in 0 .. 3 : row = (n - 1) % 4 /\ col = (n - 1) \div 4 /\ n = 4 * col + row + 1
    OBVIOUS
<1>2. (col + row) % 4 = IF col + row < 4 THEN col + row ELSE col + row - 4
    OBVIOUS
<1>3. 4 * ((col + row) % 4) + row = RowMoves[4 * col + row + 1]
    <2>1. (row = 0 \/ row = 1 \/ row = 2 \/ row = 3) /\ (col = 0 \/ col = 1 \/ col = 2 \/ col = 3)
        OBVIOUS
    <2> QED BY <1>2, <2>1 DEF RowMoves
<1> QED BY <1>1, <1>3

\* The bytes of a column that the standard mixes are those that the code does.
LEMMA ColumnIs ==
    ASSUME NEW n \in 1 .. 16, NEW d \in 0 .. 3
    PROVE  4 * (((n - 1) \div 4) % 4) + ((((n - 1) % 4) + d) % 4) + 1 = Place(n, d + 1)
<1>1. PICK row \in 0 .. 3, col \in 0 .. 3 : row = (n - 1) % 4 /\ col = (n - 1) \div 4 /\ n = 4 * col + row + 1
    OBVIOUS
<1>2. col % 4 = col /\ (n + (d + 1) - 2) % 4 = (row + d) % 4
    BY <1>1
<1> QED BY <1>1, <1>2 DEF Place

\* The standard's mixing of four bytes is the code's.
LEMMA MixedAlike ==
    ASSUME NEW a \in Byte, NEW b \in Byte, NEW c \in Byte, NEW d \in Byte
    PROVE  FIPS197!Xor(FIPS197!Xor(FIPS197!TimesX(a), FIPS197!Xor(FIPS197!TimesX(b), b)), FIPS197!Xor(c, d))
               = a ++ (a ++ b ++ c ++ d) ++ rj_xtime(a ++ b)
<1>1. rj_xtime(a ++ b) = rj_xtime(a) ++ rj_xtime(b)
    BY XtimeIsLinear
<1>2. FIPS197!TimesX(a) = rj_xtime(a) /\ FIPS197!TimesX(b) = rj_xtime(b)
    BY TimesXIsXtime
<1> DEFINE A == rj_xtime(a)  E == rj_xtime(b)
<1> HIDE DEF A, E
<1>3. (A ++ (E ++ b)) ++ (c ++ d) = a ++ (a ++ b ++ c ++ d) ++ (A ++ E)
    BY DEF ++
<1> QED BY <1>1, <1>2, <1>3, XorIsXor DEF A, E

\* The rows' shift of what the box makes of x, as the standard has it.
ShiftedOf(x) == [n \in 1 .. 16 |-> FIPS197!SubByte[x[4 * ((((n - 1) \div 4) + ((n - 1) % 4)) % 4) + ((n - 1) % 4) + 1]]]

LEMMA ShiftedIs ==
    ASSUME NEW x \in Block
    PROVE  ShiftedOf(x) = aes_shiftRows(aes_subBytes(x))
<1>1. ASSUME NEW n \in 1 .. 16
      PROVE  FIPS197!SubByte[x[4 * ((((n - 1) \div 4) + ((n - 1) % 4)) % 4) + ((n - 1) % 4) + 1]]
                 = aes_subBytes(x)[RowMoves[n] + 1]
    <2>1. RowMoves[n] + 1 \in 1 .. 16
        <3>1. n = 1 \/ n = 2 \/ n = 3 \/ n = 4 \/ n = 5 \/ n = 6 \/ n = 7 \/ n = 8 \/ n = 9
              \/ n = 10 \/ n = 11 \/ n = 12 \/ n = 13 \/ n = 14 \/ n = 15 \/ n = 16
            OBVIOUS
        <3> QED BY <3>1 DEF RowMoves
    <2>2. PICK i \in 1 .. 16 : i = RowMoves[n] + 1
        BY <2>1
    <2>3. x[i] \in Byte
        BY DEF Block
    <2>4. aes_subBytes(x)[i] = rj_sbox[x[i]]
        BY DEF aes_subBytes
    <2>5. FIPS197!SubByte[x[i]] = rj_sbox[x[i]]
        BY <2>3, StandardBoxAssumption
    <2> QED BY <2>2, <2>4, <2>5, RowMovesAre
<1> QED BY <1>1 DEF ShiftedOf, aes_shiftRows

\* What the standard's round makes of x before it adds the key.
MixedOf(x) ==
    [n \in 1 .. 16 |->
        LET P(d) == ShiftedOf(x)[4 * (((n - 1) \div 4) % 4) + ((((n - 1) % 4) + d) % 4) + 1]
        IN  FIPS197!Xor(FIPS197!Xor(FIPS197!TimesX(P(0)), FIPS197!Xor(FIPS197!TimesX(P(1)), P(1))),
                        FIPS197!Xor(P(2), P(3)))]

LEMMA MixedIs ==
    ASSUME NEW x \in Block
    PROVE  MixedOf(x) = aes_mixColumns(aes_shiftRows(aes_subBytes(x)))
<1>1. PICK s \in Block : s = aes_shiftRows(aes_subBytes(x)) /\ s = ShiftedOf(x)
    BY SubIsBlock, ShiftIsBlock, ShiftedIs
<1>2. ASSUME NEW n \in 1 .. 16 PROVE MixedOf(x)[n] = aes_mixColumns(s)[n]
    <2>1. PICK a \in Byte, b \in Byte, c \in Byte, d \in Byte :
              a = s[Place(n, 1)] /\ b = s[Place(n, 2)] /\ c = s[Place(n, 3)] /\ d = s[Place(n, 4)]
        <3>1. \A m \in 1 .. 4 : Place(n, m) \in 1 .. 16
            BY PlaceIs
        <3>2. \A m \in 1 .. 4 : s[Place(n, m)] \in Byte
            BY <3>1 DEF Block
        <3> QED BY <3>2
    <2>2. s[n] = a
        BY <2>1, PlaceIs
    <2>3. MixedOf(x)[n] = FIPS197!Xor(FIPS197!Xor(FIPS197!TimesX(a), FIPS197!Xor(FIPS197!TimesX(b), b)), FIPS197!Xor(c, d))
        <3>0. /\ 4 * (((n - 1) \div 4) % 4) + ((((n - 1) % 4) + 0) % 4) + 1 = Place(n, 1)
              /\ 4 * (((n - 1) \div 4) % 4) + ((((n - 1) % 4) + 1) % 4) + 1 = Place(n, 2)
              /\ 4 * (((n - 1) \div 4) % 4) + ((((n - 1) % 4) + 2) % 4) + 1 = Place(n, 3)
              /\ 4 * (((n - 1) \div 4) % 4) + ((((n - 1) % 4) + 3) % 4) + 1 = Place(n, 4)
            <4>1. /\ 4 * (((n - 1) \div 4) % 4) + ((((n - 1) % 4) + 0) % 4) + 1 = Place(n, 0 + 1)
                  /\ 4 * (((n - 1) \div 4) % 4) + ((((n - 1) % 4) + 1) % 4) + 1 = Place(n, 1 + 1)
                  /\ 4 * (((n - 1) \div 4) % 4) + ((((n - 1) % 4) + 2) % 4) + 1 = Place(n, 2 + 1)
                  /\ 4 * (((n - 1) \div 4) % 4) + ((((n - 1) % 4) + 3) % 4) + 1 = Place(n, 3 + 1)
                <5>1. 0 \in 0 .. 3 /\ 1 \in 0 .. 3 /\ 2 \in 0 .. 3 /\ 3 \in 0 .. 3
                    OBVIOUS
                <5> QED BY <5>1, ColumnIs, Zenon
            <4>2. 0 + 1 = 1 /\ 1 + 1 = 2 /\ 2 + 1 = 3 /\ 3 + 1 = 4
                OBVIOUS
            <4> QED BY <4>1, <4>2
        <3>1. MixedOf(x)[n] =
                LET P(d0) == ShiftedOf(x)[4 * (((n - 1) \div 4) % 4) + ((((n - 1) % 4) + d0) % 4) + 1]
                IN  FIPS197!Xor(FIPS197!Xor(FIPS197!TimesX(P(0)), FIPS197!Xor(FIPS197!TimesX(P(1)), P(1))),
                                FIPS197!Xor(P(2), P(3)))
            BY Zenon DEF MixedOf
        <3> QED BY <1>1, <2>1, <3>0, <3>1, Zenon
    <2>4. Around(s, n)[1] = a /\ Around(s, n)[2] = b /\ Around(s, n)[3] = c /\ Around(s, n)[4] = d
        <3>1. \A m \in 1 .. 4 : Around(s, n)[m] = s[Place(n, m)]
            BY AroundIs, Zenon
        <3> QED BY <2>1, <3>1
    <2>5. aes_mixColumns(s)[n] = a ++ (a ++ b ++ c ++ d) ++ rj_xtime(a ++ b)
        BY <2>4 DEF aes_mixColumns
    <2> QED BY <2>3, <2>5, MixedAlike
<1>3. MixedOf(x) = [n \in 1 .. 16 |-> MixedOf(x)[n]] /\ aes_mixColumns(s) = [n \in 1 .. 16 |-> aes_mixColumns(s)[n]]
    BY DEF MixedOf, aes_mixColumns
<1> HIDE DEF MixedOf
<1>4. MixedOf(x) = aes_mixColumns(s)
    BY <1>2, <1>3
<1> QED BY <1>1, <1>4

\* Round r of the standard, given the 16 bytes of a key that the code adds.
LEMMA RoundIsStandard ==
    ASSUME NEW x \in Block, NEW r, NEW k, NEW half, NEW from, \A n \in 1 .. 16 : half[n] = k[from + n]
    PROVE  FIPS197!Round(x, r, half) = aes_addRoundKey(Stirred(x, r), k, from)
<1>1. FIPS197!Round(x, r, half) = FIPS197!AddRoundKey(IF r = 14 THEN ShiftedOf(x) ELSE MixedOf(x), half)
    BY DEF FIPS197!Round, ShiftedOf, MixedOf
<1>2. (IF r = 14 THEN ShiftedOf(x) ELSE MixedOf(x)) = Stirred(x, r)
    BY ShiftedIs, MixedIs DEF Stirred
<1>3. FIPS197!Round(x, r, half) = FIPS197!AddRoundKey(Stirred(x, r), half)
    BY <1>1, <1>2
<1> QED BY <1>3, XorIsXor DEF FIPS197!AddRoundKey, aes_addRoundKey

-----------------------------------------------------------------------------
(* The keys of the code and those of the standard.                         *)

\* Word 8 * m + j + 1 of the expanded key is in the key of rounds 2m, 2m + 1.
WordAt(m, j) == << K(m)[4 * j + 1], K(m)[4 * j + 2], K(m)[4 * j + 3], K(m)[4 * j + 4] >>

WordOf(i) == WordAt((i - 1) \div 8, (i - 1) % 8)

LEMMA WordOfIs ==
    ASSUME NEW m \in 0 .. 7, NEW j \in 0 .. 7
    PROVE  WordOf(8 * m + j + 1) = WordAt(m, j)
<1>1. PICK i : i = 8 * m + j + 1 /\ (i - 1) \div 8 = m /\ (i - 1) % 8 = j
    <2>1. (8 * m + j + 1) - 1 = 8 * m + j /\ (8 * m + j) \div 8 = m /\ (8 * m + j) % 8 = j
        OBVIOUS
    <2> QED BY <2>1
<1>2. WordOf(i) = WordAt(m, j)
    BY <1>1, Zenon DEF WordOf
<1> QED BY <1>1, <1>2

LEMMA WordIsWord ==
    ASSUME NEW m \in 0 .. 7, NEW j \in 0 .. 7
    PROVE  /\ WordAt(m, j) \in Seq(Byte) /\ Len(WordAt(m, j)) = 4
           /\ \A n \in 1 .. 4 : WordAt(m, j)[n] = K(m)[4 * j + n]
<1>1. PICK k \in Key : k = K(m)
    BY ScheduleIs
<1>2. 4 * j + 1 \in 1 .. 32 /\ 4 * j + 2 \in 1 .. 32 /\ 4 * j + 3 \in 1 .. 32 /\ 4 * j + 4 \in 1 .. 32
    OBVIOUS
<1>3. k[4 * j + 1] \in Byte /\ k[4 * j + 2] \in Byte /\ k[4 * j + 3] \in Byte /\ k[4 * j + 4] \in Byte
    BY <1>2 DEF Key
<1>4. WordAt(m, j) \in Seq(Byte) /\ Len(WordAt(m, j)) = 4
    BY <1>1, <1>3 DEF WordAt
<1>5. ASSUME NEW n \in 1 .. 4 PROVE WordAt(m, j)[n] = K(m)[4 * j + n]
    <2>1. n = 1 \/ n = 2 \/ n = 3 \/ n = 4
        OBVIOUS
    <2> QED BY <2>1 DEF WordAt
<1> QED BY <1>4, <1>5

\* A byte of a key of the schedule, by the expansion of the one before it.
LEMMA KeyUnfolds ==
    ASSUME NEW m \in 1 .. 7, NEW b \in 1 .. 32
    PROVE  K(m)[b] = K(m - 1)[b] ++ (IF b <= 4 THEN TakenIn(K(m - 1), b, {m - 1})
                                     ELSE TakenIn(K(m), b, {m - 1}))
<1>1. PICK l \in 0 .. 6 : l = m - 1 /\ l + 1 = m
    OBVIOUS
<1>2. K(l) \in Key /\ {l} \in Byte /\ K(m) = aes_expandEncKey(K(l), {l})
    <2>1. l \in 0 .. 7
        OBVIOUS
    <2> QED BY <1>1, <2>1, ScheduleIs, RconSteps, Zenon
<1>3. IsExpanded(K(m), K(l), {l})
    BY <1>2, ExpandEncKeyIs
<1> QED BY <1>1, <1>3, Zenon DEF IsExpanded

\* The words that the standard's expansion takes the next one from, and it.
LEMMA NextWordIs ==
    ASSUME NEW m \in 1 .. 7, NEW j \in 0 .. 7, NEW i, i = 8 * m + j + 1,
           NEW old, old[i - 1] = WordOf(i - 1), old[i - 8] = WordOf(i - 8)
    PROVE  FIPS197!NextWord(old, i) = WordAt(m, j)
<1>0. /\ m - 1 \in 0 .. 7 /\ m \in 0 .. 7
      /\ \A x \in Byte : FIPS197!SubByte[x] = rj_sbox[x]
    BY StandardBoxAssumption
<1>1. old[i - 8] = WordAt(m - 1, j)
    <2>1. i - 8 = 8 * (m - 1) + j + 1
        OBVIOUS
    <2> QED BY <1>0, <2>1, WordOfIs
<1>2. CASE j = 0
    <2>1. old[i - 1] = WordAt(m - 1, 7)
        <3>1. i - 1 = 8 * (m - 1) + 7 + 1 /\ 7 \in 0 .. 7
            BY <1>2
        <3> QED BY <1>0, <3>1, WordOfIs
    <2>2. i % 8 = 1 /\ i \div 8 = m
        BY <1>2
    <2>3. \A n \in 1 .. 4 : K(m)[n] = K(m - 1)[n] ++ (rj_sbox[K(m - 1)[29 + (n % 4)]] ++ (IF n = 1 THEN {m - 1} ELSE {}))
        <3> SUFFICES ASSUME NEW n \in 1 .. 4
                     PROVE  K(m)[n] = K(m - 1)[n] ++ (rj_sbox[K(m - 1)[29 + (n % 4)]] ++ (IF n = 1 THEN {m - 1} ELSE {}))
            OBVIOUS
        <3>1. n \in 1 .. 32 /\ n <= 4
            OBVIOUS
        <3> QED BY <3>1, KeyUnfolds, Zenon DEF TakenIn
    <2>4. \A b \in 29 .. 32 : FIPS197!SubByte[K(m - 1)[b]] = rj_sbox[K(m - 1)[b]]
        <3>1. \A b \in 29 .. 32 : K(m - 1)[b] \in Byte
            BY <1>0, ScheduleIs DEF Key
        <3> QED BY <1>0, <3>1
    <2> DEFINE s(n) == rj_sbox[K(m - 1)[29 + (n % 4)]]
    <2>5. FIPS197!SubWord(FIPS197!RotWord(old[i - 1])) = << s(1), s(2), s(3), s(4) >>
        <3>1. FIPS197!RotWord(old[i - 1]) = << K(m - 1)[30], K(m - 1)[31], K(m - 1)[32], K(m - 1)[29] >>
            BY <2>1 DEF FIPS197!RotWord, WordAt
        <3>2. 29 + (1 % 4) = 30 /\ 29 + (2 % 4) = 31 /\ 29 + (3 % 4) = 32 /\ 29 + (4 % 4) = 29
            OBVIOUS
        <3> QED BY <2>4, <3>1, <3>2 DEF FIPS197!SubWord
    <2>6. FIPS197!NextWord(old, i)
            = << K(m - 1)[1] ++ (s(1) ++ {m - 1}), K(m - 1)[2] ++ (s(2) ++ {}),
                 K(m - 1)[3] ++ (s(3) ++ {}), K(m - 1)[4] ++ (s(4) ++ {}) >>
        <3>1. FIPS197!NextWord(old, i)
                = FIPS197!PlusWord(old[i - 8], FIPS197!PlusWord(FIPS197!SubWord(FIPS197!RotWord(old[i - 1])), FIPS197!Rcon(m)))
            BY <2>2 DEF FIPS197!NextWord
        <3> HIDE DEF s
        <3>2. FIPS197!PlusWord(<< s(1), s(2), s(3), s(4) >>, FIPS197!Rcon(m)) = << s(1) ++ {m - 1}, s(2) ++ {}, s(3) ++ {}, s(4) ++ {} >>
            BY XorIsXor DEF FIPS197!PlusWord, FIPS197!Rcon
        <3>3. old[i - 8] = << K(m - 1)[1], K(m - 1)[2], K(m - 1)[3], K(m - 1)[4] >>
            BY <1>1, <1>2 DEF WordAt
        <3> QED BY <2>5, <3>1, <3>2, <3>3, XorIsXor DEF FIPS197!PlusWord
    <2>7. /\ K(m)[1] = K(m - 1)[1] ++ (s(1) ++ {m - 1}) /\ K(m)[2] = K(m - 1)[2] ++ (s(2) ++ {})
          /\ K(m)[3] = K(m - 1)[3] ++ (s(3) ++ {}) /\ K(m)[4] = K(m - 1)[4] ++ (s(4) ++ {})
        <3>1. 1 \in 1 .. 4 /\ 2 \in 1 .. 4 /\ 3 \in 1 .. 4 /\ 4 \in 1 .. 4 /\ 1 = 1 /\ ~(2 = 1) /\ ~(3 = 1) /\ ~(4 = 1)
            OBVIOUS
        <3> QED BY <2>3, <3>1, Zenon
    <2>8. WordAt(m, j) = << K(m)[1], K(m)[2], K(m)[3], K(m)[4] >>
        BY <1>2 DEF WordAt
    <2> HIDE DEF s
    <2> QED BY <2>6, <2>7, <2>8
<1>3. CASE j # 0
    <2>1. old[i - 1] = WordAt(m, j - 1)
        <3>1. i - 1 = 8 * m + (j - 1) + 1 /\ j - 1 \in 0 .. 7
            BY <1>3
        <3> QED BY <1>0, <3>1, WordOfIs
    <2>2. i % 8 = j + 1 \/ (j = 7 /\ i % 8 = 0)
        BY <1>3
    <2>3. i % 8 # 1 /\ (i % 8 = 5 <=> j = 4)
        BY <1>3, <2>2
    <2> DEFINE k(n) == K(m)[4 * (j - 1) + n]
               s(n) == IF j = 4 THEN rj_sbox[k(n)] ELSE k(n)
    <2>4. ASSUME NEW n \in 1 .. 4 PROVE K(m)[4 * j + n] = K(m - 1)[4 * j + n] ++ s(n)
        <3>1. PICK b \in 1 .. 32 : b = 4 * j + n /\ ~(b <= 4) /\ b - 4 = 4 * (j - 1) + n /\ (b \in 17 .. 20 <=> j = 4)
            BY <1>3
        <3>2. TakenIn(K(m), b, {m - 1}) = s(n)
            BY <3>1 DEF TakenIn
        <3>3. K(m)[b] = K(m - 1)[b] ++ TakenIn(K(m), b, {m - 1})
            BY <3>1, KeyUnfolds, Zenon
        <3> QED BY <3>1, <3>2, <3>3, Zenon
    <2>5. old[i - 1] = << k(1), k(2), k(3), k(4) >>
        BY <2>1 DEF WordAt
    <2>6. \A n \in 1 .. 4 : FIPS197!SubByte[k(n)] = rj_sbox[k(n)]
        <3>1. \A n \in 1 .. 4 : 4 * (j - 1) + n \in 1 .. 32
            BY <1>3
        <3>2. \A n \in 1 .. 4 : k(n) \in Byte
            BY <1>0, <3>1, ScheduleIs DEF Key
        <3> QED BY <1>0, <3>2
    <2> HIDE DEF k
    <2>7. FIPS197!NextWord(old, i) = FIPS197!PlusWord(old[i - 8], << s(1), s(2), s(3), s(4) >>)
        <3>1. FIPS197!SubWord(<< k(1), k(2), k(3), k(4) >>) = << rj_sbox[k(1)], rj_sbox[k(2)], rj_sbox[k(3)], rj_sbox[k(4)] >>
            BY <2>6 DEF FIPS197!SubWord
        <3>2. FIPS197!NextWord(old, i) = FIPS197!PlusWord(old[i - 8], IF j = 4 THEN FIPS197!SubWord(old[i - 1]) ELSE old[i - 1])
            BY <2>3 DEF FIPS197!NextWord
        <3>3. (IF j = 4 THEN FIPS197!SubWord(old[i - 1]) ELSE old[i - 1]) = << s(1), s(2), s(3), s(4) >>
            BY <2>5, <3>1
        <3> QED BY <3>2, <3>3
    <2> HIDE DEF s
    <2>8. FIPS197!NextWord(old, i) = << K(m - 1)[4 * j + 1] ++ s(1), K(m - 1)[4 * j + 2] ++ s(2),
                                        K(m - 1)[4 * j + 3] ++ s(3), K(m - 1)[4 * j + 4] ++ s(4) >>
        BY <1>1, <2>7, XorIsXor DEF FIPS197!PlusWord, WordAt
    <2>9. /\ K(m)[4 * j + 1] = K(m - 1)[4 * j + 1] ++ s(1) /\ K(m)[4 * j + 2] = K(m - 1)[4 * j + 2] ++ s(2)
          /\ K(m)[4 * j + 3] = K(m - 1)[4 * j + 3] ++ s(3) /\ K(m)[4 * j + 4] = K(m - 1)[4 * j + 4] ++ s(4)
        BY <2>4
    <2> QED BY <2>8, <2>9 DEF WordAt
<1> QED BY <1>2, <1>3

\* The function in Words of the standard.
IsWords(g) ==
    g = [i \in 1 .. 60 |->
            IF i <= 8 THEN [j \in 1 .. i |-> SubSeq(CipherKey, 4 * j - 3, 4 * j)]
            ELSE Append(g[i - 1], FIPS197!NextWord(g[i - 1], i))]

TheWords == [i \in 1 .. 60 |-> [j \in 1 .. i |-> WordOf(j)]]

\* t is the part of s from a to e.
IsCut(t, s, a, e) ==
    /\ t \in Seq(Byte) /\ Len(t) = e - a + 1
    /\ \A i \in 1 .. e - a + 1 : t[i] = s[a + i - 1]

LEMMA CutIs ==
    ASSUME NEW s, NEW a \in Nat, NEW e \in Nat, a <= e, \A i \in a .. e : s[i] \in Byte
    PROVE  IsCut(SubSeq(s, a, e), s, a, e)
BY SubSeqProperties DEF IsCut

LEMMA FirstWords ==
    ASSUME NEW j \in 1 .. 8
    PROVE  SubSeq(CipherKey, 4 * j - 3, 4 * j) = WordOf(j)
<1>1. CipherKey \in Key /\ K(0) = CipherKey
    BY SkmAssumption, ScheduleIs
<1>2. CipherKey \in Seq(Byte) /\ Len(CipherKey) = 32 /\ \A b \in 1 .. 32 : CipherKey[b] \in Byte
    BY <1>1, FunctionIsSeq, Zenon DEF Key
<1>3. PICK l \in 0 .. 7 : l = j - 1
    OBVIOUS
<1>4. PICK a \in Nat, e \in Nat : a = 4 * j - 3 /\ e = 4 * j /\ a >= 1 /\ e <= 32 /\ e = a + 3 /\ a = 4 * l + 1
    BY <1>3
<1>5. \A b \in a .. e : CipherKey[b] \in Byte
    <2>1. \A b \in a .. e : b \in 1 .. 32
        BY <1>4
    <2> QED BY <1>2, <2>1, Zenon
<1> DEFINE w == SubSeq(CipherKey, a, e)
<1>6. w \in Seq(Byte) /\ Len(w) = 4 /\ \A n \in 1 .. 4 : w[n] = CipherKey[4 * l + n]
    <2>1. IsCut(w, CipherKey, a, e)
        BY <1>4, <1>5, CutIs
    <2> HIDE DEF w
    <2>2. w \in Seq(Byte) /\ Len(w) = 4 /\ \A n \in 1 .. 4 : w[n] = CipherKey[a + n - 1]
        BY <1>4, <2>1 DEF IsCut
    <2>3. \A n \in 1 .. 4 : a + n - 1 = 4 * l + n
        BY <1>4
    <2> QED BY <2>2, <2>3, Zenon
<1>7. WordOf(j) = WordAt(0, l)
    <2>1. j = 8 * 0 + l + 1
        BY <1>3
    <2> QED BY <2>1, WordOfIs
<1>8. /\ WordAt(0, l) \in Seq(Byte) /\ Len(WordAt(0, l)) = 4
      /\ \A n \in 1 .. 4 : WordAt(0, l)[n] = CipherKey[4 * l + n]
    <2>1. 0 \in 0 .. 7
        OBVIOUS
    <2> QED BY <1>1, <2>1, WordIsWord, Zenon
<1> HIDE DEF w
<1>9. w = WordAt(0, l)
    <2>1. PICK v : v = WordAt(0, l)
        OBVIOUS
    <2>2. /\ v \in Seq(Byte) /\ w \in Seq(Byte) /\ Len(w) = Len(v)
          /\ \A n \in 1 .. Len(w) : w[n] = v[n]
        BY <1>6, <1>8, <2>1, Zenon
    <2>3. w = v
        BY <2>2, SeqEqual
    <2> QED BY <2>1, <2>3
<1> QED BY <1>4, <1>7, <1>9 DEF w

\* Step i of the standard's expansion, i > 8, gives what it should.
LEMMA WordAppended ==
    ASSUME NEW i \in 9 .. 60
    PROVE  Append(TheWords[i - 1], FIPS197!NextWord(TheWords[i - 1], i)) = TheWords[i]
<1> DEFINE old == TheWords[i - 1]
<1>1. old = [j \in 1 .. i - 1 |-> WordOf(j)] /\ TheWords[i] = [j \in 1 .. i |-> WordOf(j)]
    <2>1. \A n \in 1 .. 60 : TheWords[n] = [j \in 1 .. n |-> WordOf(j)]
        BY DEF TheWords
    <2>2. i - 1 \in 1 .. 60 /\ i \in 1 .. 60
        OBVIOUS
    <2> QED BY <2>1, <2>2, Zenon
<1> HIDE DEF old
<1>2. old[i - 1] = WordOf(i - 1) /\ old[i - 8] = WordOf(i - 8)
    BY <1>1
<1>3. PICK m \in 1 .. 7, l \in 0 .. 7 : i = 8 * m + l + 1
    <2>1. (i - 1) \div 8 \in 1 .. 7 /\ (i - 1) % 8 \in 0 .. 7 /\ i = 8 * ((i - 1) \div 8) + ((i - 1) % 8) + 1
        OBVIOUS
    <2> QED BY <2>1
<1>4. FIPS197!NextWord(old, i) = WordOf(i)
    BY <1>2, <1>3, NextWordIs, WordOfIs
<1>5. Append(old, WordOf(i)) = [j \in 1 .. i |-> WordOf(j)]
    <2> DEFINE S == {WordOf(j) : j \in 1 .. i}
    <2>1. old \in Seq(S) /\ Len(old) = i - 1
        <3>1. \A j \in 1 .. i - 1 : WordOf(j) \in S
            <4>1. \A j \in 1 .. i - 1 : j \in 1 .. i
                OBVIOUS
            <4> QED BY <4>1
        <3> HIDE DEF S
        <3>2. i - 1 \in Nat /\ old \in [1 .. i - 1 -> S]
            BY <1>1, <3>1
        <3> QED BY <3>2, FunctionIsSeq
    <2>2. WordOf(i) \in S
        OBVIOUS
    <2> HIDE DEF S
    <2> DEFINE t == Append(old, WordOf(i))
    <2>3. t \in Seq(S) /\ IsAppended(t, old, WordOf(i))
        BY <2>1, <2>2, AppendedTo, Zenon
    <2>4. Len(t) = i /\ (\A j \in 1 .. i - 1 : t[j] = WordOf(j)) /\ t[i] = WordOf(i)
        BY <1>1, <2>1, <2>3 DEF IsAppended
    <2> HIDE DEF t
    <2>5. t = [j \in 1 .. i |-> t[j]]
        BY <2>3, <2>4
    <2>6. \A j \in 1 .. i : t[j] = WordOf(j)
        BY <2>4
    <2>7. t = [j \in 1 .. i |-> WordOf(j)]
        BY <2>5, <2>6
    <2> QED BY <2>7 DEF t
<1> QED BY <1>1, <1>4, <1>5 DEF old

\* The words are those of the standard: they satisfy its equation, and nothing
\* else does.
LEMMA WordsAre == FIPS197!Words(CipherKey) = [j \in 1 .. 60 |-> WordOf(j)]
<1>1. IsWords(TheWords)
    <2>1. ASSUME NEW i \in 1 .. 60
          PROVE  TheWords[i] = IF i <= 8 THEN [j \in 1 .. i |-> SubSeq(CipherKey, 4 * j - 3, 4 * j)]
                               ELSE Append(TheWords[i - 1], FIPS197!NextWord(TheWords[i - 1], i))
        <3>1. CASE i <= 8
            <4>1. \A j \in 1 .. i : SubSeq(CipherKey, 4 * j - 3, 4 * j) = WordOf(j)
                BY <3>1, FirstWords
            <4> QED BY <3>1, <4>1, Zenon DEF TheWords
        <3>2. CASE ~(i <= 8)
            <4>1. i \in 9 .. 60
                BY <3>2
            <4> QED BY <3>2, <4>1, WordAppended, Zenon
        <3> QED BY <3>1, <3>2
    <2>2. TheWords = [i \in 1 .. 60 |-> TheWords[i]]
        BY DEF TheWords
    <2> QED BY <2>1, <2>2, Zenon DEF IsWords
<1> DEFINE g == CHOOSE f : IsWords(f)
<1>2. IsWords(g)
    BY <1>1
<1>3. FIPS197!Words(CipherKey) = g[60]
    BY DEF FIPS197!Words, IsWords
<1> HIDE DEF g
<1>4. \A i \in 1 .. 60 : g[i] = IF i <= 8 THEN [j \in 1 .. i |-> SubSeq(CipherKey, 4 * j - 3, 4 * j)]
                                ELSE Append(g[i - 1], FIPS197!NextWord(g[i - 1], i))
    BY <1>2, Zenon DEF IsWords
<1> DEFINE S == {n \in Nat : n \in 1 .. 60 => g[n] = TheWords[n]}
<1>5. 0 \in S
    OBVIOUS
<1>6. ASSUME NEW n \in Nat, n \in S PROVE n + 1 \in S
    <2> SUFFICES ASSUME NEW i \in 1 .. 60, i = n + 1 PROVE g[i] = TheWords[i]
        OBVIOUS
    <2>1. TheWords[i] = IF i <= 8 THEN [j \in 1 .. i |-> SubSeq(CipherKey, 4 * j - 3, 4 * j)]
                        ELSE Append(TheWords[i - 1], FIPS197!NextWord(TheWords[i - 1], i))
        BY <1>1, Zenon DEF IsWords
    <2>2. ~(i <= 8) => g[i - 1] = TheWords[i - 1]
        BY <1>6
    <2> QED BY <1>4, <2>1, <2>2, Zenon
<1> HIDE DEF S
<1>7. Nat \subseteq S
    BY <1>5, <1>6, NatSetInduction
<1>8. g[60] = TheWords[60]
    BY <1>7 DEF S
<1>9. TheWords[60] = [j \in 1 .. 60 |-> WordOf(j)]
    BY DEF TheWords
<1> QED BY <1>3, <1>8, <1>9

\* Four sequences of four bytes, joined.
IsFourMore(d, c, x, m) ==
    /\ d \in Seq(Byte) /\ Len(d) = m + 4
    /\ \A n \in 1 .. m : d[n] = c[n]
    /\ \A n \in 1 .. 4 : d[m + n] = x[n]

LEMMA FourMore ==
    ASSUME NEW m \in Nat, NEW c \in Seq(Byte), Len(c) = m, NEW x \in Seq(Byte), Len(x) = 4
    PROVE  IsFourMore(c \o x, c, x, m)
<1>1. PICK d : d = c \o x /\ IsJoined(d, c, x)
    BY JoinedBytes, Zenon
<1>2. d \in Seq(Byte) /\ Len(d) = m + 4 /\ \A n \in 1 .. m + 4 : d[n] = IF n <= m THEN c[n] ELSE x[n - m]
    BY <1>1 DEF IsJoined
<1>3. \A n \in 1 .. m : n \in 1 .. m + 4 /\ n <= m
    OBVIOUS
<1>4. \A n \in 1 .. 4 : m + n \in 1 .. m + 4 /\ ~(m + n <= m) /\ (m + n) - m = n
    OBVIOUS
<1> QED BY <1>1, <1>2, <1>3, <1>4 DEF IsFourMore

\* The four parts of u.
AreFourOf(a, b, c, d, u) ==
    \A n \in 1 .. 4 : u[n] = a[n] /\ u[4 + n] = b[n] /\ u[8 + n] = c[n] /\ u[12 + n] = d[n]

LEMMA FourJoined ==
    ASSUME NEW a \in Seq(Byte), NEW b \in Seq(Byte), NEW c \in Seq(Byte), NEW d \in Seq(Byte),
           Len(a) = 4, Len(b) = 4, Len(c) = 4, Len(d) = 4
    PROVE  AreFourOf(a, b, c, d, a \o b \o c \o d)
<1>0. 4 \in Nat /\ 8 \in Nat /\ 12 \in Nat /\ 4 + 4 = 8 /\ 8 + 4 = 12
    OBVIOUS
<1>1. PICK s : s = a \o b /\ IsFourMore(s, a, b, 4)
    BY <1>0, FourMore, Zenon
<1>2. s \in Seq(Byte) /\ Len(s) = 8
    BY <1>1 DEF IsFourMore
<1>3. PICK t : t = s \o c /\ IsFourMore(t, s, c, 8)
    BY <1>0, <1>2, FourMore, Zenon
<1>4. t \in Seq(Byte) /\ Len(t) = 12
    BY <1>3 DEF IsFourMore
<1>5. PICK u : u = t \o d /\ IsFourMore(u, t, d, 12)
    BY <1>0, <1>4, FourMore, Zenon
<1>6. ASSUME NEW n \in 1 .. 4
      PROVE  u[n] = a[n] /\ u[4 + n] = b[n] /\ u[8 + n] = c[n] /\ u[12 + n] = d[n]
    <2>1. n \in 1 .. 8 /\ n \in 1 .. 12 /\ 4 + n \in 1 .. 8 /\ 4 + n \in 1 .. 12 /\ 8 + n \in 1 .. 12
        OBVIOUS
    <2>2. s[n] = a[n] /\ s[4 + n] = b[n]
        BY <1>1, Zenon DEF IsFourMore
    <2>3. t[n] = s[n] /\ t[4 + n] = s[4 + n] /\ t[8 + n] = c[n]
        BY <1>3, <2>1, Zenon DEF IsFourMore
    <2>4. u[n] = t[n] /\ u[4 + n] = t[4 + n] /\ u[8 + n] = t[8 + n] /\ u[12 + n] = d[n]
        BY <1>5, <2>1, Zenon DEF IsFourMore
    <2> QED BY <2>2, <2>3, <2>4
<1>7. AreFourOf(a, b, c, d, u)
    BY <1>6, Zenon DEF AreFourOf
<1> QED BY <1>1, <1>3, <1>5, <1>7

\* The key that the standard adds in round r is the half that the code adds.
LEMMA RoundKeyIs ==
    ASSUME NEW r \in 0 .. 14
    PROVE  \A n \in 1 .. 16 : RoundKeys[r][n] = K(r \div 2)[Half(r) + n]
<1>1. PICK m \in 0 .. 7, h \in {0, 1} : r = 2 * m + h /\ m = r \div 2 /\ Half(r) = 16 * h
    <2>1. r \div 2 \in 0 .. 7 /\ r % 2 \in {0, 1} /\ r = 2 * (r \div 2) + (r % 2)
        OBVIOUS
    <2>2. Half(r) = 16 * (r % 2)
        BY <2>1 DEF Half
    <2> QED BY <2>1, <2>2
<1>2. \A l \in 0 .. 3 : WordOf(4 * r + l + 1) = WordAt(m, 4 * h + l) /\ 4 * r + l + 1 \in 1 .. 60
    <2> SUFFICES ASSUME NEW l \in 0 .. 3
                 PROVE  WordOf(4 * r + l + 1) = WordAt(m, 4 * h + l) /\ 4 * r + l + 1 \in 1 .. 60
        OBVIOUS
    <2>1. PICK j \in 0 .. 7 : j = 4 * h + l /\ 4 * r + l + 1 = 8 * m + j + 1
        BY <1>1
    <2> QED BY <2>1, WordOfIs
<1> DEFINE w(l) == WordAt(m, 4 * h + l)
<1>3. RoundKeys[r] = w(0) \o w(1) \o w(2) \o w(3)
    <2>1. RoundKeys[r] = LET v == FIPS197!Words(CipherKey) IN v[4 * r + 1] \o v[4 * r + 2] \o v[4 * r + 3] \o v[4 * r + 4]
        BY Zenon DEF RoundKeys, FIPS197!RoundKeys
    <2>2. PICK v : v = FIPS197!Words(CipherKey) /\ v = [j \in 1 .. 60 |-> WordOf(j)]
        BY WordsAre
    <2>3. \A i \in 1 .. 60 : v[i] = WordOf(i)
        BY <2>2
    <2>4. v[4 * r + 1] = w(0) /\ v[4 * r + 2] = w(1) /\ v[4 * r + 3] = w(2) /\ v[4 * r + 4] = w(3)
        <3>1. /\ 4 * r + 0 + 1 = 4 * r + 1 /\ 4 * r + 1 + 1 = 4 * r + 2 /\ 4 * r + 2 + 1 = 4 * r + 3 /\ 4 * r + 3 + 1 = 4 * r + 4
              /\ 0 \in 0 .. 3 /\ 1 \in 0 .. 3 /\ 2 \in 0 .. 3 /\ 3 \in 0 .. 3
            OBVIOUS
        <3>2. \A l \in 0 .. 3 : v[4 * r + l + 1] = w(l)
            BY <1>2, <2>3
        <3> HIDE DEF w
        <3>3. v[4 * r + 0 + 1] = w(0) /\ v[4 * r + 1 + 1] = w(1) /\ v[4 * r + 2 + 1] = w(2) /\ v[4 * r + 3 + 1] = w(3)
            BY <3>1, <3>2, Zenon
        <3> QED BY <3>1, <3>3
    <2> HIDE DEF w
    <2> QED BY <2>1, <2>2, <2>4, Zenon
<1>4. ASSUME NEW l \in 0 .. 3
      PROVE  /\ w(l) \in Seq(Byte) /\ Len(w(l)) = 4
             /\ \A n \in 1 .. 4 : w(l)[n] = K(m)[16 * h + 4 * l + n]
    <2>1. PICK j \in 0 .. 7 : j = 4 * h + l /\ 4 * j = 16 * h + 4 * l
        BY <1>1
    <2>2. /\ WordAt(m, j) \in Seq(Byte) /\ Len(WordAt(m, j)) = 4
          /\ \A n \in 1 .. 4 : WordAt(m, j)[n] = K(m)[4 * j + n]
        BY WordIsWord, Zenon
    <2>3. w(l) = WordAt(m, j)
        BY <2>1
    <2> HIDE DEF w
    <2>4. \A n \in 1 .. 4 : 4 * j + n = 16 * h + 4 * l + n
        BY <2>1
    <2> QED BY <2>2, <2>3, <2>4, Zenon
<1> HIDE DEF w
<1>5. PICK a, b, c, d : a = w(0) /\ b = w(1) /\ c = w(2) /\ d = w(3)
    OBVIOUS
<1>6. /\ a \in Seq(Byte) /\ b \in Seq(Byte) /\ c \in Seq(Byte) /\ d \in Seq(Byte)
      /\ Len(a) = 4 /\ Len(b) = 4 /\ Len(c) = 4 /\ Len(d) = 4
      /\ \A n \in 1 .. 4 : /\ a[n] = K(m)[16 * h + n] /\ b[n] = K(m)[16 * h + 4 + n]
                           /\ c[n] = K(m)[16 * h + 8 + n] /\ d[n] = K(m)[16 * h + 12 + n]
    BY <1>1, <1>4, <1>5
<1>7. \A n \in 1 .. 4 : /\ RoundKeys[r][n] = a[n] /\ RoundKeys[r][4 + n] = b[n]
                        /\ RoundKeys[r][8 + n] = c[n] /\ RoundKeys[r][12 + n] = d[n]
    <2>1. PICK u : u = RoundKeys[r] /\ u = a \o b \o c \o d
        BY <1>3, <1>5, Zenon
    <2>2. AreFourOf(a, b, c, d, u)
        BY <1>6, <2>1, FourJoined
    <2> QED BY <2>1, <2>2, Zenon DEF AreFourOf
<1>8. ASSUME NEW n \in 1 .. 16 PROVE RoundKeys[r][n] = K(m)[16 * h + n]
    <2>1. PICK q \in 0 .. 3, e \in 1 .. 4 : n = 4 * q + e
        <3>1. (n - 1) \div 4 \in 0 .. 3 /\ ((n - 1) % 4) + 1 \in 1 .. 4 /\ n = 4 * ((n - 1) \div 4) + (((n - 1) % 4) + 1)
            OBVIOUS
        <3> QED BY <3>1
    <2>2. CASE q = 0
        <3>1. n = e /\ 16 * h + n = 16 * h + e
            BY <2>1, <2>2
        <3> QED BY <1>6, <1>7, <3>1, Zenon
    <2>3. CASE q = 1
        <3>1. n = 4 + e /\ 16 * h + n = 16 * h + 4 + e
            BY <2>1, <2>3
        <3> QED BY <1>6, <1>7, <3>1, Zenon
    <2>4. CASE q = 2
        <3>1. n = 8 + e /\ 16 * h + n = 16 * h + 8 + e
            BY <2>1, <2>4
        <3> QED BY <1>6, <1>7, <3>1, Zenon
    <2>5. CASE q = 3
        <3>1. n = 12 + e /\ 16 * h + n = 16 * h + 12 + e
            BY <2>1, <2>5
        <3> QED BY <1>6, <1>7, <3>1, Zenon
    <2> QED BY <2>2, <2>3, <2>4, <2>5
<1> QED BY <1>1, <1>8

\* Round r of the code is that of the standard, and so is what comes before the
\* first.
LEMMA RoundsAgree ==
    ASSUME NEW x \in Block, NEW r \in 1 .. 14
    PROVE  RoundOf(x, r) = FIPS197!Round(x, r, RoundKeys[r])
<1>1. r \in 0 .. 14
    OBVIOUS
<1>2. \A n \in 1 .. 16 : RoundKeys[r][n] = K(r \div 2)[Half(r) + n]
    BY <1>1, RoundKeyIs, Zenon
<1> QED BY <1>2, RoundIsStandard DEF RoundOf

LEMMA StartsAgree ==
    ASSUME NEW x
    PROVE  aes_addRoundKey(x, K(0), 0) = FIPS197!AddRoundKey(x, RoundKeys[0])
<1>1. 0 \in 0 .. 14 /\ 0 \div 2 = 0 /\ Half(0) = 0
    BY DEF Half
<1>2. \A n \in 1 .. 16 : RoundKeys[0][n] = K(0)[0 + n]
    <2>1. \A n \in 1 .. 16 : RoundKeys[0][n] = K(0 \div 2)[Half(0) + n]
        BY <1>1, RoundKeyIs
    <2> QED BY <1>1, <2>1
<1> QED BY <1>2, XorIsXor DEF FIPS197!AddRoundKey, aes_addRoundKey

-----------------------------------------------------------------------------
(* What the blocks started from.                                           *)

\* Every block was loaded from the text, at its place, and got the first key.
Started(t) ==
    \A b \in 1 .. Len(t) : t[b][1] = aes_addRoundKey(LoadPadded(text, 16 * (b - 1), <<>>), K(0), 0)

StartInv == CryptInv /\ Started(trace)

LEMMA StartInvInit == CryptInit => StartInv
<1> SUFFICES ASSUME CryptInit PROVE StartInv
    OBVIOUS
<1>1. CryptInv
    BY CryptInvInit
<1>2. trace = <<>> /\ Len(<<>>) = 0
    BY DEF CryptInit
<1>3. Started(trace)
    BY <1>2 DEF Started
<1> QED BY <1>1, <1>3 DEF StartInv

\* A round adds to the trace of the last block, and leaves what that begins with.
LEMMA StartsStay ==
    ASSUME NEW t, TracesAreRounds(t), NEW n \in 1 .. Len(t), NEW x, NEW u,
           u = [t EXCEPT ![n] = Append(t[n], x)]
    PROVE  Len(u) = Len(t) /\ \A b \in 1 .. Len(t) : u[b][1] = t[b][1]
<1>1. t \in Seq(Seq(Block))
    BY DEF TracesAreRounds
<1>2. Len(u) = Len(t) /\ u[n] = Append(t[n], x) /\ \A b \in 1 .. Len(t) : b # n => u[b] = t[b]
    BY <1>1
<1>3. t[n] \in Seq(Block) /\ Len(t[n]) >= 1
    <2>1. PICK s : s = t[n] /\ IsTrace(s)
        BY DEF TracesAreRounds
    <2>2. s \in Seq(Block) /\ Len(s) \in 1 .. 15
        BY <2>1 DEF IsTrace
    <2> QED BY <2>1, <2>2
<1>4. Append(t[n], x)[1] = t[n][1]
    <2>1. PICK s : s = t[n]
        OBVIOUS
    <2>2. s \in Seq(Block \cup {x}) /\ Len(s) >= 1 /\ Len(s) \in Nat
        BY <1>3, <2>1
    <2>3. Append(s, x)[1] = s[1]
        BY <2>2, AppendProperties
    <2> QED BY <2>1, <2>3
<1> QED BY <1>2, <1>4

LEMMA StartedStays ==
    ASSUME NEW t, NEW u, Len(u) = Len(t), \A b \in 1 .. Len(t) : u[b][1] = t[b][1], Started(t), UNCHANGED text
    PROVE  \A b \in 1 .. Len(u) : u[b][1] = aes_addRoundKey(LoadPadded(text', 16 * (b - 1), <<>>), K(0), 0)
BY DEF Started

LEMMA StartInvStep == ASSUME StartInv, [CryptNext]_cryptVars PROVE StartInv'
<1>1. CryptInv /\ CryptInv' /\ Started(trace)
    BY CryptInvStep DEF StartInv
<1>2. CASE EncryptBlock
    <2>1. /\ doing = "encrypt" /\ round = Nothing /\ UNCHANGED text
          /\ buf' = aes_addRoundKey(LoadPadded(given, at, buf), Ctx.enckey, 0)
          /\ trace' = Append(trace, <<buf'>>)
        BY <1>2 DEF EncryptBlock, host
    <2>2. PICK m \in Nat : Between(m)
        <3>1. ~Idle /\ \A m \in Nat : ~Encrypted(m)
            BY <2>1 DEF Idle, Encrypted
        <3>2. \A m \in Nat : ~Inside(m)
            <4>1. Nothing \notin 1 .. 14
                BY SkmAssumption
            <4> QED BY <2>1, <4>1 DEF Inside
        <3> QED BY <1>1, <3>1, <3>2 DEF CryptInv
    <2>3. given = text /\ at = 16 * m /\ Len(trace) = m
        BY <2>2 DEF Between
    <2>4. buf' = aes_addRoundKey(LoadPadded(text, 16 * ((m + 1) - 1), <<>>), K(0), 0)
        <3>1. LoadPadded(given, at, buf) = LoadPadded(text, 16 * m, <<>>)
            BY <2>3 DEF LoadPadded
        <3>2. (m + 1) - 1 = m /\ Ctx.enckey = K(0)
            BY ScheduleIs
        <3> QED BY <2>1, <3>1, <3>2
    <2>5. PICK t, u, x : t = trace /\ u = trace' /\ x = buf'
        OBVIOUS
    <2>6. t \in Seq(Seq(Block) \cup {<<x>>}) /\ u = Append(t, <<x>>) /\ Len(t) = m
        <3>1. t \in Seq(Seq(Block))
            BY <1>1, <2>5 DEF CryptInv, TracesAreRounds
        <3> QED BY <2>1, <2>3, <2>5, <3>1
    <2>7. Len(u) = m + 1 /\ u[m + 1] = <<x>> /\ \A b \in 1 .. m : u[b] = t[b]
        BY <2>6, AppendProperties
    <2>8. ASSUME NEW b \in 1 .. m + 1
          PROVE  u[b][1] = aes_addRoundKey(LoadPadded(text, 16 * (b - 1), <<>>), K(0), 0)
        <3>1. CASE b = m + 1
            BY <2>4, <2>5, <2>7, <3>1
        <3>2. CASE b # m + 1
            <4>1. b \in 1 .. m /\ Len(t) = m
                BY <2>6, <3>2
            <4> QED BY <1>1, <2>5, <2>7, <4>1 DEF Started
        <3> QED BY <3>1, <3>2
    <2>9. Started(trace)'
        BY <2>1, <2>5, <2>7, <2>8 DEF Started
    <2> QED BY <1>1, <2>9 DEF StartInv
<1>3. CASE EncryptRound \/ EncryptLastRound
    <2>1. doing = "encrypt" /\ round \in 1 .. 14 /\ Traced /\ UNCHANGED text
        BY <1>3 DEF EncryptRound, EncryptLastRound, host
    <2>2. PICK m \in Nat : Inside(m)
        BY <1>1, <2>1, InsideNow
    <2>3. PICK t, u, x : t = trace /\ u = trace' /\ x = buf'
        OBVIOUS
    <2>4. TracesAreRounds(t) /\ Len(t) \in 1 .. Len(t) /\ u = [t EXCEPT ![Len(t)] = Append(t[Len(t)], x)]
        BY <1>1, <2>1, <2>2, <2>3 DEF CryptInv, Inside, Traced
    <2>5. Len(u) = Len(t) /\ \A b \in 1 .. Len(t) : u[b][1] = t[b][1]
        BY <2>4, StartsStay, SMTT(30)
    <2>6. \A b \in 1 .. Len(u) : u[b][1] = aes_addRoundKey(LoadPadded(text', 16 * (b - 1), <<>>), K(0), 0)
        <3>1. Started(t) /\ UNCHANGED text
            BY <1>1, <2>1, <2>3, Zenon
        <3> QED BY <2>5, <3>1, StartedStays, Zenon
    <2>7. Started(trace)'
        BY <2>3, <2>6 DEF Started
    <2> QED BY <1>1, <2>7 DEF StartInv
<1>4. CASE UNCHANGED <<text, trace>>
    BY <1>1, <1>4 DEF Started, StartInv
<1>5. \/ EncryptBlock \/ EncryptRound \/ EncryptLastRound \/ UNCHANGED <<text, trace>>
    BY DEF CryptNext, Encrypt, EncryptReturns, Decrypt, DecryptBlock, DecryptRound, DecryptLastRound,
           DecryptReturns, cryptVars, host, block
<1> QED BY <1>2, <1>3, <1>4, <1>5

\* For every key and every text: each round of encryption, with the key computed
\* on the fly, does what the round of AES-256 with the expanded key does.
THEOREM RoundsAlwaysStandard == CryptSpec => []RoundsAreStandard
<1>1. StartInv => RoundsAreStandard
    <2> SUFFICES ASSUME StartInv, trace # <<>> PROVE RoundsAreStandard
        BY DEF RoundsAreStandard
    <2>1. TracesAreRounds(trace) /\ Started(trace)
        BY DEF StartInv, CryptInv
    <2>2. Len(trace) \in 1 .. Len(trace)
        <3>1. trace \in Seq(Seq(Block))
            BY <2>1 DEF TracesAreRounds
        <3> QED BY <3>1
    <2>3. PICK s : s = trace[Len(trace)] /\ IsTrace(s)
        BY <2>1, <2>2 DEF TracesAreRounds
    <2>4. PICK r \in 0 .. 14 : r = Len(s) - 1 /\ Len(s) = r + 1
        BY <2>3 DEF IsTrace
    <2>5. CASE r = 0
        <3>1. s[1] = aes_addRoundKey(LoadPadded(text, 16 * (Len(trace) - 1), <<>>), K(0), 0)
            BY <2>1, <2>2, <2>3 DEF Started
        <3>2. LoadPadded(text, 16 * (Len(trace) - 1), <<>>) = LoadPadded(text, 16 * (Len(trace) - 1), buf)
            BY DEF LoadPadded
        <3>3. s[r + 1] = FIPS197!AddRoundKey(LoadPadded(text, 16 * (Len(trace) - 1), buf), RoundKeys[0])
            BY <2>5, <3>1, <3>2, StartsAgree
        <3> QED BY <2>3, <2>4, <2>5, <3>3 DEF RoundsAreStandard
    <2>6. CASE r # 0
        <3>1. r \in 1 .. 14 /\ r \in 1 .. Len(s) - 1 /\ r \in 1 .. Len(s)
            <4>1. r \in 1 .. 14 /\ r \in 1 .. r /\ r \in 1 .. r + 1 /\ (r + 1) - 1 = r
                BY <2>6
            <4> QED BY <2>4, <4>1, Zenon
        <3>2. s[r] \in Block /\ s[r + 1] = RoundOf(s[r], r)
            <4>1. s \in Seq(Block) /\ \A i \in 1 .. Len(s) - 1 : s[i + 1] = RoundOf(s[i], i)
                BY <2>3, Zenon DEF IsTrace
            <4>2. \A i \in 1 .. Len(s) : s[i] \in Block
                BY <4>1, ElementOfSeq
            <4> QED BY <3>1, <4>1, <4>2
        <3>3. s[r + 1] = FIPS197!Round(s[r], r, RoundKeys[r])
            BY <3>1, <3>2, RoundsAgree, Zenon
        <3> QED BY <2>3, <2>4, <2>6, <3>3 DEF RoundsAreStandard
    <2> QED BY <2>5, <2>6
<1> QED BY <1>1, StartInvInit, StartInvStep, PTL DEF CryptSpec
-----------------------------------------------------------------------------
(* The check for UTF-8, and what it lets pass.                             *)

\* The numbers of the bytes that the check tells apart.
LEMMA NumberIs ==
    ASSUME NEW x \in Byte
    PROVE  /\ UTF8!Number(x) \in 0 .. 255
           /\ UTF8!Number(x) \in 0 .. 127 <=> 7 \notin x
           /\ UTF8!Number(x) \in 128 .. 191 <=> x \cap {6, 7} = {7}
           /\ UTF8!Number(x) \in 192 .. 223 <=> x \cap (5 .. 7) = {6, 7}
           /\ UTF8!Number(x) \in 224 .. 239 <=> x \cap (4 .. 7) = {5, 6, 7}
           /\ UTF8!Number(x) \in 240 .. 247 <=> x \cap (3 .. 7) = {4, 5, 6, 7}
           /\ UTF8!Number(x) = 237 <=> x = {0, 2, 3, 5, 6, 7}
           /\ UTF8!Number(x) \in 128 .. 159 <=> x \cap {6, 7} = {7} /\ 5 \notin x
           /\ UTF8!Number(x) \in 160 .. 191 <=> x \cap {6, 7} = {7} /\ 5 \in x
           /\ {5, 7} \subseteq x <=> 5 \in x /\ 7 \in x
<1> DEFINE b(i, worth) == IF i \in x THEN worth ELSE 0
           Num == b(0, 1) + b(1, 2) + b(2, 4) + b(3, 8) + b(4, 16) + b(5, 32) + b(6, 64) + b(7, 128)
<1>1. UTF8!Number(x) = Num
    BY DEF UTF8!Number
<1>2. Num \in 0 .. 255
    OBVIOUS
<1>3. Num \in 0 .. 127 <=> 7 \notin x
    OBVIOUS
<1>4. x \cap {6, 7} = {7} <=> 7 \in x /\ 6 \notin x
    OBVIOUS
<1>5. Num \in 128 .. 191 <=> 7 \in x /\ 6 \notin x
    OBVIOUS
<1>6. x \cap (5 .. 7) = {6, 7} <=> 7 \in x /\ 6 \in x /\ 5 \notin x
    <2>1. 5 .. 7 = {5, 6, 7}
        OBVIOUS
    <2> QED BY <2>1
<1>7. Num \in 192 .. 223 <=> 7 \in x /\ 6 \in x /\ 5 \notin x
    OBVIOUS
<1>8. x \cap (4 .. 7) = {5, 6, 7} <=> 7 \in x /\ 6 \in x /\ 5 \in x /\ 4 \notin x
    <2>1. 4 .. 7 = {4, 5, 6, 7}
        OBVIOUS
    <2> QED BY <2>1
<1>9. Num \in 224 .. 239 <=> 7 \in x /\ 6 \in x /\ 5 \in x /\ 4 \notin x
    OBVIOUS
<1>10. x \cap (3 .. 7) = {4, 5, 6, 7} <=> 7 \in x /\ 6 \in x /\ 5 \in x /\ 4 \in x /\ 3 \notin x
    <2>1. 3 .. 7 = {3, 4, 5, 6, 7}
        OBVIOUS
    <2> QED BY <2>1
<1>11. Num \in 240 .. 247 <=> 7 \in x /\ 6 \in x /\ 5 \in x /\ 4 \in x /\ 3 \notin x
    OBVIOUS
<1>12. x = {0, 2, 3, 5, 6, 7} <=> /\ 0 \in x /\ 1 \notin x /\ 2 \in x /\ 3 \in x
                                  /\ 4 \notin x /\ 5 \in x /\ 6 \in x /\ 7 \in x
    <2>1. \A y \in x : y = 0 \/ y = 1 \/ y = 2 \/ y = 3 \/ y = 4 \/ y = 5 \/ y = 6 \/ y = 7
        <3>1. \A y \in x : y \in 0 .. 7
            BY DEF Byte
        <3> QED BY <3>1
    <2>2. ASSUME 0 \in x, 1 \notin x, 2 \in x, 3 \in x, 4 \notin x, 5 \in x, 6 \in x, 7 \in x
          PROVE  x = {0, 2, 3, 5, 6, 7}
        <3>1. \A y : y \in x <=> y \in {0, 2, 3, 5, 6, 7}
            BY <2>1, <2>2
        <3> QED BY <3>1
    <2> QED BY <2>2
<1>13. Num = 237 <=> /\ 0 \in x /\ 1 \notin x /\ 2 \in x /\ 3 \in x
                   /\ 4 \notin x /\ 5 \in x /\ 6 \in x /\ 7 \in x
    OBVIOUS
<1>14. Num \in 128 .. 159 <=> 7 \in x /\ 6 \notin x /\ 5 \notin x
    OBVIOUS
<1>15. Num \in 160 .. 191 <=> 7 \in x /\ 6 \notin x /\ 5 \in x
    OBVIOUS
<1> HIDE DEF Num
<1> QED BY <1>1, <1>2, <1>3, <1>4, <1>5, <1>6, <1>7, <1>8, <1>9, <1>10, <1>11, <1>12, <1>13, <1>14, <1>15

LEMMA NumberIsSmall == \A x \in Byte : UTF8!Number(x) \in 0 .. 255
<1> SUFFICES ASSUME NEW x \in Byte PROVE UTF8!Number(x) \in 0 .. 255
    BY Zenon
<1> DEFINE b(i, worth) == IF i \in x THEN worth ELSE 0
           Num == b(0, 1) + b(1, 2) + b(2, 4) + b(3, 8) + b(4, 16) + b(5, 32) + b(6, 64) + b(7, 128)
<1>1. UTF8!Number(x) = Num
    BY DEF UTF8!Number
<1>2. Num \in 0 .. 255
    OBVIOUS
<1> HIDE DEF Num
<1> QED BY <1>1, <1>2

\* What the check takes for a character: a first byte and as many bytes after it
\* as it asks for, from byte i + 1 of s on.
Passes(s, i, n) ==
    LET Num(j) == UTF8!Number(s[i + j])
    IN  \/ n = 1 /\ Num(1) \in 0 .. 127
        \/ n = 2 /\ Num(1) \in 192 .. 223 /\ Num(2) \in 128 .. 191
        \/ /\ n = 3 /\ Num(1) \in 224 .. 239 /\ Num(3) \in 128 .. 191
           /\ Num(2) \in 128 .. 191 /\ (Num(1) = 237 => Num(2) \in 128 .. 159)
        \/ n = 4 /\ Num(1) \in 240 .. 247 /\ \A j \in 2 .. 4 : Num(j) \in 128 .. 191

LEMMA LaxCharacterIs ==
    ASSUME NEW s \in Seq(Byte), NEW i \in Nat, NEW n \in 1 .. 4, i + n <= Len(s)
    PROVE  IsLaxCharacter(SubSeq(s, i + 1, i + n)) <=> Passes(s, i, n)
<1>1. PICK c \in Seq(Byte) : c = SubSeq(s, i + 1, i + n) /\ Len(c) = n /\ \A j \in 1 .. n : c[j] = s[i + j]
    <2>1. \A j \in i + 1 .. i + n : s[j] \in Byte
        <3>1. \A j \in i + 1 .. i + n : j \in 1 .. Len(s)
            OBVIOUS
        <3> QED BY <3>1, ElementOfSeq
    <2>2. PICK a \in Nat, e \in Nat : a = i + 1 /\ e = i + n /\ a <= e /\ e - a + 1 = n
        OBVIOUS
    <2>3. PICK c : c = SubSeq(s, a, e) /\ IsCut(c, s, a, e)
        BY <2>1, <2>2, CutIs, Zenon
    <2>4. Len(c) = n /\ \A j \in 1 .. n : c[j] = s[a + j - 1]
        BY <2>2, <2>3 DEF IsCut
    <2>5. \A j \in 1 .. n : a + j - 1 = i + j
        BY <2>2
    <2>6. \A j \in 1 .. n : c[j] = s[i + j]
        BY <2>4, <2>5, Zenon
    <2>7. c \in Seq(Byte)
        BY <2>3 DEF IsCut
    <2> QED BY <2>2, <2>3, <2>4, <2>6, <2>7, Zenon
<1> DEFINE Num(j) == UTF8!Number(s[i + j])
<1>2. \A j \in 1 .. n : UTF8!Number(c[j]) = Num(j) /\ Num(j) \in 0 .. 255
    <2>1. \A j \in 1 .. n : i + j \in 1 .. Len(s)
        OBVIOUS
    <2>2. \A j \in 1 .. n : s[i + j] \in Byte
        BY <2>1, ElementOfSeq
    <2>3. \A j \in 1 .. n : UTF8!Number(s[i + j]) \in 0 .. 255
        BY <2>2, NumberIsSmall, Zenon
    <2> QED BY <1>1, <2>3, Zenon
<1> HIDE DEF Num
<1>4. Passes(s, i, n) <=>
        \/ n = 1 /\ Num(1) \in 0 .. 127
        \/ n = 2 /\ Num(1) \in 192 .. 223 /\ Num(2) \in 128 .. 191
        \/ /\ n = 3 /\ Num(1) \in 224 .. 239 /\ Num(3) \in 128 .. 191
           /\ Num(2) \in 128 .. 191 /\ (Num(1) = 237 => Num(2) \in 128 .. 159)
        \/ n = 4 /\ Num(1) \in 240 .. 247 /\ \A j \in 2 .. 4 : Num(j) \in 128 .. 191
    BY Zenon DEF Passes, Num
<1>5. (\A j \in 2 .. 4 : Num(j) \in 128 .. 191) <=> Num(2) \in 128 .. 191 /\ Num(3) \in 128 .. 191 /\ Num(4) \in 128 .. 191
    <2>1. 2 .. 4 = {2, 3, 4}
        OBVIOUS
    <2> QED BY <2>1
<1>6. IsLaxCharacter(c) <=> Passes(s, i, n)
    <2>1. CASE n = 1
        <3>1. Passes(s, i, n) <=> Num(1) \in 0 .. 127
            BY <1>4, <2>1
        <3>2. UTF8!Number(c[1]) = Num(1) /\ Num(1) \in 0 .. 255
            BY <1>2, <2>1
        <3>3. Len(c) = 1
            BY <1>1, <2>1
        <3>4. IsLaxCharacter(c) <=> UTF8!Number(c[1]) \in 0 .. 127
            <4>1. Len(c) = 1 /\ Len(c) # 2 /\ Len(c) # 3 /\ Len(c) # 4
                BY <3>3
            <4>2. UTF8!IsCharacter(c) <=> UTF8!In(c, 1, 0, 127)
                BY <4>1, Zenon DEF UTF8!IsCharacter
            <4>3. IsLaxCharacter(c) <=> UTF8!IsCharacter(c)
                BY <4>1, Zenon DEF IsLaxCharacter
            <4> QED BY <4>2, <4>3, Zenon DEF UTF8!In
        <3> QED BY <3>1, <3>2, <3>4
    <2>2. CASE n = 2
        <3>1. Passes(s, i, n) <=> Num(1) \in 192 .. 223 /\ Num(2) \in 128 .. 191
            BY <1>4, <2>2
        <3>2. UTF8!Number(c[1]) = Num(1) /\ UTF8!Number(c[2]) = Num(2) /\ Num(1) \in 0 .. 255
            BY <1>2, <2>2
        <3>3. Len(c) = 2
            BY <1>1, <2>2
        <3>4. IsLaxCharacter(c) <=> UTF8!Number(c[1]) \in 192 .. 223 /\ UTF8!Number(c[2]) \in 128 .. 191
            <4>1. Len(c) = 2 /\ Len(c) # 1 /\ Len(c) # 3 /\ Len(c) # 4
                BY <3>3
            <4>2. UTF8!IsCharacter(c) <=> UTF8!In(c, 1, 194, 223) /\ UTF8!Follows(c, 2)
                BY <4>1, Zenon DEF UTF8!IsCharacter
            <4>3. IsLaxCharacter(c) <=> \/ UTF8!IsCharacter(c)
                                        \/ UTF8!In(c, 1, 192, 193) /\ UTF8!Follows(c, 2)
                BY <4>1, Zenon DEF IsLaxCharacter
            <4>4. UTF8!Number(c[1]) \in 192 .. 223 <=> UTF8!In(c, 1, 194, 223) \/ UTF8!In(c, 1, 192, 193)
                <5>1. PICK a \in 0 .. 255 : a = UTF8!Number(c[1])
                    BY <3>2, Zenon
                <5>2. a \in 192 .. 223 <=> a \in 194 .. 223 \/ a \in 192 .. 193
                    OBVIOUS
                <5>3. UTF8!In(c, 1, 194, 223) <=> a \in 194 .. 223
                    BY <5>1, Zenon DEF UTF8!In
                <5>4. UTF8!In(c, 1, 192, 193) <=> a \in 192 .. 193
                    BY <5>1, Zenon DEF UTF8!In
                <5>5. UTF8!Number(c[1]) \in 192 .. 223 <=> a \in 192 .. 223
                    BY <5>1, Zenon
                <5> QED BY <5>2, <5>3, <5>4, <5>5
            <4>5. UTF8!Number(c[2]) \in 128 .. 191 <=> UTF8!Follows(c, 2)
                BY Zenon DEF UTF8!In, UTF8!Follows
            <4>6. IsLaxCharacter(c) <=> /\ UTF8!In(c, 1, 194, 223) \/ UTF8!In(c, 1, 192, 193)
                                        /\ UTF8!Follows(c, 2)
                BY <4>2, <4>3
            <4> QED BY <4>4, <4>5, <4>6
        <3> QED BY <3>1, <3>2, <3>4
    <2>3. CASE n = 3
        <3>1. Num(1) \in 0 .. 255 /\ Num(2) \in 0 .. 255 /\ Num(3) \in 0 .. 255
            BY <1>2, <2>3
        <3>2. Passes(s, i, n) <=> /\ Num(1) \in 224 .. 239 /\ Num(3) \in 128 .. 191
                                  /\ Num(2) \in 128 .. 191 /\ (Num(1) = 237 => Num(2) \in 128 .. 159)
            BY <1>4, <2>3
        <3>3. UTF8!Number(c[1]) = Num(1) /\ UTF8!Number(c[2]) = Num(2) /\ UTF8!Number(c[3]) = Num(3)
            BY <1>2, <2>3
        <3>4. Len(c) = 3
            BY <1>1, <2>3
        <3>5. PICK a \in 0 .. 255, b \in 0 .. 255, d \in 0 .. 255 : a = Num(1) /\ b = Num(2) /\ d = Num(3)
            BY <3>1, Zenon
        <3>6. IsLaxCharacter(c) <=> /\ a \in 224 .. 239 /\ d \in 128 .. 191
                                    /\ b \in 128 .. 191 /\ (a = 237 => b \in 128 .. 159)
            <4>1. UTF8!Number(c[1]) = a /\ UTF8!Number(c[2]) = b /\ UTF8!Number(c[3]) = d
                BY <3>3, <3>5
            <4>2. Len(c) = 3 /\ Len(c) # 1 /\ Len(c) # 2 /\ Len(c) # 4
                BY <3>4
            <4>3. UTF8!IsCharacter(c) <=>
                    /\ UTF8!Follows(c, 3)
                    /\ \/ UTF8!In(c, 1, 224, 224) /\ UTF8!In(c, 2, 160, 191)
                       \/ (UTF8!In(c, 1, 225, 236) \/ UTF8!In(c, 1, 238, 239)) /\ UTF8!Follows(c, 2)
                       \/ UTF8!In(c, 1, 237, 237) /\ UTF8!In(c, 2, 128, 159)
                BY <4>2, Zenon DEF UTF8!IsCharacter
            <4>4. IsLaxCharacter(c) <=> \/ UTF8!IsCharacter(c)
                                        \/ UTF8!In(c, 1, 224, 224) /\ UTF8!Follows(c, 2) /\ UTF8!Follows(c, 3)
                BY <4>2, Zenon DEF IsLaxCharacter
            <4>5. /\ UTF8!In(c, 1, 224, 224) <=> a \in 224 .. 224
                  /\ UTF8!In(c, 1, 225, 236) <=> a \in 225 .. 236
                  /\ UTF8!In(c, 1, 238, 239) <=> a \in 238 .. 239
                  /\ UTF8!In(c, 1, 237, 237) <=> a \in 237 .. 237
                  /\ UTF8!In(c, 2, 160, 191) <=> b \in 160 .. 191
                  /\ UTF8!In(c, 2, 128, 159) <=> b \in 128 .. 159
                  /\ UTF8!Follows(c, 2) <=> b \in 128 .. 191
                  /\ UTF8!Follows(c, 3) <=> d \in 128 .. 191
                <5>1. /\ UTF8!In(c, 1, 224, 224) <=> a \in 224 .. 224
                      /\ UTF8!In(c, 1, 225, 236) <=> a \in 225 .. 236
                      /\ UTF8!In(c, 1, 238, 239) <=> a \in 238 .. 239
                      /\ UTF8!In(c, 1, 237, 237) <=> a \in 237 .. 237
                    BY <4>1, Zenon DEF UTF8!In, UTF8!Follows
                <5>2. /\ UTF8!In(c, 2, 160, 191) <=> b \in 160 .. 191
                      /\ UTF8!In(c, 2, 128, 159) <=> b \in 128 .. 159
                      /\ UTF8!Follows(c, 2) <=> b \in 128 .. 191
                      /\ UTF8!Follows(c, 3) <=> d \in 128 .. 191
                    BY <4>1, Zenon DEF UTF8!In, UTF8!Follows
                <5> QED BY <5>1, <5>2
            <4>6. IsLaxCharacter(c) <=>
                    \/ /\ d \in 128 .. 191
                       /\ \/ a \in 224 .. 224 /\ b \in 160 .. 191
                          \/ (a \in 225 .. 236 \/ a \in 238 .. 239) /\ b \in 128 .. 191
                          \/ a \in 237 .. 237 /\ b \in 128 .. 159
                    \/ a \in 224 .. 224 /\ b \in 128 .. 191 /\ d \in 128 .. 191
                BY <4>3, <4>4, <4>5
            <4>7. \/ /\ d \in 128 .. 191
                     /\ \/ a \in 224 .. 224 /\ b \in 160 .. 191
                        \/ (a \in 225 .. 236 \/ a \in 238 .. 239) /\ b \in 128 .. 191
                        \/ a \in 237 .. 237 /\ b \in 128 .. 159
                  \/ a \in 224 .. 224 /\ b \in 128 .. 191 /\ d \in 128 .. 191
                  <=>
                  /\ a \in 224 .. 239 /\ d \in 128 .. 191
                  /\ b \in 128 .. 191 /\ (a = 237 => b \in 128 .. 159)
                OBVIOUS
            <4> QED BY <4>6, <4>7, Zenon
        <3> QED BY <3>2, <3>5, <3>6
    <2>4. CASE n = 4
        <3>1. Num(1) \in 0 .. 255 /\ Num(2) \in 0 .. 255 /\ Num(3) \in 0 .. 255 /\ Num(4) \in 0 .. 255
            BY <1>2, <2>4
        <3>2. Passes(s, i, n) <=> /\ Num(1) \in 240 .. 247 /\ Num(2) \in 128 .. 191
                                  /\ Num(3) \in 128 .. 191 /\ Num(4) \in 128 .. 191
            BY <1>4, <1>5, <2>4
        <3>3. /\ UTF8!Number(c[1]) = Num(1) /\ UTF8!Number(c[2]) = Num(2)
              /\ UTF8!Number(c[3]) = Num(3) /\ UTF8!Number(c[4]) = Num(4)
            BY <1>2, <2>4
        <3>4. Len(c) = 4
            BY <1>1, <2>4
        <3>5. PICK a \in 0 .. 255, b \in 0 .. 255, d \in 0 .. 255, e \in 0 .. 255 :
                       a = Num(1) /\ b = Num(2) /\ d = Num(3) /\ e = Num(4)
            BY <3>1, Zenon
        <3>6. IsLaxCharacter(c) <=> /\ a \in 240 .. 247
                                    /\ b \in 128 .. 191 /\ d \in 128 .. 191 /\ e \in 128 .. 191
            <4>1. /\ UTF8!Number(c[1]) = a /\ UTF8!Number(c[2]) = b
                  /\ UTF8!Number(c[3]) = d /\ UTF8!Number(c[4]) = e
                BY <3>3, <3>5
            <4>2. Len(c) = 4 /\ Len(c) # 1 /\ Len(c) # 2 /\ Len(c) # 3
                BY <3>4
            <4>3. UTF8!IsCharacter(c) <=>
                    /\ UTF8!Follows(c, 3) /\ UTF8!Follows(c, 4)
                    /\ \/ UTF8!In(c, 1, 240, 240) /\ UTF8!In(c, 2, 144, 191)
                       \/ UTF8!In(c, 1, 241, 243) /\ UTF8!Follows(c, 2)
                       \/ UTF8!In(c, 1, 244, 244) /\ UTF8!In(c, 2, 128, 143)
                BY <4>2, Zenon DEF UTF8!IsCharacter
            <4>4. IsLaxCharacter(c) <=> \/ UTF8!IsCharacter(c)
                                        \/ /\ UTF8!In(c, 1, 240, 240) \/ UTF8!In(c, 1, 244, 247)
                                           /\ \A j \in 2 .. 4 : UTF8!Follows(c, j)
                BY <4>2, Zenon DEF IsLaxCharacter
            <4>5. /\ UTF8!In(c, 1, 240, 240) <=> a \in 240 .. 240
                  /\ UTF8!In(c, 1, 241, 243) <=> a \in 241 .. 243
                  /\ UTF8!In(c, 1, 244, 244) <=> a \in 244 .. 244
                  /\ UTF8!In(c, 1, 244, 247) <=> a \in 244 .. 247
                  /\ UTF8!In(c, 2, 144, 191) <=> b \in 144 .. 191
                  /\ UTF8!In(c, 2, 128, 143) <=> b \in 128 .. 143
                  /\ UTF8!Follows(c, 2) <=> b \in 128 .. 191
                  /\ UTF8!Follows(c, 3) <=> d \in 128 .. 191
                  /\ UTF8!Follows(c, 4) <=> e \in 128 .. 191
                <5>1. /\ UTF8!In(c, 1, 240, 240) <=> a \in 240 .. 240
                      /\ UTF8!In(c, 1, 241, 243) <=> a \in 241 .. 243
                      /\ UTF8!In(c, 1, 244, 244) <=> a \in 244 .. 244
                      /\ UTF8!In(c, 1, 244, 247) <=> a \in 244 .. 247
                    BY <4>1, Zenon DEF UTF8!In
                <5>2. /\ UTF8!In(c, 2, 144, 191) <=> b \in 144 .. 191
                      /\ UTF8!In(c, 2, 128, 143) <=> b \in 128 .. 143
                      /\ UTF8!Follows(c, 2) <=> b \in 128 .. 191
                    BY <4>1, Zenon DEF UTF8!In, UTF8!Follows
                <5>3. /\ UTF8!Follows(c, 3) <=> d \in 128 .. 191
                      /\ UTF8!Follows(c, 4) <=> e \in 128 .. 191
                    BY <4>1, Zenon DEF UTF8!In, UTF8!Follows
                <5> QED BY <5>1, <5>2, <5>3
            <4>6. (\A j \in 2 .. 4 : UTF8!Follows(c, j)) <=>
                      UTF8!Follows(c, 2) /\ UTF8!Follows(c, 3) /\ UTF8!Follows(c, 4)
                <5>1. 2 .. 4 = {2, 3, 4}
                    OBVIOUS
                <5> QED BY <5>1
            <4>7. IsLaxCharacter(c) <=>
                    \/ /\ d \in 128 .. 191 /\ e \in 128 .. 191
                       /\ \/ a \in 240 .. 240 /\ b \in 144 .. 191
                          \/ a \in 241 .. 243 /\ b \in 128 .. 191
                          \/ a \in 244 .. 244 /\ b \in 128 .. 143
                    \/ /\ a \in 240 .. 240 \/ a \in 244 .. 247
                       /\ b \in 128 .. 191 /\ d \in 128 .. 191 /\ e \in 128 .. 191
                BY <4>3, <4>4, <4>5, <4>6
            <4>8. \/ /\ d \in 128 .. 191 /\ e \in 128 .. 191
                     /\ \/ a \in 240 .. 240 /\ b \in 144 .. 191
                        \/ a \in 241 .. 243 /\ b \in 128 .. 191
                        \/ a \in 244 .. 244 /\ b \in 128 .. 143
                  \/ /\ a \in 240 .. 240 \/ a \in 244 .. 247
                     /\ b \in 128 .. 191 /\ d \in 128 .. 191 /\ e \in 128 .. 191
                  <=>
                  /\ a \in 240 .. 247
                  /\ b \in 128 .. 191 /\ d \in 128 .. 191 /\ e \in 128 .. 191
                OBVIOUS
            <4> QED BY <4>7, <4>8, Zenon
        <3> QED BY <3>2, <3>5, <3>6
    <2> QED BY <2>1, <2>2, <2>3, <2>4
<1> QED BY <1>1, <1>6
\* How many bytes the check asks for after the byte x, before it looks for the
\* surrogates.
Asked(x) ==
    LET n == UTF8!Number(x)
    IN  IF n \in 0 .. 127 THEN 0
        ELSE IF n \in 192 .. 223 THEN 1
        ELSE IF n \in 224 .. 239 THEN 2
        ELSE IF n \in 240 .. 247 THEN 3 ELSE -1

LEMMA FollowersIs ==
    ASSUME NEW s, NEW k, s[k] \in Byte
    PROVE  Followers(s, k) = IF UTF8!Number(s[k]) = 237 /\ k < Len(s) /\ {5, 7} \subseteq s[k + 1]
                             THEN -1 ELSE Asked(s[k])
<1>1. PICK x \in Byte : x = s[k]
    OBVIOUS
<1> DEFINE n == UTF8!Number(x)
           surrogate == x = {0, 2, 3, 5, 6, 7} /\ k < Len(s) /\ {5, 7} \subseteq s[k + 1]
<1>2. Followers(s, k) = CASE 7 \notin x                     -> 0
                          [] x \cap (5 .. 7) = {6, 7}       -> 1
                          [] x \cap (4 .. 7) = {5, 6, 7}    -> IF surrogate THEN -1 ELSE 2
                          [] x \cap (3 .. 7) = {4, 5, 6, 7} -> 3
                          [] OTHER                          -> -1
    BY <1>1 DEF Followers
<1>3. /\ n \in 0 .. 127 <=> 7 \notin x
      /\ n \in 192 .. 223 <=> x \cap (5 .. 7) = {6, 7}
      /\ n \in 224 .. 239 <=> x \cap (4 .. 7) = {5, 6, 7}
      /\ n \in 240 .. 247 <=> x \cap (3 .. 7) = {4, 5, 6, 7}
      /\ n = 237 <=> x = {0, 2, 3, 5, 6, 7}
      /\ n \in 0 .. 255
    BY NumberIs
<1> DEFINE sur == n = 237 /\ k < Len(s) /\ {5, 7} \subseteq s[k + 1]
<1>4. surrogate <=> sur
    BY <1>3
<1> HIDE DEF surrogate, sur, n
<1>5. Followers(s, k) = CASE n \in 0 .. 127   -> 0
                          [] n \in 192 .. 223 -> 1
                          [] n \in 224 .. 239 -> IF sur THEN -1 ELSE 2
                          [] n \in 240 .. 247 -> 3
                          [] OTHER            -> -1
    <2>1. CASE n \in 0 .. 127
        <3>1. ~(n \in 192 .. 223) /\ ~(n \in 224 .. 239) /\ ~(n \in 240 .. 247)
            BY <2>1
        <3> QED BY <1>2, <1>3, <2>1, <3>1
    <2>2. CASE n \in 192 .. 223
        <3>1. ~(n \in 0 .. 127) /\ ~(n \in 224 .. 239) /\ ~(n \in 240 .. 247)
            BY <2>2
        <3> QED BY <1>2, <1>3, <2>2, <3>1
    <2>3. CASE n \in 224 .. 239
        <3>1. ~(n \in 0 .. 127) /\ ~(n \in 192 .. 223) /\ ~(n \in 240 .. 247)
            BY <2>3
        <3> QED BY <1>2, <1>3, <1>4, <2>3, <3>1
    <2>4. CASE n \in 240 .. 247
        <3>1. ~(n \in 0 .. 127) /\ ~(n \in 192 .. 223) /\ ~(n \in 224 .. 239)
            BY <2>4
        <3> QED BY <1>2, <1>3, <2>4, <3>1
    <2>5. CASE ~(n \in 0 .. 127) /\ ~(n \in 192 .. 223) /\ ~(n \in 224 .. 239) /\ ~(n \in 240 .. 247)
        BY <1>2, <1>3, <2>5
    <2> QED BY <2>1, <2>2, <2>3, <2>4, <2>5
<1>6. n = 237 => n \in 224 .. 239 /\ ~(n \in 0 .. 127) /\ ~(n \in 192 .. 223)
    OBVIOUS
<1>7. Asked(x) = IF n \in 0 .. 127 THEN 0
                 ELSE IF n \in 192 .. 223 THEN 1
                 ELSE IF n \in 224 .. 239 THEN 2
                 ELSE IF n \in 240 .. 247 THEN 3 ELSE -1
    BY DEF Asked, n
<1>8. sur => n = 237
    BY DEF sur
<1>9. Followers(s, k) = IF sur THEN -1 ELSE Asked(x)
    <2>1. /\ n \in 0 .. 127 => ~(n \in 192 .. 223) /\ ~(n \in 224 .. 239) /\ ~(n \in 240 .. 247)
          /\ n \in 192 .. 223 => ~(n \in 224 .. 239) /\ ~(n \in 240 .. 247)
          /\ n \in 224 .. 239 => ~(n \in 240 .. 247)
        BY <1>3
    <2> QED BY <1>5, <1>6, <1>7, <1>8, <2>1
<1> QED BY <1>1, <1>9 DEF sur, n

\* The check goes on after a character that starts with byte i + 1 exactly if what
\* it passes there ends in G.
Checks(s, k, G) ==
    LET n == Followers(s, k)
    IN  /\ n >= 0
        /\ \A j \in 1 .. n : k + j <= Len(s) /\ s[k + j] \cap {6, 7} = {7}
        /\ k + n \in G

LEMMA FollowerIs ==
    \A x \in Byte : UTF8!Number(x) \in 128 .. 191 <=> x \cap {6, 7} = {7}
<1> SUFFICES ASSUME NEW x \in Byte
             PROVE  UTF8!Number(x) \in 128 .. 191 <=> x \cap {6, 7} = {7}
    OBVIOUS
<1>1. /\ UTF8!Number(x) \in 128 .. 191 <=> x \cap {6, 7} = {7}
      /\ UTF8!Number(x) \in 0 .. 255
    BY NumberIs
<1> QED BY <1>1

LEMMA NoSurrogateIs ==
    \A x \in Byte : UTF8!Number(x) \in 128 .. 159
                        <=> UTF8!Number(x) \in 128 .. 191 /\ ~({5, 7} \subseteq x)
<1> SUFFICES ASSUME NEW x \in Byte
             PROVE  UTF8!Number(x) \in 128 .. 159
                        <=> UTF8!Number(x) \in 128 .. 191 /\ ~({5, 7} \subseteq x)
    OBVIOUS
<1>1. /\ UTF8!Number(x) \in 128 .. 159 <=> x \cap {6, 7} = {7} /\ 5 \notin x
      /\ UTF8!Number(x) \in 128 .. 191 <=> x \cap {6, 7} = {7}
      /\ {5, 7} \subseteq x <=> 5 \in x /\ 7 \in x
    BY NumberIs
<1>2. x \cap {6, 7} = {7} => 7 \in x
    OBVIOUS
<1> QED BY <1>1, <1>2, Zenon

\* Of the ranges that the check tells apart, a number is in one at most.
LEMMA RangesAreApart ==
    ASSUME NEW a
    PROVE  /\ a \in 0 .. 127 => ~(a \in 192 .. 223) /\ ~(a \in 224 .. 239) /\ ~(a \in 240 .. 247)
           /\ a \in 192 .. 223 => ~(a \in 0 .. 127) /\ ~(a \in 224 .. 239) /\ ~(a \in 240 .. 247)
           /\ a \in 224 .. 239 => ~(a \in 0 .. 127) /\ ~(a \in 192 .. 223) /\ ~(a \in 240 .. 247)
           /\ a \in 240 .. 247 => ~(a \in 0 .. 127) /\ ~(a \in 192 .. 223) /\ ~(a \in 224 .. 239)
           /\ a = 237 => a \in 224 .. 239
OBVIOUS

LEMMA ChecksIs ==
    ASSUME NEW s \in Seq(Byte), NEW i \in Nat, i < Len(s), NEW G
    PROVE  Checks(s, i + 1, G) <=> \E n \in 1 .. 4 : i + n <= Len(s) /\ Passes(s, i, n) /\ i + n \in G
<1>0. PICK k \in Nat, l \in Nat : k = i + 1 /\ l = Len(s) /\ k <= l
    OBVIOUS
<1> DEFINE Num(j) == UTF8!Number(s[i + j])
           F == Followers(s, k)
<1>1. \A j \in 1 .. 4 : i + j <= l => s[i + j] \in Byte
    <2>1. \A j \in 1 .. 4 : i + j <= l => i + j \in 1 .. Len(s)
        BY <1>0
    <2> QED BY <2>1, ElementOfSeq
<1>2. \A j \in 1 .. 4 : i + j <= l => (Num(j) \in 128 .. 191 <=> s[i + j] \cap {6, 7} = {7})
    BY <1>1, FollowerIs, Zenon
<1>3. s[k] \in Byte /\ Num(1) = UTF8!Number(s[k])
    <2>1. 1 \in 1 .. 4 /\ i + 1 <= l
        BY <1>0
    <2> QED BY <1>0, <1>1, <2>1
<1>4. F = IF Num(1) = 237 /\ k < l /\ {5, 7} \subseteq s[i + 2]
          THEN -1
          ELSE IF Num(1) \in 0 .. 127 THEN 0
          ELSE IF Num(1) \in 192 .. 223 THEN 1
          ELSE IF Num(1) \in 224 .. 239 THEN 2
          ELSE IF Num(1) \in 240 .. 247 THEN 3 ELSE -1
    <2>1. k + 1 = i + 2
        BY <1>0
    <2>2. Asked(s[k]) = IF Num(1) \in 0 .. 127 THEN 0
          ELSE IF Num(1) \in 192 .. 223 THEN 1
          ELSE IF Num(1) \in 224 .. 239 THEN 2
          ELSE IF Num(1) \in 240 .. 247 THEN 3 ELSE -1
        BY <1>3 DEF Asked
    <2>3. F = IF UTF8!Number(s[k]) = 237 /\ k < Len(s) /\ {5, 7} \subseteq s[k + 1] THEN -1 ELSE Asked(s[k])
        BY <1>3, FollowersIs
    <2> HIDE DEF F, Num
    <2> QED BY <1>0, <1>3, <2>1, <2>2, <2>3
<1>5. k < l => (Num(2) \in 128 .. 159 <=> Num(2) \in 128 .. 191 /\ ~({5, 7} \subseteq s[i + 2]))
    <2>2. k < l => s[i + 2] \in Byte
        <3>1. k < l => 2 \in 1 .. 4 /\ i + 2 <= l
            BY <1>0
        <3> QED BY <1>1, <3>1
    <2> QED BY <2>2, NoSurrogateIs, Zenon
<1>6. Checks(s, k, G) <=> /\ F >= 0
                          /\ \A j \in 1 .. F : k + j <= l /\ s[k + j] \cap {6, 7} = {7}
                          /\ k + F \in G
    BY <1>0, Zenon DEF Checks
<1>7. \A n \in 1 .. 4 : Passes(s, i, n) <=>
        \/ n = 1 /\ Num(1) \in 0 .. 127
        \/ n = 2 /\ Num(1) \in 192 .. 223 /\ Num(2) \in 128 .. 191
        \/ /\ n = 3 /\ Num(1) \in 224 .. 239 /\ Num(3) \in 128 .. 191
           /\ Num(2) \in 128 .. 191 /\ (Num(1) = 237 => Num(2) \in 128 .. 159)
        \/ n = 4 /\ Num(1) \in 240 .. 247 /\ \A j \in 2 .. 4 : Num(j) \in 128 .. 191
    BY Zenon DEF Passes
<1> HIDE DEF F, Num
<1> DEFINE Parsed == \E n \in 1 .. 4 : i + n <= Len(s) /\ Passes(s, i, n) /\ i + n \in G
<1>8. ASSUME NEW n \in 0 .. 3, F = n
      PROVE  Checks(s, k, G) <=> /\ i + (n + 1) <= l /\ i + (n + 1) \in G
                                 /\ \A j \in 2 .. n + 1 : Num(j) \in 128 .. 191
    <2>1. k + F = i + (n + 1)
        BY <1>0, <1>8
    <2>2. (\A j \in 1 .. n : k + j <= l /\ s[k + j] \cap {6, 7} = {7})
              <=> i + (n + 1) <= l /\ \A j \in 2 .. n + 1 : Num(j) \in 128 .. 191
        <3>1. ASSUME \A j \in 1 .. n : k + j <= l /\ s[k + j] \cap {6, 7} = {7}
              PROVE  i + (n + 1) <= l /\ \A j \in 2 .. n + 1 : Num(j) \in 128 .. 191
            <4>1. i + (n + 1) <= l
                <5>1. CASE n = 0
                    BY <1>0, <5>1
                <5>2. CASE n # 0
                    <6>1. n \in 1 .. n
                        BY <5>2
                    <6>2. k + n <= l
                        BY <3>1, <6>1
                    <6> QED BY <1>0, <6>2
                <5> QED BY <5>1, <5>2
            <4>2. ASSUME NEW j \in 2 .. n + 1 PROVE Num(j) \in 128 .. 191
                <5>1. PICK e \in 1 .. n : e = j - 1 /\ k + e = i + j /\ j \in 1 .. 4
                    BY <1>0
                <5>2. i + j <= l /\ s[i + j] \cap {6, 7} = {7}
                    BY <3>1, <5>1
                <5> QED BY <1>2, <5>1, <5>2, Zenon
            <4> QED BY <4>1, <4>2
        <3>2. ASSUME i + (n + 1) <= l, \A j \in 2 .. n + 1 : Num(j) \in 128 .. 191, NEW e \in 1 .. n
              PROVE  k + e <= l /\ s[k + e] \cap {6, 7} = {7}
            <4>1. PICK j \in 2 .. n + 1 : j = e + 1 /\ k + e = i + j /\ j \in 1 .. 4 /\ i + j <= l
                BY <1>0, <3>2
            <4>2. Num(j) \in 128 .. 191
                BY <3>2
            <4> QED BY <1>2, <4>1, <4>2, Zenon
        <3> QED BY <3>1, <3>2, Zenon
    <2>3. Checks(s, k, G) <=> /\ n >= 0
                              /\ \A j \in 1 .. n : k + j <= l /\ s[k + j] \cap {6, 7} = {7}
                              /\ k + n \in G
        BY <1>6, <1>8, Zenon
    <2>4. n >= 0 /\ k + n = i + (n + 1)
        BY <1>8, <2>1
    <2> QED BY <2>2, <2>3, <2>4, Zenon
<1> SUFFICES Checks(s, k, G) <=> Parsed
    BY <1>0
<1> DEFINE a == Num(1)
<1>R. /\ a \in 0 .. 127 => ~(a \in 192 .. 223) /\ ~(a \in 224 .. 239) /\ ~(a \in 240 .. 247)
      /\ a \in 192 .. 223 => ~(a \in 0 .. 127) /\ ~(a \in 224 .. 239) /\ ~(a \in 240 .. 247)
      /\ a \in 224 .. 239 => ~(a \in 0 .. 127) /\ ~(a \in 192 .. 223) /\ ~(a \in 240 .. 247)
      /\ a \in 240 .. 247 => ~(a \in 0 .. 127) /\ ~(a \in 192 .. 223) /\ ~(a \in 224 .. 239)
      /\ a = 237 => a \in 224 .. 239
    BY RangesAreApart, Zenon
<1>9. CASE Num(1) \in 0 .. 127
    <2>1. F = 0 /\ 0 \in 0 .. 3
        BY <1>4, <1>9, <1>R
    <2>2. Checks(s, k, G) <=> i + 1 \in G
        <3>1. Checks(s, k, G) <=> /\ i + (0 + 1) <= l /\ i + (0 + 1) \in G
                                  /\ \A j \in 2 .. 0 + 1 : Num(j) \in 128 .. 191
            BY <1>8, <2>1
        <3>2. \A j \in 2 .. 0 + 1 : FALSE
            OBVIOUS
        <3> QED BY <1>0, <3>1, <3>2
    <2>3. \A n \in 1 .. 4 : Passes(s, i, n) <=> n = 1
        <3> SUFFICES ASSUME NEW n \in 1 .. 4
                     PROVE  Passes(s, i, n) <=> n = 1
            OBVIOUS
        <3>1. Passes(s, i, n) <=>
                \/ n = 1 /\ a \in 0 .. 127
                \/ n = 2 /\ a \in 192 .. 223 /\ Num(2) \in 128 .. 191
                \/ /\ n = 3 /\ a \in 224 .. 239 /\ Num(3) \in 128 .. 191
                   /\ Num(2) \in 128 .. 191 /\ (a = 237 => Num(2) \in 128 .. 159)
                \/ n = 4 /\ a \in 240 .. 247 /\ \A j \in 2 .. 4 : Num(j) \in 128 .. 191
            BY <1>7, Zenon
        <3>2. ~(a \in 192 .. 223) /\ ~(a \in 224 .. 239) /\ ~(a \in 240 .. 247)
            BY <1>9, <1>R
        <3> QED BY <3>1, <3>2, <1>9
    <2>4. Parsed <=> i + 1 \in G
        BY <1>0, <2>3
    <2> QED BY <1>0, <2>2, <2>4
<1>10. CASE Num(1) \in 192 .. 223
    <2>1. F = 1 /\ 1 \in 0 .. 3
        BY <1>4, <1>10, <1>R
    <2>2. Checks(s, k, G) <=> i + 2 <= l /\ i + 2 \in G /\ Num(2) \in 128 .. 191
        <3>1. Checks(s, k, G) <=> /\ i + (1 + 1) <= l /\ i + (1 + 1) \in G
                                  /\ \A j \in 2 .. 1 + 1 : Num(j) \in 128 .. 191
            BY <1>8, <2>1
        <3>2. \A j : j \in 2 .. 1 + 1 <=> j = 2
            OBVIOUS
        <3> QED BY <3>1, <3>2
    <2>3. \A n \in 1 .. 4 : Passes(s, i, n) <=> n = 2 /\ Num(2) \in 128 .. 191
        <3> SUFFICES ASSUME NEW n \in 1 .. 4
                     PROVE  Passes(s, i, n) <=> n = 2 /\ Num(2) \in 128 .. 191
            BY Zenon
        <3>1. Passes(s, i, n) <=>
                \/ n = 1 /\ a \in 0 .. 127
                \/ n = 2 /\ a \in 192 .. 223 /\ Num(2) \in 128 .. 191
                \/ /\ n = 3 /\ a \in 224 .. 239 /\ Num(3) \in 128 .. 191
                   /\ Num(2) \in 128 .. 191 /\ (a = 237 => Num(2) \in 128 .. 159)
                \/ n = 4 /\ a \in 240 .. 247 /\ \A j \in 2 .. 4 : Num(j) \in 128 .. 191
            BY <1>7, Zenon
        <3>2. ~(a \in 0 .. 127) /\ ~(a \in 224 .. 239) /\ ~(a \in 240 .. 247)
            BY <1>10, <1>R
        <3> QED BY <3>1, <3>2, <1>10
    <2>4. Parsed <=> i + 2 <= l /\ i + 2 \in G /\ Num(2) \in 128 .. 191
        BY <1>0, <2>3
    <2> QED BY <1>0, <2>2, <2>4
<1>11. CASE Num(1) \in 224 .. 239
    <2> DEFINE Right == i + 3 <= l /\ i + 3 \in G /\ Num(3) \in 128 .. 191 /\ Num(2) \in 128 .. 191 /\ (Num(1) = 237 => Num(2) \in 128 .. 159)
    <2>1. \A n \in 1 .. 4 : Passes(s, i, n) <=> /\ n = 3 /\ Num(3) \in 128 .. 191
                                                /\ Num(2) \in 128 .. 191 /\ (Num(1) = 237 => Num(2) \in 128 .. 159)
        <3> SUFFICES ASSUME NEW n \in 1 .. 4
                     PROVE  Passes(s, i, n) <=> n = 3 /\ Num(3) \in 128 .. 191 /\ Num(2) \in 128 .. 191 /\ (Num(1) = 237 => Num(2) \in 128 .. 159)
            BY Zenon
        <3>1. Passes(s, i, n) <=>
                \/ n = 1 /\ a \in 0 .. 127
                \/ n = 2 /\ a \in 192 .. 223 /\ Num(2) \in 128 .. 191
                \/ /\ n = 3 /\ a \in 224 .. 239 /\ Num(3) \in 128 .. 191
                   /\ Num(2) \in 128 .. 191 /\ (a = 237 => Num(2) \in 128 .. 159)
                \/ n = 4 /\ a \in 240 .. 247 /\ \A j \in 2 .. 4 : Num(j) \in 128 .. 191
            BY <1>7, Zenon
        <3>2. ~(a \in 0 .. 127) /\ ~(a \in 192 .. 223) /\ ~(a \in 240 .. 247)
            BY <1>11, <1>R
        <3> QED BY <3>1, <3>2, <1>11
    <2>2. Parsed <=> Right
        BY <1>0, <2>1
    <2>3. F = 2 => (Checks(s, k, G) <=> i + 3 <= l /\ i + 3 \in G /\ Num(2) \in 128 .. 191 /\ Num(3) \in 128 .. 191)
        <3> SUFFICES ASSUME F = 2
                     PROVE  Checks(s, k, G) <=> i + 3 <= l /\ i + 3 \in G /\ Num(2) \in 128 .. 191 /\ Num(3) \in 128 .. 191
            OBVIOUS
        <3>0. 2 \in 0 .. 3
            OBVIOUS
        <3>1. Checks(s, k, G) <=> /\ i + (2 + 1) <= l /\ i + (2 + 1) \in G
                                  /\ \A j \in 2 .. 2 + 1 : Num(j) \in 128 .. 191
            BY <1>8, <3>0
        <3>2. \A j : j \in 2 .. 2 + 1 <=> j = 2 \/ j = 3
            OBVIOUS
        <3> QED BY <3>1, <3>2
    <2>4. CASE Num(1) = 237 /\ k < l /\ {5, 7} \subseteq s[i + 2]
        <3>1. F = -1
            BY <1>4, <2>4
        <3>2. ~Checks(s, k, G)
            BY <1>6, <3>1
        <3>3. ~(Num(2) \in 128 .. 159)
            BY <1>5, <2>4
        <3>4. ~Right
            <4>1. Right => Num(2) \in 128 .. 159
                BY <2>4, Zenon
            <4> QED BY <3>3, <4>1, Zenon
        <3> HIDE DEF Parsed, Right
        <3> QED BY <2>2, <3>2, <3>4, Zenon
    <2>5. CASE ~(Num(1) = 237 /\ k < l /\ {5, 7} \subseteq s[i + 2])
        <3>1. F = 2
            BY <1>4, <1>11, <2>5, <1>R
        <3>2. Right <=> i + 3 <= l /\ i + 3 \in G /\ Num(2) \in 128 .. 191 /\ Num(3) \in 128 .. 191
            <4>1. i + 3 <= l => k < l
                BY <1>0
            <4>2. CASE Num(1) = 237
                <5>1. k < l /\ Num(2) \in 128 .. 191 => (Num(2) \in 128 .. 159 <=> Num(2) \in 128 .. 191)
                    BY <1>5, <2>5, <4>2, Zenon
                <5> QED BY <4>1, <5>1, Zenon
            <4>3. CASE Num(1) # 237
                BY <4>3
            <4> QED BY <4>2, <4>3
        <3> QED BY <1>0, <2>2, <2>3, <3>1, <3>2
    <2> QED BY <2>4, <2>5
<1>12. CASE Num(1) \in 240 .. 247
    <2>1. F = 3 /\ 3 \in 0 .. 3
        BY <1>4, <1>12, <1>R
    <2>2. Checks(s, k, G) <=> i + 4 <= l /\ i + 4 \in G /\ \A j \in 2 .. 4 : Num(j) \in 128 .. 191
        <3>1. Checks(s, k, G) <=> /\ i + (3 + 1) <= l /\ i + (3 + 1) \in G
                                  /\ \A j \in 2 .. 3 + 1 : Num(j) \in 128 .. 191
            BY <1>8, <2>1
        <3>2. 3 + 1 = 4
            OBVIOUS
        <3> QED BY <3>1, <3>2
    <2>3. \A n \in 1 .. 4 : Passes(s, i, n) <=> n = 4 /\ \A j \in 2 .. 4 : Num(j) \in 128 .. 191
        <3> SUFFICES ASSUME NEW n \in 1 .. 4
                     PROVE  Passes(s, i, n) <=> n = 4 /\ \A j \in 2 .. 4 : Num(j) \in 128 .. 191
            BY Zenon
        <3>1. Passes(s, i, n) <=>
                \/ n = 1 /\ a \in 0 .. 127
                \/ n = 2 /\ a \in 192 .. 223 /\ Num(2) \in 128 .. 191
                \/ /\ n = 3 /\ a \in 224 .. 239 /\ Num(3) \in 128 .. 191
                   /\ Num(2) \in 128 .. 191 /\ (a = 237 => Num(2) \in 128 .. 159)
                \/ n = 4 /\ a \in 240 .. 247 /\ \A j \in 2 .. 4 : Num(j) \in 128 .. 191
            BY <1>7, Zenon
        <3>2. ~(a \in 0 .. 127) /\ ~(a \in 192 .. 223) /\ ~(a \in 224 .. 239)
            BY <1>12, <1>R
        <3> QED BY <3>1, <3>2, <1>12
    <2>4. Parsed <=> i + 4 <= l /\ i + 4 \in G /\ \A j \in 2 .. 4 : Num(j) \in 128 .. 191
        BY <1>0, <2>3
    <2> QED BY <1>0, <2>2, <2>4
<1>13. CASE ~(Num(1) \in 0 .. 127) /\ ~(Num(1) \in 192 .. 223) /\ ~(Num(1) \in 224 .. 239) /\ ~(Num(1) \in 240 .. 247)
    <2>1. F = -1
        <3>1. Num(1) # 237
            BY <1>13
        <3> QED BY <1>4, <1>13, <3>1
    <2>2. ~Checks(s, k, G)
        BY <1>6, <2>1
    <2>3. \A n \in 1 .. 4 : ~Passes(s, i, n)
        BY <1>7, <1>13, Zenon
    <2> QED BY <1>0, <2>2, <2>3
<1> QED BY <1>9, <1>10, <1>11, <1>12, <1>13

\* What the check and the reference say of the place before byte i + 1 of s: it is
\* in G if s is a text from there on.
IsEnd(s, i, G) ==
    \/ i = Len(s)
    \/ \E n \in 1 .. 4 : i + n <= Len(s) /\ Passes(s, i, n) /\ i + n \in G

AreEnds(s, G) == \A i \in 0 .. Len(s) : i \in G <=> IsEnd(s, i, G)

LEMMA IsEndDepends ==
    ASSUME NEW s \in Seq(Byte), NEW i \in 0 .. Len(s), NEW G, NEW Grown,
           \A e \in 0 .. Len(s) : e > i => (e \in G <=> e \in Grown)
    PROVE  IsEnd(s, i, G) <=> IsEnd(s, i, Grown)
<1>1. ASSUME NEW n \in 1 .. 4, i + n <= Len(s)
      PROVE  i + n \in G <=> i + n \in Grown
    <2>1. i + n \in 0 .. Len(s) /\ i + n > i
        BY <1>1
    <2> QED BY <2>1
<1> QED BY <1>1 DEF IsEnd

LEMMA EndsExist ==
    ASSUME NEW s \in Seq(Byte)
    PROVE  \E G : AreEnds(s, G)
<1>1. PICK l \in Nat : l = Len(s)
    OBVIOUS
<1> DEFINE P(k) == \E G : \A i \in 0 .. l : i >= l - k => (i \in G <=> IsEnd(s, i, G))
<1>2. P(0)
    <2>1. \A i \in 0 .. l : i >= l - 0 => i = l
        OBVIOUS
    <2>2. IsEnd(s, l, {l})
        BY <1>1 DEF IsEnd
    <2>3. \A i \in 0 .. l : i >= l - 0 => (i \in {l} <=> IsEnd(s, i, {l}))
        BY <2>1, <2>2
    <2> QED BY <2>3, Zenon
<1>3. ASSUME NEW k \in Nat, P(k)
      PROVE  P(k + 1)
    <2>1. PICK G : \A i \in 0 .. l : i >= l - k => (i \in G <=> IsEnd(s, i, G))
        BY <1>3, Zenon
    <2>2. PICK m \in Int : m = l - (k + 1)
        OBVIOUS
    <2> DEFINE Grown == {i \in 0 .. l : IF i = m THEN IsEnd(s, m, G) ELSE i \in G}
    <2>3. ASSUME NEW i \in 0 .. l, i >= m
          PROVE  i \in Grown <=> IsEnd(s, i, Grown)
        <3>1. \A e \in 0 .. Len(s) : e > i => (e \in G <=> e \in Grown)
            <4>1. \A e \in 0 .. l : e > i => e # m
                BY <2>3
            <4> QED BY <1>1, <4>1
        <3>2. i \in 0 .. Len(s)
            BY <1>1
        <3> HIDE DEF Grown
        <3>3. IsEnd(s, i, G) <=> IsEnd(s, i, Grown)
            BY <3>1, <3>2, IsEndDepends
        <3>4. i \in Grown <=> IsEnd(s, i, G)
            <4>1. CASE i = m
                BY <4>1 DEF Grown
            <4>2. CASE i # m
                <5>1. i >= l - k
                    BY <2>2, <2>3, <4>2
                <5> QED BY <2>1, <4>2, <5>1 DEF Grown
            <4> QED BY <4>1, <4>2
        <3> QED BY <3>3, <3>4
    <2> HIDE DEF Grown
    <2>4. \A i \in 0 .. l : i >= l - (k + 1) => (i \in Grown <=> IsEnd(s, i, Grown))
        BY <2>2, <2>3
    <2> QED BY <2>4, Zenon
<1> HIDE DEF P
<1>4. \A k \in Nat : P(k)
    <2> DEFINE S == {k \in Nat : P(k)}
    <2>1. 0 \in S
        BY <1>2
    <2>2. ASSUME NEW k \in Nat, k \in S PROVE k + 1 \in S
        BY <2>2, <1>3
    <2> HIDE DEF S
    <2>3. Nat \subseteq S
        BY <2>1, <2>2, NatSetInduction
    <2> QED BY <2>3 DEF S
<1>5. P(l)
    BY <1>4
<1>6. PICK G : \A i \in 0 .. l : i >= l - l => (i \in G <=> IsEnd(s, i, G))
    BY <1>5, Zenon DEF P
<1>7. \A i \in 0 .. l : i >= l - l
    OBVIOUS
<1> QED BY <1>1, <1>6, <1>7 DEF AreEnds

\* The function by which the reference reads a text.
IsParse(s, f) ==
    f = [i \in 0 .. Len(s) |->
            \/ i = Len(s)
            \/ \E n \in 1 .. 4 : /\ i + n <= Len(s)
                                 /\ IsLaxCharacter(SubSeq(s, i + 1, i + n))
                                 /\ f[i + n]]

LEMMA IsLaxTextIs ==
    ASSUME NEW s
    PROVE  IsLaxText(s) = (CHOOSE f : IsParse(s, f))[0]
BY DEF IsLaxText, UTF8!MadeOf, IsParse

LEMMA ParseStep ==
    ASSUME NEW s \in Seq(Byte), NEW i \in 0 .. Len(s), NEW f, NEW G,
           \A e \in 0 .. Len(s) : e > i => (f[e] <=> e \in G)
    PROVE  IsEnd(s, i, G) <=> \/ i = Len(s)
                              \/ \E n \in 1 .. 4 : /\ i + n <= Len(s)
                                                   /\ IsLaxCharacter(SubSeq(s, i + 1, i + n))
                                                   /\ f[i + n]
<1>1. ASSUME NEW n \in 1 .. 4, i + n <= Len(s)
      PROVE  /\ Passes(s, i, n) <=> IsLaxCharacter(SubSeq(s, i + 1, i + n))
             /\ i + n \in G <=> f[i + n]
    <2>1. i + n \in 0 .. Len(s) /\ i + n > i /\ i \in Nat
        BY <1>1
    <2>2. f[i + n] <=> i + n \in G
        BY <2>1
    <2>3. IsLaxCharacter(SubSeq(s, i + 1, i + n)) <=> Passes(s, i, n)
        BY <1>1, <2>1, LaxCharacterIs
    <2> QED BY <2>2, <2>3
<1> QED BY <1>1, Zenon DEF IsEnd

LEMMA ParseExists ==
    ASSUME NEW s \in Seq(Byte)
    PROVE  \E f : IsParse(s, f)
<1>1. PICK G : AreEnds(s, G)
    BY EndsExist
<1> DEFINE f == [i \in 0 .. Len(s) |-> i \in G]
           Rest(i) == \/ i = Len(s)
                      \/ \E n \in 1 .. 4 : /\ i + n <= Len(s)
                                           /\ IsLaxCharacter(SubSeq(s, i + 1, i + n))
                                           /\ f[i + n]
<1>2. ASSUME NEW i \in 0 .. Len(s)
      PROVE  (i \in G) = Rest(i)
    <2>1. \A e \in 0 .. Len(s) : e > i => (f[e] <=> e \in G)
        BY Zenon
    <2> HIDE DEF f
    <2>2. IsEnd(s, i, G) <=> Rest(i)
        BY <2>1, ParseStep
    <2>3. i \in G <=> IsEnd(s, i, G)
        BY <1>1 DEF AreEnds
    <2>4. Rest(i) \in BOOLEAN
        OBVIOUS
    <2> HIDE DEF Rest
    <2>5. CASE i \in G
        BY <2>2, <2>3, <2>4, <2>5
    <2>6. CASE i \notin G
        BY <2>2, <2>3, <2>4, <2>6
    <2> QED BY <2>5, <2>6
<1>3. f = [i \in 0 .. Len(s) |-> Rest(i)]
    <2> HIDE DEF Rest
    <2> QED BY <1>2, Zenon
<1>4. IsParse(s, f)
    <2> HIDE DEF f
    <2> QED BY <1>3, Zenon DEF IsParse
<1> QED BY <1>4

LEMMA ParseIs ==
    ASSUME NEW s \in Seq(Byte), NEW f, IsParse(s, f), NEW G, AreEnds(s, G)
    PROVE  f[0] <=> 0 \in G
<1>1. PICK l \in Nat : l = Len(s)
    OBVIOUS
<1> DEFINE P(k) == \A i \in 0 .. l : i >= l - k => (f[i] <=> i \in G)
<1>2. ASSUME NEW i \in 0 .. l, \A e \in 0 .. l : e > i => (f[e] <=> e \in G)
      PROVE  f[i] <=> i \in G
    <2>1. IsEnd(s, i, G) <=> \/ i = Len(s)
                             \/ \E n \in 1 .. 4 : /\ i + n <= Len(s)
                                                  /\ IsLaxCharacter(SubSeq(s, i + 1, i + n))
                                                  /\ f[i + n]
        BY <1>1, <1>2, ParseStep
    <2>2. f[i] = \/ i = Len(s)
                 \/ \E n \in 1 .. 4 : /\ i + n <= Len(s)
                                      /\ IsLaxCharacter(SubSeq(s, i + 1, i + n))
                                      /\ f[i + n]
        BY <1>1, Zenon DEF IsParse
    <2>3. i \in G <=> IsEnd(s, i, G)
        BY <1>1 DEF AreEnds
    <2> QED BY <2>1, <2>2, <2>3
<1>3. P(0)
    <2> SUFFICES ASSUME NEW i \in 0 .. l, i >= l - 0
                 PROVE  f[i] <=> i \in G
        OBVIOUS
    <2>1. \A e \in 0 .. l : ~(e > i)
        OBVIOUS
    <2> QED BY <1>2, <2>1
<1>4. ASSUME NEW k \in Nat, P(k)
      PROVE  P(k + 1)
    <2> SUFFICES ASSUME NEW i \in 0 .. l, i >= l - (k + 1)
                 PROVE  f[i] <=> i \in G
        OBVIOUS
    <2>1. \A e \in 0 .. l : e > i => e >= l - k
        OBVIOUS
    <2>2. \A e \in 0 .. l : e > i => (f[e] <=> e \in G)
        BY <1>4, <2>1
    <2> QED BY <1>2, <2>2
<1> HIDE DEF P
<1>5. \A k \in Nat : P(k)
    <2> DEFINE S == {k \in Nat : P(k)}
    <2>1. 0 \in S
        BY <1>3
    <2>2. ASSUME NEW k \in Nat, k \in S PROVE k + 1 \in S
        BY <2>2, <1>4
    <2> HIDE DEF S
    <2>3. Nat \subseteq S
        BY <2>1, <2>2, NatSetInduction
    <2> QED BY <2>3 DEF S
<1>6. P(l)
    BY <1>5
<1>7. 0 \in 0 .. l /\ 0 >= l - l
    OBVIOUS
<1> QED BY <1>6, <1>7 DEF P

\* The function by which the check goes through a text.
Goes(s, k, g) ==
    LET n == Followers(s, k)
    IN  /\ n >= 0
        /\ \A j \in 1 .. n : k + j <= Len(s) /\ s[k + j] \cap {6, 7} = {7}
        /\ g[k + n + 1]

IsCheck(s, g) ==
    g = [k \in 1 .. Len(s) + 4 |->
            \/ k > Len(s)
            \/ LET n == Followers(s, k)
               IN  /\ n >= 0
                   /\ \A j \in 1 .. n : k + j <= Len(s) /\ s[k + j] \cap {6, 7} = {7}
                   /\ g[k + n + 1]]

LEMMA IsValidIs ==
    ASSUME NEW s
    PROVE  utf8_check_is_valid(s) = (CHOOSE g : IsCheck(s, g))[1]
BY DEF utf8_check_is_valid, IsCheck

LEMMA FollowersAreFew ==
    ASSUME NEW s, NEW k, s[k] \in Byte
    PROVE  Followers(s, k) \in -1 .. 3
<1>1. Asked(s[k]) \in -1 .. 3
    BY DEF Asked
<1>2. Followers(s, k) = IF UTF8!Number(s[k]) = 237 /\ k < Len(s) /\ {5, 7} \subseteq s[k + 1]
                        THEN -1 ELSE Asked(s[k])
    BY FollowersIs
<1> QED BY <1>1, <1>2

LEMMA GoesIs ==
    ASSUME NEW s \in Seq(Byte), NEW i \in Nat, i < Len(s), NEW g, NEW G,
           \A e \in 0 .. Len(s) : e > i => (g[e + 1] <=> e \in G),
           AreEnds(s, G)
    PROVE  Goes(s, i + 1, g) <=> i \in G
<1>1. PICK k \in 1 .. Len(s) : k = i + 1
    OBVIOUS
<1>2. s[k] \in Byte
    BY ElementOfSeq
<1>3. PICK n \in -1 .. 3 : n = Followers(s, k)
    BY <1>2, FollowersAreFew
<1>4. ASSUME n >= 0, \A j \in 1 .. n : k + j <= Len(s) /\ s[k + j] \cap {6, 7} = {7}
      PROVE  g[k + n + 1] <=> k + n \in G
    <2>1. k + n <= Len(s)
        <3>1. CASE n = 0
            BY <1>1, <3>1
        <3>2. CASE n # 0
            <4>1. n \in 1 .. n
                BY <1>4, <3>2
            <4> QED BY <1>4, <4>1
        <3> QED BY <3>1, <3>2
    <2>2. PICK e \in 0 .. Len(s) : e = k + n /\ e > i
        BY <1>1, <1>4, <2>1
    <2>3. g[e + 1] <=> e \in G
        BY <2>2
    <2> QED BY <2>2, <2>3
<1>5. Goes(s, k, g) <=> Checks(s, k, G)
    BY <1>3, <1>4, Zenon DEF Goes, Checks
<1>6. Checks(s, k, G) <=> \E e \in 1 .. 4 : i + e <= Len(s) /\ Passes(s, i, e) /\ i + e \in G
    BY <1>1, ChecksIs
<1>7. i \in G <=> IsEnd(s, i, G)
    <2>1. i \in 0 .. Len(s)
        OBVIOUS
    <2> QED BY <2>1 DEF AreEnds
<1>8. i # Len(s)
    OBVIOUS
<1> QED BY <1>1, <1>5, <1>6, <1>7, <1>8, Zenon DEF IsEnd

LEMMA CheckExists ==
    ASSUME NEW s \in Seq(Byte)
    PROVE  \E g : IsCheck(s, g)
<1>1. PICK G : AreEnds(s, G)
    BY EndsExist
<1>2. PICK l \in Nat : l = Len(s)
    OBVIOUS
<1> DEFINE g == [k \in 1 .. l + 4 |-> k > l \/ k - 1 \in G]
<1>3. \A e \in 0 .. l : g[e + 1] <=> e \in G
    <2> SUFFICES ASSUME NEW e \in 0 .. l
                 PROVE  g[e + 1] <=> e \in G
        OBVIOUS
    <2>1. e + 1 \in 1 .. l + 4 /\ (e + 1) - 1 = e
        OBVIOUS
    <2>2. g[e + 1] <=> e + 1 > l \/ e \in G
        BY <2>1, Zenon
    <2>3. e + 1 > l => e = l
        OBVIOUS
    <2>4. l \in G
        BY <1>1, <1>2 DEF AreEnds, IsEnd
    <2> QED BY <2>2, <2>3, <2>4
<1>4. ASSUME NEW k \in 1 .. l + 4
      PROVE  (k > l \/ k - 1 \in G) = (k > Len(s) \/ Goes(s, k, g))
    <2>1. CASE k > l
        BY <1>2, <2>1
    <2>2. CASE ~(k > l)
        <3>1. PICK i \in Nat : i = k - 1 /\ i < l /\ k = i + 1
            BY <2>2
        <3> HIDE DEF g
        <3>2. \A e \in 0 .. Len(s) : e > i => (g[e + 1] <=> e \in G)
            BY <1>2, <1>3
        <3>3. Goes(s, i + 1, g) <=> i \in G
            BY <1>1, <1>2, <3>1, <3>2, GoesIs
        <3> QED BY <1>2, <2>2, <3>1, <3>3
    <2> QED BY <2>1, <2>2
<1>5. g = [k \in 1 .. Len(s) + 4 |-> k > Len(s) \/ Goes(s, k, g)]
    <2>1. g = [k \in 1 .. l + 4 |-> k > Len(s) \/ Goes(s, k, g)]
        BY <1>4
    <2> QED BY <1>2, <2>1
<1>6. IsCheck(s, g)
    <2> HIDE DEF g
    <2> QED BY <1>5, Zenon DEF IsCheck, Goes
<1> QED BY <1>6

LEMMA CheckIs ==
    ASSUME NEW s \in Seq(Byte), NEW g, IsCheck(s, g), NEW G, AreEnds(s, G)
    PROVE  g[1] <=> 0 \in G
<1>1. PICK l \in Nat : l = Len(s)
    OBVIOUS
<1>2. \A k \in 1 .. l + 4 : g[k] = (k > l \/ Goes(s, k, g))
    BY <1>1, Zenon DEF IsCheck, Goes
<1> DEFINE P(k) == \A i \in 0 .. l : i >= l - k => (g[i + 1] <=> i \in G)
<1>3. P(0)
    <2>1. \A i \in 0 .. l : i >= l - 0 => i = l
        OBVIOUS
    <2>2. l \in G
        BY <1>1 DEF AreEnds, IsEnd
    <2>3. g[l + 1]
        <3>1. l + 1 \in 1 .. l + 4 /\ l + 1 > l
            OBVIOUS
        <3> QED BY <1>2, <3>1, Zenon
    <2> QED BY <2>1, <2>2, <2>3
<1>4. ASSUME NEW k \in Nat, P(k)
      PROVE  P(k + 1)
    <2> SUFFICES ASSUME NEW i \in 0 .. l, i >= l - (k + 1)
                 PROVE  g[i + 1] <=> i \in G
        OBVIOUS
    <2>1. CASE i >= l - k
        BY <1>4, <2>1
    <2>2. CASE ~(i >= l - k)
        <3>1. \A e \in 0 .. l : e > i => e >= l - k
            OBVIOUS
        <3>2. \A e \in 0 .. Len(s) : e > i => (g[e + 1] <=> e \in G)
            BY <1>1, <1>4, <3>1
        <3>3. i \in Nat /\ i < Len(s) /\ i + 1 \in 1 .. l + 4 /\ ~(i + 1 > l)
            BY <1>1, <2>2
        <3>4. Goes(s, i + 1, g) <=> i \in G
            BY <3>2, <3>3, GoesIs
        <3>5. g[i + 1] = (i + 1 > l \/ Goes(s, i + 1, g))
            BY <1>2, <3>3
        <3> QED BY <3>3, <3>4, <3>5, Zenon
    <2> QED BY <2>1, <2>2
<1> HIDE DEF P
<1>5. \A k \in Nat : P(k)
    <2> DEFINE S == {k \in Nat : P(k)}
    <2>1. 0 \in S
        BY <1>3
    <2>2. ASSUME NEW k \in Nat, k \in S PROVE k + 1 \in S
        BY <2>2, <1>4
    <2> HIDE DEF S
    <2>3. Nat \subseteq S
        BY <2>1, <2>2, NatSetInduction
    <2> QED BY <2>3 DEF S
<1>6. P(l)
    BY <1>5
<1>7. 0 \in 0 .. l /\ 0 >= l - l /\ 0 + 1 = 1
    OBVIOUS
<1> QED BY <1>6, <1>7 DEF P

\* skm.cpp: what decrypt() takes for UTF-8 is exactly what is made of characters
\* of RFC 3629, overlong forms and numbers beyond 10FFFF, however long it is.
THEOREM ValidIsLaxText ==
    ASSUME NEW s \in Seq(Byte)
    PROVE  utf8_check_is_valid(s) <=> IsLaxText(s)
<1>1. PICK G : AreEnds(s, G)
    BY EndsExist
<1>2. IsParse(s, CHOOSE f : IsParse(s, f))
    BY ParseExists, Zenon
<1>3. IsCheck(s, CHOOSE g : IsCheck(s, g))
    BY CheckExists, Zenon
<1>4. IsLaxText(s) <=> 0 \in G
    BY <1>1, <1>2, ParseIs, IsLaxTextIs, Zenon
<1>5. utf8_check_is_valid(s) <=> 0 \in G
    BY <1>1, <1>3, CheckIs, IsValidIs, Zenon
<1> QED BY <1>4, <1>5

-----------------------------------------------------------------------------
(* What the blocks that were decrypted are taken for.                      *)

NoZeros == \A i \in 1 .. Len(text) : text[i] # {}

\* What the text begins with, up to n bytes.
Opening(n) == SubSeq(text, 1, IF n < Len(text) THEN n ELSE Len(text))

\* o is the first n bytes of the text.
IsOpening(o, n) ==
    /\ o \in Seq(Byte) /\ Len(o) = n
    /\ \A i \in 1 .. n : o[i] = text[i]

LEMMA OpeningIs ==
    ASSUME text \in Seq(Byte), NEW n \in Nat
    PROVE  IsOpening(Opening(n), IF n < Len(text) THEN n ELSE Len(text))
<1>1. PICK e \in Nat : e = (IF n < Len(text) THEN n ELSE Len(text)) /\ e <= Len(text)
    OBVIOUS
<1>2. \A i \in 1 .. e : text[i] \in Byte
    <2>1. \A i \in 1 .. e : i \in 1 .. Len(text)
        BY <1>1
    <2> QED BY <2>1, ElementOfSeq
<1> DEFINE o == SubSeq(text, 1, e)
<1>3. /\ o \in Seq(Byte) /\ Len(o) = IF 1 <= e THEN e - 1 + 1 ELSE 0
      /\ \A i \in 1 .. e - 1 + 1 : o[i] = text[1 + i - 1]
    BY <1>2, SubSeqProperties
<1>4. o = Opening(n)
    BY <1>1 DEF Opening
<1> HIDE DEF o
<1>5. Len(o) = e /\ \A i \in 1 .. e : o[i] = text[i]
    BY <1>3
<1> QED BY <1>1, <1>3, <1>4, <1>5 DEF IsOpening

LEMMA SameOpening ==
    ASSUME NEW o, NEW q, NEW n \in Nat, IsOpening(o, n), IsOpening(q, n)
    PROVE  o = q
<1>1. /\ o \in Seq(Byte) /\ q \in Seq(Byte) /\ Len(o) = Len(q)
      /\ \A i \in 1 .. Len(o) : o[i] = q[i]
    BY DEF IsOpening
<1> QED BY <1>1, SeqEqual

\* Where the first zero of a block is, there the C string ends.
LEMMA CStringEnds ==
    ASSUME NEW S, NEW x \in [1 .. 16 -> S], NEW n \in 1 .. 16, x[n] = {},
           \A j \in 1 .. n - 1 : x[j] # {}
    PROVE  CString(x) = SubSeq(x, 1, n - 1)
<1>1. Len(x) = 16
    BY FunctionIsSeq
<1> DEFINE First(i) == x[i] = {} /\ \A j \in 1 .. i - 1 : x[j] # {}
<1>2. First(n)
    OBVIOUS
<1>3. ASSUME NEW i \in 1 .. 16, First(i) PROVE i = n
    <2>1. CASE i < n
        <3>1. i \in 1 .. n - 1
            BY <2>1
        <3> QED BY <1>3, <3>1
    <2>2. CASE n < i
        <3>1. n \in 1 .. i - 1
            BY <2>2
        <3> QED BY <1>3, <3>1
    <2> QED BY <2>1, <2>2
<1> HIDE DEF First
<1>4. (CHOOSE i \in 1 .. 16 : First(i)) = n
    BY <1>2, <1>3
<1>5. \E i \in 1 .. Len(x) : x[i] = {}
    BY <1>1
<1>6. CString(x) = SubSeq(x, 1, (CHOOSE i \in 1 .. 16 : First(i)) - 1)
    BY <1>1, <1>5, Zenon DEF CString, First
<1> QED BY <1>4, <1>6, Zenon

LEMMA CStringIsWhole ==
    ASSUME NEW S, NEW x \in [1 .. 16 -> S], \A j \in 1 .. 16 : x[j] # {}
    PROVE  CString(x) = x
<1>1. Len(x) = 16
    BY FunctionIsSeq
<1> QED BY <1>1 DEF CString

LEMMA CStringIsSeq ==
    ASSUME NEW S, NEW x \in [1 .. 16 -> S]
    PROVE  CString(x) \in Seq(S)
<1>1. CASE \A j \in 1 .. 16 : x[j] # {}
    <2>1. CString(x) = x
        BY <1>1, CStringIsWhole
    <2>2. x \in Seq(S)
        BY FunctionIsSeq, Zenon
    <2> QED BY <2>1, <2>2
<1>2. CASE ~\A j \in 1 .. 16 : x[j] # {}
    <2> DEFINE Z == {j \in 1 .. 16 : x[j] = {}}
    <2>1. Z \subseteq Nat /\ Z # {}
        BY <1>2
    <2> HIDE DEF Z
    <2>2. PICK n \in Z : \A j \in Z : n <= j
        BY <2>1, LeastNumber, Zenon
    <2>3. n \in 1 .. 16 /\ x[n] = {}
        BY <2>2 DEF Z
    <2>4. \A j \in 1 .. n - 1 : x[j] # {}
        <3> SUFFICES ASSUME NEW j \in 1 .. n - 1, x[j] = {} PROVE FALSE
            OBVIOUS
        <3>1. j \in Z /\ j < n
            BY <2>3 DEF Z
        <3> QED BY <2>2, <2>3, <3>1
    <2>5. CString(x) = SubSeq(x, 1, n - 1)
        BY <2>3, <2>4, CStringEnds, Zenon
    <2>6. \A j \in 1 .. n - 1 : x[j] \in S
        BY <2>3
    <2>7. n - 1 \in Int
        BY <2>3
    <2>8. SubSeq(x, 1, n - 1) \in Seq(S)
        BY <2>6, <2>7, SubSeqProperties
    <2> QED BY <2>5, <2>8
<1> QED BY <1>1, <1>2

\* c is k bytes of the text, from byte a + 1 on.
IsPart(c, a, k) ==
    /\ c \in Seq(Byte) /\ Len(c) = k
    /\ \A j \in 1 .. k : c[j] = text[a + j]

\* The C string of a block of a text without zeros is what the text has there.
LEMMA CStringOfText ==
    ASSUME text \in Seq(Byte), NoZeros, NEW a \in Nat, NEW x, x = LoadPadded(text, a, <<>>),
           NEW k \in 0 .. 16,
           \A j \in 1 .. 16 : a + j <= Len(text) <=> j <= k
    PROVE  x \in Block /\ IsPart(CString(x), a, k)
<1>0. \A j \in 1 .. k : j \in 1 .. 16 /\ j <= k /\ a + j \in 1 .. Len(text)
    <2>1. PICK l \in Nat : l = Len(text)
        OBVIOUS
    <2>2. \A j \in 1 .. k : j \in 1 .. 16 /\ j <= k
        OBVIOUS
    <2>3. \A j \in 1 .. k : a + j <= l
        BY <2>1, <2>2, Zenon
    <2> QED BY <2>1, <2>2, <2>3
<1>1. \A j \in 1 .. k : x[j] = text[a + j] /\ x[j] \in Byte /\ x[j] # {}
    <2>1. \A j \in 1 .. k : x[j] = text[a + j]
        BY <1>0, Zenon DEF LoadPadded
    <2>2. \A j \in 1 .. k : text[a + j] \in Byte
        BY <1>0, ElementOfSeq, Zenon
    <2>3. \A j \in 1 .. k : text[a + j] # {}
        BY <1>0, Zenon DEF NoZeros
    <2> QED BY <2>1, <2>2, <2>3, Zenon
<1>2. \A j \in 1 .. 16 : ~(j <= k) => x[j] = {}
    BY Zenon DEF LoadPadded
<1>3. x \in Block
    <2>1. x = [j \in 1 .. 16 |-> x[j]]
        BY DEF LoadPadded
    <2>2. {} \in Byte
        BY DEF Byte
    <2>3. \A j \in 1 .. 16 : x[j] \in Byte
        <3> SUFFICES ASSUME NEW j \in 1 .. 16 PROVE x[j] \in Byte
            BY Zenon
        <3>1. CASE j <= k
            <4>1. j \in 1 .. k
                BY <3>1
            <4> QED BY <1>1, <4>1
        <3>2. CASE ~(j <= k)
            BY <1>2, <2>2, <3>2, Zenon
        <3> QED BY <3>1, <3>2
    <2> QED BY <2>1, <2>3, Zenon DEF Block
<1>4. x \in [1 .. 16 -> Byte]
    BY <1>3 DEF Block
<1>5. CASE k = 16
    <2>1. CString(x) = x
        BY <1>1, <1>4, <1>5, CStringIsWhole, Zenon
    <2>2. x \in Seq(Byte) /\ Len(x) = 16
        BY <1>3, BlockIsSeq, Zenon
    <2> QED BY <1>1, <1>3, <1>5, <2>1, <2>2, Zenon DEF IsPart
<1>6. CASE k # 16
    <2>1. PICK n \in 1 .. 16 : n = k + 1 /\ n - 1 = k
        BY <1>6
    <2>2. x[n] = {}
        <3>1. ~(n <= k)
            BY <2>1
        <3> QED BY <1>2, <3>1, Zenon
    <2>3. \A j \in 1 .. n - 1 : x[j] # {}
        BY <1>1, <2>1, Zenon
    <2>4. CString(x) = SubSeq(x, 1, n - 1)
        BY <1>4, <2>2, <2>3, CStringEnds, Zenon
    <2>5. k \in Int /\ 1 \in Int /\ \A j \in 1 .. k : x[j] \in Byte
        BY <1>1
    <2> DEFINE c == SubSeq(x, 1, k)
    <2>6. /\ c \in Seq(Byte) /\ Len(c) = IF 1 <= k THEN k - 1 + 1 ELSE 0
          /\ \A j \in 1 .. k - 1 + 1 : c[j] = x[1 + j - 1]
        BY <2>5, SubSeqProperties
    <2>7. c = CString(x)
        BY <2>1, <2>4
    <2> HIDE DEF c
    <2>8. Len(c) = k /\ \A j \in 1 .. k : c[j] = x[j]
        BY <2>6
    <2> QED BY <1>1, <1>3, <2>6, <2>7, <2>8, Zenon DEF IsPart
<1> QED BY <1>5, <1>6

\* One more block of the text: what decryption has so far grows by it.
LEMMA OpeningGrows ==
    ASSUME text \in Seq(Byte), NoZeros, NEW a \in Nat
    PROVE  Opening(a) \o CString(LoadPadded(text, a, <<>>)) = Opening(a + 16)
<1>1. PICK l \in Nat : l = Len(text)
    OBVIOUS
<1> DEFINE n == IF a < l THEN a ELSE l
           k == IF a + 16 <= l THEN 16 ELSE IF a < l THEN l - a ELSE 0
<1>2. n \in Nat /\ k \in 0 .. 16 /\ n + k = (IF a + 16 < l THEN a + 16 ELSE l)
    OBVIOUS
<1>3. \A j \in 1 .. 16 : a + j <= l <=> j <= k
    OBVIOUS
<1>4. k # 0 => n = a
    OBVIOUS
<1> HIDE DEF n, k
<1>5. PICK x : x = LoadPadded(text, a, <<>>)
    OBVIOUS
<1>6. PICK c : /\ c = CString(x) /\ c \in Seq(Byte) /\ Len(c) = k
               /\ \A j \in 1 .. k : c[j] = text[a + j]
    <2>1. \A j \in 1 .. 16 : a + j <= Len(text) <=> j <= k
        BY <1>1, <1>3, Zenon
    <2>2. k \in 0 .. 16
        BY <1>2
    <2>3. IsPart(CString(x), a, k)
        BY <1>5, <2>1, <2>2, CStringOfText, Zenon
    <2> QED BY <2>3 DEF IsPart
<1>7. PICK o : o = Opening(a) /\ IsOpening(o, n)
    BY <1>1, OpeningIs DEF n
<1>8. PICK d : d = o \o c /\ IsJoined(d, o, c)
    BY <1>6, <1>7, JoinedBytes, Zenon DEF IsOpening
<1>9. IsOpening(d, n + k)
    <2>1. d \in Seq(Byte) /\ Len(d) = n + k /\ Len(o) = n
        BY <1>6, <1>7, <1>8 DEF IsJoined, IsOpening
    <2>2. \A i \in 1 .. n + k : d[i] = IF i <= n THEN o[i] ELSE c[i - n]
        BY <1>6, <1>7, <1>8, Zenon DEF IsJoined, IsOpening
    <2>3. ASSUME NEW i \in 1 .. n + k PROVE d[i] = text[i]
        <3>1. CASE i <= n
            <4>1. i \in 1 .. n
                BY <1>2, <3>1
            <4> QED BY <1>7, <2>2, <3>1, <4>1 DEF IsOpening
        <3>2. CASE ~(i <= n)
            <4>1. PICK j \in 1 .. k : j = i - n /\ i = n + j /\ k # 0
                BY <1>2, <3>2
            <4>2. c[j] = text[a + j] /\ a + j = i
                BY <1>4, <1>6, <4>1
            <4> QED BY <2>2, <3>2, <4>1, <4>2
        <3> QED BY <3>1, <3>2
    <2> QED BY <2>1, <2>3 DEF IsOpening
<1>10. IsOpening(Opening(a + 16), n + k)
    <2>1. a + 16 \in Nat
        OBVIOUS
    <2> QED BY <1>1, <1>2, <2>1, OpeningIs
<1>11. d = Opening(a + 16)
    <2>1. n + k \in Nat
        BY <1>2
    <2> QED BY <1>9, <1>10, <2>1, SameOpening
<1> QED BY <1>5, <1>6, <1>7, <1>8, <1>11, Zenon

\* Whatever is added, what was there first stays.
LEMMA OpeningStays ==
    ASSUME text \in Seq(Byte), NEW a \in Nat, NEW S, NEW x \in [1 .. 16 -> S]
    PROVE  SubSeq(Opening(a) \o CString(x), 1, Len(Opening(a))) = Opening(a)
<1>0. PICK n \in Nat : n = IF a < Len(text) THEN a ELSE Len(text)
    OBVIOUS
<1>1. PICK o : o = Opening(a) /\ IsOpening(o, n)
    BY <1>0, OpeningIs
<1> DEFINE Some == Byte \cup S
<1>2. PICK c : c = CString(x) /\ c \in Seq(Some)
    <2>1. x \in [1 .. 16 -> Some]
        OBVIOUS
    <2> HIDE DEF Some
    <2> QED BY <2>1, CStringIsSeq
<1>3. o \in Seq(Some) /\ Len(o) = n
    BY <1>1, SeqDef DEF IsOpening
<1> HIDE DEF Some
<1>4. PICK d : /\ d = o \o c /\ Len(c) \in Nat
               /\ \A i \in 1 .. n + Len(c) : d[i] = IF i <= n THEN o[i] ELSE c[i - n]
    <2> DEFINE d == o \o c
    <2>1. \A i \in 1 .. Len(o) + Len(c) : d[i] = IF i <= Len(o) THEN o[i] ELSE c[i - Len(o)]
        BY <1>2, <1>3, ConcatProperties, Zenon
    <2> HIDE DEF d
    <2>2. Len(c) \in Nat
        BY <1>2
    <2> QED BY <1>3, <2>1, <2>2, Zenon DEF d
<1>5. \A i \in 1 .. n : d[i] = text[i]
    <2>1. \A i \in 1 .. n : i \in 1 .. n + Len(c) /\ i <= n
        BY <1>4
    <2> QED BY <1>1, <1>4, <2>1, Zenon DEF IsOpening
<1>6. \A i \in 1 .. n : d[i] \in Byte
    <2>1. \A i \in 1 .. n : o[i] \in Byte
        BY <1>1, ElementOfSeq, Zenon DEF IsOpening
    <2> QED BY <1>1, <1>5, <2>1, Zenon DEF IsOpening
<1> DEFINE q == SubSeq(d, 1, n)
<1>7. /\ q \in Seq(Byte) /\ Len(q) = IF 1 <= n THEN n - 1 + 1 ELSE 0
      /\ \A i \in 1 .. n - 1 + 1 : q[i] = d[1 + i - 1]
    <2>1. 1 \in Int /\ n \in Int
        OBVIOUS
    <2> QED BY <1>6, <2>1, SubSeqProperties
<1> HIDE DEF q
<1>8. Len(q) = n /\ \A i \in 1 .. n : q[i] = d[i]
    BY <1>7
<1>9. IsOpening(q, n)
    BY <1>5, <1>7, <1>8, Zenon DEF IsOpening
<1>10. q = o
    BY <1>1, <1>9, SameOpening, Zenon
<1> QED BY <1>1, <1>2, <1>3, <1>4, <1>10, Zenon DEF q

-----------------------------------------------------------------------------
(* The invariant of the texts.                                             *)

Whole == 16 * (Len(given) \div 16)

\* What decrypt() has written before it looks at byte at + 1: the text, as far as
\* the blocks were whole.
Recovered ==
    /\ at < Len(given) + 16
    /\ round # Nothing => at < Len(given)
    /\ at <= Len(given) => out = Opening(at)
    /\ at > Len(given) => SubSeq(out, 1, Len(Opening(Whole))) = Opening(Whole)

TextInv ==
    /\ StartInv
    /\ result # Nothing => cipher # Nothing /\ doing = "none"
    /\ NoZeros /\ doing = "decrypt" => Recovered
    /\ TextSurvives

LEMMA TextInvInit == CryptInit => TextInv
<1> SUFFICES ASSUME CryptInit PROVE TextInv
    OBVIOUS
<1>1. StartInv
    BY StartInvInit
<1>2. result = Nothing /\ doing = "none"
    BY DEF CryptInit
<1> QED BY <1>1, <1>2 DEF TextInv, TextSurvives

\* Before decrypt() returns there is nothing to say of a result.
LEMMA NothingReturned ==
    ASSUME TextInv, StartInv', result = Nothing, result' = Nothing,
           NoZeros' /\ doing' = "decrypt" => Recovered'
    PROVE  TextInv'
BY DEF TextInv, TextSurvives

\* The last step of a whole block's decryption gives the text's bytes.
LEMMA BlockComesBack ==
    ASSUME StartInv, DecryptLastRound, at + 16 <= Len(given), NoZeros
    PROVE  buf' = LoadPadded(text, at, <<>>)
<1>1. doing = "decrypt" /\ round = 0 /\ buf' = aes_addRoundKey(buf, key, 0)
    BY DEF DecryptLastRound
<1>2. PICK m \in Nat, d \in Nat : Decrypts(m, d)
    BY <1>1, DecryptsNow DEF StartInv
<1>3. at = 16 * d /\ key = K((0 + 1) \div 2) /\ buf = trace[d + 1][0 + 1]
    <2>1. round # Nothing
        BY <1>1, SkmAssumption
    <2> QED BY <1>1, <1>2, <2>1 DEF Decrypts, Decrypting
<1>4. key = K(0) /\ buf = trace[d + 1][1]
    <2>1. (0 + 1) \div 2 = 0 /\ 0 + 1 = 1
        OBVIOUS
    <2> QED BY <1>3, <2>1
<1>5. d + 1 \in 1 .. Len(trace)
    <2>1. d + 1 \in 1 .. m
        BY <1>2, WholeBlock
    <2>2. Len(trace) = m
        BY <1>2 DEF Decrypts, Encrypted
    <2> QED BY <2>1, <2>2
<1>6. trace[d + 1][1] = aes_addRoundKey(LoadPadded(text, 16 * ((d + 1) - 1), <<>>), K(0), 0)
    BY <1>5 DEF StartInv, Started
<1>7. 16 * ((d + 1) - 1) = at
    BY <1>3
<1>8. buf = aes_addRoundKey(LoadPadded(text, at, <<>>), K(0), 0)
    BY <1>4, <1>6, <1>7
<1>9. LoadPadded(text, at, <<>>) \in Block
    <2>1. text \in Seq(Byte)
        BY DEF StartInv, CryptInv
    <2>2. \A j \in 1 .. 16 : at + j <= Len(text) => text[at + j] \in Byte
        <3>1. at \in Nat
            BY <1>3
        <3>2. \A j \in 1 .. 16 : at + j <= Len(text) => at + j \in 1 .. Len(text)
            BY <3>1
        <3> QED BY <2>1, <3>2, ElementOfSeq, Zenon
    <2>3. {} \in Byte
        BY DEF Byte
    <2> QED BY <2>2, <2>3 DEF LoadPadded, Block
<1> QED BY <1>1, <1>4, <1>8, <1>9, KeyAddedTwice

LEMMA TextInvBlock == ASSUME TextInv, DecryptBlock PROVE TextInv'
<1>1. /\ doing = "decrypt" /\ round = Nothing /\ at < Len(given)
      /\ UNCHANGED <<text, cipher, result, doing, given, at, out>>
    BY DEF DecryptBlock, host
<1>2. StartInv'
    BY StartInvStep DEF TextInv, CryptNext
<1>3. result = Nothing /\ result' = Nothing
    BY <1>1 DEF TextInv
<1>4. NoZeros' /\ doing' = "decrypt" => Recovered'
    BY <1>1 DEF TextInv, NoZeros, Recovered, Opening, Whole
<1> QED BY <1>2, <1>3, <1>4, NothingReturned

LEMMA TextInvRound == ASSUME TextInv, DecryptRound PROVE TextInv'
<1>1. /\ doing = "decrypt" /\ round # Nothing
      /\ UNCHANGED <<text, cipher, result, doing, given, at, out>>
    BY SkmAssumption DEF DecryptRound, host
<1>2. StartInv'
    BY StartInvStep DEF TextInv, CryptNext
<1>3. result = Nothing /\ result' = Nothing
    BY <1>1 DEF TextInv
<1>4. NoZeros' /\ doing' = "decrypt" => Recovered'
    BY <1>1 DEF TextInv, NoZeros, Recovered, Opening, Whole
<1> QED BY <1>2, <1>3, <1>4, NothingReturned

LEMMA TextInvLastRound == ASSUME TextInv, DecryptLastRound PROVE TextInv'
<1>1. /\ doing = "decrypt" /\ round = 0 /\ round # Nothing /\ round' = Nothing
      /\ at' = at + 16 /\ out' = out \o CString(buf')
      /\ buf' = aes_addRoundKey(buf, key, 0)
      /\ UNCHANGED <<text, cipher, result, doing, given>>
    BY SkmAssumption DEF DecryptLastRound, host
<1>2. StartInv'
    BY StartInvStep DEF TextInv, CryptNext
<1>3. result = Nothing /\ result' = Nothing
    BY <1>1 DEF TextInv
<1>4. ASSUME NoZeros PROVE Recovered'
    <2>1. Recovered
        BY <1>1, <1>4 DEF TextInv
    <2>2. PICK m \in Nat, d \in Nat : Decrypts(m, d)
        BY <1>1, DecryptsNow DEF TextInv, StartInv
    <2>3. PICK a \in Nat, g \in Nat : a = at /\ a = 16 * d /\ g = Len(given)
        <3>1. at = 16 * d /\ Len(given) \in Nat
            BY <2>2 DEF Decrypts, Decrypting
        <3>2. PICK e \in Nat : e = 16 * d
            OBVIOUS
        <3> QED BY <3>1, <3>2
    <2>4. a < g /\ out = Opening(a)
        BY <1>1, <2>1, <2>3 DEF Recovered
    <2>5. text \in Seq(Byte)
        BY DEF TextInv, StartInv, CryptInv
    <2>6. CASE a + 16 <= g
        <3>1. buf' = LoadPadded(text, a, <<>>)
            BY <1>4, <2>3, <2>6, BlockComesBack DEF TextInv
        <3>2. out' = Opening(a + 16)
            BY <1>1, <1>4, <2>4, <2>5, <3>1, OpeningGrows, Zenon
        <3>3. out' = Opening(at)'
            BY <1>1, <2>3, <3>2, Zenon DEF Opening
        <3>4. a + 16 < g + 16 /\ ~(a + 16 > g)
            BY <2>4, <2>6
        <3> QED BY <1>1, <2>3, <3>3, <3>4, Zenon DEF Recovered
    <2>7. CASE ~(a + 16 <= g)
        <3>1. Whole = a
            <4>1. g \div 16 = d
                BY <2>3, <2>4, <2>7
            <4> QED BY <2>3, <4>1 DEF Whole
        <3> DEFINE x == buf'
                   S == {x[i] : i \in 1 .. 16}
        <3>2. x \in [1 .. 16 -> S]
            <4>1. x = [i \in 1 .. 16 |-> x[i]]
                BY <1>1 DEF aes_addRoundKey
            <4> QED BY <4>1
        <3> HIDE DEF x, S
        <3>3. SubSeq(Opening(a) \o CString(x), 1, Len(Opening(a))) = Opening(a)
            BY <2>5, <3>2, OpeningStays, Zenon
        <3>4. out' = Opening(a) \o CString(x)
            BY <1>1, <2>4 DEF x
        <3>5. Opening(Whole)' = Opening(a)
            BY <1>1, <3>1 DEF Opening, Whole
        <3>6. SubSeq(out', 1, Len(Opening(Whole)')) = Opening(Whole)'
            BY <3>3, <3>4, <3>5
        <3>7. a + 16 < g + 16
            BY <2>4
        <3> QED BY <1>1, <2>3, <2>7, <3>6, <3>7, Zenon DEF Recovered
    <2> QED BY <2>6, <2>7
<1>5. NoZeros' => NoZeros
    BY <1>1 DEF NoZeros
<1> QED BY <1>2, <1>3, <1>4, <1>5, NothingReturned

LEMMA TextInvDecrypt == ASSUME TextInv, Decrypt PROVE TextInv'
<1>1. /\ result = Nothing /\ result' = Nothing /\ cipher # Nothing /\ doing = "none"
      /\ at' = 0 /\ out' = <<>> /\ UNCHANGED <<text, round, cipher>>
    BY DEF Decrypt, host
<1>2. StartInv'
    BY StartInvStep DEF TextInv, CryptNext
<1>3. round = Nothing
    <2>1. CryptInv
        BY DEF TextInv, StartInv
    <2> QED BY <1>1, <2>1 DEF CryptInv, Idle, Between, Inside, Encrypted
<1>4. Len(given') \in Nat
    <2>1. CryptInv' /\ doing' = "decrypt"
        BY <1>2 DEF StartInv, Decrypt
    <2>2. (\E m \in Nat : Decrypting(m))'
        BY <1>1, <2>1 DEF CryptInv, Idle, Between, Inside
    <2> QED BY <2>2 DEF Decrypting
<1>5. Opening(0) = <<>>
    <2>1. text \in Seq(Byte)
        BY DEF TextInv, StartInv, CryptInv
    <2>2. (IF 0 < Len(text) THEN 0 ELSE Len(text)) = 0
        BY <2>1, LenProperties
    <2>3. SubSeq(text, 1, 0) = <<>>
        BY SubSeqEmpty
    <2> QED BY <2>2, <2>3 DEF Opening
<1>6. Recovered'
    <2>1. Opening(at)' = <<>>
        BY <1>1, <1>5 DEF Opening
    <2>2. 0 < Len(given') + 16 /\ ~(0 > Len(given'))
        BY <1>4
    <2> QED BY <1>1, <1>3, <2>1, <2>2 DEF Recovered
<1> QED BY <1>1, <1>2, <1>6, NothingReturned

LEMMA TextInvReturns == ASSUME TextInv, DecryptReturns PROVE TextInv'
<1>1. /\ doing = "decrypt" /\ round = Nothing /\ at >= Len(given) /\ doing' = "none"
      /\ result' \in (IF utf8_check_is_valid(out) THEN NewStringUTF(out) ELSE {Null})
      /\ UNCHANGED <<text, cipher, given, at, out>>
    BY DEF DecryptReturns
<1>2. StartInv'
    BY StartInvStep DEF TextInv, CryptNext
<1>3. PICK m \in Nat, d \in Nat : Decrypts(m, d)
    BY <1>1, DecryptsNow DEF TextInv, StartInv
<1>4. cipher # Nothing
    BY <1>3 DEF Decrypts, Encrypted
<1>5. ASSUME NoZeros
      PROVE  IF Whole = Len(given)
             THEN IF IsLaxText(Opening(Whole))
                  THEN result' # Null /\ (IsPlainText(Opening(Whole)) => result' = Opening(Whole))
                  ELSE result' = Null
             ELSE \/ result' \in {Null, OtherText}
                  \/ SubSeq(result', 1, Len(Opening(Whole))) = Opening(Whole)
    <2>1. Recovered
        BY <1>1, <1>5 DEF TextInv
    <2>2. PICK a \in Nat, g \in Nat : a = at /\ a = 16 * d /\ g = Len(given) /\ a >= g /\ a < g + 16
        <3>1. at = 16 * d /\ Len(given) \in Nat
            BY <1>3 DEF Decrypts, Decrypting
        <3>2. at >= Len(given) /\ at < Len(given) + 16
            BY <1>1, <2>1 DEF Recovered
        <3> QED BY <3>1, <3>2
    <2>3. CASE Whole = Len(given)
        <3>1. a = g
            <4>1. PICK b \in Int : b = g \div 16 /\ g = 16 * b
                BY <2>2, <2>3 DEF Whole
            <4> QED BY <2>2, <4>1
        <3>2. out = Opening(Whole)
            <4>1. at <= Len(given)
                BY <2>2, <3>1
            <4> QED BY <2>1, <2>2, <2>3, <3>1, <4>1 DEF Recovered
        <3>3. Opening(Whole) \in Seq(Byte)
            <4>1. Whole \in Nat
                BY <2>2, <2>3
            <4>2. text \in Seq(Byte)
                BY DEF TextInv, StartInv, CryptInv
            <4> QED BY <4>1, <4>2, OpeningIs DEF IsOpening
        <3>4. utf8_check_is_valid(Opening(Whole)) <=> IsLaxText(Opening(Whole))
            BY <3>3, ValidIsLaxText
        <3>5. PICK left \in Seq(Byte) : left = Opening(Whole)
            BY <3>3
        <3>6. left # Null /\ OtherText # Null
            BY <3>5, SkmAssumption
        <3>7. IF IsLaxText(left) THEN result' \in NewStringUTF(left) ELSE result' = Null
            BY <1>1, <3>2, <3>4, <3>5
        <3>8. IsLaxText(left) => result' # Null /\ (IsPlainText(left) => result' = left)
            BY <3>6, <3>7 DEF NewStringUTF
        <3> QED BY <2>3, <3>5, <3>7, <3>8
    <2>4. CASE Whole # Len(given)
        <3>1. at > Len(given)
            <4>1. a # g
                <5> SUFFICES ASSUME a = g PROVE FALSE
                    OBVIOUS
                <5>1. g \div 16 = d
                    BY <2>2
                <5> QED BY <2>2, <2>4, <5>1, Zenon DEF Whole
            <4> QED BY <2>2, <4>1
        <3>2. SubSeq(out, 1, Len(Opening(Whole))) = Opening(Whole)
            BY <2>1, <3>1 DEF Recovered
        <3>3. result' \in {Null, OtherText, out}
            BY <1>1 DEF NewStringUTF
        <3> QED BY <2>4, <3>2, <3>3
    <2> QED BY <2>3, <2>4
<1>6. TextSurvives'
    <2>1. Opening(Whole)' = Opening(Whole) /\ Whole' = Whole /\ NoZeros' = NoZeros
        BY <1>1 DEF NoZeros, Whole, Opening
    <2> QED BY <1>1, <1>5, <2>1 DEF TextSurvives, NoZeros, Whole, Opening
<1> QED BY <1>1, <1>2, <1>4, <1>6 DEF TextInv

LEMMA TextInvStep == ASSUME TextInv, [CryptNext]_cryptVars PROVE TextInv'
<1>1. StartInv'
    BY StartInvStep DEF TextInv
<1>2. CASE Encrypt
    <2>1. cipher = Nothing /\ doing' = "encrypt" /\ UNCHANGED result
        BY <1>2 DEF Encrypt, host
    <2>2. result = Nothing
        BY <2>1 DEF TextInv
    <2> QED BY <1>1, <2>1, <2>2, NothingReturned
<1>3. CASE EncryptBlock \/ EncryptRound \/ EncryptLastRound \/ EncryptReturns
    <2>1. doing = "encrypt" /\ doing' # "decrypt" /\ UNCHANGED result
        BY <1>3 DEF EncryptBlock, EncryptRound, EncryptLastRound, EncryptReturns, host
    <2>2. result = Nothing
        BY <2>1 DEF TextInv
    <2> QED BY <1>1, <2>1, <2>2, NothingReturned
<1>4. CASE UNCHANGED cryptVars
    <2>1. UNCHANGED <<text, cipher, result, doing, given, at, out, round>>
        BY <1>4 DEF cryptVars, host, block
    <2> QED BY <1>1, <2>1 DEF TextInv, NoZeros, Recovered, Opening, Whole, TextSurvives
<1> QED BY <1>2, <1>3, <1>4, TextInvDecrypt, TextInvBlock, TextInvRound, TextInvLastRound, TextInvReturns
        DEF CryptNext

\* For every key, every text and whatever the memory held: a text without zeros
\* comes back as it was if its characters have at most three bytes, what is not
\* UTF-8 for the check comes back as null, and of a text whose end was lost the
\* blocks that are left whole come back, or no such text.
THEOREM TextAlwaysSurvives == CryptSpec => []TextSurvives
<1>1. TextInv => TextSurvives
    BY DEF TextInv
<1> QED BY <1>1, TextInvInit, TextInvStep, PTL DEF CryptSpec
=============================================================================
