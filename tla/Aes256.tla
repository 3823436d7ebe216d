------------------------------- MODULE Aes256 -------------------------------
(***************************************************************************)
(* The byte-oriented AES-256 of jni/aes256.cpp, without its tables.  A     *)
(* byte is the set of the bits it has, so that exclusive or is symmetric   *)
(* difference; byte i of a buffer of the code is buf[i + 1] here.          *)
(***************************************************************************)
EXTENDS Integers, Sequences, TLC

Byte  == SUBSET (0 .. 7)
Block == [1 .. 16 -> Byte]
Key   == [1 .. 32 -> Byte]

X1b == {0, 1, 3, 4}
X63 == {0, 1, 5, 6}
X8d == {0, 2, 3, 7}

a ++ b == (a \ b) \cup (b \ a)

ShiftLeft(x)     == {i + 1 : i \in x \ {7}}
ShiftRight(x)    == {i - 1 : i \in x \ {0}}
RotateLeft(x, n) == {(i + n) % 8 : i \in x}

\* F(x) of the code is the same.
rj_xtime(x) == ShiftLeft(x) ++ (IF 7 \in x THEN X1b ELSE {})
FD(x)       == ShiftRight(x) ++ (IF 0 \in x THEN X8d ELSE {})
-----------------------------------------------------------------------------
(* The substitution box.                                                   *)

\* The powers of 3, which gf_alog and gf_log walk through; in 16 rows, because
\* the model checker cannot recur 256 deep.
Powers ==
    LET Triple(s) == LET x == s[Len(s)] IN rj_xtime(x) ++ x
        more[n \in 0 .. 15, s \in Seq(Byte)] ==
            IF n = 0 THEN s ELSE more[n - 1, Append(s, Triple(s))]
        rows[n \in 1 .. 16] ==
            IF n = 1 THEN more[15, << {0} >>]
            ELSE LET s == rows[n - 1] IN more[15, Append(s, Triple(s))]
    IN  rows[16]

gf_alog(n) == Powers[n + 1]

gf_log(x) == CHOOSE i \in 0 .. 255 : gf_alog(i) = x /\ \A j \in 0 .. i - 1 : gf_alog(j) # x

gf_mulinv(x) == IF x = {} THEN {} ELSE gf_alog(255 - gf_log(x))

\* The function f, computed once (what it is added to is empty).
Table(f) == <<>> @@ f

rj_sbox == Table(
    [x \in Byte |->
        LET y == gf_mulinv(x)
        IN  X63 ++ y ++ RotateLeft(y, 1) ++ RotateLeft(y, 2)
                ++ RotateLeft(y, 3) ++ RotateLeft(y, 4)])

rj_sbox_inv == Table(
    [x \in Byte |->
        LET y == x ++ X63
        IN  gf_mulinv(RotateLeft(y, 1) ++ RotateLeft(y, 3) ++ RotateLeft(y, 6))])

\* What the proofs, which cannot go through 256 values, need of the two boxes.
ASSUME BoxesAssumption ==
    \A x \in Byte : rj_sbox[x] \in Byte /\ rj_sbox_inv[rj_sbox[x]] = x
-----------------------------------------------------------------------------
(* The steps of a round.                                                   *)

aes_subBytes(buf)     == [i \in 1 .. 16 |-> rj_sbox[buf[i]]]
aes_subBytes_inv(buf) == [i \in 1 .. 16 |-> rj_sbox_inv[buf[i]]]

\* The half of the key that starts at byte `from` of the code.
aes_addRoundKey(buf, key, from) == [i \in 1 .. 16 |-> buf[i] ++ key[from + i]]

\* Where each byte comes from, as the assignments of the code move them.
RowMoves    == << 0, 5, 10, 15, 4, 9, 14, 3, 8, 13, 2, 7, 12, 1, 6, 11 >>
RowMovesInv == << 0, 13, 10, 7, 4, 1, 14, 11, 8, 5, 2, 15, 12, 9, 6, 3 >>

aes_shiftRows(buf)     == [i \in 1 .. 16 |-> buf[RowMoves[i] + 1]]
aes_shiftRows_inv(buf) == [i \in 1 .. 16 |-> buf[RowMovesInv[i] + 1]]

\* The four bytes of the column that byte i is in, from i on, going round.
Around(buf, i) == [n \in 1 .. 4 |-> buf[((i - 1) \div 4) * 4 + ((i + n - 2) % 4) + 1]]

aes_mixColumns(buf) ==
    [i \in 1 .. 16 |->
        LET c == Around(buf, i)
            e == c[1] ++ c[2] ++ c[3] ++ c[4]
        IN  c[1] ++ e ++ rj_xtime(c[1] ++ c[2])]

aes_mixColumns_inv(buf) ==
    [i \in 1 .. 16 |->
        LET c == Around(buf, i)
            e == c[1] ++ c[2] ++ c[3] ++ c[4]
            z == rj_xtime(e)
            x == e ++ rj_xtime(rj_xtime(z ++ c[1] ++ c[3]))
        IN  c[1] ++ x ++ rj_xtime(c[1] ++ c[2])]
-----------------------------------------------------------------------------
(* The key, two rounds at a time, computed on the fly in both directions.  *)

\* What byte i takes in, when `below` is the key that the bytes four down are
\* taken from: the first four from the last ones, turned round, and rc.
TakenIn(below, i, rc) ==
    IF i <= 4 THEN rj_sbox[below[29 + (i % 4)]] ++ (IF i = 1 THEN rc ELSE {})
    ELSE IF i \in 17 .. 20 THEN rj_sbox[below[i - 4]]
    ELSE below[i - 4]

\* Faulty variant: the upper half starts without the substitution.
expandEncKeyPlain(k, rc) ==
    LET new[i \in 1 .. 32] ==
            k[i] ++ (IF i <= 4 THEN TakenIn(k, i, rc) ELSE new[i - 4])
    IN  SubSeq(new, 1, 32)

\* From the bottom up: each byte takes in one that is new.
aes_expandEncKey(k, rc) ==
    LET new[i \in 1 .. 32] ==
            k[i] ++ (IF i <= 4 THEN TakenIn(k, i, rc) ELSE TakenIn(new, i, rc))
    IN  SubSeq(new, 1, 32)

\* Faulty variant: the first bytes are undone with the last ones as they were.
expandDecKeyStale(k, rc) == [i \in 1 .. 32 |-> k[i] ++ TakenIn(k, i, rc)]

\* From the top down: each byte takes in one that is old, the first ones those
\* at the end that were undone before; rc was stepped back.
aes_expandDecKey(k, rc) ==
    LET undone == [i \in 1 .. 32 |-> IF i <= 4 THEN k[i] ELSE k[i] ++ TakenIn(k, i, rc)]
    IN  [i \in 1 .. 32 |-> IF i <= 4 THEN k[i] ++ TakenIn(undone, i, rc) ELSE undone[i]]

\* What aes256_init makes of a key: the one encryption starts from and, seven
\* expansions on, the one decryption does.
aes256_init(k) ==
    LET run[n \in 0 .. 7] ==
            IF n = 0 THEN [key |-> k, rcon |-> {0}]
            ELSE LET r == run[n - 1]
                 IN  [key |-> aes_expandEncKey(r.key, r.rcon), rcon |-> rj_xtime(r.rcon)]
    IN  [enckey |-> k, deckey |-> run[7].key]
=============================================================================
