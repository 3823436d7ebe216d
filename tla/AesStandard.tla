---------------------------- MODULE AesStandard ----------------------------
(***************************************************************************)
(* AES-256 as its standard (FIPS 197) defines it: the reference for        *)
(* Aes256, with which it shares no definition.  A byte is the set of its   *)
(* bits.                                                                   *)
(***************************************************************************)
EXTENDS Integers, Sequences, FiniteSets, TLC

Xor(a, b) == (a \ b) \cup (b \ a)

\* x times X, modulo X^8 + X^4 + X^3 + X + 1.
TimesX(x) == {i \in 0 .. 7 : (i - 1 \in x) # (7 \in x /\ i \in {0, 1, 3, 4})}

Times(x, y) ==
    LET part[n \in 0 .. 8] ==
            IF n = 0 THEN [shifted |-> x, sum |-> {}]
            ELSE LET r == part[n - 1]
                 IN  [shifted |-> TimesX(r.shifted),
                      sum |-> IF n - 1 \in y THEN Xor(r.sum, r.shifted) ELSE r.sum]
    IN  part[8].sum

\* The multiplicative inverse, if there is one, then the affine map bit by bit.
SubByte == <<>> @@
    [x \in SUBSET (0 .. 7) |->
        LET y == IF x = {} THEN {}
                 ELSE CHOOSE y \in SUBSET (0 .. 7) : Times(x, y) = {0}
        IN  {i \in 0 .. 7 :
                (Cardinality({d \in {0, 4, 5, 6, 7} : (i + d) % 8 \in y}) % 2 = 1)
                # (i \in {0, 1, 5, 6})}]

\* The expanded key: 60 words of four bytes.
PlusWord(a, b) == << Xor(a[1], b[1]), Xor(a[2], b[2]), Xor(a[3], b[3]), Xor(a[4], b[4]) >>
SubWord(a)     == << SubByte[a[1]], SubByte[a[2]], SubByte[a[3]], SubByte[a[4]] >>
RotWord(a)     == << a[2], a[3], a[4], a[1] >>
Rcon(n)        == << {n - 1}, {}, {}, {} >>     \* X^(n-1), n <= 8

\* Word i, for i > 8, of those that begin with `old`.
NextWord(old, i) ==
    LET last == old[i - 1]
    IN  PlusWord(old[i - 8],
                 CASE i % 8 = 1 -> PlusWord(SubWord(RotWord(last)), Rcon(i \div 8))
                   [] i % 8 = 5 -> SubWord(last)
                   [] OTHER     -> last)

Words(key) ==
    LET w[i \in 1 .. 60] ==     \* the first i words
            IF i <= 8 THEN [j \in 1 .. i |-> SubSeq(key, 4 * j - 3, 4 * j)]
            ELSE LET old == w[i - 1] IN Append(old, NextWord(old, i))
    IN  w[60]

RoundKeys(key) ==
    LET w == Words(key)
    IN  [r \in 0 .. 14 |-> w[4 * r + 1] \o w[4 * r + 2] \o w[4 * r + 3] \o w[4 * r + 4]]

AddRoundKey(state, key) == [n \in 1 .. 16 |-> Xor(state[n], key[n])]

\* Round r of 14: byte (row, column) of the state is number 4 * column + row.
Round(state, r, key) ==
    LET At(s, row, col) == s[4 * (col % 4) + row + 1]
        Shifted == [n \in 1 .. 16 |->
                       LET row == (n - 1) % 4  col == (n - 1) \div 4
                       IN  SubByte[At(state, row, col + row)]]
        Mixed == [n \in 1 .. 16 |->
                     LET row == (n - 1) % 4  col == (n - 1) \div 4
                         B(d) == At(Shifted, (row + d) % 4, col)
                     IN  Xor(Xor(TimesX(B(0)), Xor(TimesX(B(1)), B(1))), Xor(B(2), B(3)))]
    IN  AddRoundKey(IF r = 14 THEN Shifted ELSE Mixed, key)
=============================================================================
