------------------------------- MODULE MCSkm -------------------------------
(***************************************************************************)
(* Encryption and decryption of short texts, against the standard of the   *)
(* cipher and that of UTF-8.                                               *)
(***************************************************************************)
EXTENDS Skm, FiniteSets

\* The byte with the number n.
B(n) == {i \in 0 .. 7 : (n \div 2^i) % 2 = 1}

\* The key, and with it the block and the result, of the standard's appendix C.3.
SampleKey   == [i \in 1 .. 32 |-> B(i - 1)]
SampleBlock == [i \in 1 .. 16 |-> B(17 * (i - 1))]
SampleEnd   == [i \in 1 .. 16 |-> B(<<142, 162, 183, 202, 81, 103, 69, 191,
                                      234, 252, 73, 144, 75, 73, 96, 137>>[i])]

ASSUME SampleIsRight ==
    LET state[r \in 0 .. 14] ==
            IF r = 0 THEN FIPS197!AddRoundKey(SampleBlock, RoundKeys[0])
            ELSE SubSeq(FIPS197!Round(state[r - 1], r, RoundKeys[r]), 1, 16)
    IN  state[14] = SampleEnd

\* Texts that end in, before or after the end of a block, in characters of one
\* to four bytes, in bytes that are no character, or have a zero inside.
Ends  == { <<>>, <<B(195), B(169)>>, <<B(226), B(130), B(172)>>,
           <<B(240), B(159), B(152), B(128)>>, <<B(237), B(160), B(128)>>,
           <<B(195)>>, <<B(128), B(65)>>, <<{}, B(65), B(66)>> }
SomeTexts == {[i \in 1 .. n |-> B(64 + i)] \o e : n \in {0, 13, 15, 16, 30}, e \in Ends}
Rubbish   == {[i \in 1 .. 16 |-> {}], [i \in 1 .. 16 |-> B(170)]}
SomeCuts  == {0, 1, 16}
-----------------------------------------------------------------------------
\* The first and last bytes of every kind.
EdgeBytes == {B(n) : n \in {127, 128, 159, 160, 191, 192, 224, 237, 239, 240, 247, 248}}
Strings   == UNION {[1 .. n -> EdgeBytes] : n \in 1 .. 4}

\* A text is rejected only if it is ill-formed, what is accepted is made of
\* characters that are complete and none of which is a surrogate, and what is
\* plain is made of well-formed characters of at most three bytes.
ShortCharacter(c) == Len(c) <= 3 /\ UTF8!IsCharacter(c)

ASSUME Utf8CheckIsRight ==
    \A s \in Strings : /\ UTF8!WellFormed(s) => utf8_check_is_valid(s)
                       /\ utf8_check_is_valid(s) <=> IsLaxText(s)
                       /\ IsPlainText(s) <=> UTF8!MadeOf(s, ShortCharacter)
=============================================================================
