---------------------------- MODULE Utf8Standard ----------------------------
(***************************************************************************)
(* UTF-8 as its standard (RFC 3629, section 4) has it: the reference for   *)
(* the check in Skm.  A byte is the set of its bits.                       *)
(***************************************************************************)
EXTENDS Integers, Sequences

Number(x) ==
    LET bit(i, worth) == IF i \in x THEN worth ELSE 0
    IN  bit(0, 1) + bit(1, 2) + bit(2, 4) + bit(3, 8)
            + bit(4, 16) + bit(5, 32) + bit(6, 64) + bit(7, 128)

\* Byte i of c is one of the numbers from lo to hi.
In(c, i, lo, hi) == Number(c[i]) \in lo .. hi

Follows(c, i) == In(c, i, 128, 191)

IsCharacter(c) ==
    \/ Len(c) = 1 /\ In(c, 1, 0, 127)
    \/ Len(c) = 2 /\ In(c, 1, 194, 223) /\ Follows(c, 2)
    \/ /\ Len(c) = 3 /\ Follows(c, 3)
       /\ \/ In(c, 1, 224, 224) /\ In(c, 2, 160, 191)
          \/ (In(c, 1, 225, 236) \/ In(c, 1, 238, 239)) /\ Follows(c, 2)
          \/ In(c, 1, 237, 237) /\ In(c, 2, 128, 159)
    \/ /\ Len(c) = 4 /\ Follows(c, 3) /\ Follows(c, 4)
       /\ \/ In(c, 1, 240, 240) /\ In(c, 2, 144, 191)
          \/ In(c, 1, 241, 243) /\ Follows(c, 2)
          \/ In(c, 1, 244, 244) /\ In(c, 2, 128, 143)

\* s is a sequence of characters, each of which is one of IsChar.
MadeOf(s, IsChar(_)) ==
    LET from[i \in 0 .. Len(s)] ==
            \/ i = Len(s)
            \/ \E n \in 1 .. 4 : /\ i + n <= Len(s)
                                 /\ IsChar(SubSeq(s, i + 1, i + n))
                                 /\ from[i + n]
    IN  from[0]

WellFormed(s) == MadeOf(s, IsCharacter)
=============================================================================
