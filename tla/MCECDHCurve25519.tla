--------------------------- MODULE MCECDHCurve25519 ---------------------------
(***************************************************************************)
(* The key exchange over a field of 127 elements, whose limbs have two     *)
(* bits, and on a curve whose group has 4 * 31 elements; and the addition  *)
(* chains, whose exponents are those of the real field.                    *)
(***************************************************************************)
EXTENDS ECDHOnCurve, InversionChain

\* The scalars differ in their free bits; the strangers are reduced or not.
SomeRandoms      == {Limbs(n, N) : n \in {0, 27, 85, 170, 228, 255}}
FreeLeftovers    == {Limbs(n, N) : n \in {0, 255}}
SomeStrangers    == {Limbs(n, N) : n \in (0 .. 9) \cup (126 .. 128) \cup {248, 254, 255}}

\* Both addition chains compute what the comments of their lines announce, the
\* last ones 2^255 - 21 and 2^252 - 3, whichever temporary holds the value.
ASSUME ChainsAsCommented == AsCommented(Invert) /\ AsCommented(Pow2523)

\* The multiples are those that adding the point again and again gives.
ASSUME MultiplesByAdding ==
    \A u \in 1 .. Prime - 1, k \in 1 .. 2 * (Prime + C) :
        XOf[u][k] = Plus(CurveOf(u), XOf[u][k - 1], PointOf(u))
=============================================================================
