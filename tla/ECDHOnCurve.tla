----------------------------- MODULE ECDHOnCurve -----------------------------
(***************************************************************************)
(* What the key exchange means: the ladder works on the multiples of a     *)
(* point of a Montgomery curve or of its twist, and keys are coordinates   *)
(* of such multiples.                                                      *)
(***************************************************************************)
EXTENDS ECDHCurve25519, MontgomeryCurve

\* A24 is (A + 2) / 4.
ASSUME SameField == Prime = p /\ p = 2^Bits - C /\ A24 = Quarter

\* The multiples of the point with coordinate u, up to 2^(Bits + 1) times it.
XOf == [u \in 1 .. Prime - 1 |-> Multiples(u, 2 * (Prime + C))]

\* The coordinate of k times the point with coordinate u; a point of order two
\* and the point at infinity give 0.
XOfMultiple(u, k) == IF u = 0 \/ XOf[u][k].inf THEN 0 ELSE XOf[u][k].x

-----------------------------------------------------------------------------
(* What the proofs take from number theory and from the theory of the      *)
(* curve, since they prove neither: Fermat's little theorem for p; that    *)
(* the multiples of a point are points; that Montgomery's formulas, given  *)
(* two neighbouring multiples, give the two above; and that the multiples  *)
(* of multiples commute.                                                   *)

ASSUME FermatAssumption == \A x \in 1 .. Prime - 1 : ToThe(x, Prime - 1) = 1

Point == [inf : BOOLEAN, x : Residues, y : Residues]

ASSUME PointsAssumption ==
    \A u \in 1 .. Prime - 1, k \in 0 .. 2 * (Prime + C) : XOf[u][k] \in Point

ASSUME FormulasAssumption ==
    \A u \in 1 .. Prime - 1, k \in 0 .. Prime + C - 1 :
        LET P == XOf[u]
            c == Coordinates(P[k])
            e == Coordinates(P[k + 1])
        IN  /\ StandsFor(Doubled(c), P[2 * k])
            /\ StandsFor(Added(c, e, u), P[2 * k + 1])

ASSUME MultiplesAssumption ==
    \A j, k \in 0 .. Prime + C - 1 :
        XOfMultiple(XOfMultiple(BasePoint, j), k) = XOfMultiple(XOfMultiple(BasePoint, k), j)
-----------------------------------------------------------------------------
(* Properties.                                                             *)

\* At every bit of every scalar multiplication the two pairs of coordinates,
\* computed from field elements that are hardly ever reduced, stand for the
\* multiples of the point (on the curve or on its twist) that they should.
LadderIsRight ==
    call # None /\ Mod(work.x0) # 0 =>
        LET P == XOf[Mod(work.x0)]
        IN  /\ StandsFor([x |-> Mod(work.xp), z |-> Mod(work.zp)], P[multiple.p])
            /\ StandsFor([x |-> Mod(work.xq), z |-> Mod(work.zq)], P[multiple.q])

\* The public key a makes the shared secret from.
PeersKey(a) == IF a = Bob THEN public[Alice]
               ELSE IF peer = Bob THEN public[Bob] ELSE peer

\* A key holds the coordinate of the multiple the clamped secret names, of the
\* base point or of the peer's, reduced, although nothing swaps xp and xq back
\* after the last bit of the ladder.
KeysAreMultiples ==
    \A a \in Party :
        LET k == Value(Clamp(secret[a]))
        IN  /\ public[a] # None => public[a] = Limbs(XOfMultiple(BasePoint, k), N)
            /\ shared[a] # None =>
                   shared[a] = Limbs(XOfMultiple(Mod(fe25519_unpack(PeersKey(a))), k), N)
=============================================================================
