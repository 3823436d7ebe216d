--------------------------- MODULE MontgomeryCurve ---------------------------
(***************************************************************************)
(* The reference the ladder is checked against: the group of a Montgomery  *)
(* curve  b * y^2 = x^3 + A * x^2 + x  over the integers modulo a small    *)
(* prime, in affine coordinates.  Every x belongs to a point, with b = 1   *)
(* (the curve) or with b a non-square (its twist).                         *)
(***************************************************************************)
EXTENDS Integers

CONSTANTS
    Prime,
    CoefA       \* A: 486662 in the code, where it appears as (A + 2) / 4

ASSUME CurveAssumption ==
    /\ Prime \in Nat /\ Prime > 3 /\ \A d \in 2 .. Prime - 1 : Prime % d # 0
    /\ CoefA \in 0 .. Prime - 1 /\ CoefA # 2 /\ CoefA # Prime - 2

Residues == 0 .. Prime - 1

Reciprocal == [x \in Residues \ {0} |-> CHOOSE y \in Residues : (x * y) % Prime = 1]
Root    == [s \in {(y * y) % Prime : y \in Residues} |-> CHOOSE y \in Residues : (y * y) % Prime = s]
Twist   == CHOOSE b \in Residues : b \notin DOMAIN Root

Quarter == (((CoefA + 2) % Prime) * Reciprocal[4]) % Prime

Infinity == [inf |-> TRUE, x |-> 0, y |-> 0]

\* A point with coordinate x, and the curve it is on.
RightSide(x) == (x * x * x + CoefA * ((x * x) % Prime) + x) % Prime
CurveOf(x) == IF RightSide(x) \in DOMAIN Root THEN 1 ELSE Twist
PointOf(x) == [inf |-> FALSE, x |-> x,
               y |-> Root[(RightSide(x) * Reciprocal[CurveOf(x)]) % Prime]]

Plus(b, P, Q) ==
    IF P.inf THEN Q
    ELSE IF Q.inf THEN P
    ELSE IF P.x = Q.x /\ (P.y + Q.y) % Prime = 0 THEN Infinity
    ELSE LET slope == IF P.x = Q.x
                      THEN ((3 * P.x * P.x + 2 * CoefA * P.x + 1)
                            * Reciprocal[(2 * b * P.y) % Prime]) % Prime
                      ELSE ((Q.y - P.y) * Reciprocal[(Q.x - P.x) % Prime]) % Prime
             x == (b * ((slope * slope) % Prime) - CoefA - P.x - Q.x) % Prime
         IN  [inf |-> FALSE, x |-> x, y |-> (slope * (P.x - x) - P.y) % Prime]

\* The multiples 0, P, 2P, ... max * P of the point P with coordinate x, by
\* doubling and adding.
Multiples(x, max) ==
    LET b == CurveOf(x)
        P == PointOf(x)
        m[k \in 0 .. max] ==
            IF k = 0 THEN Infinity
            ELSE IF k % 2 = 1 THEN Plus(b, m[k - 1], P)
            ELSE LET half == m[k \div 2] IN Plus(b, half, half)
    IN  [k \in 0 .. max |-> m[k]]
-----------------------------------------------------------------------------
(* Projective coordinates (x : z), which need no division.                 *)

\* c stands for the point P: all such c are multiples of Coordinates(P).
StandsFor(c, P) ==
    IF P.inf THEN c.x # 0 /\ c.z = 0
    ELSE c.z # 0 /\ c.x = (P.x * c.z) % Prime

Coordinates(P) == IF P.inf THEN [x |-> 1, z |-> 0] ELSE [x |-> P.x, z |-> 1]

\* Montgomery's formulas, for 2P, and for P + Q from P and Q whose difference
\* has the coordinate u.
Doubled(c) ==
    LET s == ((c.x + c.z) * (c.x + c.z)) % Prime
        d == ((c.x - c.z) * (c.x - c.z)) % Prime
        t == s - d
    IN  [x |-> (s * d) % Prime, z |-> ((Quarter * t + d) * t) % Prime]

Added(c, e, u) ==
    LET m == ((e.x + e.z) * (c.x - c.z)) % Prime
        n == ((e.x - e.z) * (c.x + c.z)) % Prime
    IN  [x |-> ((n + m) * (n + m)) % Prime,
         z |-> ((((n - m) * (n - m)) % Prime) * u) % Prime]

\* The powers of x.
ToThe(x, max) ==
    LET f[n \in 0 .. max] == IF n = 0 THEN 1 ELSE (f[n - 1] * x) % Prime
    IN  f[max]
=============================================================================
