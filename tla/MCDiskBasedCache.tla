-------------------------- MODULE MCDiskBasedCache --------------------------
(* Instances of DiskBasedCache for TLC.                                    *)
EXTENDS DiskBasedCache

CONSTANTS k1, k2, k3, f1, f2, f3, small, large

OneFileEach == [k \in Keys |-> CASE k = k1 -> f1 [] k = k2 -> f2 [] k = k3 -> f3]
Lengths == [r \in Responses |-> IF r = small THEN 2 ELSE 5]
=============================================================================
