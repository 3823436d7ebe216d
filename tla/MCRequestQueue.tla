--------------------------- MODULE MCRequestQueue ---------------------------
(* Instances of RequestQueue for TLC.                                      *)
EXTENDS RequestQueueService, TLC

CONSTANTS r1, r2, r3, k1, k2, tagA, tagB

OneKey    == [r \in Requests |-> k1]
TwoKeys   == [r \in Requests |-> IF r = r3 THEN k2 ELSE k1]
OneTag    == [r \in Requests |-> tagA]
TwoTags   == [r \in Requests |-> IF r = r3 THEN tagB ELSE tagA]
Normal    == [r \in Requests |-> 1]
ThirdLow  == [r \in Requests |-> IF r = r3 THEN 0 ELSE 1]

\* Requests that share key, tag and priority are interchangeable, and so are
\* the network threads.
Symmetry == Permutations(Requests) \cup Permutations(NetThreads)
Symmetry12 == Permutations({r1, r2})
=============================================================================
