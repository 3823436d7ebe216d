--------------------------- MODULE ECDHCurve25519 ---------------------------
(***************************************************************************)
(* The key exchange (jni/ecdh_curve25519.c, its JNI functions and test.c): *)
(* Alice makes a secret key from random bytes and a public key from it;    *)
(* so does Bob, or she talks to a peer that has some other implementation  *)
(* and sends any bytes; then each computes the shared secret.  One bit of  *)
(* a scalar multiplication is one step.                                    *)
(***************************************************************************)
EXTENDS Curve25519

CONSTANTS
    Party, Alice, Bob,
    Randoms,        \* the random bytes an owner may get
    Leftovers,      \* what an array may hold that is not initialised
    Strangers,      \* public keys of peers that do not use this library
    Copied,         \* sizeof(secret_key), that of a pointer: 8 or 4 of 32
    None

ASSUME ExchangeAssumption ==
    /\ Party = {Alice, Bob} /\ Alice # Bob
    /\ Randoms \cup Leftovers \cup Strangers \subseteq Fe
    /\ Copied \in 1 .. N /\ None \notin Fe

VARIABLES
    peer,       \* Alice's peer: Bob, or the public key of a stranger
    random,     \* the bytes each secret key was made from
    secret, public, shared,
    call,       \* the scalar multiplication under way
    work, bit, prevbit,     \* the locals of its ladder
    prefix,     \* history: the bits of its scalar gone over so far, as a number
    multiple    \* history: which multiples of its point work stands for

keys   == <<peer, random, secret, public, shared>>
ladder == <<call, work, bit, prevbit, prefix, multiple>>
vars   == <<keys, ladder>>

Work == [x0 : Fe, xp : Fe, zp : Fe, xq : Fe, zq : Fe]
Call == [who : Party, what : {"public", "shared"}, scalar : Fe]

TypeOK ==
    /\ peer \in {Bob} \cup Strangers
    /\ random \in [Party -> Fe \cup {None}]
    /\ secret \in [Party -> Fe \cup {None}]
    /\ public \in [Party -> Fe \cup {None}]
    /\ shared \in [Party -> Fe \cup {None}]
    /\ call \in Call \cup {None}
    /\ work \in Work
    /\ bit \in -1 .. Bits - 1 /\ prevbit \in {0, 1}
    /\ prefix \in Nat
    /\ multiple \in [p : Nat, q : Nat]

Nobody == [a \in Party |-> None]

Init ==
    /\ peer \in {Bob} \cup Strangers
    /\ random = Nobody /\ secret = Nobody /\ public = Nobody /\ shared = Nobody
    /\ call = None
    /\ work = LadderStart(setzero) /\ bit = -1 /\ prevbit = 0
    /\ prefix = 0 /\ multiple = [p |-> 0, q |-> 1]

\* Bob's turn comes after Alice has her keys.
Acts(a) ==
    /\ call = None
    /\ a = Bob => peer = Bob /\ public[Alice] # None

\* secret_1key: the array of the JNI function is not initialised, and memcpy
\* copies as many bytes as a pointer has.
CopiedKey(r, rest) == Clamp([i \in 1 .. N |-> IF i <= Copied THEN r[i] ELSE rest[i]])

SecretKey(a) ==
    /\ Acts(a) /\ secret[a] = None
    /\ \E r \in Randoms, rest \in Leftovers :
           /\ random' = [random EXCEPT ![a] = r]
           /\ secret' = [secret EXCEPT ![a] = CopiedKey(r, rest)]
    /\ UNCHANGED <<peer, public, shared, ladder>>

\* crypto_scalarmult_curve25519 up to the loop of mladder.
Starts(a, what, point) ==
    /\ call' = [who |-> a, what |-> what, scalar |-> Clamp(secret[a])]
    /\ work' = LadderStart(fe25519_unpack(point))
    /\ bit' = Bits - 1 /\ prevbit' = 0
    /\ prefix' = 0 /\ multiple' = [p |-> 0, q |-> 1]
    /\ UNCHANGED keys

PublicKey(a) ==
    /\ Acts(a) /\ secret[a] # None /\ public[a] = None
    /\ Starts(a, "public", Limbs(BasePoint, N))

SharedSecret(a) ==
    /\ Acts(a) /\ public[a] # None /\ shared[a] = None
    /\ \/ a = Bob /\ Starts(a, "shared", public[Alice])
       \/ a = Alice /\ peer # Bob /\ Starts(a, "shared", peer)
       \/ /\ a = Alice /\ peer = Bob /\ public[Bob] # None
          /\ Starts(a, "shared", public[Bob])

\* mladder's work after one bit: the pairs are swapped or not, then stepped.
Turn(swap, next) ==
    LET m == IF swap = 0 THEN multiple ELSE [p |-> multiple.q, q |-> multiple.p]
    IN  /\ work' = ladderstep(work_cswap(work, swap))
        /\ multiple' = [p |-> 2 * m.p, q |-> m.p + m.q]
        /\ prevbit' = next /\ prefix' = 2 * prefix + next
        /\ bit' = bit - 1
        /\ UNCHANGED <<keys, call>>

\* Faulty variant: the swap does not look at the bit before.
LadderBitNoPrevious ==
    /\ call # None /\ bit >= 0
    /\ LET next == Bit(call.scalar, bit) IN Turn(next, next)

\* One turn of the inner loop of mladder: swap = bit ^ prevbit.
LadderBit ==
    /\ call # None /\ bit >= 0
    /\ LET next == Bit(call.scalar, bit)
       IN  Turn(IF next = prevbit THEN 0 ELSE 1, next)

\* The bits are used up: invert, multiply and pack.
Ends ==
    /\ call # None /\ bit < 0
    /\ LET r == ScalarMultEnds(work)
       IN  IF call.what = "public"
           THEN public' = [public EXCEPT ![call.who] = r] /\ UNCHANGED shared
           ELSE shared' = [shared EXCEPT ![call.who] = r] /\ UNCHANGED public
    /\ call' = None
    /\ UNCHANGED <<peer, random, secret, work, bit, prevbit, prefix, multiple>>

Next ==
    \/ \E a \in Party : SecretKey(a) \/ PublicKey(a) \/ SharedSecret(a)
    \/ LadderBit \/ Ends

Spec == Init /\ [][Next]_vars
-----------------------------------------------------------------------------
(* Properties.                                                             *)

\* "Alice and Bob share the same secret" (test.c:64): whatever bytes their
\* secret keys are, both ends of the exchange compute the same one.
SharedSecretsAgree ==
    shared[Alice] # None /\ shared[Bob] # None => shared[Alice] = shared[Bob]

\* ecdh_curve25519.h:44, "Create a secret key from a random number": the random
\* bytes, and nothing else, determine the key.
KeyIsMadeFromRandom ==
    \A a \in Party : secret[a] # None => secret[a] = Clamp(random[a])

\* The conditional swaps, of which each undoes the one before it and the last
\* is never undone, leave xp at the multiple of the bits gone over and xq
\* at the next one, or the other way round after a bit that is set.
LadderInStep ==
    call # None =>
        /\ prevbit = prefix % 2
        /\ multiple = IF prevbit = 0 THEN [p |-> prefix, q |-> prefix + 1]
                      ELSE [p |-> prefix + 1, q |-> prefix]

\* Products, sums, differences and frozen elements are exact modulo p for the
\* elements the ladder works on, which are hardly ever reduced, and the third
\* loop of fe25519_mul ends a limb late ("3 should be enough here, is 2
\* enough?", fe25519.c:103).
FieldIsExact ==
    LET S == IF call = None THEN {} ELSE {work.xp, work.zq}
    IN  /\ MulExactOn(S) /\ ProductsExactOn(S) /\ SumsExactOn(S)
        /\ FreezeCanonicalOn(S) /\ TwoLimbsEnoughOn(S)
=============================================================================
