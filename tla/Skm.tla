-------------------------------- MODULE Skm --------------------------------
(***************************************************************************)
(* The native half of ApiCryptManager (jni/skm.cpp): encrypt() pads its    *)
(* bytes with zeros and encrypts them block by block; decrypt() decrypts   *)
(* block by block, takes each block for a C string and hands back the text *)
(* if it is UTF-8.  A host encrypts a text and has all of the result, or a *)
(* part of it, decrypted.  One round of the cipher is one step.            *)
(***************************************************************************)
EXTENDS Aes256

CONSTANTS
    CipherKey,      \* charParam
    Texts,          \* the bytes of the texts encrypted
    Uninitialised,  \* what decodeBase may hold before its first block
    Cuts,           \* how many bytes of the result may get lost at its end
    Nothing, Null,  \* no value yet; a Java null
    OtherText       \* any text but the one at hand

ASSUME SkmAssumption ==
    /\ CipherKey \in Key
    /\ \A t \in Texts : t \in Seq(Byte)
    /\ Uninitialised \subseteq Block
    /\ Cuts \subseteq Nat
    /\ Nothing # Null /\ OtherText # Nothing /\ OtherText # Null
    /\ \A v \in {Nothing, Null, OtherText} : v \notin Int /\ v \notin Seq(Byte)

VARIABLES
    text,       \* what the host encrypts
    cipher,     \* what encrypt() returned, Nothing before
    result,     \* what decrypt() returned, Nothing before
    doing,      \* the call under way: "encrypt", "decrypt" or "none"
    given,      \* its argument
    at,         \* its i
    out,        \* encodedBytes or sName
    buf,        \* encodeBase or decodeBase
    key, rcon,  \* ctx.key and the round constant
    round,      \* the round to do next; Nothing between two blocks
    trace       \* history: for each block, buf after each round of its encryption

host      == <<text, cipher, result>>
block     == <<buf, key, rcon, round>>
cryptVars == <<host, doing, given, at, out, block, trace>>

Ctx == aes256_init(CipherKey)

\* The reference for the cipher, and the keys of its rounds.
FIPS197   == INSTANCE AesStandard
RoundKeys == FIPS197!RoundKeys(CipherKey)

\* What the proofs need of the substitution box of the code.
ASSUME StandardBoxAssumption == \A x \in Byte : rj_sbox[x] = FIPS197!SubByte[x]

Zeros(n) == [i \in 1 .. n |-> {}]

CryptInit ==
    /\ text \in Texts
    /\ cipher = Nothing /\ result = Nothing
    /\ doing = "none" /\ given = <<>> /\ at = 0 /\ out = <<>>
    /\ buf = Zeros(16) /\ key = Zeros(32) /\ rcon = {} /\ round = Nothing
    /\ trace = <<>>
-----------------------------------------------------------------------------
(* encrypt()                                                               *)

\* Faulty variant: a text that fills its last block is given another one.
SizeAnother(len) == len + 16 - (len % 16)

\* How many bytes encodedBytes has.
Size(len) == IF len % 16 = 0 THEN len ELSE len + 16 - (len % 16)

\* Faulty variant: encodeBase is not cleared.
LoadOver(bytes, i, old) ==
    [k \in 1 .. 16 |-> IF i + k <= Len(bytes) THEN bytes[i + k] ELSE old[k]]

\* encodeBase, cleared and filled from byte i on.
LoadPadded(bytes, i, old) ==
    [k \in 1 .. 16 |-> IF i + k <= Len(bytes) THEN bytes[i + k] ELSE {}]

Encrypt ==
    /\ doing = "none" /\ cipher = Nothing
    /\ doing' = "encrypt" /\ given' = text /\ at' = 0 /\ out' = <<>>
    /\ UNCHANGED <<host, block, trace>>

EncryptBlock ==
    /\ doing = "encrypt" /\ round = Nothing /\ at < Len(given)
    /\ buf' = aes_addRoundKey(LoadPadded(given, at, buf), Ctx.enckey, 0)
    /\ key' = Ctx.enckey /\ rcon' = {0} /\ round' = 1
    /\ trace' = Append(trace, <<buf'>>)
    /\ UNCHANGED <<host, doing, given, at, out>>

Traced == trace' = [trace EXCEPT ![Len(trace)] = Append(@, buf')]

EncryptRound ==
    /\ doing = "encrypt" /\ round \in 1 .. 13
    /\ LET mixed == aes_mixColumns(aes_shiftRows(aes_subBytes(buf)))
       IN  IF round % 2 = 1
           THEN buf' = aes_addRoundKey(mixed, key, 16) /\ UNCHANGED <<key, rcon>>
           ELSE /\ key' = aes_expandEncKey(key, rcon) /\ rcon' = rj_xtime(rcon)
                /\ buf' = aes_addRoundKey(mixed, key', 0)
    /\ round' = round + 1
    /\ Traced
    /\ UNCHANGED <<host, doing, given, at, out>>

EncryptLastRound ==
    /\ doing = "encrypt" /\ round = 14
    /\ key' = aes_expandEncKey(key, rcon) /\ rcon' = rj_xtime(rcon)
    /\ buf' = aes_addRoundKey(aes_shiftRows(aes_subBytes(buf)), key', 0)
    /\ round' = Nothing /\ at' = at + 16 /\ out' = out \o buf'
    /\ Traced
    /\ UNCHANGED <<host, doing, given>>

EncryptReturns ==
    /\ doing = "encrypt" /\ round = Nothing /\ at >= Len(given)
    /\ doing' = "none" /\ cipher' = out
    /\ UNCHANGED <<text, result, given, at, out, block, trace>>
-----------------------------------------------------------------------------
(* decrypt()                                                               *)

\* The bytes before the first that is zero.
CString(bytes) ==
    IF \E i \in 1 .. Len(bytes) : bytes[i] = {}
    THEN SubSeq(bytes, 1, (CHOOSE i \in 1 .. Len(bytes) :
                              bytes[i] = {} /\ \A j \in 1 .. i - 1 : bytes[j] # {}) - 1)
    ELSE bytes

\* How many bytes have to follow the first one of a character, -1 if it is none:
\* neither a continuation nor above F7, nor the ED of a surrogate.
Followers(s, i) ==
    LET c == s[i]
        surrogate == c = {0, 2, 3, 5, 6, 7} /\ i < Len(s) /\ {5, 7} \subseteq s[i + 1]
    IN  CASE 7 \notin c                    -> 0
          [] c \cap (5 .. 7) = {6, 7}      -> 1
          [] c \cap (4 .. 7) = {5, 6, 7}   -> IF surrogate THEN -1 ELSE 2
          [] c \cap (3 .. 7) = {4, 5, 6, 7} -> 3
          [] OTHER                         -> -1

utf8_check_is_valid(s) ==
    LET from[i \in 1 .. Len(s) + 4] ==
            \/ i > Len(s)
            \/ LET n == Followers(s, i)
               IN  /\ n >= 0
                   /\ \A j \in 1 .. n : i + j <= Len(s) /\ s[i + j] \cap {6, 7} = {7}
                   /\ from[i + n + 1]
    IN  from[1]

UTF8 == INSTANCE Utf8Standard

\* UTF-8 without bytes from F0 on, that is, without characters of four bytes.
IsPlainText(s) ==
    UTF8!WellFormed(s) /\ \A i \in 1 .. Len(s) : ~ {4, 5, 6, 7} \subseteq s[i]

\* NewStringUTF() takes modified UTF-8.  What it makes of a character of four
\* bytes, of an overlong form or of a number beyond 10FFFF is not specified: some
\* releases of Android understand them, others make other characters of them.
NewStringUTF(s) == IF IsPlainText(s) THEN {s} ELSE {s, OtherText}

Decrypt ==
    /\ doing = "none" /\ cipher # Nothing /\ result = Nothing
    /\ \E lost \in Cuts :
           /\ lost <= Len(cipher)
           /\ given' = SubSeq(cipher, 1, Len(cipher) - lost)
    /\ buf' \in Uninitialised
    /\ doing' = "decrypt" /\ at' = 0 /\ out' = <<>>
    /\ UNCHANGED <<host, key, rcon, round, trace>>

\* What a last block that is not whole lacks stays what it was.
DecryptBlock ==
    /\ doing = "decrypt" /\ round = Nothing /\ at < Len(given)
    /\ LET loaded == [k \in 1 .. 16 |-> IF at + k <= Len(given) THEN given[at + k] ELSE buf[k]]
       IN  buf' = aes_subBytes_inv(aes_shiftRows_inv(aes_addRoundKey(loaded, Ctx.deckey, 0)))
    /\ key' = Ctx.deckey /\ rcon' = {7} /\ round' = 13
    /\ UNCHANGED <<host, doing, given, at, out, trace>>

DecryptRound ==
    /\ doing = "decrypt" /\ round \in 1 .. 13
    /\ IF round % 2 = 1
       THEN rcon' = FD(rcon) /\ key' = aes_expandDecKey(key, rcon')
       ELSE UNCHANGED <<key, rcon>>
    /\ buf' = aes_subBytes_inv(aes_shiftRows_inv(aes_mixColumns_inv(
                  aes_addRoundKey(buf, key', IF round % 2 = 1 THEN 16 ELSE 0))))
    /\ round' = round - 1
    /\ UNCHANGED <<host, doing, given, at, out, trace>>

DecryptLastRound ==
    /\ doing = "decrypt" /\ round = 0
    /\ buf' = aes_addRoundKey(buf, key, 0)
    /\ round' = Nothing /\ at' = at + 16 /\ out' = out \o CString(buf')
    /\ UNCHANGED <<host, doing, given, key, rcon, trace>>

DecryptReturns ==
    /\ doing = "decrypt" /\ round = Nothing /\ at >= Len(given)
    /\ doing' = "none"
    /\ result' \in IF utf8_check_is_valid(out) THEN NewStringUTF(out) ELSE {Null}
    /\ UNCHANGED <<text, cipher, given, at, out, block, trace>>
-----------------------------------------------------------------------------
CryptNext ==
    \/ Encrypt \/ EncryptBlock \/ EncryptRound \/ EncryptLastRound \/ EncryptReturns
    \/ Decrypt \/ DecryptBlock \/ DecryptRound \/ DecryptLastRound \/ DecryptReturns

CryptSpec == CryptInit /\ [][CryptNext]_cryptVars
-----------------------------------------------------------------------------
(* Properties.                                                             *)

\* skm.cpp:173-199: what memcpy copies stays inside encodedBytes, and the array
\* handed to Java is filled to its end.
EncodedFits ==
    /\ doing = "encrypt" => Len(out) <= Size(Len(given))
    /\ cipher # Nothing => Len(cipher) = Size(Len(text))

\* Decryption, whose keys are computed backwards from the last one, goes back
\* through the states that encryption went through, block by block.
DecryptionRetraces ==
    doing = "decrypt" /\ round # Nothing /\ at + 16 <= Len(given) =>
        buf = trace[at \div 16 + 1][round + 1]

\* Each round of encryption, with the key computed on the fly, does what the
\* round of AES-256 with the expanded key does.
RoundsAreStandard ==
    trace # <<>> =>
        LET states == trace[Len(trace)]
            r == Len(states) - 1
        IN  states[r + 1] =
                IF r = 0
                THEN FIPS197!AddRoundKey(LoadPadded(text, 16 * (Len(trace) - 1), buf), RoundKeys[0])
                ELSE FIPS197!Round(states[r], r, RoundKeys[r])

\* What the UTF-8 check lets pass beside characters: overlong forms, and numbers
\* beyond 10FFFF.
IsLaxCharacter(c) ==
    \/ UTF8!IsCharacter(c)
    \/ Len(c) = 2 /\ UTF8!In(c, 1, 192, 193) /\ UTF8!Follows(c, 2)
    \/ Len(c) = 3 /\ UTF8!In(c, 1, 224, 224) /\ UTF8!Follows(c, 2) /\ UTF8!Follows(c, 3)
    \/ /\ Len(c) = 4 /\ (UTF8!In(c, 1, 240, 240) \/ UTF8!In(c, 1, 244, 247))
       /\ \A i \in 2 .. 4 : UTF8!Follows(c, i)

IsLaxText(s) == UTF8!MadeOf(s, IsLaxCharacter)

\* A text without zeros comes back as it was if it is UTF-8 whose characters have
\* at most three bytes; what the check does not take for UTF-8 comes back as null,
\* and nothing else does.  Of a text whose end was lost, the whole blocks that are
\* left come back, or null or, with characters of four bytes, another text.
TextSurvives ==
    result # Nothing /\ (\A i \in 1 .. Len(text) : text[i] # {}) =>
        LET whole == 16 * (Len(given) \div 16)
            left  == SubSeq(text, 1, IF whole < Len(text) THEN whole ELSE Len(text))
        IN  IF whole = Len(given)
            THEN IF IsLaxText(left)
                 THEN result # Null /\ (IsPlainText(left) => result = left)
                 ELSE result = Null
            ELSE result \in {Null, OtherText} \/ SubSeq(result, 1, Len(left)) = left
=============================================================================
