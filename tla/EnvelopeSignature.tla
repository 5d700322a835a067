-------------------------- MODULE EnvelopeSignature --------------------------
(***************************************************************************)
(* How VerifyResponse decides that an envelope is the paired server's: it  *)
(* decodes the text of the compressed key the envelope bears, compares     *)
(* that text with the one of the server's key, and checks a signature      *)
(* whose second half must be low.  Compress, decompress, sign and verify   *)
(* are those of ecdsa.go, over a small field and a small order in the      *)
(* place of P-256.                                                         *)
(*                                                                         *)
(* A signature is its second half s: of the r it comes with, ecdsa accepts *)
(* two, some s and N - s.  (A definition whose name says what it gets      *)
(* wrong is a mutation of the next one; see DeviceState.)                  *)
(***************************************************************************)
EXTENDS Integers

CONSTANTS
    P,      \* the prime of the field
    B,      \* the constant of the curve y^2 = x^3 - 3x + B
    N,      \* the order of the group
    Width   \* 2^256: numbers that 32 bytes hold

Square(y) == (y * y) % P

\* Of an odd prime: a square has two roots, one even and one odd.
ASSUME FieldAssumption ==
    /\ P \in Nat /\ P % 2 = 1 /\ P <= Width /\ B \in Nat /\ Width \in Nat
    /\ \A a, b \in 0..(P - 1) : Square(a) = Square(b) => a = b \/ a + b = P

ASSUME OrderAssumption == N \in Nat /\ N % 2 = 1 /\ N <= Width

p256Polynomial(x) == (x * x * x - 3 * x + B) % P

\* elliptic.Curve.IsOnCurve: coordinates that are not reduced are not a point.
OnCurve(k) == k.x < P /\ k.y < P /\ Square(k.y) = p256Polynomial(k.x)

PublicKey == {k \in [x : 0..(P - 1), y : 0..(P - 1)] : OnCurve(k)}

\* Byte strings by their length, first byte and rest.
Encoding == [size : {32, 33}, prefix : {0, 2, 3, 4}, x : 0..(Width - 1)]
Signature == [size : {63, 64}, s : 0..(Width - 1)]

\* The text of a key: the base64 of its bytes, plain; the same with line breaks in
\* it, which DecodeString skips; or a text that does not decode.  (33 bytes are 44
\* characters, with no padding and no bits left over: a key has no other text.)
KeyText == [form : {"plain", "broken", "garbled"}, bytes : Encoding]

VARIABLES
    pc,         \* key, decode, signature, accepted, rejected
    server,     \* the server's key, from the State
    enc,        \* the text of the key the envelope bears
    made,       \* the s that ecdsa.Sign drew for this payload, 0 when the
                \* signature is of another payload or by another key
    sig         \* the signature the envelope bears

vars == <<pc, server, enc, made, sig>>

-----------------------------------------------------------------------------
CompressPublicKey(k) ==
    [size |-> 33, prefix |-> IF k.y % 2 = 0 THEN 2 ELSE 3, x |-> k.x]

\* big.Int.ModSqrt finds one of these, or none.
ModSqrt(a) == {y \in 0..(P - 1) : Square(y) = a}

\* The root with the parity the prefix tells.
RootAsFound(prefix, y) == y
RootOfParity(prefix, y) == IF (y % 2 = 0) <=> (prefix = 2) THEN y ELSE P - y

\* What DecompressPublicKey may return: no key when it fails.
DecompressPublicKey(e) ==
    {k \in [x : {e.x}, y : {RootOfParity(e.prefix, y) : y \in ModSqrt(p256Polynomial(e.x))}] :
        e.size = 33 /\ e.prefix \in {2, 3} /\ OnCurve(k)}

HalfOrderRoundedUp == (N + 1) \div 2
HalfOrder == N \div 2

\* crypto.Sign, when ecdsa.Sign has drawn s.
Sign(s) == [size |-> 64, s |-> IF s > HalfOrder THEN N - s ELSE s]

\* ecdsa.Verify.
EcdsaVerify(s) == made # 0 /\ s \in {made, N - made}

\* crypto.Verify with the key received.
Verify(g) == g.size = 64 /\ g.s <= HalfOrder /\ EcdsaVerify(g.s)

\* base64.StdEncoding.
EncodeToString(e) == [form |-> "plain", bytes |-> e]
DecodeString(t) == IF t.form = "garbled" THEN {} ELSE {t.bytes}

\* The text received decodes to a key, and is the text of the server's key.
KeyMatches(t) ==
    /\ \E e \in DecodeString(t) : DecompressPublicKey(e) # {}
    /\ t = EncodeToString(CompressPublicKey(server))

Init ==
    /\ pc = "key"
    /\ server \in PublicKey /\ enc \in KeyText
    /\ made = 0 /\ sig = [size |-> 64, s |-> 0]

CheckKey ==
    /\ pc = "key"
    /\ \/ KeyMatches(enc) /\ pc' = "decode"
       \/ ~KeyMatches(enc) /\ pc' = "rejected"
    /\ UNCHANGED <<server, enc, made, sig>>

\* The signature is decoded; it can be any bytes.  Its text is compared with
\* nothing: with line breaks or without, the bytes are the same.
DecodeSignature ==
    /\ pc = "decode" /\ pc' = "signature"
    /\ made' \in 0..(N - 1) /\ sig' \in Signature
    /\ UNCHANGED <<server, enc>>

CheckSignature ==
    /\ pc = "signature"
    /\ \/ Verify(sig) /\ pc' = "accepted"
       \/ ~Verify(sig) /\ pc' = "rejected"
    /\ UNCHANGED <<server, enc, made, sig>>

Next == CheckKey \/ DecodeSignature \/ CheckSignature

Spec == Init /\ [][Next]_vars

-----------------------------------------------------------------------------
\* Type invariant.
TypeOK ==
    /\ pc \in {"key", "decode", "signature", "accepted", "rejected"}
    /\ server \in PublicKey /\ enc \in KeyText
    /\ made \in 0..(N - 1) /\ sig \in Signature

\* The keys that a text may be taken for.
KeysOf(t) == UNION {DecompressPublicKey(e) : e \in DecodeString(t)}

\* One text passes for the server's key: the test of VerifyResponse succeeds
\* exactly when the text decodes to that key and to no other, whichever root
\* ModSqrt finds, and has no line break.  No key has two encodings that decode,
\* none has none; and of the texts of one encoding, which all decode alike, it is
\* the comparison of texts that leaves one.
EncodingIsKey == KeyMatches(enc) <=> (KeysOf(enc) = {server} /\ enc.form # "broken")

\* An envelope is accepted only when it bears the server's key and the one
\* signature that Sign makes of what ecdsa drew, and not with the other one that
\* ecdsa would verify; and one that bears both is rejected only for a line break in
\* the text of the key.
Signed == KeysOf(enc) = {server} /\ made # 0 /\ sig = Sign(made)
ExactlySigned ==
    /\ pc = "accepted" => Signed
    /\ pc = "rejected" => ~Signed \/ enc.form = "broken"
=============================================================================
