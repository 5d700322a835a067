----------------------- MODULE EnvelopeSignatureProofs -----------------------
(***************************************************************************)
(* EnvelopeSignature's properties for every field whose squares have two   *)
(* roots, and every odd order.                                             *)
(***************************************************************************)
EXTENDS EnvelopeSignature, TLAPS

THEOREM TypeCorrect == Spec => []TypeOK
<1>1. Init => TypeOK
  BY OrderAssumption, FieldAssumption DEF Init, TypeOK, Signature
<1>2. TypeOK /\ [Next]_vars => TypeOK'
  BY DEF TypeOK, Next, CheckKey, DecodeSignature, CheckSignature, vars
<1> QED BY <1>1, <1>2, PTL DEF Spec

\* The root that decompression keeps has the parity the prefix tells.
LEMMA ParityKept ==
  ASSUME NEW y \in 0..(P - 1), NEW prefix \in {2, 3}
  PROVE  /\ RootOfParity(prefix, y) \in 0..P
         /\ (RootOfParity(prefix, y) % 2 = 0) <=> (prefix = 2)
  BY FieldAssumption DEF RootOfParity

\* Of the two roots of one square, both lead to that of the parity told.
LEMMA RootFound ==
  ASSUME NEW y \in 0..(P - 1), NEW z \in 0..(P - 1), Square(y) = Square(z),
         NEW prefix \in {2, 3}, (z % 2 = 0) <=> (prefix = 2)
  PROVE  RootOfParity(prefix, y) = z
<1>1. y = z \/ y + z = P
  BY FieldAssumption
<1> QED BY <1>1, FieldAssumption DEF RootOfParity

\* A key is what its encoding decodes to, and nothing else is.
LEMMA RoundTrip ==
  ASSUME NEW k \in PublicKey
  PROVE  DecompressPublicKey(CompressPublicKey(k)) = {k}
<1> DEFINE e == CompressPublicKey(k)
<1>1. k \in [x : 0..(P - 1), y : 0..(P - 1)] /\ OnCurve(k)
  BY DEF PublicKey
<1>2. /\ e.size = 33 /\ e.x = k.x /\ e.prefix \in {2, 3}
      /\ (k.y % 2 = 0) <=> (e.prefix = 2)
  BY DEF CompressPublicKey
<1>3. ASSUME NEW y \in ModSqrt(p256Polynomial(k.x))
      PROVE  RootOfParity(e.prefix, y) = k.y
  <2>1. y \in 0..(P - 1) /\ Square(y) = Square(k.y)
    BY <1>1, <1>3 DEF ModSqrt, OnCurve
  <2> HIDE DEF e
  <2> QED BY <1>1, <1>2, <2>1, RootFound
<1>4. k.y \in ModSqrt(p256Polynomial(k.x))
  BY <1>1 DEF ModSqrt, OnCurve
<1>5. {RootOfParity(e.prefix, y) : y \in ModSqrt(p256Polynomial(k.x))} = {k.y}
  BY <1>3, <1>4
<1>6. [x : {e.x}, y : {k.y}] = {k}
  <2>1. k = [x |-> k.x, y |-> k.y] /\ e.x = k.x
    BY <1>1, <1>2
  <2>2. \A c \in [x : {e.x}, y : {k.y}] : c = [x |-> k.x, y |-> k.y]
    BY <1>2
  <2>3. [x |-> k.x, y |-> k.y] \in [x : {k.x}, y : {k.y}]
    OBVIOUS
  <2> HIDE DEF e
  <2> QED BY <2>1, <2>2, <2>3
<1>7. DecompressPublicKey(e) =
        {c \in [x : {e.x}, y : {k.y}] : e.size = 33 /\ e.prefix \in {2, 3} /\ OnCurve(c)}
  <2>1. e.x = k.x
    BY <1>2
  <2> HIDE DEF e
  <2> QED BY <1>5, <2>1 DEF DecompressPublicKey
<1> HIDE DEF e
<1>8. DecompressPublicKey(e) = {k}
  BY <1>1, <1>2, <1>6, <1>7
<1> QED BY <1>8 DEF e

\* Bytes that decode to a key are its encoding.
LEMMA OneEncoding ==
  ASSUME NEW e \in Encoding, NEW k \in DecompressPublicKey(e), k \in PublicKey
  PROVE  e = CompressPublicKey(k)
<1>1. /\ e.size = 33 /\ e.prefix \in {2, 3} /\ k.x = e.x
      /\ \E y \in ModSqrt(p256Polynomial(e.x)) : k.y = RootOfParity(e.prefix, y)
  BY DEF DecompressPublicKey
<1>2. (k.y % 2 = 0) <=> (e.prefix = 2)
  BY <1>1, ParityKept DEF ModSqrt
<1>3. e = [size |-> e.size, prefix |-> e.prefix, x |-> e.x]
  BY DEF Encoding
<1> QED BY <1>1, <1>2, <1>3 DEF CompressPublicKey

\* VerifyResponse's comparison of texts is a comparison of keys, but for line
\* breaks.
THEOREM KeyComparison == Spec => []EncodingIsKey
<1>1. TypeOK => EncodingIsKey
  <2> SUFFICES ASSUME TypeOK PROVE EncodingIsKey
    OBVIOUS
  <2>1. /\ enc.form \in {"plain", "broken", "garbled"} /\ enc.bytes \in Encoding
        /\ enc = [form |-> enc.form, bytes |-> enc.bytes]
    BY DEF TypeOK, KeyText
  <2>2. DecompressPublicKey(enc.bytes) = {server} <=> enc.bytes = CompressPublicKey(server)
    BY <2>1, RoundTrip, OneEncoding DEF TypeOK
  <2>3. CASE enc.form = "garbled"
    BY <2>3 DEF EncodingIsKey, KeyMatches, KeysOf, DecodeString
  <2>4. CASE enc.form # "garbled"
    <3>1. DecodeString(enc) = {enc.bytes}
      BY <2>4 DEF DecodeString
    <3>2. KeysOf(enc) = DecompressPublicKey(enc.bytes)
      BY <3>1 DEF KeysOf
    <3>3. enc = EncodeToString(CompressPublicKey(server))
            <=> enc.form = "plain" /\ enc.bytes = CompressPublicKey(server)
      BY <2>1 DEF EncodeToString
    <3>4. KeyMatches(enc) <=> /\ DecompressPublicKey(enc.bytes) # {}
                              /\ enc = EncodeToString(CompressPublicKey(server))
      BY <3>1 DEF KeyMatches
    <3> QED BY <2>1, <2>2, <2>4, <3>2, <3>3, <3>4 DEF EncodingIsKey
  <2> QED BY <2>3, <2>4
<1> QED BY <1>1, TypeCorrect, PTL

\* Of the two values that ecdsa would verify, one is low, and it is Sign's.
LEMMA LowIsUnique ==
  ASSUME NEW m \in 1..(N - 1), NEW s \in Int
  PROVE  (s \in {m, N - m} /\ s <= HalfOrder) <=> s = Sign(m).s
  BY OrderAssumption DEF HalfOrder, Sign

\* crypto.Verify accepts what Sign makes and nothing else.
LEMMA VerifyIsSign ==
  ASSUME TypeOK
  PROVE  Verify(sig) <=> (made # 0 /\ sig = Sign(made))
<1>1. made = 0 \/ made \in 1..(N - 1)
  BY OrderAssumption DEF TypeOK
<1>2. sig.s \in Int /\ sig = [size |-> sig.size, s |-> sig.s]
  BY DEF TypeOK, Signature
<1>3. CASE made = 0
  BY <1>3 DEF Verify, EcdsaVerify
<1>4. CASE made \in 1..(N - 1)
  <2>1. Verify(sig) <=> sig.size = 64 /\ sig.s = Sign(made).s
    BY <1>2, <1>4, LowIsUnique DEF Verify, EcdsaVerify
  <2>2. Sign(made) = [size |-> 64, s |-> Sign(made).s]
    BY DEF Sign
  <2> QED BY <1>2, <1>4, <2>1, <2>2, OrderAssumption
<1> QED BY <1>1, <1>3, <1>4

\* Past the comparison, the key is the server's; where an envelope was rejected
\* before its signature was decoded, it is not.
KeyChecked ==
    /\ pc \in {"decode", "signature", "accepted"} => KeyMatches(enc)
    /\ pc = "rejected" => ~KeyMatches(enc) \/ ~Verify(sig)
    /\ pc = "accepted" => Verify(sig)

\* An envelope is accepted exactly when the server signed it and the text of its
\* key has no line break.
THEOREM AcceptsExactlySigned == Spec => []ExactlySigned
<1>1. Init => KeyChecked
  BY DEF Init, KeyChecked
<1>2. TypeOK /\ KeyChecked /\ [Next]_vars => KeyChecked'
  BY DEF TypeOK, KeyChecked, Next, CheckKey, DecodeSignature, CheckSignature, vars,
     KeyMatches, Verify, EcdsaVerify
<1>3. TypeOK /\ KeyChecked /\ EncodingIsKey => ExactlySigned
  BY VerifyIsSign DEF KeyChecked, EncodingIsKey, ExactlySigned, Signed
<1> QED BY <1>1, <1>2, <1>3, TypeCorrect, KeyComparison, PTL DEF Spec
=============================================================================
