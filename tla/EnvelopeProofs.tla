--------------------------- MODULE EnvelopeProofs ---------------------------
(***************************************************************************)
(* What the readers of an envelope accept and what they do not reject, for *)
(* every set of keys, tag names of every length, all bytes before a text   *)
(* and integers of every width.                                            *)
(***************************************************************************)
EXTENDS Envelope, FreshnessProofs, SequenceTheorems

\* The bytes of a tag and what follows it, one by one.
LEMMA TagBytes ==
  ASSUME NEW m \in Seq(Char \ {Nul}), NEW a \in Seq(Char)
  PROVE  /\ Append(m, Nul) \o a \in Seq(Char)
         /\ Len(Append(m, Nul) \o a) = Len(m) + 1 + Len(a)
         /\ \A i \in 1..Len(m) : (Append(m, Nul) \o a)[i] = m[i] /\ m[i] # Nul
         /\ (Append(m, Nul) \o a)[Len(m) + 1] = Nul
         /\ \A i \in 1..Len(a) : (Append(m, Nul) \o a)[Len(m) + 1 + i] = a[i]
<1> DEFINE t == Append(m, Nul)
<1>1. m \in Seq(Char) /\ Nul \in Char /\ Len(m) \in Nat /\ Len(a) \in Nat
  BY EnvelopeAssumption
<1>2. t \in Seq(Char) /\ Len(t) = Len(m) + 1 /\ t[Len(m) + 1] = Nul
  BY <1>1, AppendProperties
<1>3. \A i \in 1..Len(m) : t[i] = m[i]
  BY <1>1, AppendProperties
<1>4. \A i \in 1..Len(m) : m[i] # Nul
  BY ElementOfSeq
<1> HIDE DEF t
<1>5. t \o a \in Seq(Char) /\ Len(t \o a) = Len(t) + Len(a)
  BY <1>2, ConcatProperties
<1>6. \A i \in 1..(Len(t) + Len(a)) : (t \o a)[i] = IF i <= Len(t) THEN t[i] ELSE a[i - Len(t)]
  BY <1>2, ConcatProperties
<1>7. \A i \in 1..Len(m) : (t \o a)[i] = m[i]
  BY <1>1, <1>2, <1>3, <1>6
<1>8. (t \o a)[Len(m) + 1] = Nul
  BY <1>1, <1>2, <1>6
<1>9. ASSUME NEW i \in 1..Len(a) PROVE (t \o a)[Len(m) + 1 + i] = a[i]
  BY <1>1, <1>2, <1>6
<1> QED BY <1>1, <1>2, <1>4, <1>5, <1>7, <1>8, <1>9 DEF t

\* Domain separation: bytes behind two tags are the same only when the tags are
\* and what follows them is.  It is the NUL at the end that makes it so, and that
\* no name has one inside; nothing is asked of the bytes that follow.
THEOREM TagsSeparate ==
  ASSUME NEW m \in Seq(Char \ {Nul}), NEW a \in Seq(Char),
         NEW n \in Seq(Char \ {Nul}), NEW b \in Seq(Char),
         Tag(m) \o a = Tag(n) \o b
  PROVE  m = n /\ a = b
<1> DEFINE s == Append(m, Nul) \o a
<1>1. s = Append(n, Nul) \o b
  BY DEF Tag
<1>2. /\ Len(m) \in Nat /\ Len(n) \in Nat /\ Len(a) \in Nat /\ Len(b) \in Nat
      /\ Len(s) = Len(m) + 1 + Len(a)
      /\ \A i \in 1..Len(m) : s[i] = m[i] /\ m[i] # Nul
      /\ s[Len(m) + 1] = Nul
      /\ \A i \in 1..Len(a) : s[Len(m) + 1 + i] = a[i]
  BY TagBytes
<1>3. /\ Len(s) = Len(n) + 1 + Len(b)
      /\ \A i \in 1..Len(n) : s[i] = n[i] /\ n[i] # Nul
      /\ s[Len(n) + 1] = Nul
      /\ \A i \in 1..Len(b) : s[Len(n) + 1 + i] = b[i]
  BY <1>1, TagBytes
<1> HIDE DEF s
<1>4. Len(m) = Len(n)
  <2>1. CASE Len(m) < Len(n)
    <3>1. Len(m) + 1 \in 1..Len(n)
      BY <1>2, <2>1
    <3> QED BY <1>2, <1>3, <3>1
  <2>2. CASE Len(n) < Len(m)
    <3>1. Len(n) + 1 \in 1..Len(m)
      BY <1>2, <2>2
    <3> QED BY <1>2, <1>3, <3>1
  <2> QED BY <1>2, <2>1, <2>2
<1>5. Len(a) = Len(b)
  BY <1>2, <1>3, <1>4
<1>6. m = n
  <2>1. \A i \in 1..Len(m) : m[i] = n[i]
    BY <1>2, <1>3, <1>4
  <2> QED BY <1>4, <2>1, SeqEqual
<1>7. a = b
  <2>1. \A i \in 1..Len(a) : a[i] = b[i]
    BY <1>2, <1>3, <1>4, <1>5
  <2> QED BY <1>5, <2>1, SeqEqual
<1> QED BY <1>6, <1>7

\* How the envelope and its history hang together once it is made, whoever has
\* sealed it since.
Made ==
    /\ wire.inner.signature =
         [by |-> maker.by, over |-> [head |-> Tag(maker.name) \o maker.lead, text |-> maker.text]]
    /\ ~damaged => ~wire.short /\ wire.whole /\ wire.aad = wire.ephemeral
    /\ damaged => wire.short \/ ~wire.whole \/ wire.aad # wire.ephemeral

\* The inductive invariant: an envelope that was made is what its history says,
\* the readers come in their order, and what they said so far was right.
Inv ==
    /\ TypeOK
    /\ pc # "make" => Made
    /\ pc \in {"make", "carry"} => ~damaged
    /\ pc \in {"make", "carry", "verify"} <=> verified = "nothing"
    /\ pc # "done" <=> exit = "none"
    /\ AcceptedIsSigned /\ RoundTrip

\* The box opens for the device exactly when it was last sealed for it and has come
\* in one piece; both copies of the decryption agree on that.
LEMMA OpensExactly ==
  ASSUME Made
  PROVE  /\ eciesDecrypt(Device, wire)
              <=> ~damaged /\ wire.key = SealKey(wire.ephemeral, Device)
         /\ decryptECIES(Device, wire)
              <=> ~damaged /\ wire.key = SealKey(wire.ephemeral, Device)
  BY DEF Made, eciesDecrypt, decryptECIES, Opens

\* The signature verifies over a text exactly when its maker signed that text, as
\* the key claimed and for this protocol.
LEMMA VerifiesExactly ==
  ASSUME Made, maker \in Maker, NEW T
  PROVE  Verifies(claimed.key, wire.inner.signature, ConvTag, T)
            <=> /\ maker.by = claimed.key /\ maker.name = ConvName /\ maker.lead = <<>>
                /\ maker.text = T
<1>1. /\ maker.name \in Seq(Char \ {Nul}) /\ ConvName \in Seq(Char \ {Nul})
      /\ maker.lead \in Seq(Char) /\ <<>> \in Seq(Char) /\ Nul \in Char
  <2>1. maker.name \in Name /\ maker.lead \in Lead \cup {<<>>}
    BY DEF Maker
  <2>2. <<>> \in Seq(Char)
    BY EmptySeq
  <2> QED BY <2>1, <2>2, EnvelopeAssumption, Zenon
<1>2. ConvTag = Tag(ConvName) /\ Tag(ConvName) \o <<>> = Tag(ConvName)
  <2>1. ConvName \in Seq(Char)
    BY <1>1
  <2>2. Tag(ConvName) \in Seq(Char)
    BY <1>1, <2>1, AppendProperties DEF Tag
  <2> QED BY <2>2, ConcatEmptySeq DEF ConvTag, Tag
<1>3. Tag(maker.name) \o maker.lead = ConvTag <=> maker.name = ConvName /\ maker.lead = <<>>
  BY <1>1, <1>2, TagsSeparate
<1> DEFINE h == Tag(maker.name) \o maker.lead
<1>4. [by |-> maker.by, over |-> [head |-> h, text |-> maker.text]]
        = [by |-> claimed.key, over |-> [head |-> ConvTag, text |-> T]]
          <=> maker.by = claimed.key /\ h = ConvTag /\ maker.text = T
  <2> HIDE DEF h
  <2> QED OBVIOUS
<1> QED BY <1>3, <1>4 DEF Made, Verifies

\* What the two readers accept, in terms of the history.
LEMMA ReadersExactly ==
  ASSUME Made, maker \in Maker, claimed \in KeyText
  PROVE  /\ AcceptsResponse(wire) <=>
              /\ Intact /\ Readable /\ claimed.key = Server /\ maker.text = payload
              /\ Fresh(now, payload.ts) /\ payload.nonce \notin nonceStore
         /\ Decrypts(wire) <=> Intact /\ Full /\ maker.text = canonicalize(payload)
<1>1. claimed = [key |-> Server, plain |-> TRUE] <=> claimed.key = Server /\ claimed.plain
  <2>1. claimed = [key |-> claimed.key, plain |-> claimed.plain] /\ claimed.plain \in BOOLEAN
    BY DEF KeyText
  <2> QED BY <2>1
<1>2. AcceptsResponse(wire) <=>
         /\ Intact /\ Readable /\ claimed.key = Server /\ maker.text = payload
         /\ Fresh(now, payload.ts) /\ payload.nonce \notin nonceStore
  <2>1. AcceptsResponse(wire) <=>
          /\ eciesDecrypt(Device, wire) /\ claimed = [key |-> Server, plain |-> TRUE]
          /\ Verifies(claimed.key, wire.inner.signature, ConvTag, payload)
          /\ "response" \in payload.suits
          /\ Fresh(now, payload.ts) /\ payload.nonce \notin nonceStore
    BY Zenon DEF AcceptsResponse, claimed, payload
  <2>2. Verifies(claimed.key, wire.inner.signature, ConvTag, payload)
          <=> /\ maker.by = claimed.key /\ maker.name = ConvName /\ maker.lead = <<>>
              /\ maker.text = payload
    BY VerifiesExactly
  <2> QED BY <1>1, <2>1, <2>2, OpensExactly, Zenon DEF Intact, Readable
<1>3. Decrypts(wire) <=> Intact /\ Full /\ maker.text = canonicalize(payload)
  <2>1. Decrypts(wire) <=>
          /\ decryptECIES(Device, wire) /\ Full
          /\ Verifies(claimed.key, wire.inner.signature, ConvTag, canonicalize(payload))
    BY Zenon DEF Decrypts, claimed, payload, Full, canonicalize, Transform
  <2>2. Verifies(claimed.key, wire.inner.signature, ConvTag, canonicalize(payload))
          <=> /\ maker.by = claimed.key /\ maker.name = ConvName /\ maker.lead = <<>>
              /\ maker.text = canonicalize(payload)
    BY VerifiesExactly
  <2> QED BY <2>1, <2>2, OpensExactly, Zenon DEF Intact
<1> QED BY <1>2, <1>3

\* Making an envelope, by either way.
LEMMA MakeStep ==
  ASSUME Inv, pc = "make", NEW signer \in Key, NEW bears \in KeyText, NEW name \in Name,
         NEW lead \in Lead \cup {<<>>}, NEW signed \in Text, NEW text \in Text,
         NEW recipient \in Key,
         Make(signer, bears, name, lead, signed, text, recipient,
              SignWithDomain(signer, Tag(name), lead, signed))
  PROVE  Inv'
<1> DEFINE sig == SignWithDomain(signer, Tag(name), lead, signed)
           inner == [claimed |-> bears, payload |-> text, signature |-> sig]
<1>1. PICK e \in Key : wire' = eciesEncrypt(e, recipient, inner)
  BY DEF Make
<1>2. /\ maker' = [by |-> signer, name |-> name, lead |-> lead, text |-> signed]
      /\ UNCHANGED <<now, nonceStore, damaged, verified, exit>>
      /\ pc' = "carry"
  BY DEF Make
<1>3. sig = [by |-> signer, over |-> [head |-> Tag(name) \o lead, text |-> signed]]
  BY DEF SignWithDomain
<1>4. sig \in Signature
  <2>1. Tag(name) \o lead \in Seq(Char)
    <3>1. name \in Seq(Char \ {Nul}) /\ lead \in Seq(Char)
      <4>1. <<>> \in Seq(Char)
        BY EmptySeq
      <4> QED BY <4>1, EnvelopeAssumption, Zenon
    <3> QED BY <3>1, TagBytes DEF Tag
  <2> HIDE DEF sig
  <2> QED BY <1>3, <2>1 DEF Signature, Message
<1> HIDE DEF sig
<1>5. inner \in InnerEnvelope
  BY <1>4 DEF InnerEnvelope
<1>6. wire'.inner = inner /\ inner.signature = sig /\ inner.payload = text
  BY <1>1 DEF eciesEncrypt
<1> HIDE DEF inner
<1>7. /\ wire' = [short |-> FALSE, ephemeral |-> e, whole |-> TRUE,
                  key |-> [secret |-> {e, recipient}, salt |-> recipient],
                  aad |-> e, inner |-> inner]
      /\ ~wire'.short /\ wire'.whole /\ wire'.aad = wire'.ephemeral
  BY <1>1 DEF eciesEncrypt, SealKey
<1>8. wire' \in Wire
  BY <1>5, <1>7 DEF Wire
<1>9. maker' \in Maker
  BY <1>2 DEF Maker
<1>10. Made'
  <2>1. ~damaged'
    BY <1>2 DEF Inv
  <2> QED BY <1>2, <1>3, <1>6, <1>7, <2>1 DEF Made
<1>11. TypeOK'
  BY <1>2, <1>8, <1>9 DEF Inv, TypeOK
<1> QED BY <1>2, <1>10, <1>11 DEF Inv, AcceptedIsSigned, RoundTrip

\* Sealing what an envelope has in it again.
LEMMA ReSealStep ==
  ASSUME Inv, ReSeal
  PROVE  Inv'
<1>1. /\ pc = "carry" /\ ~damaged /\ Made /\ wire \in Wire /\ maker \in Maker
      /\ UNCHANGED <<pc, now, nonceStore, maker, damaged, verified, exit>>
  BY DEF ReSeal, Inv, TypeOK
<1>2. PICK recipient \in Key, e \in Key : wire' = eciesEncrypt(e, recipient, wire.inner)
  BY DEF ReSeal
<1>3. /\ wire' = [short |-> FALSE, ephemeral |-> e, whole |-> TRUE,
                  key |-> [secret |-> {e, recipient}, salt |-> recipient],
                  aad |-> e, inner |-> wire.inner]
  BY <1>2 DEF eciesEncrypt, SealKey
<1>4. /\ wire'.inner = wire.inner /\ ~wire'.short /\ wire'.whole
      /\ wire'.aad = wire'.ephemeral
  BY <1>3
<1>5. wire' \in Wire
  <2>1. wire.inner \in InnerEnvelope
    BY <1>1 DEF Wire
  <2> QED BY <1>3, <2>1 DEF Wire
<1>6. Made'
  BY <1>1, <1>4 DEF Made
<1>7. TypeOK'
  BY <1>1, <1>5 DEF Inv, TypeOK
<1> QED BY <1>1, <1>6, <1>7 DEF Inv, AcceptedIsSigned, RoundTrip

\* What a damaged envelope is.
LEMMA DamageStep ==
  ASSUME wire \in Wire, Made, NEW v \in Damages(wire)
  PROVE  /\ v \in Wire /\ v.inner = wire.inner
         /\ ~damaged => v.short \/ ~v.whole \/ v.aad # v.ephemeral
<1>1. CASE v = [wire EXCEPT !.short = TRUE]
  BY <1>1 DEF Wire
<1>2. CASE v = [wire EXCEPT !.whole = FALSE]
  BY <1>2 DEF Wire
<1>3. ASSUME NEW k \in Key \ {wire.ephemeral}, v = [wire EXCEPT !.ephemeral = k]
      PROVE  /\ v \in Wire /\ v.inner = wire.inner
             /\ ~damaged => v.aad # v.ephemeral
  <2>1. v \in Wire /\ v.inner = wire.inner /\ v.aad = wire.aad /\ v.ephemeral = k
    BY <1>3 DEF Wire
  <2> QED BY <1>3, <2>1 DEF Made
<1> QED BY <1>1, <1>2, <1>3 DEF Damages

\* The canonical form of a text is a text.
LEMMA CanonicalIsText ==
  ASSUME NEW T \in Text
  PROVE  canonicalize(T) \in Text
  BY DEF canonicalize, Text

\* It holds initially.
LEMMA InitInv == Init => Inv
  BY DEF Init, Inv, TypeOK, AcceptedIsSigned, RoundTrip

\* Every step keeps it.
LEMMA InvStep == Inv /\ [Next]_vars => Inv'
<1> SUFFICES ASSUME Inv, [Next]_vars PROVE Inv'
  OBVIOUS
<1>1. pc # "make" => /\ Made /\ maker \in Maker /\ wire \in Wire
                     /\ payload.ts \in Int64 /\ payload.nonce \in Nonce
                     /\ claimed \in KeyText
  BY DEF Inv, TypeOK, Wire, InnerEnvelope, Text, payload, claimed
<1>2. CASE EnvelopeEncrypt
  <2>1. PICK sender \in Key, recipient \in Key,
             suits \in {{"response"}, {"response", "request"}}, t \in Clock, n \in Nonce :
          LET text == canonicalize([canonical |-> FALSE, suits |-> suits, ts |-> t, nonce |-> n])
          IN Make(sender, [key |-> sender, plain |-> TRUE], ConvName, <<>>, text, text, recipient,
                  SignWithDomain(sender, ConvTag, <<>>, text))
    BY <1>2 DEF EnvelopeEncrypt, CreateRequest
  <2> DEFINE made == canonicalize([canonical |-> FALSE, suits |-> suits, ts |-> t, nonce |-> n])
             bears == [key |-> sender, plain |-> TRUE]
  <2>2. made \in Text /\ bears \in KeyText
    <3>1. [canonical |-> FALSE, suits |-> suits, ts |-> t, nonce |-> n] \in Text
      BY WidthAssumption DEF Text, Clock, Int64
    <3>2. made \in Text
      BY <3>1, CanonicalIsText
    <3> QED BY <3>2 DEF KeyText
  <2> HIDE DEF made, bears
  <2>3. Make(sender, bears, ConvName, <<>>, made, made, recipient,
             SignWithDomain(sender, Tag(ConvName), <<>>, made))
    BY <2>1 DEF made, bears, ConvTag, Tag
  <2>4. pc = "make" /\ ConvName \in Name /\ <<>> \in Lead \cup {<<>>}
    BY <1>2, EnvelopeAssumption DEF EnvelopeEncrypt
  <2> QED BY <2>2, <2>3, <2>4, MakeStep
<1>3. CASE Assemble
  <2>1. PICK signer \in Key, recipient \in Key, bears \in KeyText, name \in Name, lead \in Lead, text \in Text :
          \E sent \in Variants(text),
             sig \in {cmdCryptoSignCustom(signer, name, lead, text)}
                      \cup {cmdCryptoSignFixed(signer, n, lead, text) : n \in {name} \ {ConvName}} :
            Make(signer, bears, name, lead, text, sent, recipient, sig)
    BY <1>3 DEF Assemble
  <2>2. PICK sent \in Variants(text) :
          Make(signer, bears, name, lead, text, sent, recipient,
               SignWithDomain(signer, Tag(name), lead, text))
    BY <2>1 DEF cmdCryptoSignCustom, cmdCryptoSignFixed, DomainTag, Tag
  <2>3. sent \in Text
    <3>1. Variants(text) \subseteq Text
      BY DEF Variants, Text
    <3> QED BY <3>1
  <2>4. pc = "make" /\ lead \in Lead \cup {<<>>}
    BY <1>3 DEF Assemble
  <2> QED BY <2>2, <2>3, <2>4, MakeStep
<1>4. CASE Carry
  <2>1. /\ pc = "carry" /\ pc' = "verify" /\ ~damaged /\ verified = "nothing" /\ exit = "none"
        /\ UNCHANGED <<now, nonceStore, maker, verified, exit>>
    BY <1>4 DEF Carry, Inv
  <2>2. CASE UNCHANGED <<wire, damaged>>
    BY <1>1, <2>1, <2>2 DEF Inv, TypeOK, Made, AcceptedIsSigned, RoundTrip
  <2>3. CASE wire' \in Damages(wire) /\ damaged' = TRUE
    <3>1. /\ wire' \in Wire /\ wire'.inner = wire.inner
          /\ wire'.short \/ ~wire'.whole \/ wire'.aad # wire'.ephemeral
      BY <1>1, <2>1, <2>3, DamageStep
    <3>2. Made'
      BY <1>1, <2>1, <2>3, <3>1 DEF Made
    <3>3. TypeOK'
      BY <1>1, <2>1, <2>3, <3>1 DEF Inv, TypeOK
    <3> QED BY <2>1, <3>2, <3>3 DEF Inv, AcceptedIsSigned, RoundTrip
  <2> QED BY <1>4, <2>2, <2>3 DEF Carry
<1>5. CASE VerifyResponse
  <2>1. /\ pc = "verify" /\ pc' = "decrypt" /\ exit = "none" /\ verified' # "nothing"
        /\ UNCHANGED <<now, wire, maker, damaged, exit>>
    BY <1>5 DEF VerifyResponse, Inv
  <2>2. /\ payload' = payload /\ claimed' = claimed /\ Intact' = Intact /\ Made' = Made
        /\ Readable' = Readable
    BY <2>1 DEF payload, claimed, Intact, Made, Readable
  <2>3. AcceptsResponse(wire) <=>
          /\ Intact /\ Readable /\ claimed.key = Server /\ maker.text = payload
          /\ Fresh(now, payload.ts) /\ payload.nonce \notin nonceStore
    BY <1>1, <2>1, ReadersExactly
  <2>4. Near(now, payload.ts) => Fresh(now, payload.ts)
    BY <1>1, <2>1, FreshnessCorrect DEF Inv, TypeOK
  <2>5. Intact => maker.by = claimed.key
    BY DEF Intact
  <2>6. CASE AcceptsResponse(wire)
    <3>1. verified' = "accepted" /\ nonceStore' = nonceStore \cup {payload.nonce}
      BY <1>5, <2>6 DEF VerifyResponse, Recorded, payload
    <3>2. TypeOK'
      BY <1>1, <2>1, <3>1 DEF Inv, TypeOK
    <3>3. AcceptedIsSigned' /\ RoundTrip'
      BY <2>1, <2>2, <2>3, <2>5, <2>6, <3>1 DEF AcceptedIsSigned, RoundTrip
    <3> QED BY <1>1, <2>1, <2>2, <3>2, <3>3 DEF Inv
  <2>7. CASE ~AcceptsResponse(wire)
    <3>1. verified' = "rejected" /\ nonceStore' = nonceStore
      BY <1>5, <2>7 DEF VerifyResponse
    <3>2. TypeOK'
      BY <1>1, <2>1, <3>1 DEF Inv, TypeOK
    <3>3. Reused' <=> payload.nonce \in nonceStore
      BY <2>2, <3>1 DEF Reused
    <3>4. AcceptedIsSigned' /\ RoundTrip'
      BY <2>1, <2>2, <2>3, <2>4, <2>7, <3>1, <3>3 DEF AcceptedIsSigned, RoundTrip
    <3> QED BY <1>1, <2>1, <2>2, <3>2, <3>4 DEF Inv
  <2> QED BY <2>6, <2>7
<1>6. CASE EnvelopeDecrypt
  <2>1. /\ pc = "decrypt" /\ pc' = "done" /\ exit' = IF Decrypts(wire) THEN "0" ELSE "2"
        /\ UNCHANGED <<now, nonceStore, wire, maker, damaged, verified>>
    BY <1>6 DEF EnvelopeDecrypt
  <2>2. /\ payload' = payload /\ claimed' = claimed /\ Intact' = Intact /\ Made' = Made
        /\ Reused' = Reused /\ Full' = Full /\ Readable' = Readable
    BY <2>1 DEF payload, claimed, Intact, Made, Reused, Full, Readable
  <2>3. Decrypts(wire) <=> Intact /\ Full /\ maker.text = canonicalize(payload)
    BY <1>1, <2>1, ReadersExactly
  <2>4. canonicalize(payload)' = canonicalize(payload)
    BY <2>2 DEF canonicalize
  <2>5. AcceptedIsSigned' /\ RoundTrip'
    BY <2>1, <2>2, <2>3, <2>4 DEF Inv, AcceptedIsSigned, RoundTrip
  <2>6. TypeOK'
    BY <1>1, <2>1 DEF Inv, TypeOK
  <2> QED BY <1>1, <2>1, <2>2, <2>5, <2>6 DEF Inv
<1>7. CASE UNCHANGED vars
  BY <1>7 DEF vars, Inv, TypeOK, Made, AcceptedIsSigned, RoundTrip, Intact, claimed, payload,
              Full, Reused, Readable
<1>8. CASE ReSeal
  BY <1>8, ReSealStep
<1> QED BY <1>2, <1>3, <1>4, <1>5, <1>6, <1>7, <1>8 DEF Next

LEMMA Invariance == Spec => []Inv
  BY InitInv, InvStep, PTL DEF Spec

\* The variables keep their types.
THEOREM TypeCorrect == Spec => []TypeOK
<1>1. Inv => TypeOK
  BY DEF Inv
<1> QED BY <1>1, Invariance, PTL

\* What a reader accepts was signed by the key claimed, for this protocol, and
\* sealed for the device by whoever sealed it last; VerifyResponse takes the
\* server's word only.
THEOREM AcceptanceSafe == Spec => []AcceptedIsSigned
<1>1. Inv => AcceptedIsSigned
  BY DEF Inv
<1> QED BY <1>1, Invariance, PTL

\* What is made, and comes in one piece, is read.
THEOREM RoundTripSafe == Spec => []RoundTrip
<1>1. Inv => RoundTrip
  BY DEF Inv
<1> QED BY <1>1, Invariance, PTL

\* Where the two readers part: over fields that only one of them asks for, the form
\* of the text, and line breaks in the text of the key.
THEOREM ReadersSafe == Spec => []ReadersAgree
<1>1. Inv => ReadersAgree
  <2> SUFFICES ASSUME Inv, pc = "done", claimed.key = Server, Near(now, payload.ts), ~Reused
               PROVE  /\ verified = "accepted" => (exit = "0" <=> Full /\ payload.canonical)
                      /\ exit = "0" => (verified = "accepted" <=> payload.canonical /\ Readable)
    BY DEF ReadersAgree
  <2>1. payload \in Text
    BY DEF Inv, TypeOK, Wire, InnerEnvelope, payload
  <2>2. exit \in {"0", "2"} /\ verified \in {"accepted", "rejected"}
    BY DEF Inv, TypeOK
  <2>3. canonicalize(payload) = payload <=> payload.canonical
    BY <2>1 DEF canonicalize, Text
  <2>4. CASE verified = "accepted"
    BY <2>2, <2>3, <2>4 DEF Inv, AcceptedIsSigned, RoundTrip
  <2>5. CASE exit = "0"
    BY <2>2, <2>3, <2>5 DEF Inv, AcceptedIsSigned, RoundTrip
  <2> QED BY <2>4, <2>5
<1> QED BY <1>1, Invariance, PTL

\* The freshness test is the one the models of the commands use, but for a single
\* stamp.
THEOREM FreshnessSafe == Spec => []FreshIsNear
<1>1. Inv => FreshIsNear
  BY FreshnessCorrect DEF Inv, TypeOK, Wire, InnerEnvelope, Text, payload, FreshIsNear
<1> QED BY <1>1, Invariance, PTL
=============================================================================
