------------------------------ MODULE Envelope ------------------------------
(***************************************************************************)
(* An envelope from end to end: a payload is signed behind a domain tag,   *)
(* put beside the signer's key, sealed for a recipient, perhaps opened and *)
(* sealed again for another one, carried, and read by the two readers of   *)
(* the program: VerifyResponse, with which listen and the responding       *)
(* commands take what the paired server sends, and `crypto-sign            *)
(* envelope-decrypt`, which has a second copy of the decryption.  Both     *)
(* read the same bytes here.                                               *)
(*                                                                         *)
(* Bytes are terms: what is derived from different inputs is different,    *)
(* and a sealed box opens under its own key only.  EnvelopeSignature has   *)
(* the keys' encodings and the signatures below this.  (A definition whose *)
(* name says what it gets wrong is a mutation of the next one; see         *)
(* DeviceState.)                                                           *)
(***************************************************************************)
EXTENDS Freshness, Sequences

CONSTANTS
    Key,        \* key pairs, the ephemeral ones among them
    Device,     \* the readers' key
    Server,     \* the key of the paired server
    Char, Nul,  \* the characters of domain tags; Nul ends a tag
    ConvName,   \* SIGIL-CONV-V1
    Name,       \* it and the other names a tag is made from
    Lead,       \* what a message may have before the text of a payload
    Nonce       \* response nonces

\* The arguments of a command have no NUL in them.
ASSUME EnvelopeAssumption ==
    /\ Device \in Key /\ Server \in Key
    /\ Nul \in Char /\ Name \subseteq Seq(Char \ {Nul}) /\ ConvName \in Name
    /\ Lead \subseteq Seq(Char)

\* The text of a payload: whether it is in the canonical form of RFC 8785; which
\* readers it suits, "response" when it parses as a ResponsePayload, "request" when
\* it parses as what envelope-decrypt takes, with action, nonce, audience and a
\* body that is not null; its stamp, its nonce.  Neither implies the other: a
\* status that is a number is nothing to the second, nor is a missing action to
\* the first.
Text == [canonical : BOOLEAN, suits : SUBSET {"response", "request"}, ts : Int64, nonce : Nonce]

\* What is signed: the bytes in front, then the text.
Message == [head : Seq(Char), text : Text]
Signature == [by : Key, over : Message]

\* The text of a key: plain base64, or the same with line breaks, which decode alike
\* (EnvelopeSignature has these texts, and those that do not decode).
KeyText == [key : Key, plain : BOOLEAN]
InnerEnvelope == [claimed : KeyText, payload : Text, signature : Signature]

VARIABLES
    pc,         \* make, carry, verify, decrypt, done
    now,        \* the device's clock
    nonceStore, \* the nonces VerifyResponse has accepted before
    wire,       \* the envelope
    maker,      \* history: who signed which text behind which name and lead
    damaged,    \* history: whether the envelope changed on its way
    verified,   \* what VerifyResponse says: nothing, accepted, rejected
    exit        \* the exit code of envelope-decrypt: none, 0, 2

vars == <<pc, now, nonceStore, wire, maker, damaged, verified, exit>>

-----------------------------------------------------------------------------
(* Signing.                                                                 *)

\* domainConvV1, a literal that ends in NUL.
ConvTag == Append(ConvName, Nul)

\* So do DomainMPA and DomainDecrypt.
DomainTag(name) == Append(name, Nul)

\* A tag of `crypto-sign custom`: the NUL is appended to what is given.
TagAsGiven(name) == name
Tag(name) == Append(name, Nul)

\* SignWithDomain.
SignWithDomain(key, tag, lead, text) ==
    [by |-> key, over |-> [head |-> tag \o lead, text |-> text]]

\* `crypto-sign mpa` and `decrypt`: any message, a tag of their own.
cmdCryptoSignFixed(key, name, lead, text) == SignWithDomain(key, DomainTag(name), lead, text)

\* `crypto-sign custom`: any message, any name.
cmdCryptoSignCustom(key, name, lead, text) == SignWithDomain(key, Tag(name), lead, text)

\* crypto.Verify with a key.
Verifies(key, sig, head, text) == sig = [by |-> key, over |-> [head |-> head, text |-> text]]

\* The canonical form, by the library of the envelope package and by that of the
\* test harness.  Both are taken to do what RFC 8785 says, on texts that have such
\* a form and whose numbers a double holds (stamps up to 2^53).
canonicalize(text) == [text EXCEPT !.canonical = TRUE]
Transform(text) == [text EXCEPT !.canonical = TRUE]

-----------------------------------------------------------------------------
(* Sealing.                                                                 *)

\* The AES key: HKDF of the secret that either key of two gives with the other's
\* public part, with the fingerprint of the recipient's as salt.
SealKey(ephemeral, recipient) == [secret |-> {ephemeral, recipient}, salt |-> recipient]

eciesEncrypt(ephemeral, recipient, inner) ==
    [short |-> FALSE, ephemeral |-> ephemeral, whole |-> TRUE,
     key |-> SealKey(ephemeral, recipient), aad |-> ephemeral, inner |-> inner]

\* Whether gcm.Open succeeds.
Opens(w, key, aad) == w.whole /\ w.key = key /\ w.aad = aad

eciesDecrypt(recipient, w) ==
    ~w.short /\ Opens(w, SealKey(w.ephemeral, recipient), w.ephemeral)

\* The copy in the test harness.  At one time it had another aad.
decryptECIESBySalt(recipient, w) ==
    ~w.short /\ Opens(w, SealKey(w.ephemeral, recipient), recipient)
decryptECIES(recipient, w) ==
    ~w.short /\ Opens(w, SealKey(w.ephemeral, recipient), w.ephemeral)

Wire == [short : BOOLEAN, ephemeral : Key, whole : BOOLEAN,
         key : [secret : SUBSET Key, salt : Key], aad : Key, inner : InnerEnvelope]
NoWire == [short |-> TRUE]
Maker == [by : Key, name : Name, lead : Lead \cup {<<>>}, text : Text]
NoMaker == [by |-> "nobody"]

Init ==
    /\ pc = "make"
    /\ now \in Clock /\ nonceStore \in SUBSET Nonce
    /\ wire = NoWire /\ maker = NoMaker /\ damaged = FALSE
    /\ verified = "nothing" /\ exit = "none"

Make(signer, bears, name, lead, signed, text, recipient, sig) ==
    /\ pc' = "carry"
    /\ \E e \in Key \ {recipient} :
         wire' = eciesEncrypt(e, recipient, [claimed |-> bears, payload |-> text,
                                             signature |-> sig])
    /\ maker' = [by |-> signer, name |-> name, lead |-> lead, text |-> signed]
    /\ UNCHANGED <<now, nonceStore, damaged, verified, exit>>

\* CreateRequest: the clock is that of the machine it runs on.
CreateRequest(sender, recipient, suits) ==
    \E t \in Clock, n \in Nonce :
        LET text == canonicalize([canonical |-> FALSE, suits |-> suits, ts |-> t, nonce |-> n])
        IN Make(sender, [key |-> sender, plain |-> TRUE], ConvName, <<>>, text, text, recipient,
                SignWithDomain(sender, ConvTag, <<>>, text))

\* `envelope-encrypt`, where the body is the payload given: `null` makes a body
\* that is null, and so no request.  (The responding commands are the case of the
\* device's key, the server's and a body.)
EnvelopeEncrypt ==
    /\ pc = "make"
    /\ \E sender, recipient \in Key, suits \in {{"response"}, {"response", "request"}} :
         CreateRequest(sender, recipient, suits)

\* What a payload may become between signing and sealing: another form, another
\* content.
Variants(text) ==
    {text, [text EXCEPT !.canonical = ~text.canonical],
     [text EXCEPT !.suits = {"response", "request"} \ text.suits]}

\* A server's response, or an envelope put together from a signature that
\* `crypto-sign` made, or that came in another envelope: any text, any key, any tag,
\* any bytes before the text.  The names of the fixed tags are others than the
\* protocol's.
Assemble ==
    /\ pc = "make"
    /\ \E signer, recipient \in Key, bears \in KeyText, name \in Name, lead \in Lead, text \in Text :
      \E sent \in Variants(text),
         sig \in {cmdCryptoSignCustom(signer, name, lead, text)}
                  \cup {cmdCryptoSignFixed(signer, n, lead, text) : n \in {name} \ {ConvName}} :
        Make(signer, bears, name, lead, text, sent, recipient, sig)

\* Whoever can open an envelope may seal what is in it again, for any key: nothing
\* in it that a reader looks at says for whom it was signed (the audience of a
\* request is compared with nothing).
ReSeal ==
    /\ pc = "carry"
    /\ \E holder, recipient \in Key :
         /\ eciesDecrypt(holder, wire)
         /\ \E e \in Key \ {recipient} : wire' = eciesEncrypt(e, recipient, wire.inner)
    /\ UNCHANGED <<pc, now, nonceStore, maker, damaged, verified, exit>>

\* On its way it may be cut short, have its ephemeral key replaced, or have the
\* ciphertext or its tag changed.
Damages(w) ==
    {[w EXCEPT !.short = TRUE], [w EXCEPT !.whole = FALSE]}
        \cup {[w EXCEPT !.ephemeral = k] : k \in Key \ {w.ephemeral}}

Carry ==
    /\ pc = "carry" /\ pc' = "verify"
    /\ \/ UNCHANGED <<wire, damaged>>
       \/ wire' \in Damages(wire) /\ damaged' = TRUE
    /\ UNCHANGED <<now, nonceStore, maker, verified, exit>>

-----------------------------------------------------------------------------
\* VerifyResponse: the text of the key must be that of the server's, the signature
\* is checked over the payload as it is, which must parse as a response; the stamp
\* must be fresh and the nonce new.
AcceptsResponse(w) ==
    /\ eciesDecrypt(Device, w)
    /\ w.inner.claimed = [key |-> Server, plain |-> TRUE]
    /\ Verifies(w.inner.claimed.key, w.inner.signature, ConvTag, w.inner.payload)
    /\ "response" \in w.inner.payload.suits
    /\ Fresh(now, w.inner.payload.ts)
    /\ w.inner.payload.nonce \notin nonceStore

\* What goes into the store.
RecordedText(text) == {text}
Recorded(text) == {text.nonce}

VerifyResponse ==
    /\ pc = "verify" /\ pc' = "decrypt"
    /\ \/ /\ AcceptsResponse(wire)
          /\ verified' = "accepted"
          /\ nonceStore' = nonceStore \cup Recorded(wire.inner.payload)
       \/ /\ ~AcceptsResponse(wire)
          /\ verified' = "rejected" /\ UNCHANGED nonceStore
    /\ UNCHANGED <<now, wire, maker, damaged, exit>>

\* cmdEnvelopeDecrypt: any key may be claimed, in a text with line breaks too,
\* every field must be there, the signature is checked over the canonical form, the
\* stamp is not judged.
DecryptsAsIs(w) ==
    /\ decryptECIES(Device, w)
    /\ "request" \in w.inner.payload.suits /\ w.inner.payload.ts # 0
    /\ Verifies(w.inner.claimed.key, w.inner.signature, ConvTag, w.inner.payload)
Decrypts(w) ==
    /\ decryptECIES(Device, w)
    /\ "request" \in w.inner.payload.suits /\ w.inner.payload.ts # 0
    /\ Verifies(w.inner.claimed.key, w.inner.signature, ConvTag, Transform(w.inner.payload))

EnvelopeDecrypt ==
    /\ pc = "decrypt" /\ pc' = "done"
    /\ exit' = IF Decrypts(wire) THEN "0" ELSE "2"
    /\ UNCHANGED <<now, nonceStore, wire, maker, damaged, verified>>

Next == EnvelopeEncrypt \/ Assemble \/ ReSeal \/ Carry \/ VerifyResponse \/ EnvelopeDecrypt

Spec == Init /\ [][Next]_vars

-----------------------------------------------------------------------------
payload == wire.inner.payload
claimed == wire.inner.claimed

\* An envelope that came in one piece, sealed for the device by whoever sealed it
\* last, with the signer's key beside the signer's signature as one of this
\* protocol.
Intact ==
    /\ ~damaged /\ wire.key = SealKey(wire.ephemeral, Device)
    /\ maker.by = claimed.key /\ maker.name = ConvName /\ maker.lead = <<>>

\* VerifyResponse has met the nonce before.
Reused == verified = "rejected" /\ payload.nonce \in nonceStore

\* A payload that has what envelope-decrypt asks for.
Full == "request" \in payload.suits /\ payload.ts # 0

\* Type invariant.
TypeOK ==
    /\ pc \in {"make", "carry", "verify", "decrypt", "done"}
    /\ now \in Clock /\ nonceStore \subseteq Nonce
    /\ IF pc = "make" THEN wire = NoWire /\ maker = NoMaker
       ELSE wire \in Wire /\ maker \in Maker
    /\ damaged \in BOOLEAN
    /\ verified \in {"nothing", "accepted", "rejected"} /\ exit \in {"none", "0", "2"}

\* What VerifyResponse can do with a payload and its key.
Readable == "response" \in payload.suits /\ claimed.plain

\* What a reader accepts was signed by the key the envelope bears, for this
\* protocol: VerifyResponse takes only the server's word, as it was written;
\* envelope-decrypt prints the form that was signed.  No signature under another
\* tag will do, whatever bytes it is over.  That the envelope opens says that
\* somebody sealed it for the device, and not that the signer did (ReSeal).
AcceptedIsSigned ==
    /\ verified = "accepted" =>
         Intact /\ Readable /\ maker.by = Server /\ maker.text = payload
    /\ exit = "0" => Intact /\ Full /\ maker.text = canonicalize(payload)

\* What is made is read: an envelope in one piece is accepted by VerifyResponse
\* when it is the server's, timely, new and readable, and by envelope-decrypt when
\* it is full and signed in canonical form.  So every envelope of CreateRequest
\* opens for whom it is sealed for, but for one whose payload was null.
RoundTrip ==
    /\ (verified = "rejected" /\ Intact /\ maker.text = payload /\ Readable)
         => claimed.key # Server \/ ~Near(now, payload.ts) \/ Reused
    /\ (exit = "2" /\ Intact /\ maker.text = canonicalize(payload)) => ~Full

\* Where the two readers part, on an envelope that bears the server's key and is
\* timely and new.  What VerifyResponse accepts, envelope-decrypt accepts exactly
\* when it is full and canonical; what envelope-decrypt accepts, VerifyResponse
\* accepts exactly when it is canonical, parses as a response and the text of its
\* key has no line break.
ReadersAgree ==
    (pc = "done" /\ claimed.key = Server /\ Near(now, payload.ts) /\ ~Reused) =>
        /\ verified = "accepted" => (exit = "0" <=> Full /\ payload.canonical)
        /\ exit = "0" => (verified = "accepted" <=> payload.canonical /\ Readable)

\* The freshness test accepts every stamp within the window, before or after the
\* clock, and of all the others exactly one: that which lies 2^63 seconds back,
\* whose distance is math.MinInt64.
FreshIsNear ==
    pc # "make" => (Fresh(now, payload.ts) <=> (Near(now, payload.ts) \/ now - payload.ts = Half))
=============================================================================
