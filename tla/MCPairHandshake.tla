-------------------------- MODULE MCPairHandshake --------------------------
(* Instances of PairHandshake for TLC. *)
EXTENDS PairHandshake, FiniteSets, TLC

CONSTANTS h1, h2, x

MCKey == {h1, h2, x}
MCHomeKey == {h1, h2}

\* Words are what they are derived from: no two sessions share them.
MCWords == MCKey \X Device \X Nonce
MCDigest == [s \in Session |-> <<s.key, s.client, s.nonce>>]

Symmetry == Permutations(Device) \cup Permutations(Nonce) \cup Permutations(MCHomeKey)

-----------------------------------------------------------------------------
\* The indices against their reference, on bytes that show a shift or a mask
\* that is off.  (The first byte is below 128: TLC's integers have 32 bits.)
P == INSTANCE Pictogram
Top == {0, 4, 67, 127}
Low == {0, 1, 3, 64, 128, 255}
ASSUME PictogramAgrees ==
    \A b \in {<<p, q, r, s>> : p \in Top, q, r, s \in Low} :
        P!Derive(b) = [i \in 1..5 |-> P!SixBits(b, i)]
ASSUME FingerprintAgrees ==
    /\ P!FromFingerprint(FALSE, <<1, 2, 3, 4>>) = <<>>
    /\ P!FromFingerprint(TRUE, <<1, 2, 3>>) = <<>>
    /\ P!FromFingerprint(TRUE, <<1, 2, 3, 4, 5>>) = P!Derive(<<1, 2, 3, 4>>)
ASSUME PoolCount ==
    \A i \in {0, 63, 64, 191} :
        Cardinality({n \in 0..65535 : P!PoolIndex(n) = i}) = IF i < 64 THEN 342 ELSE 341
=============================================================================
