------------------------ MODULE MCEnvelopeSignature ------------------------
(* Instances of EnvelopeSignature for TLC. *)
EXTENDS EnvelopeSignature
=============================================================================
