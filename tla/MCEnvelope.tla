----------------------------- MODULE MCEnvelope -----------------------------
(* Instances of Envelope for TLC. *)
EXTENDS Envelope

CONSTANTS C, V      \* the two characters of the protocol's name

MCChar == {C, V, Nul}
MCConvName == <<C, V>>

\* The protocol's name, and one that it starts with.
MCName == {<<C, V>>, <<C>>}

\* No bytes, and those that complete the shorter name to the protocol's tag.
MCLead == {<<>>, <<V, Nul>>}
=============================================================================
