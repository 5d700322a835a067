----------------------------- MODULE MCListener -----------------------------
(* Instances of Listener for TLC. *)
EXTENDS Listener, TLC

\* Nonces are interchangeable (safety runs only).
Symmetry == Permutations(Nonce)
=============================================================================
