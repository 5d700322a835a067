----------------------------- MODULE MCRespond -----------------------------
(* Instances of Respond for TLC. *)
EXTENDS Respond
=============================================================================
