--------------------------- MODULE MCDeviceState ---------------------------
(* Instances of DeviceState for TLC. *)
EXTENDS DeviceState, TLC

\* Interchangeable values (safety runs only).
Symmetry == Permutations(Proc) \cup Permutations(Key) \cup Permutations(ServerKey)
=============================================================================
