--------------------------- MODULE PairingCommit ---------------------------
(***************************************************************************)
(* What pairing promises, without files, processes or messages: the user   *)
(* confirms a pairing, then the other side commits it, and only then may   *)
(* the device hold it.  A commitment that the device never learns of is    *)
(* allowed (the answer of /pair/complete can be lost), and so is           *)
(* forgetting; nothing else is.  DeviceState implements this for the state *)
(* directory, PairHandshake for the messages.                              *)
(***************************************************************************)
CONSTANTS
    Agreement,  \* what can be agreed: who with whom, and how to reach them
    Nothing     \* what a device without a pairing holds

VARIABLES
    confirmed,  \* agreements the user has said yes to
    committed,  \* agreements the other side has committed
    held        \* what the device holds

vars == <<confirmed, committed, held>>

Init == confirmed = {} /\ committed = {} /\ held = Nothing

Confirm(a) ==
    /\ confirmed' = confirmed \cup {a}
    /\ UNCHANGED <<committed, held>>

Commit(a) ==
    /\ a \in confirmed
    /\ committed' = committed \cup {a}
    /\ UNCHANGED <<confirmed, held>>

Hold(a) ==
    /\ a \in committed
    /\ held' = a
    /\ UNCHANGED <<confirmed, committed>>

Forget ==
    /\ held' = Nothing
    /\ UNCHANGED <<confirmed, committed>>

Next == Forget \/ \E a \in Agreement : Confirm(a) \/ Commit(a) \/ Hold(a)

Spec == Init /\ [][Next]_vars

-----------------------------------------------------------------------------
\* What is held was committed, and what was committed the user had confirmed.
Promise ==
    /\ committed \subseteq confirmed
    /\ held # Nothing => held \in committed
=============================================================================
