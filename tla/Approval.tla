------------------------------ MODULE Approval ------------------------------
(***************************************************************************)
(* What responding promises, without files, bytes, servers or clocks.  One *)
(* request is answered by one run.  Whether the user is to be asked is a   *)
(* matter of how the run was started, not of the request.  The user is     *)
(* asked about vouched requests only; without the user's yes an attended   *)
(* run lets nothing out; what leaves, leaves once, and nothing leaves      *)
(* after the verdict, which is given once and never taken back.  Respond   *)
(* implements this.                                                        *)
(***************************************************************************)
CONSTANTS
    Request,
    Vouched     \* those with a text of the other side, for this device, under its
                \* id; what kind of answer was meant, a vouched text does not say

VARIABLES
    request,
    attended,   \* the run is one that asks the user
    said,       \* nothing, yes, no
    approved,   \* an answer may leave
    left,       \* an answer has left
    verdict     \* none, declined, answered, failed

vars == <<request, attended, said, approved, left, verdict>>

Init ==
    /\ request \in Request /\ attended \in BOOLEAN
    /\ said = "nothing" /\ approved = FALSE /\ left = FALSE /\ verdict = "none"

Undecided == verdict = "none" /\ ~approved /\ request \in Vouched

Approve ==
    /\ Undecided
    /\ said' = IF attended THEN "yes" ELSE said
    /\ approved' = TRUE
    /\ UNCHANGED <<request, attended, left, verdict>>

Decline ==
    /\ Undecided /\ attended
    /\ said' \in {"nothing", "no"} /\ verdict' = "declined"
    /\ UNCHANGED <<request, attended, approved, left>>

Leave ==
    /\ approved /\ ~left /\ verdict = "none"
    /\ left' = TRUE
    /\ UNCHANGED <<request, attended, said, approved, verdict>>

Succeed ==
    /\ left /\ verdict = "none"
    /\ verdict' = "answered"
    /\ UNCHANGED <<request, attended, said, approved, left>>

Fail ==
    /\ verdict = "none"
    /\ verdict' = "failed"
    /\ UNCHANGED <<request, attended, said, approved, left>>

Next == Approve \/ Decline \/ Leave \/ Succeed \/ Fail

Spec == Init /\ [][Next]_vars
-----------------------------------------------------------------------------
\* What one may conclude from what is seen outside: an answer is one to a vouched
\* request that, in an attended run, the user said yes to; "answered" means that one
\* has left, "declined" that none has or will; nobody says yes or no to what is not
\* vouched for.
Promise ==
    /\ left => approved
    /\ approved => request \in Vouched /\ (attended => said = "yes")
    /\ said # "nothing" => request \in Vouched
    /\ verdict = "answered" => left
    /\ verdict = "declined" => ~approved /\ attended
=============================================================================
