--------------------------- MODULE RespondProofs ---------------------------
(***************************************************************************)
(* What a respond, mpa-respond or decrypt command lets out, and what its   *)
(* exit code 0 means, for every window, clock skew and length of the run.  *)
(***************************************************************************)
EXTENDS Respond, TLAPS

\* What is known of a request once it has been read and verified: its text is
\* vouched for and unaltered where there is a ciphertext, its fields are those of
\* the command, and a challenge is one on both sides.
Admitted ==
    /\ job.req \in Vouched /\ job.req.form = job.command
    /\ job.command # "challenge" => job.req.altered = "no"
    /\ job.command = "challenge" <=> job.req.kind = "challenge"

\* And, for mpa-respond, that its prompt or the command line has approved it.
Entitled == Admitted /\ (job.command = "mpa" => job.auto \/ said = "yes")

\* The inductive invariant: the user is asked about admitted requests only,
\* entitlement is established before "signing" and kept, an envelope is always for
\* the request of the job, nothing has left before "posting", a verdict is there
\* exactly at the end, and only the paired server answers what was posted.
Inv ==
    /\ pc = "verifying" => job.req.form = job.command
    /\ pc \in {"signing", "posting"} => Entitled
    /\ posted.sent \in BOOLEAN
    /\ posted.sent => posted.req = job.req /\ posted.as = job.command /\ Entitled
    /\ pc = "prompt" => job.command = "mpa" /\ ~job.auto /\ Admitted
    /\ pc \in {"reading", "verifying", "prompt", "signing"} => ~posted.sent /\ exit = "none"
    /\ pc = "posting" => posted.sent /\ exit = "none"
    /\ pc = "exited" => exit # "none"
    /\ answer.to = "this" => job.target = "paired"
    /\ TypeOK /\ ZeroMeansAnswered

\* The types, step by step.
LEMMA TypeStep == TypeOK /\ [Next]_vars => TypeOK'
<1> USE RespondAssumption
<1> SUFFICES ASSUME TypeOK, [Next]_vars PROVE TypeOK'
  OBVIOUS
<1> USE DEF TypeOK, Exit
<1>1. CASE Read
  BY <1>1 DEF Read
<1>2. CASE Verify
  BY <1>2 DEF Verify
<1>3. CASE Prompt
  BY <1>3 DEF Prompt, Replies
<1>4. CASE Post
  BY <1>4 DEF Post, Job
<1>5. CASE Receive
  BY <1>5 DEF Receive
<1>6. CASE ReceiveUnusable
  BY <1>6 DEF ReceiveUnusable, UnusableExit
<1>7. CASE ServerAnswers
  <2>1. clock \in Int
    BY Z3
  <2>2. PICK s \in {"accepted", "rejected"}, t \in (clock - Skew)..(clock + Skew) :
           answer' = [status |-> s, ts |-> t, to |-> "this"]
    BY <1>7 DEF ServerAnswers
  <2>3. t \in Int
    BY <2>1
  <2>4. answer' \in Answer
    BY <2>2, <2>3 DEF Answer
  <2>5. UNCHANGED <<pc, job, said, exit, posted, clock>>
    BY <1>7 DEF ServerAnswers
  <2> QED BY <2>4, <2>5
<1>8. CASE EarlierAnswer
  <2>1. clock \in Int
    BY Z3
  <2>2. PICK s \in {"accepted", "rejected"}, t \in (clock - Skew - FreshWindow - 1)..(clock + Skew) :
           answer' = [status |-> s, ts |-> t, to |-> "another"]
    BY <1>8 DEF EarlierAnswer
  <2>3. t \in Int
    BY <2>1
  <2>4. answer' \in Answer
    BY <2>2, <2>3 DEF Answer
  <2>5. UNCHANGED <<pc, job, said, exit, posted, clock>>
    BY <1>8 DEF EarlierAnswer
  <2> QED BY <2>4, <2>5
<1>9. CASE Tick
  <2>1. clock' \in 0..MaxClock
    BY <1>9, Z3 DEF Tick
  <2>2. UNCHANGED <<pc, job, said, exit, posted, answer>>
    BY <1>9 DEF Tick
  <2> QED BY <2>1, <2>2
<1>10. CASE UNCHANGED vars
  BY <1>10 DEF vars
<1> QED BY <1>1, <1>2, <1>3, <1>4, <1>5, <1>6, <1>7, <1>8, <1>9, <1>10 DEF Next

\* It holds initially.
LEMMA InitInv == Init => Inv
  BY RespondAssumption DEF Init, Inv, TypeOK, NoEnvelope, NoAnswer, ZeroMeansAnswered

\* Distance is one.
LEMMA FreshIsNear ==
  ASSUME clock \in Int, answer.ts \in Int
  PROVE  Fresh(answer) <=> clock - answer.ts <= FreshWindow /\ answer.ts - clock <= FreshWindow
  BY RespondAssumption DEF Fresh, Distance

\* Every step keeps it.
LEMMA InvStep == Inv /\ [Next]_vars => Inv'
<1> SUFFICES ASSUME Inv, [Next]_vars PROVE Inv'
  OBVIOUS
<1>0. TypeOK'
  BY TypeStep DEF Inv
<1> USE <1>0 DEF Inv, Entitled, Admitted, ZeroMeansAnswered, Exit
<1>1. CASE Read
  BY <1>1 DEF Read, Complete
<1>2. CASE Verify
  <2>1. job.req \in Request /\ job.command \in Kind
    BY DEF TypeOK, Job
  <2>2. ASSUME Admits(job.command, job.req)
        PROVE  /\ job.req \in Vouched
               /\ job.command # "challenge" => job.req.altered = "no"
               /\ job.command = "challenge" <=> job.req.kind = "challenge"
    <3>1. job.command = "challenge" <=> job.req.kind = "challenge"
      BY <2>1, <2>2 DEF Admits, SignatureVerifies, Signed, Checked, SignedText, Kind, Request
    <3> QED BY <2>1, <2>2, <3>1 DEF Admits, SignatureVerifies, Opens, Vouched, Request
  <2> QED BY <1>2, <2>2 DEF Verify
<1>3. CASE Prompt
  BY <1>3 DEF Prompt, Replies, GoesAhead
<1>4. CASE Post
  BY <1>4 DEF Post
<1>5. CASE Receive
  <2>1. clock \in Int /\ answer.ts \in Int
    BY <1>5 DEF Receive, TypeOK, Answer, NoAnswer
  <2>2. Fresh(answer) => clock - answer.ts <= FreshWindow /\ answer.ts - clock <= FreshWindow
    BY <2>1, FreshIsNear
  <2> QED BY <1>5, <2>2 DEF Receive
<1>6. CASE ReceiveUnusable
  BY <1>6 DEF ReceiveUnusable, UnusableExit
<1>7. CASE ServerAnswers
  BY <1>7 DEF ServerAnswers
<1>8. CASE EarlierAnswer
  BY <1>8 DEF EarlierAnswer
<1>9. CASE Tick
  <2>1. UNCHANGED <<pc, job, said, exit, posted, answer>> /\ pc # "exited"
    BY <1>9 DEF Tick
  <2>2. exit = "none"
    BY <2>1, Zenon DEF TypeOK
  <2> QED BY <2>1, <2>2
<1>10. CASE UNCHANGED vars
  BY <1>10 DEF vars
<1> QED BY <1>1, <1>2, <1>3, <1>4, <1>5, <1>6, <1>7, <1>8, <1>9, <1>10 DEF Next

\* Only what the paired server signed is signed or decrypted and sent, an action
\* only when the user or --auto-approve let it pass; a request made as mpa gets by
\* them only under the names of a decrypt request.
THEOREM ApprovalSafe == Spec => []OnlyApprovedLeaves
<1>1. Inv => OnlyApprovedLeaves
  <2> SUFFICES ASSUME Inv, posted.sent PROVE OnlyApprovedLeaves
    BY DEF OnlyApprovedLeaves
  <2>1. /\ posted.req = job.req /\ posted.as = job.command /\ job.req \in Vouched
        /\ job.req.form = job.command /\ job.command \in Kind
        /\ job.command = "challenge" <=> job.req.kind = "challenge"
        /\ job.command = "mpa" => job.auto \/ said = "yes"
    BY DEF Inv, Entitled, Admitted, TypeOK, Job
  <2> QED BY <2>1 DEF OnlyApprovedLeaves, Vouched, Kind
<1> QED BY <1>1, InitInv, InvStep, PTL DEF Spec

\* A decrypted text, or the signature over one, leaves beside the id it came
\* under.
THEOREM IdSafe == Spec => []IdIsServers
<1>1. Inv => IdIsServers
  BY DEF Inv, Entitled, Admitted, IdIsServers
<1> QED BY <1>1, InitInv, InvStep, PTL DEF Spec

\* Exit code 0 is a declined mpa request or an answer of the paired server.
THEOREM ExitZeroSafe == Spec => []ZeroMeansAnswered
<1>1. Inv => ZeroMeansAnswered
  BY DEF Inv
<1> QED BY <1>1, InitInv, InvStep, PTL DEF Spec

\* The variables keep their types, whatever the bounds.
THEOREM TypeCorrect == Spec => []TypeOK
<1>1. Inv => TypeOK
  BY DEF Inv
<1> QED BY <1>1, InitInv, InvStep, PTL DEF Spec
-----------------------------------------------------------------------------
\* Every step is one of Approval's, or a stutter.
LEMMA ApprovalStep == Inv /\ Inv' /\ [Next]_vars => [Ap!Next]_(Ap!vars)
<1> SUFFICES ASSUME Inv, Inv', [Next]_vars PROVE Ap!Next \/ UNCHANGED Ap!vars
  OBVIOUS
<1>1. CASE Read
  <2>1. UNCHANGED <<job, said, posted>> /\ pc = "reading" /\ pc' # "signing" /\ exit = "none"
    BY <1>1 DEF Read, Exit, Inv
  <2>2. exit' = exit \/ exit' = "1"
    BY <1>1 DEF Read, Exit
  <2> QED BY <2>1, <2>2 DEF Ap!Next, Ap!Fail, Ap!vars, Verdict
<1>2. CASE Verify
  <2>1. UNCHANGED <<job, said, posted>> /\ pc = "verifying" /\ exit = "none" /\ ~posted.sent
    BY <1>2 DEF Verify, Inv
  <2>2. CASE exit' = "1"
    <3>1. pc' # "signing"
      BY <2>2 DEF Inv
    <3> QED BY <2>1, <2>2, <3>1 DEF Ap!Next, Ap!Fail, Verdict
  <2>3. CASE exit' = "none" /\ pc' = "prompt"
    BY <2>1, <2>3 DEF Ap!vars, Verdict
  <2>4. CASE exit' = "none" /\ pc' = "signing"
    <3>1. job.req \in Vouched /\ ~(job.command = "mpa" /\ ~job.auto)
      BY <1>2, <2>1, <2>4 DEF Verify, Exit, Inv, Entitled, Admitted
    <3> QED BY <2>1, <2>4, <3>1 DEF Ap!Next, Ap!Approve, Ap!Undecided, Verdict
  <2> QED BY <1>2, <2>1, <2>2, <2>3, <2>4 DEF Verify, Exit
<1>3. CASE Prompt
  <2>1. /\ UNCHANGED <<job, posted>> /\ pc = "prompt" /\ exit = "none" /\ ~posted.sent
        /\ job.command = "mpa" /\ ~job.auto /\ job.req \in Vouched
    BY <1>3 DEF Prompt, Inv, Admitted
  <2>2. CASE said' = "yes"
    <3>1. pc' = "signing" /\ exit' = exit
      BY <1>3, <2>2 DEF Prompt, GoesAhead
    <3> QED BY <2>1, <2>2, <3>1 DEF Ap!Next, Ap!Approve, Ap!Undecided, Verdict
  <2>3. CASE said' # "yes"
    <3>1. said' \in {"nothing", "no"} /\ pc' = "exited" /\ exit' = "0"
      BY <1>3, <2>3 DEF Prompt, GoesAhead, Replies, Exit
    <3> QED BY <2>1, <3>1 DEF Ap!Next, Ap!Decline, Ap!Undecided, Verdict
  <2> QED BY <2>2, <2>3
<1>4. CASE Post
  <2>1. UNCHANGED <<job, said, exit>> /\ pc = "signing" /\ exit = "none" /\ ~posted.sent
    BY <1>4 DEF Post, Inv
  <2>2. posted'.sent = TRUE
    BY <1>4 DEF Post
  <2> QED BY <2>1, <2>2 DEF Ap!Next, Ap!Leave, Verdict
<1>5. CASE Receive \/ ReceiveUnusable
  <2>1. /\ UNCHANGED <<job, said, posted>> /\ pc = "posting" /\ pc' = "exited"
        /\ exit = "none" /\ posted.sent
    BY <1>5 DEF Receive, ReceiveUnusable, Exit, Inv
  <2>2. exit' \in {"0", "1"}
    BY <1>5 DEF Receive, ReceiveUnusable, UnusableExit, Exit
  <2> QED BY <2>1, <2>2 DEF Ap!Next, Ap!Succeed, Ap!Fail, Verdict
<1>6. CASE ServerAnswers \/ EarlierAnswer \/ Tick
  <2>1. UNCHANGED <<pc, job, said, exit, posted>>
    BY <1>6 DEF ServerAnswers, EarlierAnswer, Tick
  <2> QED BY <2>1 DEF Ap!vars, Verdict
<1>7. CASE UNCHANGED vars
  BY <1>7 DEF vars, Ap!vars, Verdict
<1> QED BY <1>1, <1>2, <1>3, <1>4, <1>5, <1>6, <1>7 DEF Next

\* A run of a responding command implements Approval: at most one envelope, after
\* an approval of a vouched request and before the one verdict.
THEOREM Refinement == Spec => ImplementsApproval
<1>1. Init => Ap!Init
  <2> SUFFICES ASSUME Init PROVE Ap!Init
    OBVIOUS
  <2>1. job.req \in Request /\ posted.sent = FALSE
    BY DEF Init, Job, NoEnvelope
  <2> QED BY <2>1 DEF Init, Ap!Init, Verdict
<1> QED BY <1>1, InitInv, InvStep, ApprovalStep, PTL DEF Spec, Ap!Spec, ImplementsApproval

\* And so it keeps Approval's promise: who sees an answer, or the exit code, knows
\* what the user was asked and said.
THEOREM PromiseKept == Spec => []Ap!Promise
<1>1. Ap!Init => Ap!Promise
  BY DEF Ap!Init, Ap!Promise
<1>2. Ap!Promise /\ [Ap!Next]_(Ap!vars) => Ap!Promise'
  <2> SUFFICES ASSUME Ap!Promise, [Ap!Next]_(Ap!vars) PROVE Ap!Promise'
    OBVIOUS
  <2>1. CASE Ap!Approve
    BY <2>1 DEF Ap!Promise, Ap!Approve, Ap!Undecided
  <2>2. CASE Ap!Decline
    BY <2>2 DEF Ap!Promise, Ap!Decline, Ap!Undecided
  <2>3. CASE Ap!Leave \/ Ap!Succeed \/ Ap!Fail
    BY <2>3 DEF Ap!Promise, Ap!Leave, Ap!Succeed, Ap!Fail
  <2>4. CASE UNCHANGED Ap!vars
    BY <2>4 DEF Ap!Promise, Ap!vars
  <2> QED BY <2>1, <2>2, <2>3, <2>4 DEF Ap!Next
<1> QED BY <1>1, <1>2, Refinement, PTL DEF ImplementsApproval, Ap!Spec
=============================================================================
