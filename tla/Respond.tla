------------------------------ MODULE Respond ------------------------------
(***************************************************************************)
(* One invocation of respond, mpa-respond or decrypt, once it has the key  *)
(* and a paired State: it reads a request, verifies it, may ask the user,  *)
(* signs or decrypts, posts an envelope and judges the answer.  The three  *)
(* commands share everything but the fields they read, what they verify    *)
(* and open, and, for mpa, the prompt.  The paired server, the server that *)
(* --server may name instead, the user and the transport are the           *)
(* environment.  (A definition whose name says what it gets wrong is a     *)
(* mutation of the next one; see DeviceState.)                             *)
(***************************************************************************)
EXTENDS Integers

CONSTANTS
    FreshWindow,    \* 300 seconds in VerifyResponse
    Skew,           \* how far the server's clock may be from the device's
    MaxClock        \* bound: the last instant

ASSUME RespondAssumption == FreshWindow \in Nat /\ Skew \in Nat /\ MaxClock \in Nat

Kind == {"challenge", "mpa", "decrypt"}

\* A request file: what its maker made it as; which command's fields the file
\* has; who signed it, over the bare text or over the text behind the domain tag
\* that ecdsa.go has for its kind; whether every field is there and decodes; for
\* whom the ciphertext in it is sealed (a challenge has none), and whether what is
\* sealed parses as an ActionContext.  On its way to the file its fields may have
\* been renamed (form # kind), the id exchanged for another one, or, where there
\* is a ciphertext, characters moved between the id and the ciphertext, which
\* leaves the text that is signed, one behind the other, as it was.
Request == {r \in [kind : Kind, form : Kind, signer : {"paired", "other"}, tagged : BOOLEAN,
                   wellFormed : BOOLEAN, sealedFor : {"device", "other"}, isAction : BOOLEAN,
                   altered : {"no", "id", "boundary"}] :
              r.kind = "challenge" =>
                r.sealedFor = "device" /\ ~r.isAction /\ r.altered # "boundary"}

\* How the program is called.  Nothing ties the command to what the request was
\* made as.  The request is read from a named file or from the standard input:
\* there a pipe is at its end for good when it has been read, a terminal is not.
\* Only mpa-respond has --auto-approve.
Job == {j \in [command : Kind, req : Request, input : {"file", "pipe", "terminal"},
               auto : BOOLEAN, target : {"paired", "other"}] :
          j.auto => j.command = "mpa"}

VARIABLES
    pc,         \* reading, verifying, prompt, signing, posting, exited
    job,        \* the command line and the request
    said,       \* what the user answered at the prompt: nothing, yes, no
    exit,       \* the exit code: none, 0, 1
    posted,     \* the envelope that left: nothing, or its action and what it answers
    answer,     \* the answer of the paired server under way: nothing, or its
                \* status, its stamp, and whether it answers this envelope
    clock

vars == <<pc, job, said, exit, posted, answer, clock>>

NoEnvelope == [sent |-> FALSE]
NoAnswer == [status |-> "none", ts |-> 0, to |-> "none"]
Answer == [status : {"accepted", "rejected"}, ts : Int, to : {"this", "another"}]

Init ==
    /\ pc = "reading" /\ job \in Job
    /\ said = "nothing" /\ exit = "none"
    /\ posted = NoEnvelope /\ answer = NoAnswer
    /\ clock = 0

Exit(code) == pc' = "exited" /\ exit' = code

-----------------------------------------------------------------------------
\* What a signature is over: a tag, and the challenge with the action's hash (the
\* id is not in it) or the id and the ciphertext.  Checked is what each command
\* expects: respond the tag SIGIL-AUTH-V1, the two others the bare text.
SignedText(k) == IF k = "challenge" THEN "challenge" ELSE "id_ciphertext"
Signed(r) == [tag |-> IF r.tagged THEN r.kind ELSE "none", text |-> SignedText(r.kind)]
Checked(c) == [tag |-> IF c = "challenge" THEN c ELSE "none", text |-> SignedText(c)]
Covered(r) == r.kind = "challenge" \/ r.altered # "id"
SignatureVerifies(c, r) == r.signer = "paired" /\ Signed(r) = Checked(c) /\ Covered(r)

\* crypto.Decrypt, in mpa-respond and decrypt: the key is derived from the
\* device's key and the ephemeral one in the ciphertext with the id as salt, and
\* the tag is over the ciphertext and the id.
OpensUnauthenticated(c, r) == c = "challenge" \/ r.sealedFor = "device"
Opens(c, r) ==
    c = "challenge" \/ (r.kind # "challenge" /\ r.sealedFor = "device" /\ r.altered = "no")

\* Only mpa-respond parses what it has opened.
Parses(c, r) == c = "mpa" => r.isAction

\* os.ReadFile or io.ReadAll(os.Stdin), json.Unmarshal, the required fields.
Complete == job.req.wellFormed /\ job.req.form = job.command
Read ==
    /\ pc = "reading"
    /\ \/ Complete /\ pc' = "verifying" /\ UNCHANGED exit
       \/ ~Complete /\ Exit("1")
    /\ UNCHANGED <<job, said, posted, answer, clock>>

\* crypto.Verify of the server signature, crypto.Decrypt of the ciphertext, and
\* json.Unmarshal of the action.
Admits(c, r) == SignatureVerifies(c, r) /\ Opens(c, r) /\ Parses(c, r)
Verify ==
    /\ pc = "verifying"
    /\ \/ /\ Admits(job.command, job.req)
          /\ pc' = IF job.command = "mpa" /\ ~job.auto THEN "prompt" ELSE "signing"
          /\ UNCHANGED exit
       \/ ~Admits(job.command, job.req) /\ Exit("1")
    /\ UNCHANGED <<job, said, posted, answer, clock>>

\* fmt.Scanln on the standard input: a pipe the request came through has been read
\* to its end, so nothing is left to answer with.
Replies == IF job.input = "pipe" THEN {"nothing"} ELSE {"yes", "no", "nothing"}

GoesAheadUnlessNo(reply) == reply # "no"
GoesAhead(reply) == reply = "yes"

\* The mpa prompt; anything but y or Y rejects the action, and ends well.
Prompt ==
    /\ pc = "prompt"
    /\ \E reply \in Replies :
         /\ said' = reply
         /\ \/ GoesAhead(reply) /\ pc' = "signing" /\ UNCHANGED exit
            \/ ~GoesAhead(reply) /\ Exit("0")
    /\ UNCHANGED <<job, posted, answer, clock>>

\* SignWithDomain, CreateRequest and http.Post: the signature (or the plaintext)
\* in an envelope that only the paired server can open and that bears the
\* command's action, sent to the address of --server.
Post ==
    /\ pc = "signing"
    /\ pc' = "posting"
    /\ posted' = [sent |-> TRUE, as |-> job.command, req |-> job.req]
    /\ UNCHANGED <<job, said, exit, answer, clock>>

Distance(a, b) == IF a < b THEN b - a ELSE a - b
Fresh(a) == Distance(clock, a.ts) <= FreshWindow

\* A 200 whose envelope VerifyResponse accepts is success, whatever its status
\* and whatever it answers: the nonce store is made for this one call, and nothing
\* in the payload is compared with the request.
Receive ==
    /\ pc = "posting" /\ answer # NoAnswer
    /\ \/ Fresh(answer) /\ Exit("0")
       \/ ~Fresh(answer) /\ Exit("1")
    /\ UNCHANGED <<job, said, posted, answer, clock>>

\* The transport fails, the status is not 200, or the body is no envelope of the
\* paired server.  http.Post has no timeout: this need not happen.
UnusableExitIgnored == "0"
UnusableExitStatus == "404"
UnusableExit == "1"
ReceiveUnusable ==
    /\ pc = "posting"
    /\ Exit(UnusableExit)
    /\ UNCHANGED <<job, said, posted, answer, clock>>

\* The paired server opens the envelope and answers.
ServerAnswers ==
    /\ pc = "posting" /\ job.target = "paired" /\ answer = NoAnswer
    /\ \E s \in {"accepted", "rejected"}, t \in (clock - Skew)..(clock + Skew) :
         answer' = [status |-> s, ts |-> t, to |-> "this"]
    /\ UNCHANGED <<pc, job, said, exit, posted, clock>>

\* Whoever answers, the paired server or the other, may send an envelope that the
\* paired server made for this device at another time; how much older than what is
\* still fresh does not matter.
EarlierAnswer ==
    /\ pc = "posting" /\ answer = NoAnswer
    /\ \E s \in {"accepted", "rejected"}, t \in (clock - Skew - FreshWindow - 1)..(clock + Skew) :
         answer' = [status |-> s, ts |-> t, to |-> "another"]
    /\ UNCHANGED <<pc, job, said, exit, posted, clock>>

Tick ==
    /\ pc # "exited" /\ clock < MaxClock /\ clock' = clock + 1
    /\ UNCHANGED <<pc, job, said, exit, posted, answer>>

Next == Read \/ Verify \/ Prompt \/ Post \/ Receive \/ ReceiveUnusable
        \/ ServerAnswers \/ EarlierAnswer \/ Tick

Spec == Init /\ [][Next]_vars

-----------------------------------------------------------------------------
\* Type invariant.
TypeOK ==
    /\ pc \in {"reading", "verifying", "prompt", "signing", "posting", "exited"}
    /\ job \in Job /\ said \in {"nothing", "yes", "no"} /\ exit \in {"none", "0", "1"}
    /\ posted \in {NoEnvelope} \cup [sent : {TRUE}, as : Kind, req : Request]
    /\ answer \in {NoAnswer} \cup Answer
    /\ clock \in 0..MaxClock

\* Nothing leaves the device, signature or plaintext, but for a request the
\* paired server signed; and no signature over an action without the user's yes
\* or --auto-approve: an action the user rejects, or is asked about with nobody
\* there to answer, is never signed.  What the server made as an mpa request
\* leaves without them only when its fields were renamed to those of a decrypt
\* request, and then as a plaintext.
OnlyApprovedLeaves ==
    posted.sent =>
        LET approved == job.auto \/ said = "yes" IN
        /\ posted.req.signer = "paired"
        /\ posted.as = "mpa" => approved
        /\ posted.req.kind = "mpa" /\ ~approved =>
             posted.as = "decrypt" /\ posted.req.form = "decrypt"

\* The id that leaves beside a decrypted text, or beside the signature over one,
\* is the one the paired server sent it under: an answer to one mpa or decrypt
\* request is never taken for the answer to another.  (Whether it was an mpa or
\* a decrypt request, the id does not say; and of challenges, whose id nobody
\* signs, this does not hold.)
IdIsServers == (posted.sent /\ posted.as # "challenge") => posted.req.altered = "no"

\* Exit code 0 means that the user declined, and nothing left, or that an envelope
\* left and the paired server, not the one --server named, made the answer, no
\* further from the device's clock than the window; and if it is the answer to
\* this envelope, that the envelope went to the paired server.
ZeroMeansAnswered ==
    exit = "0" =>
        \/ job.command = "mpa" /\ said # "yes" /\ ~posted.sent
        \/ /\ posted.sent /\ answer # NoAnswer
           /\ clock - answer.ts <= FreshWindow /\ answer.ts - clock <= FreshWindow
           /\ answer.to = "this" => job.target = "paired"

-----------------------------------------------------------------------------
(* What a run promises, without its steps.                                  *)

\* Texts of the paired server, for this device, under the id they were made with;
\* of a challenge this is not known of the id.
Vouched == {r \in Request : r.signer = "paired" /\ r.sealedFor = "device"
                              /\ (r.kind # "challenge" => r.altered = "no")}

Verdict ==
    CASE exit = "none" -> "none"
      [] exit = "1" -> "failed"
      [] exit = "0" -> IF posted.sent THEN "answered" ELSE "declined"

Ap == INSTANCE Approval WITH
        request <- job.req,
        attended <- job.command = "mpa" /\ ~job.auto,
        approved <- pc = "signing" \/ posted.sent,
        left <- posted.sent,
        verdict <- Verdict

\* Whatever the request, the user and those who answer do, every step is one of
\* Approval's or changes nothing it knows: the user is asked, in the runs whose
\* command asks, about texts that are the paired server's, for this device and
\* under their id, and about nothing else; at most one envelope leaves, after the
\* approval and before the verdict, and the verdict is final and says whether one
\* left.  That the text was made as an action is not part of it, and not so: the
\* fields of a decrypt request can be renamed to those of an mpa request.
ImplementsApproval == Ap!Spec

-----------------------------------------------------------------------------
(* What the repository says of the program and the program does not do.     *)

\* README, exit codes: 1 when the user rejected (mpa-respond) and when the
\* server rejected (respond).
RejectionExitsOne ==
    (pc = "exited" /\ (said = "no" \/ answer.status = "rejected")) => exit = "1"
=============================================================================
