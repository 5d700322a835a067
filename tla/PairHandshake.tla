--------------------------- MODULE PairHandshake ---------------------------
(***************************************************************************)
(* `sigil-device pair`, message by message: GET /pair/init, the pictogram  *)
(* that the user compares with the one the administrator reads out, POST   *)
(* /pair/complete, and what the device then keeps.  DeviceState models the *)
(* same command by what it does to the files; here the files are one value *)
(* and the messages are told apart.                                        *)
(*                                                                         *)
(* The server the user means to pair with is called home.  It may replace  *)
(* its key, forget a session (it expires, or the server restarts) and get  *)
(* a request late or, for the GET, again.  Anybody else may answer at the  *)
(* address in its stead: another server behind the same name, a cache, a   *)
(* proxy; what it sends can mix parts of everything.  Only one pair runs   *)
(* at a time, and the save is one step: see DeviceState for the rest.  (A  *)
(* definition whose name says what it gets wrong is a mutation of the next *)
(* one; see DeviceState.)                                                  *)
(***************************************************************************)
EXTENDS Naturals

CONSTANTS
    Device,     \* identities init may generate, each with its public key
    Key,        \* public keys an answer may bear
    HomeKey,    \* those the home server has, one after the other
    Nonce,      \* the 32 bytes of server_nonce
    Words,      \* session pictograms
    Digest,     \* DeriveSessionPictogram, as a function of its three inputs
    None,
    MaxRuns     \* bound: how often the user types pair

\* What a pictogram is derived from, and what a pairing is about.
Session == [key : Key, client : Device, nonce : Nonce]

\* Argon2id over SHA-256 of two keys of 33 bytes and a nonce of 32: sessions
\* that differ show different words.
ASSUME DigestAssumption ==
    /\ Digest \in [Session -> Words]
    /\ \A s, t \in Session : Digest[s] = Digest[t] => s = t

ASSUME HandshakeAssumption ==
    /\ HomeKey \subseteq Key /\ HomeKey # {} /\ Device # {}
    /\ MaxRuns \in Nat
    /\ None \notin Session \cup Device \cup Key \cup Nonce \cup Words

\* pairInitResponse.  An answer that is not ok has a status other than 200, or
\* a body, a key or a nonce that does not decode to its type and length.
InitAnswer == [ok : {TRUE}, key : Key, nonce : Nonce, claimed : Words]
NoOffer == [ok |-> FALSE, key |-> None, nonce |-> None, claimed |-> None]

\* pairCompleteResponse; "other" stands for a status of HTTP or of the body,
\* or a body, that is not what it should be.
CompleteAnswer == [status : {"paired", "other"}, key : Key]

VARIABLES
    pc,         \* runPair: idle, init (GET under way), prompt, complete (POST under way)
    run,        \* how often pair has been started
    device,     \* the identity in the State, with its public key
    identities, \* every identity there has been
    offer,      \* the session the device derives its pictogram from
    claimed,    \* the pictogram the answer says it is
    saved,      \* the pairing in the State; its nonce is history
    answer,     \* the answer on its way to the request under way
    asked,      \* GET /pair/init requests that a server may still see
    posted,     \* POST /pair/complete requests that a server may still see
    homeKey,    \* the home server's key at present
    sessions,   \* its open sessions
    issued,     \* history: every session it has opened, for its console shows them
    committed,  \* pairings it has committed
    confirmed,  \* history: sessions whose pictogram the user said yes to
    vouched     \* history: sessions another party has called paired

deviceVars == <<pc, run, device, identities, offer, claimed, saved>>
net == <<answer, asked, posted>>
homeVars == <<homeKey, sessions, issued, committed>>
history == <<confirmed, vouched>>
vars == <<deviceVars, net, homeVars, history>>

Init ==
    /\ pc = "idle" /\ run = 0
    /\ device \in Device /\ identities = {device}
    /\ offer = None /\ claimed = None /\ saved = None
    /\ answer = None /\ asked = {} /\ posted = {}
    /\ homeKey \in HomeKey /\ sessions = {} /\ issued = {} /\ committed = {}
    /\ confirmed = {} /\ vouched = {}

-----------------------------------------------------------------------------
\* runPair returns: what it held is gone, and an answer still on its way has
\* nobody to go to.
Return ==
    /\ pc' = "idle" /\ offer' = None /\ claimed' = None /\ answer' = None

\* GET /pair/init?client_pub=...
Start ==
    /\ pc = "idle" /\ run < MaxRuns
    /\ pc' = "init" /\ run' = run + 1
    /\ asked' = asked \cup {[run |-> run + 1, client |-> device]}
    /\ UNCHANGED <<device, identities, offer, claimed, saved, answer, posted, homeVars, history>>

Offered(a) == [key |-> a.key, client |-> device, nonce |-> a.nonce]

\* DeriveSessionPictogram.
Derived(s) == IF s \in Session THEN Digest[s] ELSE None

\* The checks of the answer, the comparison of the words it claims with those
\* derived here among them.
AcceptableUndecoded(a) == a.claimed = Derived(Offered(a))
AcceptableAsClaimed(a) == a.ok
Acceptable(a) == a.ok /\ a.claimed = Derived(Offered(a))

InitAnswered ==
    /\ pc = "init" /\ answer # None
    /\ \/ /\ Acceptable(answer)
          /\ pc' = "prompt" /\ offer' = Offered(answer) /\ claimed' = answer.claimed
          /\ answer' = None
       \/ ~Acceptable(answer) /\ Return
    /\ UNCHANGED <<run, device, identities, saved, asked, posted, homeVars, history>>

\* The user has heard the words of one of home's sessions and sees them in one
\* of the two lines printed, the derived one and the claimed one.  Nothing says
\* that the session is still open.
WordsAgree == \E s \in issued : Digest[s] \in {Derived(offer), claimed}
Replies == {"no", "nothing"} \cup {r \in {"yes"} : WordsAgree}

GoesAhead(reply) == reply = "yes"

\* The prompt, and POST /pair/complete.  However long the user takes, nothing
\* here looks at the ten seconds the prompt speaks of.
Prompt ==
    /\ pc = "prompt"
    /\ \E reply \in Replies :
         \/ /\ GoesAhead(reply)
            /\ pc' = "complete"
            /\ posted' = posted \cup {[run |-> run, client |-> device, nonce |-> offer.nonce]}
            /\ confirmed' = confirmed \cup {offer}
            /\ UNCHANGED <<offer, claimed, answer>>
         \/ ~GoesAhead(reply) /\ Return /\ UNCHANGED <<posted, confirmed>>
    /\ UNCHANGED <<run, device, identities, saved, asked, homeVars, vouched>>

PairedWhateverStatus(a) == a.key \in Key
Paired(a) == a.status = "paired"

\* The pairing saved: the key of the first answer, whatever the second one says.
SavedOfLastAnswer == [offer EXCEPT !.key = answer.key]
Saved == offer

CompleteAnswered ==
    /\ pc = "complete" /\ answer # None
    /\ saved' = IF Paired(answer) THEN Saved ELSE saved
    /\ Return
    /\ UNCHANGED <<run, device, identities, asked, posted, homeVars, history>>

\* The 10 second timeout of the http.Client, an error of the transport, or the
\* end of the process.
GivesUp ==
    /\ pc # "idle"
    /\ Return
    /\ UNCHANGED <<run, device, identities, saved, asked, posted, homeVars, history>>

\* init --force between two runs: another key pair, and no pairing.
InitForce ==
    /\ pc = "idle"
    /\ \E d \in Device \ identities : device' = d /\ identities' = identities \cup {d}
    /\ saved' = None
    /\ UNCHANGED <<pc, run, offer, claimed, net, homeVars, history>>

-----------------------------------------------------------------------------
\* An answer reaches the device if its request is the one under way there, and
\* is the first to do so.
Reach(r, here, a) ==
    answer' = IF r.run = run /\ pc = here /\ answer = None THEN a ELSE answer

\* The home server answers a GET: a session of its own, under its present key.
HomeIssues ==
    \E r \in asked, n \in Nonce :
        LET s == [key |-> homeKey, client |-> r.client, nonce |-> n] IN
        /\ \A t \in issued : t.nonce # n
        /\ issued' = issued \cup {s} /\ sessions' = sessions \cup {s}
        /\ Reach(r, "init", [ok |-> TRUE, key |-> homeKey, nonce |-> n, claimed |-> Digest[s]])
        /\ UNCHANGED <<deviceVars, asked, posted, homeKey, committed, history>>

\* A session expires, or the server that kept it restarts.
HomeForgets ==
    /\ \E s \in sessions : sessions' = sessions \ {s}
    /\ UNCHANGED <<deviceVars, net, homeKey, issued, committed, history>>

HomeRotates ==
    /\ homeKey' \in HomeKey \ {homeKey}
    /\ UNCHANGED <<deviceVars, net, sessions, issued, committed, history>>

\* It answers a POST: the open session of that nonce and that client is
\* committed, once; the key it states is the present one.
HomeCompletes ==
    \E r \in posted :
        LET open == {s \in sessions : s.nonce = r.nonce /\ s.client = r.client} IN
        /\ posted' = posted \ {r}
        /\ committed' = committed \cup open /\ sessions' = sessions \ open
        /\ Reach(r, "complete", [status |-> IF open = {} THEN "other" ELSE "paired",
                                 key |-> homeKey])
        /\ UNCHANGED <<deviceVars, asked, homeKey, issued, history>>

\* Somebody else answers.
OtherAnswersInit ==
    /\ pc = "init" /\ answer = None
    /\ answer' \in InitAnswer \cup {NoOffer}
    /\ UNCHANGED <<deviceVars, asked, posted, homeVars, history>>

OtherAnswersComplete ==
    /\ pc = "complete" /\ answer = None
    /\ answer' \in CompleteAnswer
    /\ vouched' = vouched \cup {s \in {offer} : answer'.status = "paired"}
    /\ UNCHANGED <<deviceVars, asked, posted, homeVars, confirmed>>

-----------------------------------------------------------------------------
Pair == Start \/ InitAnswered \/ Prompt \/ CompleteAnswered \/ GivesUp
Home == HomeIssues \/ HomeForgets \/ HomeRotates \/ HomeCompletes
Other == OtherAnswersInit \/ OtherAnswersComplete

Next == Pair \/ InitForce \/ Home \/ Other

Spec == Init /\ [][Next]_vars

-----------------------------------------------------------------------------
\* Type invariant: what the device holds and what is on its way, by where it is.
TypeOK ==
    /\ pc \in {"idle", "init", "prompt", "complete"} /\ run \in 0..MaxRuns
    /\ device \in identities /\ identities \subseteq Device
    /\ pc \in {"prompt", "complete"} => offer \in Session /\ claimed \in Words
    /\ saved \in Session \cup {None}
    /\ answer # None =>
         \/ pc = "init" /\ answer \in InitAnswer \cup {NoOffer}
         \/ pc = "complete" /\ answer \in CompleteAnswer
    /\ asked \subseteq [run : 1..MaxRuns, client : Device]
    /\ posted \subseteq [run : 1..MaxRuns, client : Device, nonce : Nonce]
    /\ homeKey \in HomeKey
    /\ sessions \subseteq issued /\ issued \subseteq Session
    /\ committed \subseteq Session /\ confirmed \subseteq Session /\ vouched \subseteq Session

\* The key the device keeps is one the home server had when it opened a session
\* for this very identity: never that of another party that answered, never one
\* that goes with another identity, and not one that only the second answer
\* names.  Whoever answers, and whenever: it rests on the user's comparison and
\* on the device's own, without which the user might look at the wrong line.
SavedIsIssued == saved # None => saved \in issued /\ saved.client = device

\* The messages implement PairingCommit: the session the device keeps is the one
\* the user confirmed, after home committed it, or another party said it had; and
\* home commits no session the user has not confirmed, be the request late, the
\* key replaced or the device's run long over.
PC == INSTANCE PairingCommit WITH
        Agreement <- Session, Nothing <- None,
        committed <- committed \cup vouched, held <- saved
ImplementsPairingCommit == PC!Spec
=============================================================================
