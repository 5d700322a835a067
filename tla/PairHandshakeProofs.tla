------------------------ MODULE PairHandshakeProofs ------------------------
(***************************************************************************)
(* The handshake for any number of devices, keys, sessions and runs, and   *)
(* any digest that tells sessions apart.                                   *)
(***************************************************************************)
EXTENDS PairHandshake, TLAPS

\* A POST on its way is for a session the user confirmed, and one of the run
\* under way for the session that run offers.
PostedOk(r) ==
    /\ \E s \in confirmed : s.nonce = r.nonce /\ s.client = r.client
    /\ r.run <= run
    /\ (r.run = run /\ pc = "complete") => r.nonce = offer.nonce
    /\ r.run = run => pc \in {"complete", "idle"}

\* The inductive invariant.  SavedIsIssued says nothing of what is on its way:
\* the offer at the prompt has the words it claims, nothing is confirmed that
\* home did not issue, a POST names a confirmed session, and "paired" arrives
\* only for an offer that is committed or vouched for.
Inv ==
    /\ TypeOK
    /\ pc # "idle" => run # 0
    /\ \A s, t \in issued : s.nonce = t.nonce => s = t
    /\ pc \in {"prompt", "complete"} => offer.client = device /\ claimed = Digest[offer]
    /\ pc = "complete" => offer \in confirmed
    /\ confirmed \subseteq issued
    /\ \A r \in posted : PostedOk(r)
    /\ (pc = "complete" /\ answer # None /\ answer.status = "paired") =>
            offer \in committed \cup vouched
    /\ saved # None => saved \in committed \cup vouched
    /\ SavedIsIssued

LEMMA InitInv == Init => Inv
  BY HandshakeAssumption DEF Init, Inv, TypeOK, SavedIsIssued

\* A step keeps the types.
LEMMA TypeStep == Inv /\ [Next]_vars => TypeOK'
<1> SUFFICES ASSUME Inv, [Next]_vars PROVE TypeOK'
  OBVIOUS
<1> USE HandshakeAssumption DEF Inv, TypeOK, Return, deviceVars, net, homeVars, history
<1>1. CASE Start
  BY <1>1 DEF Start
<1>2. CASE InitAnswered
  <2>1. CASE Acceptable(answer)
    <3>1. answer \in InitAnswer
      BY <1>2, <2>1 DEF InitAnswered, Acceptable, NoOffer
    <3>2. Offered(answer) \in Session /\ answer.claimed \in Words
      BY <3>1 DEF Offered, Session, InitAnswer
    <3> QED BY <1>2, <2>1, <3>2 DEF InitAnswered
  <2>2. CASE ~Acceptable(answer)
    BY <1>2, <2>2 DEF InitAnswered
  <2> QED BY <2>1, <2>2
<1>3. CASE Prompt
  BY <1>3 DEF Prompt, Session
<1>4. CASE CompleteAnswered
  BY <1>4 DEF CompleteAnswered, Saved
<1>5. CASE GivesUp
  BY <1>5 DEF GivesUp
<1>6. CASE InitForce
  BY <1>6 DEF InitForce
<1>7. CASE HomeIssues
  <2> PICK r \in asked, n \in Nonce : HomeIssues!(r, n)
    BY <1>7 DEF HomeIssues
  <2> DEFINE s == [key |-> homeKey, client |-> r.client, nonce |-> n]
             a == [ok |-> TRUE, key |-> homeKey, nonce |-> n, claimed |-> Digest[s]]
  <2>1. s \in Session
    BY DEF Session
  <2>2. a \in InitAnswer
    BY <2>1, DigestAssumption DEF InitAnswer
  <2>3. (answer' = a /\ pc = "init") \/ answer' = answer
    BY DEF Reach
  <2>4. sessions' = sessions \cup {s} /\ issued' = issued \cup {s}
    OBVIOUS
  <2> HIDE DEF a, s
  <2> QED BY <2>1, <2>2, <2>3, <2>4
<1>8. CASE HomeForgets \/ HomeRotates
  BY <1>8 DEF HomeForgets, HomeRotates
<1>9. CASE HomeCompletes
  <2> PICK r \in posted : HomeCompletes!(r)
    BY <1>9 DEF HomeCompletes
  <2> DEFINE open == {s \in sessions : s.nonce = r.nonce /\ s.client = r.client}
             a == [status |-> IF open = {} THEN "other" ELSE "paired", key |-> homeKey]
  <2>1. a \in CompleteAnswer
    BY DEF CompleteAnswer
  <2>2. (answer' = a /\ pc = "complete") \/ answer' = answer
    BY DEF Reach
  <2> HIDE DEF a
  <2> QED BY <2>1, <2>2
<1>10. CASE Other
  BY <1>10 DEF Other, OtherAnswersInit, OtherAnswersComplete
<1>11. CASE UNCHANGED vars
  BY <1>11 DEF vars
<1> QED BY <1>1, <1>2, <1>3, <1>4, <1>5, <1>6, <1>7, <1>8, <1>9, <1>10, <1>11
        DEF Next, Pair, Home

\* What the user confirms is a session that home issued: the words of one that
\* was are on one of the two lines, and both lines say the same.
LEMMA ConfirmedIsIssued ==
  ASSUME Inv, pc = "prompt", WordsAgree
  PROVE  offer \in issued
<1>1. offer \in Session /\ claimed = Digest[offer] /\ Derived(offer) = Digest[offer]
  BY DEF Inv, TypeOK, Derived
<1>2. PICK s \in issued : Digest[s] = Digest[offer]
  BY <1>1 DEF WordsAgree
<1>3. s \in Session
  BY DEF Inv, TypeOK
<1> QED BY <1>1, <1>2, <1>3, DigestAssumption

\* The session that home commits for a request is the one the user confirmed.
LEMMA OpenIsConfirmed ==
  ASSUME Inv, NEW r \in posted, NEW s \in sessions, s.nonce = r.nonce
  PROVE  /\ s \in confirmed
         /\ (r.run = run /\ pc = "complete") => s = offer
<1>1. PICK t \in confirmed : t.nonce = r.nonce
  BY DEF Inv, PostedOk
<1>2. s \in issued /\ t \in issued
  BY DEF Inv, TypeOK
<1> QED BY <1>1, <1>2 DEF Inv, TypeOK, PostedOk

\* The invariant is inductive.
LEMMA InvStep == Inv /\ [Next]_vars => Inv'
<1> SUFFICES ASSUME Inv, [Next]_vars PROVE Inv'
  OBVIOUS
<1>0. TypeOK'
  BY TypeStep
<1> USE <1>0, HandshakeAssumption
    DEF Inv, SavedIsIssued, Return, deviceVars, net, homeVars, history
<1>1. CASE Start
  BY <1>1 DEF Start, TypeOK, PostedOk
<1>2. CASE InitAnswered
  <2>1. CASE Acceptable(answer)
    <3>1. answer \in InitAnswer
      BY <1>2, <2>1 DEF InitAnswered, Acceptable, NoOffer, TypeOK
    <3>2. Offered(answer) \in Session
      BY <3>1 DEF Offered, Session, InitAnswer, TypeOK
    <3>3. claimed' = Digest[offer'] /\ offer'.client = device'
      BY <1>2, <2>1, <3>2 DEF InitAnswered, Acceptable, Offered, Derived
    <3> QED BY <1>2, <2>1, <3>3 DEF InitAnswered, PostedOk
  <2>2. CASE ~Acceptable(answer)
    BY <1>2, <2>2 DEF InitAnswered, PostedOk
  <2> QED BY <2>1, <2>2
<1>3. CASE Prompt
  <2> PICK reply \in Replies : Prompt!2!(reply)
    BY <1>3 DEF Prompt
  <2>1. CASE GoesAhead(reply)
    <3>1. offer \in issued
      BY <1>3, <2>1, ConfirmedIsIssued DEF Prompt, Replies, GoesAhead
    <3>2. \A q \in posted : PostedOk(q)'
      BY <1>3, <2>1 DEF Prompt, PostedOk
    <3>3. PostedOk([run |-> run, client |-> device, nonce |-> offer.nonce])'
      BY <1>3, <2>1 DEF Prompt, PostedOk, TypeOK
    <3> QED BY <1>3, <2>1, <3>1, <3>2, <3>3 DEF Prompt, TypeOK
  <2>2. CASE ~GoesAhead(reply)
    BY <1>3, <2>2 DEF Prompt, PostedOk
  <2> QED BY <2>1, <2>2
<1>4. CASE CompleteAnswered
  BY <1>4 DEF CompleteAnswered, Saved, Paired, PostedOk
<1>5. CASE GivesUp
  BY <1>5 DEF GivesUp, PostedOk
<1>6. CASE InitForce
  BY <1>6 DEF InitForce, PostedOk
<1>7. CASE HomeIssues
  <2> PICK r \in asked, n \in Nonce : HomeIssues!(r, n)
    BY <1>7 DEF HomeIssues
  <2> QED BY DEF Reach, PostedOk
<1>8. CASE HomeForgets \/ HomeRotates
  BY <1>8 DEF HomeForgets, HomeRotates, PostedOk
<1>9. CASE HomeCompletes
  <2> PICK r \in posted : HomeCompletes!(r)
    BY <1>9 DEF HomeCompletes
  <2> DEFINE open == {s \in sessions : s.nonce = r.nonce /\ s.client = r.client}
  <2>1. ASSUME pc = "complete", answer' # None, answer'.status = "paired"
        PROVE  offer \in committed' \cup vouched
    <3>1. CASE answer' = answer
      BY <2>1, <3>1
    <3>2. CASE answer' # answer
      <4>1. r.run = run /\ open # {}
        BY <2>1, <3>2 DEF Reach
      <4> QED BY <2>1, <4>1, OpenIsConfirmed
    <3> QED BY <3>1, <3>2
  <2> QED BY <2>1 DEF PostedOk
<1>10. CASE OtherAnswersInit
  BY <1>10 DEF OtherAnswersInit, PostedOk
<1>11. CASE OtherAnswersComplete
  BY <1>11 DEF OtherAnswersComplete, PostedOk
<1>12. CASE UNCHANGED vars
  BY <1>12 DEF vars, PostedOk
<1> QED BY <1>1, <1>2, <1>3, <1>4, <1>5, <1>6, <1>7, <1>8, <1>9, <1>10, <1>11, <1>12
        DEF Next, Pair, Home, Other

\* The inductive invariant holds throughout.
THEOREM Invariance == Spec => []Inv
<1> QED BY InitInv, InvStep, PTL DEF Spec

\* Types.
THEOREM TypeCorrect == Spec => []TypeOK
<1>1. Inv => TypeOK
  BY DEF Inv
<1> QED BY <1>1, Invariance, PTL

\* The key the device keeps is one home had when it opened a session for this
\* identity, whoever answers.
THEOREM SavedSafe == Spec => []SavedIsIssued
<1>1. Inv => SavedIsIssued
  BY DEF Inv
<1> QED BY <1>1, Invariance, PTL

-----------------------------------------------------------------------------
\* What home commits for a request is one session or none.
LEMMA OpenIsOne ==
  ASSUME Inv, NEW r \in posted
  PROVE  \/ {s \in sessions : s.nonce = r.nonce /\ s.client = r.client} = {}
         \/ \E s \in sessions \cap confirmed :
              {t \in sessions : t.nonce = r.nonce /\ t.client = r.client} = {s}
<1> DEFINE open == {s \in sessions : s.nonce = r.nonce /\ s.client = r.client}
<1> SUFFICES ASSUME NEW s \in open PROVE s \in sessions \cap confirmed /\ open = {s}
  OBVIOUS
<1>1. s \in confirmed
  BY OpenIsConfirmed
<1>2. \A t \in open : t = s
  BY DEF Inv, TypeOK
<1> QED BY <1>1, <1>2

\* Every step is one of PairingCommit's, or a stutter.
LEMMA PairingCommitStep == Inv /\ Inv' /\ [Next]_vars => [PC!Next]_(PC!vars)
<1> SUFFICES ASSUME Inv, Inv', [Next]_vars PROVE PC!Next \/ UNCHANGED PC!vars
  OBVIOUS
<1> USE DEF PC!vars, Return, deviceVars, net, homeVars, history
<1>1. CASE Prompt
  <2>1. CASE confirmed' = confirmed
    BY <1>1, <2>1 DEF Prompt
  <2>2. CASE confirmed' # confirmed
    <3>1. confirmed' = confirmed \cup {offer} /\ UNCHANGED <<committed, vouched, saved>>
      BY <1>1, <2>2 DEF Prompt
    <3>2. offer \in Session
      BY <1>1 DEF Prompt, Inv, TypeOK
    <3> QED BY <3>1, <3>2 DEF PC!Next, PC!Confirm
  <2> QED BY <2>1, <2>2
<1>2. CASE CompleteAnswered
  <2>1. CASE Paired(answer)
    <3>1. offer \in Session /\ offer \in committed \cup vouched
      BY <1>2, <2>1 DEF CompleteAnswered, Paired, Inv, TypeOK
    <3>2. saved' = offer /\ UNCHANGED <<confirmed, committed, vouched>>
      BY <1>2, <2>1 DEF CompleteAnswered, Saved
    <3> QED BY <3>1, <3>2 DEF PC!Next, PC!Hold
  <2>2. CASE ~Paired(answer)
    BY <1>2, <2>2 DEF CompleteAnswered
  <2> QED BY <2>1, <2>2
<1>3. CASE InitForce
  BY <1>3 DEF InitForce, PC!Next, PC!Forget
<1>4. CASE HomeCompletes
  <2> PICK r \in posted : HomeCompletes!(r)
    BY <1>4 DEF HomeCompletes
  <2> DEFINE open == {s \in sessions : s.nonce = r.nonce /\ s.client = r.client}
  <2>1. committed' = committed \cup open /\ UNCHANGED <<confirmed, vouched, saved>>
    OBVIOUS
  <2>2. CASE open = {}
    BY <2>1, <2>2
  <2>3. CASE open # {}
    <3>1. PICK s \in sessions \cap confirmed : open = {s}
      BY <2>3, OpenIsOne
    <3>2. s \in Session
      BY DEF Inv, TypeOK
    <3>3. PC!Commit(s)
      BY <2>1, <3>1 DEF PC!Commit
    <3> QED BY <3>2, <3>3 DEF PC!Next
  <2> QED BY <2>2, <2>3
<1>5. CASE OtherAnswersComplete
  <2>1. offer \in Session /\ offer \in confirmed
    BY <1>5 DEF OtherAnswersComplete, Inv, TypeOK
  <2>2. UNCHANGED <<confirmed, committed, saved>> /\ vouched' \in {vouched, vouched \cup {offer}}
    BY <1>5 DEF OtherAnswersComplete
  <2> QED BY <2>1, <2>2 DEF PC!Next, PC!Commit
<1>6. CASE Start \/ InitAnswered \/ GivesUp
  BY <1>6 DEF Start, InitAnswered, GivesUp
<1>7. CASE HomeIssues \/ HomeForgets \/ HomeRotates \/ OtherAnswersInit
  BY <1>7 DEF HomeIssues, HomeForgets, HomeRotates, OtherAnswersInit
<1>8. CASE UNCHANGED vars
  BY <1>8 DEF vars
<1> QED BY <1>1, <1>2, <1>3, <1>4, <1>5, <1>6, <1>7, <1>8 DEF Next, Pair, Home, Other

\* The messages implement PairingCommit.
THEOREM Refinement == Spec => ImplementsPairingCommit
<1>1. Init => PC!Init
  BY DEF Init, PC!Init
<1> QED BY <1>1, Invariance, PairingCommitStep, PTL DEF Spec, PC!Spec, ImplementsPairingCommit
\* And so they keep PairingCommit's promise: the session the device keeps is one the
\* user confirmed, and home has committed none that the user had not.
THEOREM PromiseKept == Spec => []PC!Promise
<1>1. PC!Init => PC!Promise
  BY DEF PC!Init, PC!Promise
<1>2. PC!Promise /\ [PC!Next]_(PC!vars) => PC!Promise'
  BY DEF PC!Promise, PC!Next, PC!vars, PC!Confirm, PC!Commit, PC!Hold, PC!Forget
<1> QED BY <1>1, <1>2, Refinement, PTL DEF ImplementsPairingCommit, PC!Spec
=============================================================================
