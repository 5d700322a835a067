--------------------------- MODULE ListenerProofs ---------------------------
(***************************************************************************)
(* Listener's safety properties for every set of nonces, every window,     *)
(* every skew of the server's clock and any number of runs.                *)
(***************************************************************************)
EXTENDS Listener, TLAPS

\* What the i-th acceptance leaves behind: the envelope was sent, it was fresh,
\* and the run that accepted it, while it lives, remembers its nonce.
AcceptedOk(i) ==
    LET a == accepted[i] IN
    /\ a.env \in sent
    /\ Distance(a.at, a.env.ts) <= FreshWindow
    /\ a.run <= run
    /\ (a.run = run /\ main # "exited") => a.env.nonce \in nonceStore

\* The inductive invariant behind ReplayBounded.
Inv ==
    /\ TypeOK
    /\ \A e, f \in sent : e.nonce = f.nonce => e = f
    /\ \A e \in sent : e.ts \in Int
    /\ loop \in {"top", "reading", "asking"} => main \in {"waiting", "closing"}
    /\ \A i \in DOMAIN accepted : AcceptedOk(i)
    /\ ReplayBounded

\* The initial state satisfies it.
LEMMA InitInv == Init => Inv
<1> SUFFICES ASSUME Init PROVE Inv
  OBVIOUS
<1> USE ListenerAssumption DEF Init
<1>1. TypeOK
  <2>1. accepted \in Seq([env : Envelope, at : 0..MaxClock, run : 1..MaxRuns])
    OBVIOUS
  <2>2. run \in 1..MaxRuns /\ clock \in 0..MaxClock
    OBVIOUS
  <2> QED BY <2>1, <2>2 DEF TypeOK
<1>2. DOMAIN accepted = {}
  OBVIOUS
<1> QED BY <1>1, <1>2 DEF Inv, ReplayBounded

\* A step keeps the types.
LEMMA TypeStep == TypeOK /\ [Next]_vars => TypeOK'
<1> SUFFICES ASSUME TypeOK, [Next]_vars PROVE TypeOK'
  OBVIOUS
<1> USE ListenerAssumption DEF TypeOK, environment, client, process, command, vars
<1>1. CASE Main
  <2>1. CASE Connect
    BY <2>1 DEF Connect
  <2>2. CASE ConnectFails
    BY <2>2 DEF ConnectFails, End
  <2>3. CASE Close
    BY <2>3 DEF Close
  <2>4. CASE Return
    BY <2>4 DEF Return, End
  <2> QED BY <1>1, <2>1, <2>2, <2>3, <2>4 DEF Main
<1>10. CASE Cancel
  BY <1>10 DEF Cancel
<1>11. CASE LoopTop
  BY <1>11 DEF LoopTop
<1>12. CASE ReadError
  BY <1>12 DEF ReadError, ConnectedAfterError
<1>13. CASE Answer
  BY <1>13 DEF Answer
<1>2. CASE ReadOther \/ ReadMalformed
  BY <1>2 DEF ReadOther, ReadMalformed, ConnectedAfterError
<1>3. ASSUME NEW e \in sent \cup Unverifiable, ReadEnvelope(e) PROVE TypeOK'
  <2> DEFINE Entry == [env : Envelope, at : 0..MaxClock, run : 1..MaxRuns]
  <2>1. e \in Envelope
    <3>1. clock \in Int
      OBVIOUS
    <3> QED BY <3>1 DEF Unverifiable, Envelope
  <2>2. nonceStore' \subseteq Nonce
    BY <1>3, <2>1 DEF ReadEnvelope, NoncesAfter, Envelope
  <2>3. accepted' \in Seq(Entry)
    <3> DEFINE a == [env |-> e, at |-> clock, run |-> run]
    <3>1. a \in Entry
      BY <2>1
    <3>2. accepted' \in {accepted, Append(accepted, a)}
      BY <1>3 DEF ReadEnvelope
    <3> HIDE DEF Entry, a
    <3>3. accepted \in Seq(Entry)
      BY DEF Entry
    <3> QED BY <3>1, <3>2, <3>3
  <2> QED BY <1>3, <2>2, <2>3 DEF ReadEnvelope
<1>4. CASE ServerSend
  <2>1. PICK e \in [nonce : Nonce, ts : (clock - Skew)..(clock + Skew),
                    verifies : {TRUE}, notify : BOOLEAN] : sent' = sent \cup {e}
    BY <1>4 DEF ServerSend
  <2>2. e.ts \in Int
    <3>1. clock \in Int /\ Skew \in Int
      OBVIOUS
    <3> QED BY <2>1, <3>1
  <2>3. e \in Envelope
    BY <2>1, <2>2 DEF Envelope
  <2> QED BY <1>4, <2>1, <2>3 DEF ServerSend
<1>5. CASE Tick
  BY <1>5 DEF Tick
<1>6. CASE RelayUp
  BY <1>6 DEF RelayUp
<1>7. CASE RelayDown
  BY <1>7 DEF RelayDown
<1>8. CASE ConnectionBreaks \/ Signal
  <2>1. CASE ConnectionBreaks
    BY <2>1 DEF ConnectionBreaks
  <2>2. CASE Signal
    BY <2>2 DEF Signal
  <2> QED BY <1>8, <2>1, <2>2
<1>9. CASE Killed
  BY <1>9 DEF Killed, End
<1>14. CASE Restart
  <2>1. run' \in 1..MaxRuns
    BY <1>14 DEF Restart
  <2> QED BY <1>14, <2>1 DEF Restart
<1>15. CASE UNCHANGED vars
  BY <1>15
<1> QED BY <1>1, <1>2, <1>3, <1>4, <1>5, <1>6, <1>7, <1>8, <1>9, <1>10, <1>11, <1>12, <1>13,
           <1>14, <1>15 DEF Next, Loop, Frame, Outside

\* The steps that neither accept an envelope nor start another run keep what
\* every acceptance left behind.
LEMMA QuietStep ==
  ASSUME Inv, accepted' = accepted, sent \subseteq sent', run' = run,
         main' = "exited" \/ (main # "exited" /\ nonceStore \subseteq nonceStore')
  PROVE  \A i \in DOMAIN accepted' : AcceptedOk(i)'
  BY DEF Inv, AcceptedOk

\* The acceptance of e keeps it, and keeps ReplayBounded.
LEMMA AcceptStep ==
  ASSUME Inv, NEW e \in sent \cup Unverifiable, ReadEnvelope(e)
  PROVE  (\A i \in DOMAIN accepted' : AcceptedOk(i)') /\ ReplayBounded'
<1> DEFINE a == [env |-> e, at |-> clock, run |-> run]
<1>0. /\ FreshWindow \in Nat /\ clock \in Int /\ run \in Int
      /\ \A f \in sent : f.ts \in Int
      /\ main # "exited"
      /\ UNCHANGED <<sent, run, main>>
  BY ListenerAssumption DEF Inv, TypeOK, ReadEnvelope, environment, process, command
<1>1. CASE ~Verified(e)
  <2>1. accepted' = accepted /\ nonceStore' = nonceStore
    BY <1>1 DEF ReadEnvelope, NoncesAfter
  <2> QED BY <1>0, <2>1 DEF Inv, AcceptedOk, ReplayBounded
<1>2. CASE Verified(e)
  <2>1. e \in sent
    BY <1>2 DEF Verified, Unverifiable
  <2>2. accepted' = Append(accepted, a) /\ nonceStore' = nonceStore \cup {e.nonce}
    BY <1>2 DEF ReadEnvelope, NoncesAfter
  <2>3. accepted \in Seq([env : Envelope, at : 0..MaxClock, run : 1..MaxRuns])
    BY DEF Inv, TypeOK
  <2>4. /\ DOMAIN accepted' = 1..(Len(accepted) + 1)
        /\ Len(accepted) \in Nat /\ DOMAIN accepted = 1..Len(accepted)
        /\ \A i \in 1..Len(accepted) : accepted'[i] = accepted[i]
        /\ accepted'[Len(accepted) + 1] = a
    <3> HIDE DEF a
    <3> QED BY <2>2, <2>3
  <2>5. \A i \in 1..Len(accepted) : AcceptedOk(i)'
    BY <1>0, <2>2, <2>4 DEF Inv, AcceptedOk
  <2>6. ASSUME NEW i \in Nat, i = Len(accepted) + 1 PROVE AcceptedOk(i)'
    <3>1. a.env = e /\ a.at = clock /\ a.run = run
      OBVIOUS
    <3>2. Distance(clock, e.ts) <= FreshWindow
      BY <1>2 DEF Verified, Fresh
    <3>3. run <= run /\ e.nonce \in nonceStore \cup {e.nonce}
      BY <1>0
    <3> HIDE DEF a
    <3>4. accepted'[i] = a
      BY <2>4, <2>6
    <3> QED BY <1>0, <2>1, <2>2, <3>1, <3>2, <3>3, <3>4 DEF AcceptedOk
  <2>7. \A i \in 1..Len(accepted) : accepted[i].env.nonce = e.nonce =>
            accepted[i].run < run /\ clock - accepted[i].at <= 2 * FreshWindow
    <3> SUFFICES ASSUME NEW i \in 1..Len(accepted), accepted[i].env.nonce = e.nonce
                 PROVE  accepted[i].run < run /\ clock - accepted[i].at <= 2 * FreshWindow
      OBVIOUS
    <3>1. /\ accepted[i].env = e
          /\ Distance(accepted[i].at, e.ts) <= FreshWindow
          /\ accepted[i].run <= run /\ accepted[i].run # run
      BY <1>0, <1>2, <2>1, <2>4 DEF Inv, AcceptedOk, Verified
    <3>2. Distance(clock, e.ts) <= FreshWindow
      BY <1>2 DEF Verified, Fresh
    <3>3. accepted[i].run \in Int /\ accepted[i].at \in Int /\ e.ts \in Int
      <4>1. accepted[i] \in [env : Envelope, at : 0..MaxClock, run : 1..MaxRuns]
        <5> DEFINE Entry == [env : Envelope, at : 0..MaxClock, run : 1..MaxRuns]
        <5>1. accepted \in Seq(Entry)
          BY <2>3
        <5> HIDE DEF Entry
        <5>2. accepted[i] \in Entry
          BY <2>4, <5>1
        <5> QED BY <5>2 DEF Entry
      <4> QED BY <1>0, <2>1, <4>1
    <3> QED BY <1>0, <3>1, <3>2, <3>3 DEF Distance
  <2>8. ReplayBounded'
    <3> SUFFICES ASSUME NEW i \in 1..(Len(accepted) + 1), NEW j \in 1..(Len(accepted) + 1),
                        i < j, accepted'[i].env.nonce = accepted'[j].env.nonce
                 PROVE  /\ accepted'[i].run < accepted'[j].run
                        /\ accepted'[j].at - accepted'[i].at <= 2 * FreshWindow
      BY <2>4 DEF ReplayBounded
    <3>1. CASE j = Len(accepted) + 1
      <4>1. i \in 1..Len(accepted)
        BY <2>4, <3>1
      <4> QED BY <2>4, <2>7, <3>1, <4>1
    <3>2. CASE j # Len(accepted) + 1
      <4>1. i \in 1..Len(accepted) /\ j \in 1..Len(accepted)
        BY <2>4, <3>2
      <4> QED BY <2>4, <4>1 DEF Inv, ReplayBounded
    <3> QED BY <3>1, <3>2
  <2>9. \A i \in DOMAIN accepted' : i \in 1..Len(accepted) \/ (i \in Nat /\ i = Len(accepted) + 1)
    BY <2>4
  <2> QED BY <2>5, <2>6, <2>8, <2>9
<1> QED BY <1>1, <1>2

\* The remaining conjuncts of the invariant.
LEMMA SentStep ==
  ASSUME Inv, [Next]_vars
  PROVE  /\ \A e, f \in sent' : e.nonce = f.nonce => e = f
         /\ \A e \in sent' : e.ts \in Int
<1>1. CASE sent' = sent
  BY <1>1 DEF Inv
<1>2. CASE ServerSend
  <2>1. PICK e \in [nonce : Nonce, ts : (clock - Skew)..(clock + Skew),
                    verifies : {TRUE}, notify : BOOLEAN] :
          sent' = sent \cup {e} /\ \A f \in sent : f.nonce # e.nonce
    BY <1>2 DEF ServerSend
  <2>2. e.ts \in Int
    <3>1. clock \in Int /\ Skew \in Int
      BY ListenerAssumption DEF Inv, TypeOK
    <3> QED BY <2>1, <3>1
  <2> QED BY <2>1, <2>2 DEF Inv
<1>3. sent' = sent \/ ServerSend
  BY DEF Next, Main, Connect, ConnectFails, Close, Return, End, Cancel, Loop, LoopTop, ReadError,
     Frame, ReadOther, ReadMalformed, ReadEnvelope, Answer, Outside, Tick, RelayUp, RelayDown,
     ConnectionBreaks, Signal, Killed, Restart, environment, vars
<1> QED BY <1>1, <1>2, <1>3

\* Only a run that is connected or closing has a loop that reads.
LEMMA LoopStep ==
  ASSUME Inv, [Next]_vars
  PROVE  (loop \in {"top", "reading", "asking"} => main \in {"waiting", "closing"})'
  BY DEF Inv, Next, Main, Connect, ConnectFails, Close, Return, End, Cancel, Loop, LoopTop,
     ReadError, Frame, ReadOther, ReadMalformed, ReadEnvelope, Answer, Outside, ServerSend, Tick,
     RelayUp, RelayDown, ConnectionBreaks, Signal, Killed, Restart, client, process, command, vars

\* The invariant is inductive.
LEMMA InvStep == Inv /\ [Next]_vars => Inv'
<1> SUFFICES ASSUME Inv, [Next]_vars PROVE Inv'
  OBVIOUS
<1>1. TypeOK'
  BY TypeStep DEF Inv
<1>2. (\A i \in DOMAIN accepted' : AcceptedOk(i)') /\ ReplayBounded'
  <2>1. ASSUME NEW e \in sent \cup Unverifiable, ReadEnvelope(e)
        PROVE  (\A i \in DOMAIN accepted' : AcceptedOk(i)') /\ ReplayBounded'
    BY <2>1, AcceptStep
  <2>2. CASE Restart
    <3>1. accepted' = accepted /\ sent' = sent /\ main = "exited" /\ run' = run + 1
      BY <2>2 DEF Restart, environment
    <3>2. \A i \in DOMAIN accepted : accepted[i].run \in Int
      <4> DEFINE Entry == [env : Envelope, at : 0..MaxClock, run : 1..MaxRuns]
      <4>1. accepted \in Seq(Entry)
        BY DEF Inv, TypeOK
      <4> HIDE DEF Entry
      <4>2. \A i \in DOMAIN accepted : accepted[i] \in Entry
        BY <4>1
      <4> QED BY <4>2 DEF Entry
    <3>3. run \in Int
      BY DEF Inv, TypeOK
    <3> QED BY <3>1, <3>2, <3>3 DEF Inv, AcceptedOk, ReplayBounded
  <2>3. ASSUME accepted' = accepted, sent \subseteq sent', run' = run,
               main' = "exited" \/ (main # "exited" /\ nonceStore \subseteq nonceStore')
        PROVE  (\A i \in DOMAIN accepted' : AcceptedOk(i)') /\ ReplayBounded'
    BY <2>3, QuietStep DEF Inv, ReplayBounded
  <2>4. CASE Main \/ Cancel \/ Loop \/ ReadOther \/ ReadMalformed \/ Answer
    BY <2>4, <2>3 DEF Inv, Main, Connect, ConnectFails, Close, Return, End, Cancel, Loop, LoopTop,
       ReadError, ReadOther, ReadMalformed, Answer, environment, client, process, command
  <2>5. CASE ServerSend \/ Tick \/ RelayUp \/ RelayDown \/ ConnectionBreaks \/ Signal \/ Killed
    BY <2>5, <2>3 DEF ServerSend, Tick, RelayUp, RelayDown, ConnectionBreaks, Signal, Killed, End,
       environment, client, process, command
  <2>6. CASE UNCHANGED vars
    BY <2>6, <2>3 DEF vars, environment, client, process, command
  <2> QED BY <2>1, <2>2, <2>4, <2>5, <2>6 DEF Next, Frame, Outside
<1> QED BY <1>1, <1>2, SentStep, LoopStep DEF Inv

\* The state keeps its types.
THEOREM TypeCorrect == Spec => []TypeOK
<1>1. Inv => TypeOK
  BY DEF Inv
<1> QED BY <1>1, InitInv, InvStep, PTL DEF Spec

\* No run accepts an envelope twice, and a later run accepts it again at most
\* two freshness windows after the first time, whatever the relay repeats.
THEOREM ReplaySafe == Spec => []ReplayBounded
<1>1. Inv => ReplayBounded
  BY DEF Inv
<1> QED BY <1>1, InitInv, InvStep, PTL DEF Spec

\* IsConnected answers TRUE only while messageLoop reads or the run is ending.
THEOREM StatusSafe == Spec => []StatusHonest
<1>1. Init => StatusHonest
  BY DEF Init, StatusHonest
<1>2. StatusHonest /\ [Next]_vars => StatusHonest'
  BY DEF StatusHonest, Next, Main, Connect, ConnectFails, Close, Return, End, Cancel, Loop,
     LoopTop, ReadError, ConnectedAfterError, Frame, ReadOther, ReadMalformed, ReadEnvelope,
     Answer, Outside, ServerSend, Tick, RelayUp, RelayDown, ConnectionBreaks, Signal, Killed,
     Restart, client, process, command, vars
<1> QED BY <1>1, <1>2, PTL DEF Spec

\* Every entry of the history is what TypeOK says.
LEMMA EntryType ==
  ASSUME Inv, NEW i \in DOMAIN accepted
  PROVE  accepted[i].run \in Int /\ accepted[i].at \in Int
<1> DEFINE Entry == [env : Envelope, at : 0..MaxClock, run : 1..MaxRuns]
<1>1. accepted \in Seq(Entry)
  BY DEF Inv, TypeOK
<1> HIDE DEF Entry
<1>2. accepted[i] \in Entry
  BY <1>1
<1> QED BY <1>2 DEF Entry

\* Every step is one of Delivery's or one that it does not see: an acceptance is
\* of something made, in time, and new to the run, because the store remembers
\* all the run has accepted.
LEMMA DeliveryStep == Inv /\ [Next]_vars => [Dl!Next]_(Dl!vars)
<1> SUFFICES ASSUME Inv, [Next]_vars PROVE [Dl!Next]_(Dl!vars)
  OBVIOUS
<1> USE DEF Dl!Next, Dl!vars
<1>1. ASSUME NEW e \in sent \cup Unverifiable, ReadEnvelope(e)
      PROVE  [Dl!Next]_(Dl!vars)
  <2>1. main # "exited" /\ UNCHANGED <<clock, run, sent>>
    BY <1>1 DEF Inv, ReadEnvelope, environment, process
  <2>2. CASE ~Verified(e)
    BY <1>1, <2>1, <2>2 DEF ReadEnvelope
  <2>3. CASE Verified(e)
    <3>1. e \in sent
      BY <2>3 DEF Verified, Unverifiable
    <3>2. accepted' = Append(accepted, [env |-> e, at |-> clock, run |-> run])
      BY <1>1, <2>3 DEF ReadEnvelope
    <3>3. \A i \in DOMAIN accepted : accepted[i].run = run => accepted[i].env # e
      BY <2>1, <2>3 DEF Inv, AcceptedOk, Verified
    <3>4. Dl!Timely(e)
      <4>1. clock \in Int /\ e.ts \in Int /\ FreshWindow \in Int
        BY <3>1, ListenerAssumption DEF Inv, TypeOK
      <4> QED BY <2>3, <4>1 DEF Verified, Fresh, Distance, Dl!Timely
    <3>5. Dl!Act(e)
      BY <2>1, <3>2, <3>3, <3>4 DEF Dl!Act
    <3> QED BY <3>1, <3>5
  <2> QED BY <2>2, <2>3
<1>2. CASE Main \/ Cancel \/ Loop \/ ReadOther \/ ReadMalformed \/ Answer
  BY <1>2 DEF Main, Connect, ConnectFails, Close, Return, End, Cancel, Loop, LoopTop,
     ReadError, ReadOther, ReadMalformed, Answer, environment, client, process, command
<1>3. CASE ServerSend
  BY <1>3 DEF ServerSend, Dl!Make, client, process
<1>4. CASE Tick
  BY <1>4 DEF Tick, Dl!Tick, client, process
<1>5. CASE RelayUp \/ RelayDown \/ ConnectionBreaks \/ Signal \/ Killed
  BY <1>5 DEF RelayUp, RelayDown, ConnectionBreaks, Signal, Killed, End, environment, client,
     process, command
<1>6. CASE Restart
  BY <1>6 DEF Restart, Dl!NewRun, environment
<1>7. CASE UNCHANGED vars
  BY <1>7 DEF vars, environment, process
<1> QED BY <1>1, <1>2, <1>3, <1>4, <1>5, <1>6, <1>7 DEF Next, Frame, Outside

\* Listener implements Delivery.
THEOREM Refinement == Spec => ImplementsDelivery
<1>1. Init => Dl!Init
  BY DEF Init, Dl!Init
<1> QED BY <1>1, InitInv, InvStep, DeliveryStep, PTL DEF Spec, ImplementsDelivery, Dl!Spec

\* And Delivery's promise is kept: whatever a run acted on, the server had made and
\* it was within the window then, and no run acted on one thing twice.
THEOREM PromiseKept == Spec => []Dl!Promise
<1>1. Inv => Dl!Promise
  <2> SUFFICES ASSUME Inv PROVE Dl!Promise
    OBVIOUS
  <2>1. ASSUME NEW i \in DOMAIN accepted
        PROVE  /\ accepted[i].env \in sent
               /\ accepted[i].at - accepted[i].env.ts <= FreshWindow
               /\ accepted[i].env.ts - accepted[i].at <= FreshWindow
    <3>1. accepted[i].at \in Int /\ accepted[i].env.ts \in Int /\ FreshWindow \in Int
      BY EntryType, ListenerAssumption DEF Inv, AcceptedOk
    <3> QED BY <3>1 DEF Inv, AcceptedOk, Distance
  <2>2. ASSUME NEW i \in DOMAIN accepted, NEW j \in DOMAIN accepted,
               i # j, accepted[i].run = accepted[j].run
        PROVE  accepted[i].env # accepted[j].env
    <3>1. i \in Int /\ j \in Int
      BY DEF Inv, TypeOK
    <3>2. accepted[i].run \in Int /\ accepted[j].run \in Int
      BY EntryType
    <3>3. i < j \/ j < i
      BY <2>2, <3>1
    <3> QED BY <2>2, <3>2, <3>3 DEF Inv, ReplayBounded
  <2> QED BY <2>1, <2>2 DEF Dl!Promise
<1> QED BY <1>1, InitInv, InvStep, PTL DEF Spec

\* The converse of what AcceptedOk says of the store: it has the nonces of this
\* run's acceptances and no others; and what the server makes verifies.
StoreOk ==
    /\ \A n \in nonceStore :
         \E i \in DOMAIN accepted : accepted[i].run = run /\ accepted[i].env.nonce = n
    /\ \A e \in sent : e.verifies
    /\ main = "exited" => nonceStore = {}

\* Every step keeps it.
LEMMA StoreStep == Inv /\ StoreOk /\ [Next]_vars => StoreOk'
<1> SUFFICES ASSUME Inv, StoreOk, [Next]_vars PROVE StoreOk'
  OBVIOUS
<1>1. ASSUME NEW e \in sent \cup Unverifiable, ReadEnvelope(e) PROVE StoreOk'
  <2>1. main # "exited" /\ UNCHANGED <<main, run, sent>>
    BY <1>1 DEF Inv, ReadEnvelope, environment, process
  <2>2. CASE ~Verified(e)
    BY <1>1, <2>1, <2>2 DEF ReadEnvelope, NoncesAfter, StoreOk
  <2>3. CASE Verified(e)
    <3> DEFINE a == [env |-> e, at |-> clock, run |-> run]
               Entry == [env : Envelope, at : 0..MaxClock, run : 1..MaxRuns]
    <3>1. accepted' = Append(accepted, a) /\ nonceStore' = nonceStore \cup {e.nonce}
      BY <1>1, <2>3 DEF ReadEnvelope, NoncesAfter
    <3>2. accepted \in Seq(Entry)
      BY DEF Inv, TypeOK
    <3>3. a.run = run /\ a.env.nonce = e.nonce
      OBVIOUS
    <3> HIDE DEF a, Entry
    <3>4. /\ \A i \in DOMAIN accepted : i \in DOMAIN accepted' /\ accepted'[i] = accepted[i]
          /\ \E i \in DOMAIN accepted' : accepted'[i] = a
      <4>1. /\ Len(accepted) \in Nat /\ DOMAIN accepted = 1..Len(accepted)
            /\ DOMAIN accepted' = 1..(Len(accepted) + 1)
            /\ \A i \in 1..Len(accepted) : accepted'[i] = accepted[i]
            /\ accepted'[Len(accepted) + 1] = a
        BY <3>1, <3>2
      <4>2. Len(accepted) + 1 \in DOMAIN accepted'
        BY <4>1
      <4> QED BY <4>1, <4>2
    <3> QED BY <2>1, <3>1, <3>3, <3>4 DEF StoreOk
  <2> QED BY <2>2, <2>3
<1>2. CASE Main \/ Cancel \/ Loop \/ ReadOther \/ ReadMalformed \/ Answer
  BY <1>2 DEF StoreOk, Main, Connect, ConnectFails, Close, Return, End, Cancel, Loop, LoopTop,
     ReadError, ReadOther, ReadMalformed, Answer, environment, client, process, command
<1>3. CASE ServerSend
  BY <1>3 DEF StoreOk, ServerSend, client, process
<1>4. CASE Tick \/ RelayUp \/ RelayDown \/ ConnectionBreaks \/ Signal \/ Killed
  BY <1>4 DEF StoreOk, Tick, RelayUp, RelayDown, ConnectionBreaks, Signal, Killed, End,
     environment, client, process, command
<1>5. CASE Restart
  BY <1>5 DEF StoreOk, Restart, environment
<1>6. CASE UNCHANGED vars
  BY <1>6 DEF StoreOk, vars, environment, client, process
<1> QED BY <1>1, <1>2, <1>3, <1>4, <1>5, <1>6 DEF Next, Frame, Outside

\* It holds throughout, beside the invariant it rests on.
LEMMA StoreInvariance == Spec => [](Inv /\ StoreOk)
<1>1. Init => StoreOk
  BY DEF Init, StoreOk
<1> QED BY <1>1, InitInv, InvStep, StoreStep, PTL DEF Spec

\* A store that forgot every nonce whose stamp is older than the window would give
\* the same verdicts: what this run accepted is what its store holds, a nonce is
\* that of one envelope, and an envelope that is fresh is not old.
THEOREM ForgettingSafe == Spec => []OldNoncesIdle
<1>1. Inv /\ StoreOk => OldNoncesIdle
  <2> SUFFICES ASSUME Inv, StoreOk, loop = "reading", NEW e \in sent
               PROVE  Verified(e) <=> Fresh(e) /\ e.nonce \notin Recent
    BY DEF OldNoncesIdle
  <2>1. main # "exited" /\ e.verifies
    BY DEF Inv, StoreOk
  <2>2. clock \in Int /\ e.ts \in Int /\ FreshWindow \in Int
    BY ListenerAssumption DEF Inv, TypeOK
  <2>3. Recent \subseteq nonceStore
    BY <2>1 DEF Inv, AcceptedOk, Recent
  <2>4. ASSUME Fresh(e), e.nonce \in nonceStore PROVE e.nonce \in Recent
    <3>1. PICK i \in DOMAIN accepted : accepted[i].run = run /\ accepted[i].env.nonce = e.nonce
      BY <2>4 DEF StoreOk
    <3>2. accepted[i].env = e
      BY <3>1 DEF Inv, AcceptedOk
    <3>3. clock - e.ts <= FreshWindow
      BY <2>2, <2>4 DEF Fresh, Distance
    <3> QED BY <3>1, <3>2, <3>3 DEF Recent
  <2> QED BY <2>1, <2>3, <2>4 DEF Verified
<1> QED BY <1>1, StoreInvariance, PTL

\* No envelope is lost to another one, whatever the run has rejected before.
THEOREM GenuineSafe == Spec => GenuineAccepted
<1> DEFINE Promise ==
      \A e \in sent :
         (ReadEnvelope(e) /\ Fresh(e)
            /\ \A i \in DOMAIN accepted : accepted[i].run = run => accepted[i].env.nonce # e.nonce)
         => Len(accepted') > Len(accepted)
<1>1. Inv /\ StoreOk => Promise
  <2> SUFFICES ASSUME Inv, StoreOk, NEW e \in sent, ReadEnvelope(e), Fresh(e),
                      \A i \in DOMAIN accepted :
                          accepted[i].run = run => accepted[i].env.nonce # e.nonce
               PROVE  Len(accepted') > Len(accepted)
    OBVIOUS
  <2> DEFINE a == [env |-> e, at |-> clock, run |-> run]
             Entry == [env : Envelope, at : 0..MaxClock, run : 1..MaxRuns]
  <2>1. Verified(e)
    BY DEF StoreOk, Verified
  <2>2. accepted' = Append(accepted, a) /\ accepted \in Seq(Entry)
    BY <2>1 DEF ReadEnvelope, Inv, TypeOK
  <2> HIDE DEF a, Entry
  <2> QED BY <2>2
<1>2. Inv /\ StoreOk /\ [Next]_vars => [Promise]_vars
  BY <1>1
<1> QED BY <1>2, StoreInvariance, PTL DEF Spec, GenuineAccepted
=============================================================================
