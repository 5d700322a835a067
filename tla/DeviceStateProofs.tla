------------------------- MODULE DeviceStateProofs -------------------------
(***************************************************************************)
(* DeviceState's safety properties for every set of processes, keys,       *)
(* servers and addresses.                                                  *)
(***************************************************************************)
EXTENDS DeviceState, TLAPS

\* The initial state satisfies the inductive invariant.
LEMMA InitInv == Init => Inv
  BY NoneAssumption, FileAssumption
     DEF Init, Inv, TypeOK, Memory, PairingsOk, PairingConfirmed, Fresh, HoldsState,
         IdentityConsistent, Window, Pcs, LoadedPcs, SavePcs, WindowPcs, Commands, InitCommands

\* A step keeps the types.
LEMMA TypeStep ==
  ASSUME TypeOK, NEW p \in Proc, Memory(p), Step(p)
  PROVE  TypeOK'
<1> USE DEF TypeOK, Memory, Exit, Start, Goto, Overtake, Pcs, LoadedPcs, SavePcs, WindowPcs,
            Commands, InitCommands, files, local, ghosts
<1>1. CASE InitCheck(p)
  BY <1>1 DEF InitCheck, NewState, StateRec
<1>2. CASE PairLoad(p) \/ RegisterLoad(p) \/ ListenLoadState(p)
  BY <1>2 DEF PairLoad, RegisterLoad, ListenLoadState, Load
<1>3. CASE PairInit(p)
  BY <1>3 DEF PairInit
<1>4. CASE PairPrompt(p)
  BY <1>4 DEF PairPrompt, OfferedPairing, Pairing, StateRec, Offer
<1>5. CASE PairComplete(p)
  BY <1>5 DEF PairComplete, Paired, OfferedPairing, Pairing, StateRec, Offer
<1>6. CASE PairAnswerLost(p)
  BY <1>6 DEF PairAnswerLost, OfferedPairing, Pairing, StateRec, Offer
<1>7. CASE RegisterPost(p)
  BY <1>7 DEF RegisterPost, Registered, StateRec
<1>8. CASE UnpairLoad(p)
  BY <1>8 DEF UnpairLoad, Unpaired, StateRec
<1>9. CASE StateTrunc(p)
  BY <1>9 DEF StateTrunc
<1>10. CASE StateWrite(p)
  BY <1>10 DEF StateWrite, SavesMnemonic, Overlay
<1>11. CASE MnemonicTrunc(p)
  BY <1>11 DEF MnemonicTrunc
<1>12. CASE MnemonicWrite(p)
  BY <1>12 DEF MnemonicWrite, Overlay, SavedMnemonic, StateRec
<1>13. CASE SignLoadKey(p) \/ SignLoadState(p) \/ ListenLoadKey(p)
  BY <1>13 DEF SignLoadKey, SignLoadState, ListenLoadKey
<1>14. CASE LoadFails(p) \/ RequestFails(p) \/ PairDeclined(p) \/ Finish(p)
  BY <1>14 DEF LoadFails, RequestFails, PairDeclined, Finish, ExitUnchanged
<1>15. CASE SaveFails(p)
  BY <1>15 DEF SaveFails
<1> QED
  BY <1>1, <1>2, <1>3, <1>4, <1>5, <1>6, <1>7, <1>8, <1>9, <1>10, <1>11, <1>12, <1>13,
     <1>14, <1>15 DEF Step, Local

\* A step keeps what every process holds in memory.
LEMMA MemoryStep ==
  ASSUME TypeOK, NEW p \in Proc, Step(p), \A r \in Proc : Memory(r), NEW q \in Proc
  PROVE  Memory(q)'
<1> USE NoneAssumption, FileAssumption
    DEF TypeOK, Memory, Exit, Start, Goto, Pcs, LoadedPcs, SavePcs, WindowPcs,
        Commands, InitCommands, OfferedPairing, files, local, ghosts
<1>1. CASE InitCheck(p)
  BY <1>1 DEF InitCheck, NewState, StateRec
<1>2. CASE PairLoad(p) \/ RegisterLoad(p) \/ ListenLoadState(p)
  BY <1>2 DEF PairLoad, RegisterLoad, ListenLoadState, Load
<1>3. CASE PairInit(p)
  BY <1>3 DEF PairInit
<1>4. CASE PairPrompt(p)
  BY <1>4 DEF PairPrompt
<1>5. CASE PairComplete(p)
  BY <1>5 DEF PairComplete, Paired, StateRec, Offer
<1>6. CASE PairAnswerLost(p)
  BY <1>6 DEF PairAnswerLost
<1>7. CASE RegisterPost(p)
  BY <1>7 DEF RegisterPost, Registered, StateRec
<1>8. CASE UnpairLoad(p)
  BY <1>8 DEF UnpairLoad, Unpaired, StateRec
<1>9. CASE StateTrunc(p)
  BY <1>9 DEF StateTrunc
<1>10. CASE StateWrite(p)
  BY <1>10 DEF StateWrite, SavesMnemonic
<1>11. CASE MnemonicTrunc(p)
  BY <1>11 DEF MnemonicTrunc
<1>12. CASE MnemonicWrite(p)
  BY <1>12 DEF MnemonicWrite
<1>13. CASE SignLoadKey(p) \/ SignLoadState(p) \/ ListenLoadKey(p)
  BY <1>13 DEF SignLoadKey, SignLoadState, ListenLoadKey
<1>14. CASE LoadFails(p) \/ RequestFails(p) \/ PairDeclined(p) \/ Finish(p)
  BY <1>14 DEF LoadFails, RequestFails, PairDeclined, Finish, ExitUnchanged
<1>15. CASE SaveFails(p)
  BY <1>15 DEF SaveFails
<1> QED
  BY <1>1, <1>2, <1>3, <1>4, <1>5, <1>6, <1>7, <1>8, <1>9, <1>10, <1>11, <1>12, <1>13,
     <1>14, <1>15 DEF Step, Local

\* The pairings that count as confirmed only grow, so a State that was all right
\* stays so.
LEMMA PairingOkStep ==
  ASSUME NEW p \in Proc, Step(p), NEW s, PairingOk(s)
  PROVE  PairingOk(s)'
<1>1. confirmed \subseteq confirmed' /\ paired \subseteq paired'
  BY DEF Step, Local, InitCheck, PairLoad, RegisterLoad, ListenLoadState, Load, PairInit,
         PairPrompt, PairComplete, PairAnswerLost, RegisterPost, UnpairLoad, StateTrunc,
         StateWrite, MnemonicTrunc, MnemonicWrite, SignLoadKey, SignLoadState, ListenLoadKey,
         LoadFails, RequestFails, PairDeclined, Finish, ExitUnchanged, SaveFails
<1> QED BY <1>1 DEF PairingOk

\* What a process holds after a step it held before, read from the file, or is
\* a State whose pairing is all right.
LEMMA StOrigin ==
  ASSUME Inv, NEW p \in Proc, Step(p), NEW q \in Proc, NEW s \in StateRec, st'[q] = s
  PROVE  s \in {st[q], stateFile} \/ PairingOk(s)'
<1> USE NoneAssumption, FileAssumption
    DEF Inv, TypeOK, Memory, Exit, Start, Goto, files, local, ghosts
<1>1. CASE InitCheck(p)
  BY <1>1 DEF InitCheck, NewState, PairingOk
<1>2. CASE PairLoad(p) \/ RegisterLoad(p) \/ ListenLoadState(p)
  BY <1>2 DEF PairLoad, RegisterLoad, ListenLoadState, Load
<1>3. CASE PairInit(p) \/ PairPrompt(p) \/ StateTrunc(p) \/ MnemonicTrunc(p) \/ SignLoadKey(p)
           \/ ListenLoadKey(p)
  BY <1>3 DEF PairInit, PairPrompt, StateTrunc, MnemonicTrunc, SignLoadKey, ListenLoadKey
<1>4. CASE PairComplete(p)
  <2>1. OfferedPairing(p) \in confirmed' \cap paired'
    BY <1>4 DEF PairComplete
  <2>2. offer[p] \in Offer
    BY <1>4 DEF PairComplete
  <2> QED BY <1>4, <2>1, <2>2 DEF PairComplete, Paired, PairingOk, OfferedPairing, Offer
<1>5. CASE RegisterPost(p)
  <2>1. PairingOk(st[p])
    BY <1>5 DEF RegisterPost, LoadedPcs, PairingsOk
  <2> QED BY <1>5, <2>1 DEF RegisterPost, Registered, PairingOk
<1>6. CASE UnpairLoad(p)
  BY <1>6 DEF UnpairLoad, Unpaired, PairingOk
<1>7. CASE StateWrite(p) \/ MnemonicWrite(p) \/ PairAnswerLost(p) \/ SaveFails(p)
  BY <1>7 DEF StateWrite, SavesMnemonic, MnemonicWrite, PairAnswerLost, SaveFails
<1>8. CASE SignLoadState(p)
  BY <1>8 DEF SignLoadState
<1>9. CASE LoadFails(p) \/ RequestFails(p) \/ PairDeclined(p) \/ Finish(p)
  BY <1>9 DEF LoadFails, RequestFails, PairDeclined, Finish, ExitUnchanged
<1> QED
  BY <1>1, <1>2, <1>3, <1>4, <1>5, <1>6, <1>7, <1>8, <1>9 DEF Step, Local

\* state.json that parses after a step parsed before, or is what p saved.
LEMMA StateFileOrigin ==
  ASSUME TypeOK, \A r \in Proc : Memory(r), NEW p \in Proc, Step(p), stateFile' \in StateRec
  PROVE  \/ stateFile' = stateFile
         \/ StateWrite(p) /\ stateFile' = st[p]
<1> USE FileAssumption DEF files
<1>1. CASE StateWrite(p)
  BY <1>1 DEF StateWrite, SavesMnemonic, Overlay
<1>2. CASE StateTrunc(p) \/ SaveFails(p)
  BY <1>2 DEF StateTrunc, SaveFails
<1> QED
  BY <1>1, <1>2 DEF Step, Local, InitCheck, PairLoad, RegisterLoad, ListenLoadState, Load,
     PairInit, PairPrompt, PairComplete, PairAnswerLost, RegisterPost, UnpairLoad,
     MnemonicTrunc, MnemonicWrite, SignLoadKey, SignLoadState, ListenLoadKey,
     LoadFails, RequestFails, PairDeclined, Finish, ExitUnchanged

\* A step keeps every pairing, on disk and in memory, a confirmed one.
LEMMA PairingsStep ==
  ASSUME Inv, NEW p \in Proc, Step(p)
  PROVE  PairingsOk'
<1> USE DEF Inv
<1>1. ASSUME NEW s \in StateRec, stateFile' = s PROVE PairingOk(s)'
  <2>1. PairingOk(s)
    BY <1>1, StateFileOrigin DEF PairingsOk, PairingConfirmed
  <2> QED BY <2>1, PairingOkStep
<1>2. ASSUME NEW q \in Proc, NEW s \in StateRec, st'[q] = s PROVE PairingOk(s)'
  <2>1. CASE s \in {st[q], stateFile}
    <3>1. PairingOk(s)
      BY <1>2, <2>1 DEF PairingsOk, PairingConfirmed
    <3> QED BY <3>1, PairingOkStep
  <2> QED BY <1>2, <2>1, StOrigin
<1> QED BY <1>1, <1>2 DEF PairingsOk, PairingConfirmed, PairingOk

\* A step of p leaves the memory of q alone, and overtakes q when it writes a
\* file, closes a window or clears the taint.
LEMMA OtherStep ==
  ASSUME Inv, NEW p \in Proc, Step(p), NEW q \in Proc \ {p}
  PROVE  /\ pc'[q] = pc[q] /\ cmd'[q] = cmd[q] /\ st'[q] = st[q] /\ key'[q] = key[q]
         /\ q \in overtaken => q \in overtaken'
         /\ (pc[q] # "idle" /\ q \notin overtaken') =>
                /\ UNCHANGED files
                /\ tainted => tainted'
                /\ Window => Window'
<1> USE DEF Inv, TypeOK, Exit, Start, Goto, Overtake, files, local, ghosts
<1>1. ASSUME UNCHANGED files, UNCHANGED tainted, pc[p] \notin WindowPcs,
             pc' = [pc EXCEPT ![p] = pc'[p]]
      PROVE  UNCHANGED files /\ (tainted => tainted') /\ (Window => Window')
  BY <1>1 DEF Window
<1>2. CASE InitCheck(p)
  BY <1>2, <1>1 DEF InitCheck, WindowPcs
<1>3. CASE PairLoad(p) \/ RegisterLoad(p) \/ ListenLoadState(p)
  BY <1>3, <1>1 DEF PairLoad, RegisterLoad, ListenLoadState, Load, WindowPcs
<1>4. CASE PairInit(p) \/ PairPrompt(p) \/ PairComplete(p) \/ RegisterPost(p)
  BY <1>4, <1>1 DEF PairInit, PairPrompt, PairComplete, RegisterPost, WindowPcs
<1>5. CASE PairAnswerLost(p)
  BY <1>5, <1>1 DEF PairAnswerLost, WindowPcs
<1>6. CASE UnpairLoad(p) \/ SignLoadKey(p) \/ SignLoadState(p) \/ ListenLoadKey(p)
  BY <1>6, <1>1 DEF UnpairLoad, SignLoadKey, SignLoadState, ListenLoadKey, WindowPcs
<1>7. CASE StateTrunc(p) \/ MnemonicTrunc(p)
  BY <1>7 DEF StateTrunc, MnemonicTrunc
<1>8. CASE StateWrite(p)
  BY <1>8 DEF StateWrite, SavesMnemonic
<1>9. CASE MnemonicWrite(p)
  BY <1>9 DEF MnemonicWrite
<1>10. CASE LoadFails(p) \/ RequestFails(p) \/ PairDeclined(p) \/ Finish(p)
  BY <1>10, <1>1 DEF LoadFails, RequestFails, PairDeclined, Finish, ExitUnchanged,
     RequestPcs, WindowPcs
<1>11. CASE SaveFails(p)
  BY <1>11, <1>1 DEF SaveFails, WindowPcs
<1> QED
  BY <1>2, <1>3, <1>4, <1>5, <1>6, <1>7, <1>8, <1>9, <1>10, <1>11 DEF Step, Local

\* A step of p keeps what p knows of the files.
LEMMA OwnStep ==
  ASSUME Inv, NEW p \in Proc, Step(p)
  PROVE  Fresh(p)'
<1> USE NoneAssumption
    DEF Inv, TypeOK, Memory, Exit, Start, Goto, Overtake, files, local, ghosts, Fresh,
        HoldsState, OnlyItsOwnChange, LoadedPcs, SavePcs, WindowPcs
<1>1. CASE InitCheck(p)
  BY <1>1 DEF InitCheck, InitCommands, Exists
<1>2. CASE PairLoad(p) \/ RegisterLoad(p) \/ ListenLoadState(p)
  BY <1>2 DEF PairLoad, RegisterLoad, ListenLoadState, Load
<1>3. CASE PairInit(p)
  BY <1>3 DEF PairInit
<1>4. CASE PairPrompt(p)
  BY <1>4 DEF PairPrompt
<1>5. CASE PairComplete(p)
  BY <1>5 DEF PairComplete, Paired, InitCommands
<1>6. CASE RegisterPost(p)
  BY <1>6 DEF RegisterPost, Registered, InitCommands
<1>7. CASE PairAnswerLost(p) \/ LoadFails(p) \/ RequestFails(p) \/ PairDeclined(p) \/ Finish(p)
           \/ SaveFails(p) \/ MnemonicWrite(p)
  BY <1>7 DEF PairAnswerLost, LoadFails, RequestFails, PairDeclined, Finish, ExitUnchanged,
     SaveFails, MnemonicWrite
<1>8. CASE UnpairLoad(p)
  BY <1>8 DEF UnpairLoad, Unpaired
<1>9. CASE StateTrunc(p)
  <2>1. Window' <=> Window
    BY <1>9 DEF StateTrunc, Window
  <2> QED BY <1>9, <2>1 DEF StateTrunc, IdentityConsistent
<1>10. CASE StateWrite(p)
  BY <1>10 DEF StateWrite, SavesMnemonic, Overlay
<1>11. CASE MnemonicTrunc(p)
  BY <1>11 DEF MnemonicTrunc
<1>12. CASE SignLoadKey(p)
  BY <1>12 DEF SignLoadKey
<1>13. CASE SignLoadState(p)
  BY <1>13 DEF SignLoadState
<1>14. CASE ListenLoadKey(p)
  BY <1>14 DEF ListenLoadKey
<1> QED
  BY <1>1, <1>2, <1>3, <1>4, <1>5, <1>6, <1>7, <1>8, <1>9, <1>10, <1>11, <1>12, <1>13,
     <1>14 DEF Step, Local

\* A step keeps what every process knows of the files.
LEMMA FreshStep ==
  ASSUME Inv, NEW p \in Proc, Step(p), NEW q \in Proc
  PROVE  Fresh(q)'
<1>1. CASE q = p
  BY <1>1, OwnStep
<1>2. CASE q # p
  <2>1. Fresh(q)
    BY DEF Inv
  <2> QED BY <1>2, <2>1, OtherStep
          DEF Fresh, HoldsState, OnlyItsOwnChange, files, LoadedPcs, SavePcs, WindowPcs
<1> QED BY <1>1, <1>2

\* A step keeps the two files of one identity.
LEMMA ConsistentStep ==
  ASSUME Inv, NEW p \in Proc, Step(p)
  PROVE  IdentityConsistent'
<1> USE FileAssumption DEF Inv, TypeOK, Exit, Start, Goto, files, local, ghosts
<1>1. ASSUME UNCHANGED files, UNCHANGED tainted, Window => Window'
      PROVE  IdentityConsistent'
  BY <1>1 DEF IdentityConsistent
<1>2. CASE StateTrunc(p)
  BY <1>2 DEF StateTrunc, IdentityConsistent
<1>3. CASE StateWrite(p)
  <2>1. CASE cmd[p] \in InitCommands
    BY <1>3, <2>1 DEF StateWrite, SavesMnemonic, IdentityConsistent, Window, WindowPcs
  <2>2. CASE cmd[p] \notin InitCommands
    <3>1. Window => Window'
      BY <1>3, <2>2 DEF StateWrite, SavesMnemonic, Window, WindowPcs
    <3> SUFFICES ASSUME p \notin overtaken, ~Window, ~tainted
                 PROVE  IdentityConsistent'
      BY <1>3, <3>1 DEF StateWrite, SavesMnemonic, IdentityConsistent
    <3>2. stateFile = Empty /\ mnemonicFile = st[p].device
      BY <1>3, <2>2 DEF StateWrite, SavesMnemonic, Fresh
    <3> QED BY <1>3, <3>2 DEF StateWrite, SavesMnemonic, Overlay, IdentityConsistent
  <2> QED BY <2>1, <2>2
<1>4. CASE MnemonicTrunc(p)
  BY <1>4 DEF MnemonicTrunc, IdentityConsistent, Window, WindowPcs
<1>5. CASE MnemonicWrite(p)
  <2> SUFFICES ASSUME p \notin overtaken, mnemonicFile = Empty
               PROVE  IdentityConsistent'
    BY <1>5 DEF MnemonicWrite, IdentityConsistent
  <2>1. stateFile.device = st[p].device /\ key[p] = st[p].device
    BY <1>5 DEF MnemonicWrite, Fresh, HoldsState, Memory, NewState, WindowPcs
  <2> QED BY <1>5, <2>1 DEF MnemonicWrite, Overlay, SavedMnemonic, IdentityConsistent
<1>6. CASE SaveFails(p)
  <2>1. CASE pc[p] \in WindowPcs
    BY <1>6, <2>1 DEF SaveFails, IdentityConsistent, WindowPcs
  <2>2. CASE pc[p] \notin WindowPcs
    <3>1. Window => Window'
      BY <1>6, <2>2 DEF SaveFails, Window, WindowPcs
    <3> QED BY <1>6, <2>2, <3>1 DEF SaveFails, IdentityConsistent
  <2> QED BY <2>1, <2>2
<1>7. ASSUME UNCHANGED files, UNCHANGED tainted, pc[p] \notin WindowPcs,
             pc' = [pc EXCEPT ![p] = pc'[p]]
      PROVE  IdentityConsistent'
  BY <1>7, <1>1 DEF Window
<1>8. CASE InitCheck(p)
  BY <1>8, <1>7 DEF InitCheck, WindowPcs
<1>9. CASE PairLoad(p) \/ RegisterLoad(p) \/ ListenLoadState(p)
  BY <1>9, <1>7 DEF PairLoad, RegisterLoad, ListenLoadState, Load, WindowPcs
<1>10. CASE PairInit(p) \/ PairPrompt(p) \/ PairComplete(p) \/ RegisterPost(p)
  BY <1>10, <1>7 DEF PairInit, PairPrompt, PairComplete, RegisterPost, WindowPcs
<1>11. CASE PairAnswerLost(p)
  BY <1>11, <1>7 DEF PairAnswerLost, WindowPcs
<1>12. CASE UnpairLoad(p) \/ SignLoadKey(p) \/ SignLoadState(p) \/ ListenLoadKey(p)
  BY <1>12, <1>7 DEF UnpairLoad, SignLoadKey, SignLoadState, ListenLoadKey, WindowPcs
<1>13. CASE LoadFails(p) \/ RequestFails(p) \/ PairDeclined(p) \/ Finish(p)
  BY <1>13, <1>7 DEF LoadFails, RequestFails, PairDeclined, Finish, ExitUnchanged,
     RequestPcs, WindowPcs
<1> QED
  BY <1>2, <1>3, <1>4, <1>5, <1>6, <1>8, <1>9, <1>10, <1>11, <1>12, <1>13 DEF Step, Local

\* The invariant is inductive.
LEMMA InvStep == Inv /\ [Next]_vars => Inv'
<1> SUFFICES ASSUME Inv, [Next]_vars PROVE Inv'
  OBVIOUS
<1>1. CASE UNCHANGED vars
  BY <1>1 DEF Inv, TypeOK, Memory, PairingsOk, PairingConfirmed, PairingOk, Fresh, HoldsState,
     OnlyItsOwnChange, IdentityConsistent, Window, OfferedPairing, vars, files, local, ghosts
<1>2. ASSUME NEW p \in Proc, Step(p) PROVE Inv'
  <2>1. TypeOK'
    BY <1>2, TypeStep DEF Inv
  <2>2. \A q \in Proc : Memory(q)'
    BY <1>2, MemoryStep DEF Inv
  <2>3. PairingsOk'
    BY <1>2, PairingsStep
  <2>4. \A q \in Proc : Fresh(q)'
    BY <1>2, FreshStep
  <2>5. IdentityConsistent'
    BY <1>2, ConsistentStep
  <2> QED BY <2>1, <2>2, <2>3, <2>4, <2>5 DEF Inv
<1> QED BY <1>1, <1>2 DEF Next

\* The inductive invariant holds throughout.
THEOREM Invariance == Spec => []Inv
<1> QED BY InitInv, InvStep, PTL DEF Spec

\* The files, the memory of every process and the history keep their types.
THEOREM TypeCorrect == Spec => []TypeOK
<1>1. Inv => TypeOK
  BY DEF Inv
<1> QED BY <1>1, Invariance, PTL

\* The pairing in state.json is one the user confirmed and the server committed
\* for the identity beside it, whatever overlaps and wherever a save stops.
THEOREM PairingSafe == Spec => []PairingConfirmed
<1>1. Inv => PairingConfirmed
  BY DEF Inv, PairingsOk
<1> QED BY <1>1, Invariance, PTL

\* state.json and mnemonic.txt name one identity unless an init is between its
\* saves, a save overlapped or an init stopped half way.
THEOREM IdentitySafe == Spec => []IdentityConsistent
<1>1. Inv => IdentityConsistent
  BY DEF Inv
<1> QED BY <1>1, Invariance, PTL

\* What respond, mpa, decrypt and listen read in two separate loads is a
\* confirmed pairing and the key it was made for, unless a save overlapped.
THEOREM SignerSafe == Spec => []SignerConsistent
<1>1. Inv => SignerConsistent
  <2> SUFFICES ASSUME Inv, NEW p \in Proc, pc[p] = "ready"
               PROVE  /\ st[p].server # None /\ PairingOk(st[p])
                      /\ (p \notin overtaken /\ ~Window /\ ~tainted) => key[p] = st[p].device
    BY DEF SignerConsistent
  <2>1. Memory(p) /\ Fresh(p)
    BY DEF Inv
  <2>2. st[p].server # None /\ PairingOk(st[p])
    BY <2>1 DEF Inv, Memory, PairingsOk
  <2>3. ASSUME p \notin overtaken, ~Window, ~tainted PROVE key[p] = st[p].device
    <3>1. /\ stateFile \in StateRec /\ stateFile.device = st[p].device
          /\ mnemonicFile = key[p]
      BY <2>1, <2>3 DEF Fresh, HoldsState, Memory
    <3> QED BY <2>3, <3>1 DEF Inv, IdentityConsistent
  <2> QED BY <2>2, <2>3
<1> QED BY <1>1, Invariance, PTL

\* init without --force truncates no state.json that was there when it looked,
\* nor any other, unless a save overlapped.
THEOREM InitSafe == Spec => InitKeepsIdentity
<1>1. Inv => \A p \in Proc : (cmd[p] = "init" /\ p \notin overtaken /\ StateTrunc(p))
                               => stateFile = Absent
  BY DEF Inv, Fresh, StateTrunc, Goto
<1> QED BY <1>1, Invariance, PTL DEF InitKeepsIdentity

\* A save that nobody has overtaken changes in state.json what its command is
\* about and nothing else.
THEOREM UpdateSafe == Spec => NoLostUpdate
<1>1. Inv => \A p \in Proc : (StateTrunc(p) /\ p \notin overtaken /\ cmd[p] \notin InitCommands)
                               => OnlyItsOwnChange(p)
  BY DEF Inv, Fresh, StateTrunc, Goto
<1> QED BY <1>1, Invariance, PTL DEF NoLostUpdate

\* An init that nobody has overtaken leaves two whole files of its identity.
THEOREM RepairSafe == Spec => InitRepairs
<1> DEFINE Promise ==
      \A p \in Proc :
         (/\ cmd[p] \in InitCommands /\ p \notin overtaken
          /\ StateWrite(p) \/ MnemonicWrite(p)
          /\ pc'[p] = "idle")
            => /\ stateFile' = NewState(key[p]) /\ mnemonicFile' = key[p]
               /\ ~tainted'
<1>1. Inv => Promise
  <2> SUFFICES ASSUME Inv, NEW p \in Proc, cmd[p] \in InitCommands, p \notin overtaken,
                      StateWrite(p) \/ MnemonicWrite(p), pc'[p] = "idle"
               PROVE  /\ stateFile' = NewState(key[p]) /\ mnemonicFile' = key[p]
                      /\ ~tainted'
    OBVIOUS
  <2>1. MnemonicWrite(p)
    BY DEF Inv, TypeOK, StateWrite, SavesMnemonic, Goto
  <2>2. pc[p] = "mnemonic_write" /\ stateFile' = stateFile
    BY <2>1 DEF MnemonicWrite
  <2>3. stateFile = NewState(key[p]) /\ mnemonicFile = Empty
    BY <2>2 DEF Inv, Memory, Fresh, HoldsState, WindowPcs
  <2> QED BY <2>1, <2>2, <2>3 DEF MnemonicWrite, Overlay, SavedMnemonic
<1>2. Inv /\ [Next]_vars => [Promise]_vars
  BY <1>1
<1> QED BY <1>2, Invariance, PTL DEF Spec, InitRepairs

-----------------------------------------------------------------------------
\* The steps that touch neither what was confirmed, nor what was committed, nor
\* state.json.
LEMMA QuietStep ==
  ASSUME TypeOK, NEW p \in Proc, Step(p)
  PROVE  \/ UNCHANGED <<confirmed, paired, stateFile>>
         \/ PairPrompt(p) \/ PairComplete(p) \/ PairAnswerLost(p)
         \/ StateTrunc(p) \/ StateWrite(p) \/ SaveFails(p)
  BY DEF Step, Local, InitCheck, PairLoad, RegisterLoad, ListenLoadState, Load, PairInit,
     RegisterPost, UnpairLoad, MnemonicTrunc, MnemonicWrite, SignLoadKey, SignLoadState,
     ListenLoadKey, LoadFails, RequestFails, PairDeclined, Finish, ExitUnchanged, files

\* A step of a process is one of PairingCommit's, or a stutter.
LEMMA PairingCommitStep ==
  ASSUME Inv, Inv', NEW p \in Proc, Step(p)
  PROVE  PC!Next \/ UNCHANGED PC!vars
<1> USE DEF PC!vars
<1>1. CASE UNCHANGED <<confirmed, paired, stateFile>>
  BY <1>1 DEF HeldPairing
<1>2. CASE PairPrompt(p)
  <2>1. OfferedPairing(p) \in Pairing
    BY <1>2 DEF Inv, TypeOK, Memory, PairPrompt, Goto, LoadedPcs, OfferedPairing, Pairing,
                StateRec, Offer
  <2>2. PC!Confirm(OfferedPairing(p))
    BY <1>2 DEF PairPrompt, PC!Confirm, HeldPairing, files
  <2> QED BY <2>1, <2>2 DEF PC!Next
<1>3. CASE PairComplete(p) \/ PairAnswerLost(p)
  <2>1. pc[p] = "pair_complete"
    BY <1>3 DEF PairComplete, PairAnswerLost, Goto
  <2>2. OfferedPairing(p) \in confirmed /\ confirmed \subseteq Pairing
    BY <2>1 DEF Inv, TypeOK, Memory
  <2>3. paired' = paired \cup {OfferedPairing(p)} /\ UNCHANGED <<stateFile, confirmed>>
    BY <1>3 DEF PairComplete, PairAnswerLost, files
  <2>4. PC!Commit(OfferedPairing(p))
    BY <2>2, <2>3 DEF PC!Commit, HeldPairing
  <2> QED BY <2>2, <2>4 DEF PC!Next
<1>4. CASE StateTrunc(p) \/ SaveFails(p)
  <2>1. UNCHANGED <<confirmed, paired>> /\ (stateFile' = stateFile \/ stateFile' \in {Empty, Torn})
    BY <1>4 DEF StateTrunc, SaveFails, files
  <2>2. HeldPairing' \in {HeldPairing, None}
    BY <2>1, FileAssumption DEF HeldPairing
  <2> QED BY <2>1, <2>2 DEF PC!Next, PC!Forget
<1>5. CASE StateWrite(p)
  <2>1. UNCHANGED <<confirmed, paired>>
    BY <1>5 DEF StateWrite
  <2>2. CASE HeldPairing' = None
    BY <2>1, <2>2 DEF PC!Next, PC!Forget
  <2>3. CASE HeldPairing' # None
    <3>1. stateFile' \in StateRec /\ (stateFile.server # None)'
      BY <2>3 DEF HeldPairing
    <3>2. HeldPairing' \in paired'
      BY <3>1 DEF HeldPairing, Inv, PairingsOk, PairingConfirmed, PairingOk
    <3>3. HeldPairing' \in Pairing
      BY <2>1, <3>2 DEF Inv, TypeOK
    <3>4. PC!Hold(HeldPairing')
      BY <2>1, <3>2 DEF PC!Hold
    <3> QED BY <3>3, <3>4 DEF PC!Next
  <2> QED BY <2>2, <2>3
<1> QED BY <1>1, <1>2, <1>3, <1>4, <1>5, QuietStep DEF Inv

\* The state directory implements PairingCommit.
THEOREM Refinement == Spec => ImplementsPairingCommit
<1>1. Init => PC!Init
  BY FileAssumption DEF Init, PC!Init, HeldPairing
<1>2. Inv /\ Inv' /\ [Next]_vars => [PC!Next]_(PC!vars)
  <2> SUFFICES ASSUME Inv, Inv', [Next]_vars PROVE PC!Next \/ UNCHANGED PC!vars
    OBVIOUS
  <2>1. CASE UNCHANGED vars
    BY <2>1 DEF vars, files, PC!vars, HeldPairing
  <2> QED BY <2>1, PairingCommitStep DEF Next
<1> QED BY <1>1, <1>2, Invariance, PTL DEF Spec, PC!Spec, ImplementsPairingCommit

\* And so it keeps PairingCommit's promise: the pairing in state.json was committed
\* by its server, and whatever any server has committed the user had confirmed.
THEOREM PromiseKept == Spec => []PC!Promise
<1>1. PC!Init => PC!Promise
  BY DEF PC!Init, PC!Promise
<1>2. PC!Promise /\ [PC!Next]_(PC!vars) => PC!Promise'
  BY DEF PC!Promise, PC!Next, PC!vars, PC!Confirm, PC!Commit, PC!Hold, PC!Forget
<1> QED BY <1>1, <1>2, Refinement, PTL DEF ImplementsPairingCommit, PC!Spec
=============================================================================
