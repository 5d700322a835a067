---------------------------- MODULE DeviceState ----------------------------
(***************************************************************************)
(* The files a device keeps in ~/.sigil-device and the commands that read  *)
(* and write them.  Every invocation of the program is a process of its    *)
(* own; several may run at once (a systemd service runs `listen`, the user *)
(* types `pair`, `respond`, `init --force`, ...) and nothing locks the     *)
(* directory.  state.json and mnemonic.txt are written one after the       *)
(* other, each by os.WriteFile, which truncates the file and then writes   *)
(* it: other processes, and a crash, see what is between.                  *)
(*                                                                         *)
(* A member of Key stands for a mnemonic and everything derived from it    *)
(* alone: the key pair, the fingerprint, the pictogram.  The three         *)
(* contents a file can have that do not parse are model values: Absent (no *)
(* file), Empty (truncated) and Torn (a prefix, or a short text over a     *)
(* longer one).  Command failures that change nothing are the guards of    *)
(* the actions: the process never leaves "idle".                           *)
(***************************************************************************)
CONSTANTS
    Proc,       \* invocations of the program that can run at once
    Key,        \* device identities that init may generate
    ServerKey,  \* public keys servers answer /pair/init with
    ServerUrl,  \* addresses given to pair
    RelayUrl,   \* addresses given to register
    None,       \* the empty string of a State field, or no value at all
    Absent, Empty, Torn

\* type State: what state.json holds when it parses.
StateRec == [device : Key,
             server : ServerKey \cup {None},
             url    : ServerUrl \cup {None},
             relay  : RelayUrl \cup {None}]

\* pairInitResponse, with the address it came from.
Offer == [server : ServerKey, url : ServerUrl]

Pairing == [device : Key, server : ServerKey, url : ServerUrl]

Commands == {"init", "init_force", "pair", "register", "unpair", "sign", "listen"}

ASSUME NoneAssumption ==
    /\ None \notin Key \cup ServerKey \cup ServerUrl \cup RelayUrl
    /\ None \notin StateRec \cup Offer \cup Commands

ASSUME FileAssumption ==
    /\ Absent # Empty /\ Absent # Torn /\ Empty # Torn
    /\ \A f \in {Absent, Empty, Torn} : f \notin StateRec /\ f \notin Key

VARIABLES
    stateFile,      \* the content of state.json
    mnemonicFile,   \* the content of mnemonic.txt
    pc,             \* where each process is
    cmd,            \* the command each process runs
    st,             \* the State each process holds in memory
    key,            \* the key each process generated or loaded
    offer,          \* what /pair/init answered to each process
    generated,      \* keys drawn so far: 256 bits of entropy never repeat
    paired,         \* pairings that some server has committed
    confirmed,      \* history: pairings the user has said yes to
    overtaken,      \* history: processes that another one's write overlapped
    tainted         \* history: a write was overtaken, or init stopped half way

files == <<stateFile, mnemonicFile>>
local == <<pc, cmd, st, key, offer>>
ghosts == <<overtaken, tainted>>
vars == <<files, local, generated, paired, confirmed, ghosts>>

InitCommands == {"init", "init_force"}

\* Between the load of state.json and the save of the changed State.
LoadedPcs == {"pair_init", "pair_prompt", "pair_complete", "register_post"}
SavePcs == {"state_trunc", "state_write"}
WindowPcs == {"mnemonic_trunc", "mnemonic_write"}
Pcs == {"idle", "load_state", "load_key", "ready"}
          \cup LoadedPcs \cup SavePcs \cup WindowPcs

Init ==
    /\ stateFile = Absent /\ mnemonicFile = Absent
    /\ pc = [p \in Proc |-> "idle"]
    /\ cmd = [p \in Proc |-> None]
    /\ st = [p \in Proc |-> None]
    /\ key = [p \in Proc |-> None]
    /\ offer = [p \in Proc |-> None]
    /\ generated = {} /\ paired = {} /\ confirmed = {}
    /\ overtaken = {} /\ tainted = FALSE

-----------------------------------------------------------------------------
\* The process exits: its memory is gone, the files stay.
Exit(p) ==
    /\ pc' = [pc EXCEPT ![p] = "idle"]
    /\ cmd' = [cmd EXCEPT ![p] = None]
    /\ st' = [st EXCEPT ![p] = None]
    /\ key' = [key EXCEPT ![p] = None]
    /\ offer' = [offer EXCEPT ![p] = None]

Start(p, c, next) ==
    /\ pc[p] = "idle"
    /\ pc' = [pc EXCEPT ![p] = next]
    /\ cmd' = [cmd EXCEPT ![p] = c]

Goto(p, here, next) ==
    /\ pc[p] = here
    /\ pc' = [pc EXCEPT ![p] = next]
    /\ UNCHANGED cmd

\* Every other process that is running has seen the files before p's write.
Overtake(p) == overtaken \cup {q \in Proc \ {p} : pc[q] # "idle"}

\* (A definition whose name says what it gets wrong, here and in the other
\* modules, is a mutation of the one it precedes.  Nothing uses it: the
\* properties are tried against it.)

\* What a file holds after a process that had truncated it writes text at its
\* start: exactly the text when the file is still empty; when another process
\* has written meanwhile, a longer text of its own shows behind the end.
Overlay(old, text) == IF old = Empty THEN {text} ELSE {text, Torn}

-----------------------------------------------------------------------------
\* The State of a new identity: no server and no relay.
NewStateKeepsPairing(k) ==
    IF stateFile \in StateRec
      THEN [device |-> k, server |-> stateFile.server,
            url |-> stateFile.url, relay |-> stateFile.relay]
      ELSE [device |-> k, server |-> None, url |-> None, relay |-> None]
NewState(k) == [device |-> k, server |-> None, url |-> None, relay |-> None]

\* Commands that go on to SaveMnemonic when state.json is written.
SavesFirstMnemonic(p) == cmd[p] \in InitCommands /\ mnemonicFile = Absent
SavesMnemonic(p) == cmd[p] \in InitCommands

\* What runInit hands to SaveMnemonic.
MnemonicIsState(p) == st[p]
SavedMnemonic(p) == key[p]

\* The State that unpair saves: the identity alone.
UnpairedKeepsServerKey(s) == [device |-> s.device, server |-> s.server,
                              url |-> None, relay |-> None]
Unpaired(s) == [device |-> s.device, server |-> None, url |-> None, relay |-> None]

\* The State that pair saves: the one it loaded when it began, with the key of
\* the first answer and the address.
PairedAnew(s, o) == [device |-> s.device, server |-> o.server, url |-> o.url, relay |-> None]
Paired(s, o) == [device |-> s.device, server |-> o.server, url |-> o.url, relay |-> s.relay]

\* The State that register saves: the one it loaded, with the relay.
Registered(s, r) == [device |-> s.device, server |-> s.server, url |-> s.url, relay |-> r]

\* Where a request of an http.Client with a timeout is under way.
RequestPcsOfPair == {"pair_init", "pair_complete"}
RequestPcs == {"pair_init", "pair_complete", "register_post"}

\* Manager.Exists asks for the file, whatever it holds.
ExistsIfItParses == stateFile \in StateRec
Exists == stateFile # Absent

\* runInit: a new identity, in memory.  Without --force an existing file, of
\* any content, is an error.
InitCheck(p) ==
    \E c \in InitCommands, k \in Key \ generated :
        /\ c = "init" => ~Exists
        /\ Start(p, c, "state_trunc")
        /\ st' = [st EXCEPT ![p] = NewState(k)]
        /\ key' = [key EXCEPT ![p] = k]
        /\ generated' = generated \cup {k}
        /\ UNCHANGED <<files, offer, paired, confirmed, ghosts>>

\* Manager.Load by pair, register, and listen: the file must parse.
Load(p, c, next) ==
    /\ Start(p, c, next)
    /\ stateFile \in StateRec
    /\ st' = [st EXCEPT ![p] = stateFile]
    /\ UNCHANGED <<files, key, offer, generated, paired, confirmed, ghosts>>

PairLoad(p) == Load(p, "pair", "pair_init")
RegisterLoad(p) == Load(p, "register", "register_post")
ListenLoadState(p) == Load(p, "listen", "load_key")

\* GET /pair/init: the server at the given address sends a public key and a
\* nonce, and its pictogram agrees with the one derived here.
PairInit(p) ==
    /\ Goto(p, "pair_init", "pair_prompt")
    /\ \E o \in Offer : offer' = [offer EXCEPT ![p] = o]
    /\ UNCHANGED <<files, st, key, generated, paired, confirmed, ghosts>>

OfferedPairing(p) == [device |-> st[p].device,
                      server |-> offer[p].server, url |-> offer[p].url]

\* The user compares the pictograms and answers yes; nothing limits how long
\* that takes.
PairPrompt(p) ==
    /\ Goto(p, "pair_prompt", "pair_complete")
    /\ confirmed' = confirmed \cup {OfferedPairing(p)}
    /\ UNCHANGED <<files, st, key, offer, generated, paired, ghosts>>

\* POST /pair/complete: the server commits the pairing and its "paired"
\* arrives.
PairComplete(p) ==
    /\ Goto(p, "pair_complete", "state_trunc")
    /\ paired' = paired \cup {OfferedPairing(p)}
    /\ st' = [st EXCEPT ![p] = Paired(st[p], offer[p])]
    /\ UNCHANGED <<files, key, offer, generated, confirmed, ghosts>>

\* The server commits, but the answer is lost, late or not a 200.
PairAnswerLost(p) ==
    /\ pc[p] = "pair_complete"
    /\ paired' = paired \cup {OfferedPairing(p)}
    /\ Exit(p)
    /\ overtaken' = overtaken \ {p}
    /\ UNCHANGED <<files, generated, confirmed, tainted>>

\* POST /devices/register answers 200.
RegisterPost(p) ==
    /\ Goto(p, "register_post", "state_trunc")
    /\ \E r \in RelayUrl : st' = [st EXCEPT ![p] = Registered(st[p], r)]
    /\ UNCHANGED <<files, key, offer, generated, paired, confirmed, ghosts>>

\* cmdUnpair up to its save; the server is not told.
UnpairLoad(p) ==
    /\ Start(p, "unpair", "state_trunc")
    /\ stateFile \in StateRec
    /\ stateFile.url # None
    /\ st' = [st EXCEPT ![p] = Unpaired(stateFile)]
    /\ UNCHANGED <<files, key, offer, generated, paired, confirmed, ghosts>>

-----------------------------------------------------------------------------
\* Manager.Save: os.WriteFile opens with O_TRUNC ...
StateTrunc(p) ==
    /\ Goto(p, "state_trunc", "state_write")
    /\ stateFile' = Empty
    /\ overtaken' = Overtake(p)
    /\ UNCHANGED <<mnemonicFile, st, key, offer, generated, paired, confirmed, tainted>>

\* ... and writes.  init goes on to the mnemonic, the others are done.
StateWrite(p) ==
    /\ pc[p] = "state_write"
    /\ stateFile' \in Overlay(stateFile, st[p])
    /\ tainted' = (tainted \/ p \in overtaken)
    /\ \/ /\ SavesMnemonic(p)
          /\ Goto(p, "state_write", "mnemonic_trunc")
          /\ overtaken' = Overtake(p)
          /\ UNCHANGED <<st, key, offer>>
       \/ /\ ~SavesMnemonic(p)
          /\ Exit(p)
          /\ overtaken' = Overtake(p) \ {p}
    /\ UNCHANGED <<mnemonicFile, generated, paired, confirmed>>

\* Manager.SaveMnemonic, the same two steps.
MnemonicTrunc(p) ==
    /\ Goto(p, "mnemonic_trunc", "mnemonic_write")
    /\ mnemonicFile' = Empty
    /\ overtaken' = Overtake(p)
    /\ UNCHANGED <<stateFile, st, key, offer, generated, paired, confirmed, tainted>>

\* An init that nobody has overtaken leaves both files of its own making,
\* whatever was there before.
MnemonicWrite(p) ==
    /\ pc[p] = "mnemonic_write"
    /\ mnemonicFile' \in Overlay(mnemonicFile, SavedMnemonic(p))
    /\ tainted' = (p \in overtaken \/ mnemonicFile # Empty)
    /\ Exit(p)
    /\ overtaken' = Overtake(p) \ {p}
    /\ UNCHANGED <<stateFile, generated, paired, confirmed>>

-----------------------------------------------------------------------------
\* respond, mpa respond and decrypt read the mnemonic first ...
SignLoadKey(p) ==
    /\ Start(p, "sign", "load_state")
    /\ mnemonicFile \in Key
    /\ key' = [key EXCEPT ![p] = mnemonicFile]
    /\ UNCHANGED <<files, st, offer, generated, paired, confirmed, ghosts>>

\* ... and the State, which must name a server, second.
SignLoadState(p) ==
    /\ Goto(p, "load_state", "ready")
    /\ stateFile \in StateRec
    /\ stateFile.server # None
    /\ st' = [st EXCEPT ![p] = stateFile]
    /\ UNCHANGED <<files, key, offer, generated, paired, confirmed, ghosts>>

\* listen reads the State first and the mnemonic second.
ListenLoadKey(p) ==
    /\ Goto(p, "load_key", "ready")
    /\ st[p].server # None
    /\ mnemonicFile \in Key
    /\ key' = [key EXCEPT ![p] = mnemonicFile]
    /\ UNCHANGED <<files, st, offer, generated, paired, confirmed, ghosts>>

ExitUnchanged(p) ==
    /\ Exit(p)
    /\ overtaken' = overtaken \ {p}
    /\ UNCHANGED <<files, generated, paired, confirmed, tainted>>

\* A load between two others fails, or the State names no server.
LoadFails(p) ==
    /\ \/ pc[p] = "load_state" /\ (stateFile \in StateRec => stateFile.server = None)
       \/ pc[p] = "load_key" /\ (mnemonicFile \notin Key \/ st[p].server = None)
    /\ ExitUnchanged(p)

\* The 10 second timeout of the http.Client, an error of the transport, a
\* status or a body that is not accepted (a pictogram that differs among them).
RequestFails(p) ==
    /\ pc[p] \in RequestPcs
    /\ ExitUnchanged(p)

\* The user says no.
PairDeclined(p) == pc[p] = "pair_prompt" /\ ExitUnchanged(p)

\* respond, mpa, decrypt and listen have the key and the State; what they do
\* with them changes no file.
Finish(p) == pc[p] = "ready" /\ ExitUnchanged(p)

\* The process is killed or an os call fails while it saves: what it had
\* opened may hold a prefix, and init may never reach the mnemonic.
SaveFails(p) ==
    /\ \/ pc[p] = "state_trunc" /\ UNCHANGED <<files, tainted>> /\ overtaken' = overtaken \ {p}
       \/ /\ pc[p] = "state_write"
          /\ \/ UNCHANGED stateFile /\ overtaken' = overtaken \ {p}
             \/ stateFile' = Torn /\ overtaken' = Overtake(p) \ {p}
          /\ UNCHANGED <<mnemonicFile, tainted>>
       \/ /\ pc[p] \in WindowPcs
          /\ mnemonicFile' \in {mnemonicFile} \cup {f \in {Torn} : pc[p] = "mnemonic_write"}
          /\ tainted' = TRUE
          /\ overtaken' = Overtake(p) \ {p}
          /\ UNCHANGED stateFile
    /\ Exit(p)
    /\ UNCHANGED <<generated, paired, confirmed>>

-----------------------------------------------------------------------------
\* Steps a running process takes without the user or a server.
Local(p) == \/ StateTrunc(p) \/ StateWrite(p) \/ MnemonicTrunc(p) \/ MnemonicWrite(p)
            \/ SignLoadState(p) \/ ListenLoadKey(p) \/ LoadFails(p)

Step(p) ==
    \/ InitCheck(p) \/ PairLoad(p) \/ RegisterLoad(p) \/ UnpairLoad(p)
    \/ SignLoadKey(p) \/ ListenLoadState(p)
    \/ PairInit(p) \/ PairPrompt(p) \/ PairComplete(p) \/ PairAnswerLost(p)
    \/ RegisterPost(p)
    \/ RequestFails(p) \/ PairDeclined(p) \/ Finish(p) \/ SaveFails(p)
    \/ Local(p)

Next == \E p \in Proc : Step(p)

Spec == Init /\ [][Next]_vars

\* A process that can run runs, and the http.Client's timeout comes due.  The
\* user need not answer, servers need not answer, listen need not end.
FairSpec == Spec /\ \A p \in Proc : WF_vars(Local(p)) /\ WF_vars(RequestFails(p))

-----------------------------------------------------------------------------
\* Some init has saved its State and not yet finished its mnemonic.
Window == \E p \in Proc : pc[p] \in WindowPcs

\* Type invariant: the files, the memory of each process by where it is, and
\* the history.
TypeOK ==
    /\ stateFile \in StateRec \cup {Absent, Empty, Torn}
    /\ mnemonicFile \in Key \cup {Absent, Empty, Torn}
    /\ pc \in [Proc -> Pcs]
    /\ cmd \in [Proc -> Commands \cup {None}]
    /\ st \in [Proc -> StateRec \cup {None}]
    /\ key \in [Proc -> Key \cup {None}]
    /\ offer \in [Proc -> Offer \cup {None}]
    /\ generated \subseteq Key
    /\ paired \subseteq Pairing /\ confirmed \subseteq Pairing
    /\ overtaken \subseteq Proc /\ tainted \in BOOLEAN

\* A State names a server and its address together or not at all, and then a
\* pairing the user confirmed and that server committed, for this very device.
PairingOk(s) ==
    /\ s.server = None <=> s.url = None
    /\ s.server # None =>
         [device |-> s.device, server |-> s.server, url |-> s.url] \in confirmed \cap paired

\* Whatever commands overlap, and wherever they stop, the pairing on disk was
\* confirmed by the user and committed by the server for the identity beside
\* it: init --force forgets the pairing of the identity it replaces, no save
\* of pair, register or unpair puts one device's pairing under another's key.
PairingConfirmed == stateFile \in StateRec => PairingOk(stateFile)

\* state.json and mnemonic.txt name one identity, whenever state.json parses,
\* no init is between its two saves, no save wrote over what it had not read,
\* and no init stopped between its saves (since the last undisturbed init).
IdentityConsistent ==
    (stateFile \in StateRec /\ ~Window /\ ~tainted) => mnemonicFile = stateFile.device

\* respond, mpa, decrypt and listen read the two files one after the other.
\* Once they have both: the pairing they act on is a confirmed one, and the
\* key they sign with is the one it was made for, unless a save overlapped.
SignerConsistent ==
    \A p \in Proc : pc[p] = "ready" =>
        /\ st[p].server # None /\ PairingOk(st[p])
        /\ (p \notin overtaken /\ ~Window /\ ~tainted) => key[p] = st[p].device

\* init without --force starts to save only where there is no state.json, of
\* whatever content, unless a save of another command overlapped it.
InitKeepsIdentity ==
    [][\A p \in Proc :
         (cmd[p] = "init" /\ p \notin overtaken /\ StateTrunc(p)) => stateFile = Absent]_vars

\* An init that comes to its end, and that nobody has overtaken, leaves two whole
\* files of its new identity, without a pairing, whatever an earlier command, a
\* crash or an overlap had left there: init --force repairs any directory.
InitRepairs ==
    [][\A p \in Proc :
         (/\ cmd[p] \in InitCommands /\ p \notin overtaken
          /\ StateWrite(p) \/ MnemonicWrite(p)
          /\ pc'[p] = "idle")
            => /\ stateFile' = NewState(key[p]) /\ mnemonicFile' = key[p]
               /\ ~tainted']_vars

\* The State that p is about to save is the one on disk but for what its command
\* is there to change: pair the pairing, register the relay, unpair both.
OnlyItsOwnChange(p) ==
    /\ stateFile \in StateRec /\ st[p].device = stateFile.device
    /\ cmd[p] = "pair" => st[p].relay = stateFile.relay
    /\ cmd[p] = "register" => st[p].server = stateFile.server /\ st[p].url = stateFile.url

\* pair and register save a State they loaded before a request or a prompt that
\* can take for ever.  Unless another command wrote in between, the save finds on
\* disk what was loaded and changes in it what the command is about: no pairing,
\* no relay and no identity that was there is undone.
NoLostUpdate ==
    [][\A p \in Proc :
         (StateTrunc(p) /\ p \notin overtaken /\ cmd[p] \notin InitCommands)
            => OnlyItsOwnChange(p)]_vars

\* Every command that saves or has a request under way gets to the user's
\* prompt, to its work or to its end, by itself: no request of pair or of
\* register keeps it for ever, whatever the server does.
CommandsEnd ==
    \A p \in Proc :
        pc[p] \notin {"idle", "pair_prompt", "ready"} ~> pc[p] \in {"idle", "pair_prompt", "ready"}

-----------------------------------------------------------------------------
(* What the directory promises, without files and processes.               *)

\* The pairing state.json holds.
HeldPairing ==
    IF stateFile \in StateRec /\ stateFile.server # None
      THEN [device |-> stateFile.device, server |-> stateFile.server, url |-> stateFile.url]
      ELSE None

PC == INSTANCE PairingCommit WITH
        Agreement <- Pairing, Nothing <- None, committed <- paired, held <- HeldPairing

\* Whatever commands overlap and wherever they stop, every step is one of
\* PairingCommit's or changes nothing it knows: the user confirms, then the
\* server commits, then the directory holds, and it never comes to hold a
\* pairing of which one of the two is missing, or parts of two pairings.
ImplementsPairingCommit == PC!Spec

-----------------------------------------------------------------------------
(* The inductive invariant behind the safety properties.                    *)

\* What a process holds in memory, by where it is.
Memory(p) ==
    /\ cmd[p] \in InitCommands =>
         /\ pc[p] \in SavePcs \cup WindowPcs
         /\ key[p] \in Key /\ st[p] = NewState(key[p])
    /\ pc[p] \in WindowPcs => cmd[p] \in InitCommands
    /\ pc[p] \in LoadedPcs => cmd[p] = IF pc[p] = "register_post" THEN "register" ELSE "pair"
    /\ pc[p] \in LoadedPcs \cup SavePcs \cup {"load_key", "ready"} => st[p] \in StateRec
    /\ pc[p] \in {"load_state", "ready"} => key[p] \in Key
    /\ pc[p] \in {"pair_prompt", "pair_complete"} => offer[p] \in Offer
    /\ pc[p] = "pair_complete" => OfferedPairing(p) \in confirmed
    /\ pc[p] = "ready" => st[p].server # None

\* Every State, on disk or in memory, holds a pairing that was confirmed.
PairingsOk ==
    /\ PairingConfirmed
    /\ \A p \in Proc : st[p] \in StateRec => PairingOk(st[p])

\* The process has read or written state.json and not changed its State since.
HoldsState(p) == pc[p] \in LoadedPcs \cup WindowPcs \cup {"load_key", "ready"}

\* What a process that nobody has overtaken still knows of the files.
Fresh(p) ==
    p \notin overtaken =>
        /\ HoldsState(p) => stateFile = st[p]
        /\ pc[p] = "state_trunc" /\ cmd[p] \notin InitCommands => OnlyItsOwnChange(p)
        /\ pc[p] \in {"load_state", "ready"} => mnemonicFile = key[p]
        /\ pc[p] = "state_trunc" /\ cmd[p] = "init" => stateFile = Absent
        /\ pc[p] = "mnemonic_write" => mnemonicFile = Empty
        /\ pc[p] = "state_write" =>
             /\ stateFile = Empty
             /\ (cmd[p] \notin InitCommands /\ ~Window /\ ~tainted) =>
                    mnemonicFile = st[p].device

\* The conjunction that every step preserves: IdentityConsistent alone says
\* nothing of the State a save is about to write, nor of the mnemonic that
\* goes with a state.json truncated just now.
Inv ==
    /\ TypeOK
    /\ \A p \in Proc : Memory(p)
    /\ PairingsOk
    /\ \A p \in Proc : Fresh(p)
    /\ IdentityConsistent

-----------------------------------------------------------------------------
(* What the repository says of the program and the program does not do.     *)

\* README, mnemonic.txt: "Back up this file securely. It allows device
\* identity recovery."  With no command running, the mnemonic there is that
\* of the identity in state.json.
MnemonicRecoversIdentity ==
    (stateFile \in StateRec /\ \A p \in Proc : pc[p] = "idle")
        => mnemonicFile = stateFile.device
=============================================================================
