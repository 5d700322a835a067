# sigil-device: a verification project

`sigil-device` (Go) gives a machine an identity of its own, pairs it with a
Sigil server, and answers that server's challenges. This directory holds TLA+
models of the program, the TLC instances that check them, and TLAPS proofs of
the properties that matter most.

    tlc -workers 4 -config DeviceState.cfg MCDeviceState     # any run below
    tlapm DeviceStateProofs.tla                              # any *Proofs module

## 1. Inventory

| Part | Source | State it keeps | Operations |
|---|---|---|---|
| State directory | `internal/state/state.go` | `state.json`, `mnemonic.txt` | Exists, Load, Save, SaveMnemonic, LoadMnemonic |
| init, pair, register, unpair | `cmd_init.go`, `cmd_pair.go`, `cmd_register.go`, `cmd_unpair.go` | a State in memory between its load and its save | load, talk to a server, ask the user, save |
| respond, mpa-respond, decrypt | `cmd_respond.go`, `cmd_mpa_respond.go`, `cmd_decrypt.go` | none across runs | read a request, verify, ask, sign or decrypt, post, judge the answer |
| listen | `cmd_listen.go`, `internal/listener` | connection, `connected`, `nonceStore`, a context | connect, read frames, call the handler, shut down |
| Envelopes | `internal/envelope` | none (the nonce store is the caller's) | CreateRequest, VerifyResponse |
| Crypto | `internal/crypto` | none | ECDSA with low S, ECIES, HKDF, BIP39 |
| Pictograms | `internal/pictogram` | none | words from a fingerprint or a session |
| Test front ends | `cmd_crypto_sign.go`, `cmd_test_harness.go` | none | JSON in, JSON out |
| whoami, dispatch, packaging | `cmd_whoami.go`, `main.go`, `packaging/` | none | print; dispatch and exit code; a systemd unit for listen |

How they interact. Every invocation is a process of its own; all of them share
the two files and nothing locks them. `init` is the only writer of
`mnemonic.txt`; `init`, `pair`, `register` and `unpair` write the whole of
`state.json` from what they hold in memory. `respond`, `mpa-respond` and
`decrypt` read the mnemonic first and the State second, `listen` the other way
round. `pair` talks to the server (GET /pair/init, prompt, POST
/pair/complete), `register` to the relay, the responding commands post one
envelope, `listen` holds a WebSocket to the relay. Inside `listen` three
goroutines run: main, which dials and then waits for the context, one that
turns a signal into `cancel()`, and `messageLoop`, which reads frames, verifies
them and calls the handler, and with it the prompt, itself.

What is hard, and what makes each part right:

- *Files.* `os.WriteFile` truncates and then writes, `init` writes two files,
  and every read-modify-write is open to a concurrent one for as long as a user
  thinks. Right means, through every overlap and crash: a pairing on disk is one
  the user confirmed and the server committed for the identity beside it. And
  where no other process has written meanwhile: the two files name one identity;
  a signer uses the key its pairing was made for; a save changes only what its
  command is about. (With an overlap the code breaks these; the models show it,
  and the properties name the overlap as their exception.)
- *Requests.* A server may answer late, twice, or not at all. Right means: no
  command but those waiting for the user, or without a timeout, hangs.
- *Listener.* Envelopes are lost, late, duplicated and reordered; connections
  break loudly or silently; a signal comes at any point. Right means: replays
  are bounded, a genuine envelope is never locked out, a signal always ends the
  run, `IsConnected` is honest.
- *Approval.* What the server signs does not say for which command it is meant:
  mpa and decrypt requests are signed over the same bare text and sealed with the
  same salt. Right means: nothing leaves but for a text the paired server signed,
  no signature over an action without the user's yes or `--auto-approve`; exit
  code 0 means what scripts take it for.
- *Pairing.* The server may replace its key or forget the session between the
  two requests, an answer may be late or somebody else's. Right means: the key
  kept is one the server showed the words of, for this identity, and after the
  user said yes.
- *Envelopes.* Two readers, two copies of the decryption, tags that are bytes in
  front of bytes, a key compared as a text. Right means: what is accepted was
  signed for this protocol by the key it bears, what is made can be read, and the
  readers part only where they are known to (form, fields, line breaks).
- *Arithmetic.* The freshness test must mean a distance, for every stamp an
  int64 can hold; the indices of a pictogram must stay in their lists.

`PROJECT.json` lists the hazards one by one, each at its line, with the
properties that would notice it going wrong; where the code has the behaviour and
no property would notice, or only in part, a note says so.

## 2. Modules

| Module | Models | Checked by | Proved in |
|---|---|---|---|
| `PairingCommit` | abstract: confirm, commit, hold, forget | implemented by the next two | |
| `DeviceState` | the state directory and all commands that read or write it | `MCDeviceState`, 3 cfgs | `DeviceStateProofs` |
| `PairHandshake` | `pair` message by message, its server, and whoever else answers | `MCPairHandshake` | `PairHandshakeProofs` |
| `Delivery` | abstract: act on what was made, once per run, in time | implemented by the next one | |
| `Listener` | one `listen` process, its goroutines, its restarts | `MCListener`, 4 cfgs | `ListenerProofs` |
| `Approval` | abstract: ask about vouched texts, approve, let out once, give a verdict | implemented by the next one | |
| `Respond` | one run of respond, mpa-respond or decrypt | `MCRespond`, 2 cfgs | `RespondProofs` |
| `Envelope` | an envelope made, sealed, sealed again, carried and read, by both readers | `MCEnvelope` | `EnvelopeProofs` |
| `Freshness` | the freshness test of VerifyResponse in int64 arithmetic | `MCEnvelope`, through `Envelope` | `FreshnessProofs` |
| `EnvelopeSignature` | VerifyResponse's comparison of keys and its signature check, with compress, decompress, sign and verify of `ecdsa.go` | `MCEnvelopeSignature` | `EnvelopeSignatureProofs` |
| `Pictogram` | which entries of the word lists a pictogram has | assumptions of `MCPairHandshake` | `PictogramProofs` |

In every module the definitions that translate code come first, then the
properties, and last, under a heading of their own, statements of the
repository's documentation that the program does not keep. A definition such as
`NewStateKeepsPairing` directly before `NewState` is a *mutation*: the code with
a plausible bug. Nothing uses it; with it in the place of its successor the
property named in `PROJECT.json` fails, which shows that the property says
something of the code.

### DeviceState

`Proc` is a set of invocations that may run at once. Each has a program counter
`pc` (where in its command it is), the command, the State `st` and key `key` it
holds, and the `offer` /pair/init gave it. The files hold a State or a mnemonic
or one of three contents that do not parse: `Absent`, `Empty` (after O_TRUNC)
and `Torn`. A member of `Key` stands for a mnemonic and all that is derived from
it (key pair, fingerprint, pictogram): the derivation is a function, so one
value says it all. `generated` keeps `init` from drawing a key twice (256 bits
of entropy). `paired` and `confirmed` record what servers committed and what
the user said yes to.

| Action | Code |
|---|---|
| `InitCheck` | `runInit` up to its save: the Exists check, the new key and State |
| `PairLoad`, `PairInit`, `PairPrompt`, `PairComplete` | `runPair` from load to save |
| `PairAnswerLost`, `PairDeclined`, `RequestFails` | its error returns; the server may have committed |
| `RegisterLoad`, `RegisterPost` | `runRegister` |
| `UnpairLoad` | `cmdUnpair` up to its save |
| `StateTrunc`, `StateWrite`, `MnemonicTrunc`, `MnemonicWrite` | the two `os.WriteFile`s |
| `SignLoadKey`, `SignLoadState`, `ListenLoadState`, `ListenLoadKey`, `LoadFails`, `Finish` | the commands that read both files |
| `SaveFails` | a kill or an OS error during any save |

A command that fails before it has done anything never leaves `idle`: its
failure is the negation of the guard. Two writers of one file may interleave;
`Overlay` says what is left: the text, or a mixture, `Torn`. A kill at another
point than a save is one of the exits `RequestFails`, `PairDeclined`,
`LoadFails` and `Finish`: all of them leave the files as they are.

`overtaken` and `tainted` are history variables, for the properties only. A
process is overtaken when another one writes while it runs; the directory is
tainted when an overtaken process wrote, or an `init` stopped between its two
files, until an undisturbed `init` has rewritten both. They let the properties
say *exactly when* identity and mnemonic agree. `PairingConfirmed` needs no such
escape: it holds through every overlap and every crash.

`pair` and `register` save the State they loaded before a request or a prompt,
`unpair` the one it has just loaded. `NoLostUpdate` says what that means when
nobody overtakes them: the save finds on disk what was loaded and changes in it
what the command is about, so `pair` keeps the relay and `register` the pairing
(`Paired` and `Registered` are the two assignments). `InitRepairs` says that
`init --force` is a repair: from a torn, an empty or a half replaced directory,
an init that ends well and that nobody overtook leaves two whole files of its
own identity.

The mapping to `PairingCommit`: `committed` is `paired`, `held` is the pairing
`state.json` holds (`HeldPairing`; nothing while it is empty or torn). That
every step maps to a step says more than `PairingConfirmed`: also that a server
commits nothing the user has not confirmed, and that the history of both only
grows. `Promise` in `PairingCommit` is what one relies on who knows the abstract
specification only: what is committed was confirmed, what is held was committed.

### PairHandshake

One `pair` after the other; the files are `device` and `saved`. Messages are
told apart here: `asked` and `posted` are the requests a server may still see,
also after the run that sent them has given up, `answer` what is on its way
back to the request under way.

| Action | Code |
|---|---|
| `Start`, `InitAnswered` | `runPair` up to the comparison of the words the server claims with those derived here |
| `Prompt` | the question, and POST /pair/complete |
| `CompleteAnswered` | its answer, and the save |
| `GivesUp` | the timeout of 10 seconds, errors, the end of the process |
| `InitForce` | `init --force` between two runs |
| `HomeIssues`, `HomeForgets`, `HomeRotates`, `HomeCompletes` | the server the user means: it opens a session under its present key, forgets it, replaces its key, commits an open session |
| `OtherAnswersInit`, `OtherAnswersComplete` | anybody else who answers at that address, with any key, nonce and words |

What is taken for granted, because it is outside the program: the user says yes
only when the words the administrator reads out (those of a session the server
has opened) are on one of the two lines printed; a server commits a session
only for the public key it opened it for; sessions that differ show different
words. The last is an idealization: six of 192 words are some 45 bits. What
another party calls paired counts as committed (`vouched`): the device cannot
tell. That the prompt's ten seconds are never compared with a clock is in the
model, where `HomeForgets` and `Prompt` may come in any order: `SavedIsIssued`
and `ImplementsPairingCommit` hold all the same, because the server refuses.

### Listener

`main`, `loop`, `signalled`, `ctxDone` are the three goroutines; `conn` is the
WebSocket as the network has it (`silent`: broken with nobody told), `connected`
what the client believes; `nonceStore` is the map of the `Client`. An envelope is
its nonce, its stamp, whether it verifies (one flag for the decryption, the
server key and the signature) and whether a handler is called for its action.
`sent` is a set, never shrinks, and `ReadEnvelope` may pick any member at any
time: the relay delays, repeats, reorders and loses. `Unverifiable` adds
envelopes made by others, also with a nonce of a genuine one. `Killed` and
`Restart` end a run and start another with an empty nonce store. The handler
runs inside the loop (`loop = "asking"`), as in the code. A frame the loop
ignores returns it to the top; a frame that is not a JSON object of strings ends
it, the connection still open. A frame may also be read from a connection that
`Client.Close` has just closed, when it was in the WebSocket's buffer
(`HasFrame`).

`nonceStore` is never pruned. `OldNoncesIdle` says how much of it a run needs:
on every envelope of the server, a store that held only the nonces accepted
within the window would give the same verdict. (The distances here are
mathematical; the one stamp 2^63 seconds back, which the test of the code takes
for a fresh one, is dealt with in `FreshIsNear`.)

### Respond

One process: `reading`, `verifying`, `prompt`, `signing`, `posting`, `exited`.
Three things are kept apart that a well-behaved caller never mixes: what the
server made a request as (`kind`), which command's fields the file has (`form`,
another one when they were renamed on the way), and the `command` that is given
it. Each command reads its own fields (`Complete`), checks a signature over its
own text (`Checked`: behind the tag `SIGIL-AUTH-V1` for respond, bare for the two
others), opens the ciphertext (`Opens`) and, mpa-respond only, parses what is in
it as an action (`Parses`). `Admits` is all of it.

`Covered` says which part of a request the server's signature covers. Of an mpa
or a decrypt request it is the id and the ciphertext one behind the other, and
the boundary between them is not marked; what keeps it where it was is
`crypto.Decrypt`, because the id is the salt of the key and the additional data of
the tag (`IdIsServers`). Challenges have no ciphertext, and their id is not
signed at all.

Nothing of this says whether a text was made as an mpa or as a decrypt request:
the two are signed over texts of one shape and sealed with one salt, and in the
model as in the code a file whose fields are renamed passes the other command. `OnlyApprovedLeaves` says what is left. What leaves as a signature over
an action had the user's yes, or `--auto-approve`, whatever the request was made
as; an mpa request that gets by the prompt was renamed to a decrypt request, and
what leaves is its plaintext, sealed for the paired server.

The prompt reads the standard input. If the request came through a pipe, that is
at its end for good, and such an mpa request can be approved with
`--auto-approve` only; a terminal can still be read after Ctrl-D (`Replies`).
`job.target` is `other` when `--server` names another server than the paired one:
it cannot open the envelope, so it cannot answer it. Whoever is asked may send an
envelope the paired server made for this device at another time
(`EarlierAnswer`): the commands give VerifyResponse a nonce store made for the one
call and compare nothing in the answer with the request, so `ZeroMeansAnswered`
says that the paired server made the answer within the window, and no more.

The mapping to `Approval`: a run is `attended` when its command is mpa-respond
without `--auto-approve`, an answer is `approved` from `signing` on, it has `left`
once it is posted, and the `verdict` is the exit code, 0 read as `answered` or as
`declined` by whether something was posted. `Vouched` are the texts the paired
server signed, for this device, under the id they were made with; it does not say
what they were made as. That every step maps to a step adds to
`OnlyApprovedLeaves` the order of things: in a run whose command asks, nobody is
asked about another text, one answer leaves at most, none after a verdict, and
no run ends `answered` before one has left. `Promise` in `Approval` is what may be
concluded from the answer and the exit code.

### Envelope

An envelope is made (`EnvelopeEncrypt`, which calls `CreateRequest`; or
`Assemble`, which stands for the server's responses and for everything that can
be put together from signatures of `crypto-sign`), perhaps opened by whom it is
for and sealed again for another key (`ReSeal`), carried (`Carry` may cut it
short, replace its ephemeral key or change its ciphertext), and then read twice:
by `VerifyResponse` and by `EnvelopeDecrypt`, the command `crypto-sign
envelope-decrypt`. Both readers use the device's key on the same bytes, so that
their verdicts can be compared.

Bytes are terms: a text is whether it is canonical, which readers it `suits`, its
stamp and its nonce; a signature is who signed what; a box is its key, its
additional data and what is in it. A text suits `"response"` when it parses as a
`ResponsePayload` and `"request"` when it has what envelope-decrypt asks for; one
does not imply the other (`"status": 5` parses for the second only). The key an
envelope bears is a text too: with line breaks in it, it decodes to the same key,
with which envelope-decrypt goes on, but is another text for VerifyResponse's
comparison. Only the bytes in front of the signed text are bytes, because there
something can go wrong: `Tag` appends a NUL to a name, and without it the name's
tag could be the beginning of another one. `Fresh` is the test of `Freshness`, so
stamps are integers of the machine. `maker` and `damaged` are history.
`eciesDecrypt` and `decryptECIES` are the two copies of the decryption, each its
own definition. So are `canonicalize` and `Transform`, the canonical form by the
library of each reader: both are taken to do what RFC 8785 says, on numbers a
double holds (whole ones up to 2^53). The keys are valid ones (a private key of 0
or above the order is not one the commands refuse).

What an accepted envelope says is who signed it and behind which tag. It does not
say for whom: the recipient is not in what is signed but for the audience of a
request, and neither reader compares that with anything. So `AcceptedIsSigned` is
about the signer, and `Intact` asks of the box only that somebody sealed it for
the device. `RoundTrip` says when a reader must accept, and `ReadersAgree` where
the two part, on what is timely, new and bears the server's key: over the
canonical form, over which fields there are and parse, and over line breaks in the
text of the key, and over nothing else.

### EnvelopeSignature

The steps of VerifyResponse from the key to the signature: `CheckKey` (decode the
text of the key, decompress it, compare the text with that of the server's key),
`DecodeSignature`, `CheckSignature`. A `KeyText` is plain base64, the same with
line breaks, which Go's decoder skips, or no base64. 33 bytes make 44 characters
without padding, so there is no fourth kind. `EncodingIsKey` says that the test
succeeds exactly when the text decodes to the server's key and to no other *and*
has no line break, and `ExactlySigned` that this is the only reason for which an
envelope that bears that key and the signature of `Sign` is refused.

The field (`P`, `B`), the order (`N`) and the numbers 32 bytes hold (`Width`,
larger than `P`: coordinates that are not reduced exist) are constants. `ModSqrt`
is the *set* of roots, because the code must not depend on which one the library
finds. `EcdsaVerify` takes both s and N - s, as the library does: which of them
passes is the work of the code's low-S rule.

### Freshness and Pictogram

Operators only. `Wrap` is the result of an int64 operation, `Half` is 2^63.
`Listener` and `Respond` use the mathematical distance, `Envelope` the test
itself; `FreshIsNear` shows where they differ. `Pictogram` has the shifts and
masks of `FromFingerprint` and the modulus of `DeriveSessionPictogram`; `SixBits`
is the reference, bit by bit, that `MCPairHandshake` compares them with.

## 3. Runs

States are distinct states of TLC with the bounds of the cfg.

| Run | Shows | States |
|---|---|---|
| `device_state` | `TypeOK`, `PairingConfirmed`, `IdentityConsistent`, `SignerConsistent`, `InitKeepsIdentity`, `NoLostUpdate`, `InitRepairs`, the inductive `Inv`, the refinement `ImplementsPairingCommit` | 1,000,032 |
| `device_state_live` | `CommandsEnd`: no request holds pair or register for ever | 402,306 |
| `device_state_recovery` | *violated*: `MnemonicRecoversIdentity` | |
| `pair_handshake` | `TypeOK`, `SavedIsIssued`, the refinement `ImplementsPairingCommit` | 317,634 |
| `listener` | `TypeOK`, `ReplayBounded`, `StatusHonest`, `GenuineAccepted`, `OldNoncesIdle`, the refinement `ImplementsDelivery` | 4,147,880 |
| `listener_live` | `SignalEnds`, `LossNoticed` | 70,440 |
| `listener_loss_ends` | *violated*: `LossEndsRun` | |
| `listener_dial` | *violated*: `ConnectFailsForCause` | |
| `respond` | `TypeOK`, `OnlyApprovedLeaves`, `IdIsServers`, `ZeroMeansAnswered`, the refinement `ImplementsApproval` | 176,100 |
| `respond_exit_codes` | *violated*: `RejectionExitsOne` | |
| `envelope` | `TypeOK`, `AcceptedIsSigned`, `RoundTrip`, `ReadersAgree`, `FreshIsNear` | 7,962,630 |
| `envelope_signature` | `EncodingIsKey`, `ExactlySigned` | 87,296 |

A violated run states what the README, the man page, a comment or a test of the
repository says; `findings` in `PROJECT.json` quotes it and says what happens.

**Bounds.** *DeviceState*: two processes, two keys, two servers, one address
each. Two writers are what an overlap takes; two keys, an identity and the one
that replaces it; two server keys, a pairing and another. A third process has
been tried by hand (2.9 million states with one server) and shows nothing new;
the proofs cover any number. *Listener*: two nonces (an envelope and another
that must not disturb it), a window of 1, a skew of 2 so that envelopes stamped
ahead, within and behind the window occur, four instants, so that a replay two
windows apart, and a later one that is refused, fit; two runs, each with or
without `--auto-approve`. *Respond*: the same window, five instants, all
requests, as they were made or altered and renamed on the way, with all command
lines. *EnvelopeSignature*: a prime field, an odd order, nine numbers that are
not reduced, every text of a key. *PairHandshake*: two runs (one that gives up
and the next, which its late POST may meet), two identities, a server with two
keys and a stranger with a third, three nonces, so that a session of each run
and a repeated GET have one; three runs have been tried by hand (3,535,059
states). *Envelope*: three keys (device, server, another), so that an envelope
can be made for another and sealed again for the device; two names, the
protocol's and one that begins it, and the lead that completes the shorter; a
three bit word, which has every case of sign and overflow, a window of 1, one
nonce, in the store or not. The proofs cover every width and all names, leads
and keys.

**Deadlock** is not checked where the system may stop: all keys have been
drawn, the last run has ended, the command has exited, the verdict is out, every
run of pair has been typed.

**Fairness.** `DeviceState`: a process that can go on without the user or a
server does (`Local`: the operating system schedules it), and the timeout of the
`http.Client` comes due (`RequestFails`: pair and register build a client with
`Timeout: 10 * time.Second`). Nothing says that a user answers, a server answers
or listen ends. `Listener`: goroutines that can run do (`Main`, `Cancel`,
`Loop`; the dialer has a handshake timeout of 10 seconds). Nothing says that a
frame arrives, the user answers, or anybody starts the process again.

## 4. Proofs

TLAPS proves, for every value of the constants that the named assumptions
admit:

- `DeviceStateProofs`: `Spec => []Inv`, and from it `TypeOK`,
  `PairingConfirmed`, `IdentityConsistent`, `SignerConsistent`, the action
  properties `InitKeepsIdentity`, `NoLostUpdate` and `InitRepairs`, the
  refinement of `PairingCommit`, one non-temporal lemma per kind of step, and
  `PC!Promise`, which the refinement and `PairingCommit` give together. Assumptions:
  `NoneAssumption` and `FileAssumption` (the model values are distinct from each
  other and from States and keys). *Why `Inv`:* `IdentityConsistent` says nothing
  of a State that is about to be saved. `Memory` says what a process holds at
  each `pc`, `PairingsOk` extends `PairingConfirmed` to the States in memory,
  and `Fresh` says what a process that nobody has overtaken still knows of the
  files: the whole State it holds is the one on disk as long as it has changed
  nothing in it (`HoldsState`); before its save the two differ in what its
  command is about (`OnlyItsOwnChange`); once it has truncated a file, that file
  is empty and the mnemonic is that of the State it is about to write. With only
  the identities of the two States compared, which is all
  `IdentityConsistent` needs, `NoLostUpdate` does not follow. The module proves one
  lemma per part, each with a case per action.
- `PairHandshakeProofs`: `TypeOK`, `SavedIsIssued`, the refinement of
  `PairingCommit`, and with it `PC!Promise`. The invariant says at each `pc` where the offer comes from: at
  the prompt the words claimed are those derived here, so the user's comparison,
  whichever line it is made with, is with the derived one; a confirmed session
  is one the server opened, because words determine sessions; a POST names a
  nonce and a client, and nonces are used once, so the session it commits is the
  confirmed one.
- `ListenerProofs`: `TypeOK`, `ReplayBounded`, `StatusHonest`, the action property
  `GenuineAccepted` and the refinement of `Delivery`. Replay needs that
  whatever this run has accepted is in `nonceStore`, that every accepted
  envelope was within the window when it was accepted, and that nonces
  determine stamps among the envelopes that verify; two distances of at most
  the window from one stamp then make two windows. `GenuineAccepted` needs the
  converse: whatever is in `nonceStore` was accepted by this run. `OldNoncesIdle`
  (`ForgettingSafe`) needs both directions, and that a nonce has one stamp: an
  envelope that bears a forgotten nonce has a stamp outside the window. The same
  invariant gives `Dl!Promise`, what `Delivery` says of its log.
- `RespondProofs`: `TypeOK`, `OnlyApprovedLeaves`, `IdIsServers`,
  `ZeroMeansAnswered`, the refinement of `Approval` and with it
  `Ap!Promise`. *Why `Inv`:* none of the
  four says what is true at the prompt. `Inv` says that the request there is one
  its command admits (`Admitted`: it has that command's fields, the paired server
  signed its text as that command expects it, and the device's key opens it), that
  a run which signs is entitled to (`Entitled`: a command that does not ask,
  `--auto-approve`, or a yes), that nothing is posted before `posting`, then as
  the job's command and for its request, and that a verdict is there exactly at
  the end. The step from `verifying` is where the tag of the box carries the
  integrity of the id over (`Opens`); that what is admitted is `Vouched`, whatever
  it was made as, is what the refinement needs of it.
- `EnvelopeProofs`: `TagsSeparate`, that bytes behind two tags are equal only if
  tag and bytes are, for names of any length (the first position where the names
  differ in length has a NUL in one and none in the other); from it and from
  what a box opens under, `ReadersExactly`, what each reader accepts in terms of
  who signed the envelope, behind what, and for which key the box was last
  sealed; from that `AcceptedIsSigned`, `RoundTrip`, `ReadersAgree`; with
  `FreshnessProofs`, `FreshIsNear`. The invariant (`Made`) says that the
  signature inside is the one its history names, and that the box is undamaged
  exactly when it is whole and its additional data is its ephemeral key; `ReSeal`
  keeps both (`ReSealStep`). For whom the envelope was signed is nowhere in it.
  Assumption `EnvelopeAssumption`: names have no NUL, as arguments of a command
  cannot.
- `EnvelopeSignatureProofs`: `EncodingIsKey` and `ExactlySigned`, for every
  field with `FieldAssumption` (P odd; equal squares have equal or opposite
  roots, true of every prime) and every odd N: a key is what its encoding
  decodes to, bytes that decode are that key's only encoding, only the plain one
  of the texts of these bytes is the text compared with, and of s and N - s
  exactly one is at most N >> 1.
- `FreshnessProofs`: the freshness test for every word width, from lemmas on the
  value of `%`, `Wrap` and `absInt64`. The one stamp that is wrongly accepted
  lies 2^63 seconds back: no server writes it.
- `PictogramProofs`: indices are in their lists, two fingerprints show the same
  pictogram exactly when their first thirty bits agree, and how evenly 16 bits
  fall on 192 entries (64 of them come up 342 times in 65536, the others 341).

Only model-checked: the liveness properties (`CommandsEnd`, `SignalEnds`,
`LossNoticed`: liveness under fairness is out of the prover's reach) and the
violations, which are about reachable counterexamples. `SixBits`, the reference of
the pictogram's indices, is a recursive function: that it agrees with `Indices`
is checked on edge values, not proved.

## 5. Not modelled

- Cryptography itself (ECDSA, AES-GCM, HKDF, Argon2id, BIP39): calls of libraries
  on big numbers. Models use what they promise: a signature verifies or not, a
  box opens under its key or not, a mnemonic determines a key.
- The text of canonical JSON: a text is canonical or not, and the two libraries
  (gowebpki's in the envelope package, cyberphone's in the test harness) are taken
  to agree on RFC 8785. Where a number is no double (a stamp above 2^53, as no
  clock shows) they have not been looked at.
- Flag parsing,
  formatting, `crypto-sign auth` (what it signs ends in a hash, and is no text of
  an envelope), the command `pair-handshake` (it prints the words of a session),
  the raw body of a challenge.
- What a running `listen` does after an `init --force`, an `unpair` or a new
  pairing: it keeps the key and the State it has read, which `SignerConsistent`
  is about, until it ends.
- Time in the handshake: that `expires_at` and the ten seconds of the prompt are
  never compared with a clock is modelled by having no clock.
- Disagreements with the documentation that no run shows, because one line of code
  says it all: working/go/patterns.md:7 has a tag in front of every signed text, so that a
  signature made for one protocol is none for another, and `ecdsa.go:26` one for
  decrypt; the server's signature over an mpa or a decrypt request is checked
  without one (`cmd_mpa_respond.go:135`, `cmd_decrypt.go:126`), with what follows in
  `Respond`; README.md:268-278 has `unpair` delete both files, `cmdUnpair` keeps
  the identity and clears the pairing; README.md:171 says of
  respond "Verifies server signature on `challenge_id + challenge`", the code
  (`cmd_respond.go:130-147`) verifies it over the challenge and the action's hash,
  and posts the unsigned `challenge_id` beside its own; the comment of
  `cmdEnvelopeDecrypt` says "Exit: 0 (success), 2 (all errors)", but missing
  arguments and a bad key exit with 1; the help of `crypto-sign custom` has a tag
  with `\x00` at its end, which no argument can hold: the four characters become
  part of the tag, and the NUL is appended behind them.
- What the code never compares, and no document says it does: neither reader of an
  envelope looks at the audience (`ReSeal` is what follows), VerifyResponse takes an empty nonce like any
  other, and the responding commands do not look at `expires_at`.
- `whoami` (reads and prints), packaging beyond the restart of listen.

## 6. What could come next

1. The composition of listener and state directory: what a running `listen`
   accepts after `init --force`, `unpair` or a new pairing, as one specification.
2. Several runs of the responding commands against one server that takes each
   response once.
3. `PairHandshake` and `DeviceState` in one: an overlap of two handshakes with
   messages, where now each module has one of the two.
