------------------------------ MODULE Listener ------------------------------
(***************************************************************************)
(* `sigil-device listen` once it has its key and its State: the goroutines *)
(* of one run (main in runListen, the one that waits for a signal, and     *)
(* Client.messageLoop) over a WebSocket to the relay, and the runs that    *)
(* follow each other when the process ends and is started again.           *)
(*                                                                         *)
(* The relay may deliver an envelope late, again, or never, in any order;  *)
(* it also delivers frames that are not envelopes and envelopes that do    *)
(* not verify (made for another key, by another server, or damaged).       *)
(* Time is a counter that the environment advances; a server stamps its    *)
(* envelopes with a clock at most Skew away.  (A definition whose name says *)
(* what it gets wrong is a mutation of the next one; see DeviceState.)      *)
(***************************************************************************)
EXTENDS Integers, Sequences

CONSTANTS
    Nonce,          \* nonces of the envelopes the server makes, never reused
    FreshWindow,    \* 300 seconds in VerifyResponse
    Skew,           \* how far the server's clock may be from the device's
    MaxClock,       \* bound: the last instant
    MaxRuns         \* bound: how often the process is started

ASSUME ListenerAssumption ==
    /\ FreshWindow \in Nat /\ Skew \in Nat /\ MaxClock \in Nat
    /\ MaxRuns \in Nat \ {0}

\* What VerifyResponse and the loop see of an envelope: verifies stands for
\* the decryption, the server key and the signature; notify for an action
\* that has a handler.
Envelope == [nonce : Nonce, ts : Int, verifies : BOOLEAN, notify : BOOLEAN]

\* The schemes a relay address can have: register admits http and https, the
\* --relay flag of listen anything.
Scheme == {"http", "ws"}

VARIABLES
    relay,          \* the scheme of the address this run dials
    autoApprove,    \* this run has the --auto-approve flag
    relayUp,        \* the relay accepts connections
    main,           \* runListen: dialing, waiting (for ctx.Done), closing, exited
    exitCode,       \* of the last run that ended
    signalled,      \* sigChan holds a signal
    ctxDone,        \* cancel() has been called
    conn,           \* c.conn: none, open, lost (reset or FIN), silent, closed
    connected,      \* c.connected
    loop,           \* messageLoop: off, top, reading, asking, done
    nonceStore,     \* c.nonceStore
    run,            \* runs started so far
    clock,
    sent,           \* envelopes the server has handed to the relay
    accepted        \* history: the envelopes VerifyResponse accepted, when, in which run

environment == <<relayUp, clock, sent>>
client == <<conn, connected, loop, nonceStore>>
command == <<relay, autoApprove>>
process == <<command, main, exitCode, signalled, ctxDone, run>>
vars == <<environment, client, process, accepted>>

Init ==
    /\ relay \in Scheme /\ relayUp \in BOOLEAN /\ autoApprove \in BOOLEAN
    /\ main = "dialing" /\ exitCode = "none" /\ run = 1
    /\ signalled = FALSE /\ ctxDone = FALSE
    /\ conn = "none" /\ connected = FALSE /\ loop = "off" /\ nonceStore = {}
    /\ clock = 0 /\ sent = {} /\ accepted = <<>>

-----------------------------------------------------------------------------
\* websocket.Dialer takes ws:// and wss:// only.
Dialable(s) == s = "ws"

\* Client.Connect succeeds and starts messageLoop.
Connect ==
    /\ main = "dialing" /\ relayUp /\ Dialable(relay) /\ ~ctxDone
    /\ conn' = "open" /\ connected' = TRUE /\ loop' = "top"
    /\ main' = "waiting"
    /\ UNCHANGED <<environment, nonceStore, command, exitCode, signalled, ctxDone, run, accepted>>

\* The process is gone; what it kept in memory with it.
End(code) ==
    /\ main' = "exited" /\ exitCode' = code
    /\ loop' = "off" /\ connected' = FALSE /\ nonceStore' = {}
    /\ conn' = IF conn = "none" THEN "none" ELSE "closed"

\* Client.Connect fails: the address, the relay, its 10 second handshake
\* timeout, or the context that a signal cancelled.
ConnectFails ==
    /\ main = "dialing"
    /\ ~relayUp \/ ~Dialable(relay) \/ ctxDone
    /\ End("1")
    /\ UNCHANGED <<environment, command, signalled, ctxDone, run, accepted>>

\* The goroutine that waits for a signal calls cancel.
Cancel ==
    /\ main # "exited" /\ signalled /\ ~ctxDone
    /\ ctxDone' = TRUE
    /\ UNCHANGED <<environment, client, command, main, exitCode, signalled, run, accepted>>

MainWaitsForLoop == ctxDone /\ loop = "done"
MainWakes == ctxDone

\* runListen after <-ctx.Done(): Client.Close.
Close ==
    /\ main = "waiting" /\ MainWakes
    /\ main' = "closing"
    /\ connected' = FALSE /\ conn' = "closed"
    /\ UNCHANGED <<environment, loop, nonceStore, command, exitCode, signalled, ctxDone, run, accepted>>

\* runListen returns nil; the program ends and the loop with it.
Return ==
    /\ main = "closing"
    /\ End("0")
    /\ UNCHANGED <<environment, command, signalled, ctxDone, run, accepted>>

-----------------------------------------------------------------------------
\* messageLoop looks at the context, then blocks in ReadJSON.
LoopTop ==
    /\ loop = "top"
    /\ loop' = IF ctxDone THEN "done" ELSE "reading"
    /\ UNCHANGED <<environment, process, conn, connected, nonceStore, accepted>>

FreshIfNotOld(e) == clock - e.ts <= FreshWindow
Distance(a, b) == IF a < b THEN b - a ELSE a - b
Fresh(e) == Distance(clock, e.ts) <= FreshWindow

\* envelope.VerifyResponse with the client's nonce store.
Verified(e) == e.verifies /\ Fresh(e) /\ e.nonce \notin nonceStore

\* The nonces the store has after VerifyResponse has seen e: of envelopes that
\* passed every other check, and for the whole run.
NoncesOfRejectedToo(e) == nonceStore \cup {e.nonce}
NoncesByStamp(e) == IF Verified(e) THEN nonceStore \cup {e.ts} ELSE nonceStore
NoncesAfter(e) == IF Verified(e) THEN nonceStore \cup {e.nonce} ELSE nonceStore

\* Envelopes that do not verify; one may bear the nonce of one that does.
Unverifiable == [nonce : Nonce, ts : {clock}, verifies : {FALSE}, notify : {TRUE}]

\* ReadJSON has a frame to read.  Of a connection that Client.Close has just
\* closed it may be one that the WebSocket had in its buffer; one that was there
\* when a connection broke is as good as read before.
HasFrame == conn \in {"open", "closed"}

\* A frame with an envelope.  The handler of an action that has one runs inside
\* the loop and, without --auto-approve, waits for the user.
ReadEnvelope(e) ==
    /\ loop = "reading" /\ HasFrame
    /\ nonceStore' = NoncesAfter(e)
    /\ accepted' = IF Verified(e) THEN Append(accepted, [env |-> e, at |-> clock, run |-> run])
                                  ELSE accepted
    /\ loop' = IF Verified(e) /\ e.notify /\ ~autoApprove THEN "asking" ELSE "top"
    /\ UNCHANGED <<environment, process, conn, connected>>

\* A JSON object of strings with no "envelope".
ReadOther ==
    /\ loop = "reading" /\ HasFrame
    /\ loop' = "top"
    /\ UNCHANGED <<environment, process, conn, connected, nonceStore, accepted>>

ConnectedStays == connected
ConnectedAfterError == FALSE

\* ReadJSON returns an error and the loop ends: the connection is lost or
\* closed.
ReadError ==
    /\ loop = "reading" /\ conn \in {"lost", "closed"}
    /\ connected' = ConnectedAfterError /\ loop' = "done"
    /\ UNCHANGED <<environment, process, conn, nonceStore, accepted>>

\* The same for a frame that is not a JSON object of strings; the connection
\* stays open and nobody reads it any more.
ReadMalformed ==
    /\ loop = "reading" /\ HasFrame
    /\ connected' = ConnectedAfterError /\ loop' = "done"
    /\ UNCHANGED <<environment, process, conn, nonceStore, accepted>>

\* The user answers the prompt, y or n: neither is sent anywhere.
Answer ==
    /\ loop = "asking"
    /\ loop' = "top"
    /\ UNCHANGED <<environment, process, conn, connected, nonceStore, accepted>>

-----------------------------------------------------------------------------
\* The server makes an envelope and gives it to the relay.
ServerSend ==
    \E e \in [nonce : Nonce, ts : (clock - Skew)..(clock + Skew),
              verifies : {TRUE}, notify : BOOLEAN] :
        /\ \A f \in sent : f.nonce # e.nonce
        /\ sent' = sent \cup {e}
        /\ UNCHANGED <<relayUp, clock, client, process, accepted>>

Tick ==
    /\ clock < MaxClock
    /\ clock' = clock + 1
    /\ UNCHANGED <<relayUp, sent, client, process, accepted>>

\* The relay comes and goes.
RelayUp ==
    /\ ~relayUp /\ relayUp' = TRUE
    /\ UNCHANGED <<clock, sent, client, process, accepted>>

RelayDown ==
    /\ relayUp /\ relayUp' = FALSE
    /\ UNCHANGED <<clock, sent, client, process, accepted>>

\* The connection breaks with a reset or a close the device is told of, or
\* without a word: there is no read deadline and no ping.
ConnectionBreaks ==
    /\ conn = "open"
    /\ conn' \in {"lost", "silent"}
    /\ UNCHANGED <<environment, connected, loop, nonceStore, process, accepted>>

\* SIGINT or SIGTERM.
Signal ==
    /\ main # "exited" /\ ~signalled
    /\ signalled' = TRUE
    /\ UNCHANGED <<environment, client, command, main, exitCode, ctxDone, run, accepted>>

\* SIGKILL, a crash, a power cut.
Killed ==
    /\ main # "exited"
    /\ End("killed")
    /\ UNCHANGED <<environment, command, signalled, ctxDone, run, accepted>>

\* The user or systemd starts listen again, with whatever address and flag.
Restart ==
    /\ main = "exited" /\ run < MaxRuns
    /\ run' = run + 1
    /\ relay' \in Scheme /\ autoApprove' \in BOOLEAN
    /\ main' = "dialing" /\ signalled' = FALSE /\ ctxDone' = FALSE
    /\ conn' = "none"
    /\ UNCHANGED <<environment, connected, loop, nonceStore, exitCode, accepted>>

-----------------------------------------------------------------------------
Main == Connect \/ ConnectFails \/ Close \/ Return
Loop == LoopTop \/ ReadError
Frame == ReadOther \/ ReadMalformed \/ \E e \in sent \cup Unverifiable : ReadEnvelope(e)
Outside == ServerSend \/ Tick \/ RelayUp \/ RelayDown \/ ConnectionBreaks
              \/ Signal \/ Killed \/ Restart

Next == Main \/ Cancel \/ Loop \/ Frame \/ Answer \/ Outside

Spec == Init /\ [][Next]_vars

\* Goroutines that can run do.  No frame need arrive, the user need not
\* answer, nobody need restart the process.
FairSpec == Spec /\ WF_vars(Main) /\ WF_vars(Cancel) /\ WF_vars(Loop)

-----------------------------------------------------------------------------
\* Type invariant.
TypeOK ==
    /\ relay \in Scheme /\ relayUp \in BOOLEAN /\ autoApprove \in BOOLEAN
    /\ main \in {"dialing", "waiting", "closing", "exited"}
    /\ exitCode \in {"none", "0", "1", "killed"}
    /\ signalled \in BOOLEAN /\ ctxDone \in BOOLEAN
    /\ conn \in {"none", "open", "lost", "silent", "closed"}
    /\ connected \in BOOLEAN
    /\ loop \in {"off", "top", "reading", "asking", "done"}
    /\ nonceStore \subseteq Nonce
    /\ run \in 1..MaxRuns /\ clock \in 0..MaxClock
    /\ sent \subseteq Envelope
    /\ accepted \in Seq([env : Envelope, at : 0..MaxClock, run : 1..MaxRuns])

\* An envelope that the relay delivers again is acted on again only by a later
\* run, and at most two freshness windows after the first time: once in the
\* window before its stamp and once in the window behind it.
ReplayBounded ==
    \A i, j \in DOMAIN accepted :
        (i < j /\ accepted[i].env.nonce = accepted[j].env.nonce) =>
            /\ accepted[i].run < accepted[j].run
            /\ accepted[j].at - accepted[i].at <= 2 * FreshWindow

\* No envelope is lost to another one: a genuine, fresh envelope that this run
\* has not accepted yet is accepted when it is read, whatever the run rejected
\* before, the nonce it bears included.
GenuineAccepted ==
    [][\A e \in sent :
         (ReadEnvelope(e) /\ Fresh(e)
            /\ \A i \in DOMAIN accepted : accepted[i].run = run => accepted[i].env.nonce # e.nonce)
         => Len(accepted') > Len(accepted)]_vars

\* The nonce store only grows, but a run needs no more of it than the nonces of
\* envelopes it accepted whose stamps are not yet older than the window: on every
\* envelope of the server, a store that had forgotten the others would give the
\* same verdict.  (Ages only grow, so what has been forgotten is never missed.)
Recent ==
    {accepted[i].env.nonce :
        i \in {j \in DOMAIN accepted :
                 accepted[j].run = run /\ clock - accepted[j].env.ts <= FreshWindow}}
OldNoncesIdle ==
    loop = "reading" =>
        \A e \in sent : Verified(e) <=> Fresh(e) /\ e.nonce \notin Recent

Dl == INSTANCE Delivery WITH Window <- FreshWindow, made <- sent, log <- accepted

\* Whatever the relay repeats, delays or reorders, and wherever runs end, every
\* step is one of Delivery's or changes nothing it knows: a run acts on what the
\* server made, once, and in time.
ImplementsDelivery == Dl!Spec

\* While runListen waits, IsConnected answers TRUE only if messageLoop still
\* reads, or is on its way out of a cancelled run.
StatusHonest ==
    connected => main = "waiting" /\ (loop \in {"top", "reading", "asking"} \/ ctxDone)

\* A signal ends the run, even while it dials or while its handler is asking
\* the user.
SignalEnds == signalled ~> main = "exited"

\* With --auto-approve a connection the device is told is lost does not stay
\* reported as connected.
LossNoticed == (conn = "lost" /\ autoApprove) ~> ~connected

-----------------------------------------------------------------------------
(* What the repository says of the program and the program does not do.     *)

\* README, listen, exit codes: 0 disconnected cleanly, 1 connection failed;
\* man page: the service restarts on failure.  A run that loses its connection
\* ends.
LossEndsRun == (main = "waiting" /\ conn = "lost") ~> main = "exited"

\* cmd_listen.go:31, "fall back to registered one", and the man page's example:
\* the address register admits is one listen can dial, so that only the relay
\* or a signal makes Connect fail.
ConnectFailsForCause == [][ConnectFails => ~relayUp \/ ctxDone]_vars
=============================================================================
