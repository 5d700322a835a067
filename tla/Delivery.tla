------------------------------ MODULE Delivery ------------------------------
(***************************************************************************)
(* What listening promises, without sockets, goroutines or nonces: a run   *)
(* acts on messages that were made, each at most once, and only while it   *)
(* is within the window around its stamp.  Nothing is promised about order *)
(* or about messages being delivered at all, and the next run knows        *)
(* nothing of what the one before acted on.  Listener implements this.     *)
(***************************************************************************)
EXTENDS Integers, Sequences

CONSTANT Window

VARIABLES
    clock,
    run,        \* the run of the program that is or was the last
    made,       \* the messages that were made, each with its stamp
    log         \* what was acted on, when, by which run

vars == <<clock, run, made, log>>

Init == clock = 0 /\ run = 1 /\ made = {} /\ log = <<>>

Timely(m) == clock - m.ts <= Window /\ m.ts - clock <= Window

Act(m) ==
    /\ Timely(m)
    /\ \A i \in DOMAIN log : log[i].run = run => log[i].env # m
    /\ log' = Append(log, [env |-> m, at |-> clock, run |-> run])
    /\ UNCHANGED <<clock, run, made>>

Make == made \subseteq made' /\ UNCHANGED <<clock, run, log>>

Tick == clock' = clock + 1 /\ UNCHANGED <<run, made, log>>

NewRun == run' = run + 1 /\ UNCHANGED <<clock, made, log>>

Next == Make \/ Tick \/ NewRun \/ \E m \in made : Act(m)

Spec == Init /\ [][Next]_vars
-----------------------------------------------------------------------------
\* What the log shows: only what was made, each entry within the window, and no
\* message twice by one run.
Promise ==
    /\ \A i \in DOMAIN log :
         /\ log[i].env \in made
         /\ log[i].at - log[i].env.ts <= Window /\ log[i].env.ts - log[i].at <= Window
    /\ \A i, j \in DOMAIN log :
         (i # j /\ log[i].run = log[j].run) => log[i].env # log[j].env
=============================================================================
