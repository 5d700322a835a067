----------------------------- MODULE Freshness -----------------------------
(***************************************************************************)
(* The freshness test of VerifyResponse, in the arithmetic of the machine: *)
(* int64 subtraction and negation wrap around.  Listener and Respond use   *)
(* its mathematical meaning; Envelope runs the test itself.                *)
(*                                                                         *)
(* Half is 2^63.  The stamp comes out of the JSON of the payload and may   *)
(* be any int64; the clock is the device's.  (A definition whose name says *)
(* what it gets wrong is a mutation of the next one; see DeviceState.)     *)
(***************************************************************************)
EXTENDS Integers

CONSTANTS
    Half,           \* 2^63 in the program
    FreshWindow     \* 300 seconds

ASSUME WidthAssumption ==
    Half \in Nat /\ FreshWindow \in Nat /\ 0 < FreshWindow /\ FreshWindow < Half

Int64 == (-Half)..(Half - 1)

\* What time.Now().Unix() may be: not before 1970, not within the window of the
\* last instant an int64 can tell.
Clock == 0..(Half - 1 - FreshWindow)

\* An int64 result.
Wrap(x) == ((x + Half) % (2 * Half)) - Half

\* -n for a negative n: math.MinInt64 is its own negation.
absInt64(n) == IF n < 0 THEN Wrap(-n) ELSE n

FreshNotOld(t, s) == Wrap(t - s) <= FreshWindow
Fresh(t, s) == absInt64(Wrap(t - s)) <= FreshWindow

\* What the test is for.
Near(t, s) == t - s <= FreshWindow /\ s - t <= FreshWindow
=============================================================================
