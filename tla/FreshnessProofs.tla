-------------------------- MODULE FreshnessProofs --------------------------
(***************************************************************************)
(* The freshness test for integers of every width and every window: TLC    *)
(* can only look at a few bits.                                            *)
(***************************************************************************)
EXTENDS Freshness, TLAPS

\* A remainder, when the quotient is 0 or 1.
LEMMA Remainder ==
  ASSUME NEW n \in Nat \ {0}
  PROVE  /\ \A a \in 0..(n - 1) : a % n = a
         /\ \A a \in n..(2 * n - 1) : a % n = a - n
<1>1. ASSUME NEW a \in 0..(n - 1) PROVE a % n = a
  BY <1>1, Z3
<1>2. ASSUME NEW a \in n..(2 * n - 1) PROVE a % n = a - n
  BY <1>2, Z3
<1> QED BY <1>1, <1>2

\* A result up to one turn above the largest int64 comes back one turn lower.
LEMMA WrapValue ==
  ASSUME NEW x \in (-Half)..(3 * Half - 1)
  PROVE  Wrap(x) = IF x < Half THEN x ELSE x - 2 * Half
<1> USE WidthAssumption
<1>1. CASE x < Half
  <2>1. x + Half \in 0..(2 * Half - 1) /\ 2 * Half \in Nat \ {0}
    BY <1>1
  <2>2. (x + Half) % (2 * Half) = x + Half
    BY <2>1, Remainder
  <2> QED BY <1>1, <2>2 DEF Wrap
<1>2. CASE x >= Half
  <2>1. x + Half \in (2 * Half)..(2 * (2 * Half) - 1) /\ 2 * Half \in Nat \ {0}
    BY <1>2
  <2>2. (x + Half) % (2 * Half) = x + Half - 2 * Half
    BY <2>1, Remainder
  <2> QED BY <1>2, <2>2 DEF Wrap
<1> QED BY <1>1, <1>2

\* absInt64 is the absolute value except at the least int64, its own.
LEMMA AbsValue ==
  ASSUME NEW n \in Int64
  PROVE  absInt64(n) = IF n = -Half THEN -Half ELSE IF n < 0 THEN -n ELSE n
<1> USE WidthAssumption DEF Int64
<1>1. CASE n < 0
  <2>1. -n \in (-Half)..(3 * Half - 1)
    BY <1>1
  <2>2. Wrap(-n) = IF -n < Half THEN -n ELSE -n - 2 * Half
    BY <2>1, WrapValue
  <2> QED BY <1>1, <2>2 DEF absInt64
<1>2. CASE n >= 0
  BY <1>2 DEF absInt64
<1> QED BY <1>1, <1>2

\* For every clock and every stamp, the test accepts what is near and the one
\* stamp half a turn back: it is the one the models of the commands use, but for
\* a single stamp.
THEOREM FreshnessCorrect ==
  ASSUME NEW t \in Clock, NEW s \in Int64
  PROVE  Fresh(t, s) <=> (Near(t, s) \/ t - s = Half)
<1> USE WidthAssumption DEF Clock, Int64
<1> DEFINE d == Wrap(t - s)
<1>1. t - s \in (-Half)..(3 * Half - 1) /\ t - s < 2 * Half - FreshWindow
  OBVIOUS
<1>2. d = IF t - s < Half THEN t - s ELSE t - s - 2 * Half
  BY <1>1, WrapValue
<1>3. d \in Int64
  BY <1>1, <1>2
<1>4. absInt64(d) = IF d = -Half THEN -Half ELSE IF d < 0 THEN -d ELSE d
  BY <1>3, AbsValue
<1> HIDE DEF d
<1>5. Fresh(t, s) <=> absInt64(d) <= FreshWindow
  BY DEF Fresh, d
<1> QED BY <1>1, <1>2, <1>4, <1>5 DEF Near
=============================================================================
