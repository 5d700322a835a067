-------------------------- MODULE PictogramProofs --------------------------
(***************************************************************************)
(* The numbers that index the word lists, for all bytes: TLC can only look *)
(* at some of them.                                                        *)
(***************************************************************************)
EXTENDS Pictogram, SequenceTheorems, TLAPS

\* A word of 32 bits.
Word == {n \in Nat : n < 256 * 256 * 256 * 256}

\* A digit of 6 bits and what is above it.
LEMMA Split ==
  ASSUME NEW n \in Nat
  PROVE  n \div 64 \in Nat /\ n % 64 \in 0..63 /\ n = 64 * (n \div 64) + (n % 64)
  BY Z3

\* Six digits have room for all a word holds: the last shift leaves six bits.
LEMMA TopDigit ==
  ASSUME NEW w \in Word
  PROVE  ((((w \div 4) \div 64) \div 64) \div 64) \div 64 \in 0..63
<1>1. ASSUME NEW n \in Nat, NEW k \in Nat, n < 64 * k
      PROVE  n \div 64 \in Nat /\ n \div 64 < k
  BY <1>1, Z3
<1> DEFINE s2 == w \div 4
           s8 == s2 \div 64
           s14 == s8 \div 64
           s20 == s14 \div 64
<1>2. s2 \in Nat /\ s2 < 64 * (64 * 64 * 64 * 64)
  BY Z3 DEF Word
<1> HIDE DEF s2
<1>3. s8 \in Nat /\ s8 < 64 * (64 * 64 * 64)
  BY <1>1, <1>2
<1> HIDE DEF s8
<1>4. s14 \in Nat /\ s14 < 64 * (64 * 64)
  BY <1>1, <1>3
<1> HIDE DEF s14
<1>5. s20 \in Nat /\ s20 < 64 * 64
  BY <1>1, <1>4
<1> HIDE DEF s20
<1>6. s20 \div 64 \in 0..63
  BY <1>1, <1>5
<1> QED BY <1>6 DEF s2, s8, s14, s20

\* The four bytes make a number of 32 bits.
LEMMA FirstFourRange ==
  ASSUME NEW b \in Seq(Byte), Len(b) >= 4
  PROVE  FirstFour(b) \in Word
<1>1. b[1] \in Byte /\ b[2] \in Byte /\ b[3] \in Byte /\ b[4] \in Byte
  OBVIOUS
<1> DEFINE p == b[1]
           q == b[2]
           r == b[3]
           t == b[4]
<1>2. p \in 0..255 /\ q \in 0..255 /\ r \in 0..255 /\ t \in 0..255
  BY <1>1 DEF Byte
<1> HIDE DEF p, q, r, t
<1>3. ((p * 256 + q) * 256 + r) * 256 + t \in Word
  BY <1>2, Z3 DEF Word
<1> QED BY <1>3 DEF FirstFour, p, q, r, t

\* The five digits, and that together they are all but the last two bits.
LEMMA Digits ==
  ASSUME NEW w \in Word
  PROVE  /\ \A i \in 1..5 : Indices(w)[i] \in 0..63
         /\ w \div 4 = 64 * (64 * (64 * (64 * Indices(w)[1] + Indices(w)[2])
                                   + Indices(w)[3]) + Indices(w)[4]) + Indices(w)[5]
<1> DEFINE s2 == w \div 4
           s8 == s2 \div 64
           s14 == s8 \div 64
           s20 == s14 \div 64
           s26 == s20 \div 64
<1>1. s26 \in 0..63
  BY TopDigit
<1>2. s2 \in Nat
  BY Z3 DEF Word
<1>3. /\ Indices(w)[1] = s26 % 64 /\ Indices(w)[2] = s20 % 64 /\ Indices(w)[3] = s14 % 64
      /\ Indices(w)[4] = s8 % 64 /\ Indices(w)[5] = s2 % 64
  BY DEF Indices, Shifted
<1> HIDE DEF s2
<1>4. s8 \in Nat /\ s2 % 64 \in 0..63 /\ s2 = 64 * s8 + (s2 % 64)
  BY <1>2, Split
<1> HIDE DEF s8
<1>5. s14 \in Nat /\ s8 % 64 \in 0..63 /\ s8 = 64 * s14 + (s8 % 64)
  BY <1>4, Split
<1> HIDE DEF s14
<1>6. s20 \in Nat /\ s14 % 64 \in 0..63 /\ s14 = 64 * s20 + (s14 % 64)
  BY <1>5, Split
<1> HIDE DEF s20
<1>7. s20 % 64 \in 0..63 /\ s20 = 64 * s26 + (s20 % 64)
  BY <1>6, Split
<1> HIDE DEF s26
<1>8. s26 % 64 = s26
  BY <1>1, Z3
<1>9. s2 = 64 * (64 * (64 * (64 * (s26 % 64) + (s20 % 64)) + (s14 % 64)) + (s8 % 64)) + (s2 % 64)
  BY <1>1, <1>2, <1>4, <1>5, <1>6, <1>7, <1>8
<1>10. \A i \in 1..5 : i = 1 \/ i = 2 \/ i = 3 \/ i = 4 \/ i = 5
  OBVIOUS
<1>11. \A i \in 1..5 : Indices(w)[i] \in 0..63
  BY <1>1, <1>3, <1>4, <1>5, <1>6, <1>7, <1>8, <1>10
<1>12. w \div 4 = s2
  BY DEF s2
<1> QED BY <1>3, <1>9, <1>11, <1>12

\* Every number indexes its word list: FromFingerprint and Derive never run over
\* the end of the 64 entries, whatever the fingerprint.
THEOREM IndicesInList ==
  ASSUME NEW b \in Seq(Byte), Len(b) >= 4
  PROVE  \A i \in 1..5 : Derive(b)[i] \in 0..(IconCount - 1)
<1>1. FirstFour(b) \in Word
  BY FirstFourRange
<1>2. Derive(b) = Indices(FirstFour(b))
  BY DEF Derive, FromFingerprint
<1>3. \A i \in 1..5 : Indices(FirstFour(b))[i] \in 0..63
  BY <1>1, Digits, Zenon
<1>4. \A i \in 1..5 : Derive(b)[i] \in 0..63
  BY <1>2, <1>3, Zenon
<1>5. IconCount - 1 = 63
  BY DEF IconCount
<1> QED BY <1>4, <1>5, Zenon

\* Two fingerprints have one pictogram exactly when their first 30 bits agree:
\* the pictogram shows all of these bits and none of the others.
THEOREM PictogramIsThirtyBits ==
  ASSUME NEW b \in Seq(Byte), Len(b) >= 4, NEW c \in Seq(Byte), Len(c) >= 4
  PROVE  Derive(b) = Derive(c) <=> FirstFour(b) \div 4 = FirstFour(c) \div 4
<1> DEFINE v == FirstFour(b)
           w == FirstFour(c)
<1>1. v \in Word /\ w \in Word
  BY FirstFourRange
<1>2. Derive(b) = Indices(v) /\ Derive(c) = Indices(w)
  BY DEF Derive, FromFingerprint
<1> HIDE DEF v, w
<1>3. ASSUME Indices(v) = Indices(w) PROVE v \div 4 = w \div 4
  BY <1>1, <1>3, Digits
<1>4. ASSUME v \div 4 = w \div 4 PROVE Indices(v) = Indices(w)
  BY <1>4 DEF Indices, Shifted
<1> QED BY <1>2, <1>3, <1>4 DEF v, w

\* A session pictogram never runs over the end of its pool.
THEOREM SessionInPool ==
  ASSUME NEW d \in Seq(Byte), Len(d) = 32
  PROVE  \A i \in 1..6 : SessionIndices(d)[i] \in 0..(PoolSize - 1)
<1> SUFFICES ASSUME NEW i \in 1..6 PROVE SessionIndices(d)[i] \in 0..(PoolSize - 1)
  OBVIOUS
<1>1. \A j \in 1..Len(d) : d[j] \in Byte
  BY ElementOfSeq
<1> DEFINE n == d[2 * i - 1] * 256 + d[2 * i]
<1>2. n \in Nat
  <2>1. 2 * i - 1 \in 1..32 /\ 2 * i \in 1..32
    OBVIOUS
  <2>2. d[2 * i - 1] \in Byte /\ d[2 * i] \in Byte
    BY <1>1, <2>1
  <2>3. ASSUME NEW p \in 0..255, NEW q \in 0..255 PROVE p * 256 + q \in Nat
    OBVIOUS
  <2> QED BY <2>2, <2>3 DEF Byte
<1>3. SessionIndices(d)[i] = n % 192
  BY DEF SessionIndices, PoolIndex, PoolSize
<1> HIDE DEF n
<1>4. n % 192 \in 0..191
  BY <1>2, Z3
<1> QED BY <1>3, <1>4 DEF PoolSize

\* How even the choice is: of the 65536 numbers an entry below 64 has 342, one
\* for each k up to 341, and one of the others 341.
THEOREM PoolEvenness ==
  ASSUME NEW i \in 0..(PoolSize - 1), NEW k \in Nat
  PROVE  /\ PoolIndex(i + PoolSize * k) = i
         /\ i + PoolSize * k < 256 * 256 <=> (k < 341 \/ (k = 341 /\ i < 64))
<1>1. (i + 192 * k) % 192 = i
  BY Z3 DEF PoolSize
<1>2. i + 192 * k < 256 * 256 <=> (k < 341 \/ (k = 341 /\ i < 64))
  BY DEF PoolSize
<1> QED BY <1>1, <1>2 DEF PoolSize, PoolIndex
=============================================================================
