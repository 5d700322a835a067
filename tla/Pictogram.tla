----------------------------- MODULE Pictogram -----------------------------
(***************************************************************************)
(* From bytes to pictograms: which entries of the word lists are chosen.   *)
(* A list of words stands for its entries' numbers, counted from 0 as in   *)
(* the code.  Names have no space in them, so the speakable texts, the     *)
(* names joined by spaces, are equal exactly when the lists are.           *)
(***************************************************************************)
EXTENDS Integers, Sequences

Byte == 0..255

\* Wordlist and EmojiList, and the pool for sessions.
IconCount == 64
PoolSize == 192

\* binary.BigEndian.Uint32 of the first four bytes.
FirstFour(b) == ((b[1] * 256 + b[2]) * 256 + b[3]) * 256 + b[4]

\* What is left of the word after a shift by 26, 20, 14, 8 and 2: each six bits
\* less than the next.  The mask 0x3F keeps the last six bits of each.
Shifted(w) ==
    LET s2 == w \div 4     s8 == s2 \div 64     s14 == s8 \div 64     s20 == s14 \div 64
    IN <<s20 \div 64, s20, s14, s8, s2>>
Indices(w) == [i \in 1..5 |-> Shifted(w)[i] % 64]

\* FromFingerprint; the empty list when the text is no hex or too short.
FromFingerprint(isHex, b) == IF isHex /\ Len(b) >= 4 THEN Indices(FirstFour(b)) ELSE <<>>

\* Derive, the same from raw bytes.
Derive(b) == FromFingerprint(TRUE, b)

\* DeriveSessionPictogram, of the 32 bytes that Argon2id derives: six numbers
\* of 16 bits, modulo the size of the pool.
PoolIndex(n) == n % PoolSize
SessionIndices(derived) ==
    [i \in 1..6 |-> PoolIndex(derived[2 * i - 1] * 256 + derived[2 * i])]

-----------------------------------------------------------------------------
\* Reference: the i-th index is the i-th group of six bits of the bytes.
Bit(b, k) == (b[k \div 8 + 1] \div 2^(7 - (k % 8))) % 2
SixBits(b, i) ==
    LET v[k \in 0..6] == IF k = 0 THEN 0 ELSE 2 * v[k - 1] + Bit(b, 6 * (i - 1) + k - 1)
    IN v[6]
=============================================================================
