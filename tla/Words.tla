------------------------------- MODULE Words -------------------------------
(***************************************************************************)
(* The machine integers and floats the workloads compute with, at a        *)
(* reduced width: a word of the source has 32 bits, here WORD; a byte has  *)
(* 8 bits, here BYTE; an f32 keeps 24 significant bits, here MANTISSA.     *)
(* A word is its unsigned value, Signed its two's-complement reading.      *)
(* Constants of the source are taken modulo 2^WORD.                        *)
(***************************************************************************)
EXTENDS Integers, Sequences, FiniteSets
CONSTANTS WORD, BYTE, MANTISSA

ASSUME WordsAssumption == WORD \in Nat \ {0} /\ BYTE \in 1..WORD /\ MANTISSA \in Nat \ {0}

\* What a power is, for provers that do not know.
ASSUME PowersOfTwo == 2^0 = 1 /\ \A n \in 0..(2 * WORD + MANTISSA) : 2^(n + 1) = 2 * 2^n

Wrap(x) == x % 2^WORD
Signed(x) == IF x < 2^(WORD - 1) THEN x ELSE x - 2^WORD
LowBits(x, n) == x % 2^n
HighBits(x, n) == x \div 2^(WORD - n)
Complement(x) == 2^WORD - 1 - x
ShiftLeft(x, n) == Wrap(x * 2^n)
ShiftRight(x, n) == x \div 2^n
RotateLeft(x, n) == LET k == n % WORD IN ShiftLeft(x, k) + ShiftRight(x, WORD - k)
RotateRight(x, n) == RotateLeft(x, WORD - (n % WORD))

\* Division of the source's i32: towards zero.
Quotient(a, b) == IF a < 0 THEN -((-a) \div b) ELSE a \div b

\* A float converted to a word: towards zero, and to the nearest word when out of range.
ToWord(x) == LET top == 2^(WORD - 1)
             IN Wrap(IF x < -top THEN -top ELSE IF x > top - 1 THEN top - 1 ELSE x)

\* The result of Body applied for k = first, first + 1, ..., last.
For(Body(_, _), start, first, last) ==
  LET after[k \in (first - 1)..last] == IF k < first THEN start ELSE Body(after[k - 1], k)
  IN IF last < first THEN start ELSE after[last]

Total(f, first, last) == For(LAMBDA sum, i : sum + f[i], 0, first, last)

\* Bits of a word, the number of leading and trailing zeros, words made of bits, and
\* the number of ones.
BitOf(x, i) == (x \div 2^i) % 2
LeadingZeros(x) == CHOOSE n \in 0..WORD : x < 2^(WORD - n) /\ (n < WORD => x >= 2^(WORD - n - 1))
TrailingZeros(x) == CHOOSE n \in 0..WORD : x % 2^n = 0 /\ (n < WORD => BitOf(x, n) = 1)
OnesOf(x) == {i \in 0..(WORD - 1) : BitOf(x, i) = 1}
WordOf(ones) == For(LAMBDA sum, i : (IF i \in ones THEN 2^i ELSE 0) + sum, 0, 0, WORD - 1)
Xor(a, b) == WordOf((OnesOf(a) \cup OnesOf(b)) \ (OnesOf(a) \cap OnesOf(b)))
And(a, b) == WordOf(OnesOf(a) \cap OnesOf(b))
Or(a, b) == WordOf(OnesOf(a) \cup OnesOf(b))
CountOnes(x) == Cardinality(OnesOf(x))

\* Numerical Recipes' generator: the n words after the seed s.
Lcg(s) == Wrap(s * Wrap(1664525) + Wrap(1013904223))
LcgWords(s, n) == Tail(For(LAMBDA words, k : Append(words, Lcg(words[k])), <<s>>, 1, n))
\* A buffer of n bytes, each the top byte of the next word.
LcgBytes(s, n) == LET words == LcgWords(s, n) IN [i \in 0..(n - 1) |-> HighBits(words[i + 1], BYTE)]

\* An integer rounded to MANTISSA significant bits, ties to even.
Round(x) ==
  LET m == IF x < 0 THEN -x ELSE x
      e == CHOOSE k \in 0..(2 * WORD) : m < 2^(MANTISSA + k) /\ (k > 0 => m >= 2^(MANTISSA + k - 1))
      q == m \div 2^e
      up == 2 * (m % 2^e) > 2^e \/ (2 * (m % 2^e) = 2^e /\ q % 2 = 1)
      r == 2^e * (q + IF up THEN 1 ELSE 0)
  IN IF x < 0 THEN -r ELSE r
=============================================================================
