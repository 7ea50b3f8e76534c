------------------------------ MODULE Kernels ------------------------------
(***************************************************************************)
(* The integer workloads of src/workloads-rs as functions of an argument   *)
(* and of the static memory of the instance the export is called on. A     *)
(* kernel that keeps nothing returns its result; one that has statics      *)
(* returns them with the result. Buffers are shorter than the source's, by *)
(* the constants below, and words narrower (Words).                        *)
(***************************************************************************)
EXTENDS Words, FiniteSets

CONSTANTS
  SIEVE_MAX,            \* sieve: N_MAX
  POLY, CRC_N,          \* crc32: the reflected polynomial and the input's length
  IMAGE,                \* convolution: W and H
  BULK_N, BULK_ROUNDS,  \* bulk_memory: N and ROUNDS
  SIZES,                \* bulk_memory: the chunk sizes, powers of two that divide BULK_N
  SKEW, STRIDE          \* bulk_memory: 17 and 1024

ASSUME KernelsAssumption == SIEVE_MAX \in Nat /\ BULK_ROUNDS \in Nat

Zeroes(n) == [i \in 0..(n - 1) |-> 0]

(***************************************************************************)
(* fib, fib_tail, factorial                                                *)
(***************************************************************************)
fib(n) == LET f[k \in Nat] == IF k < 2 THEN k ELSE Wrap(f[k - 1] + f[k - 2]) IN f[n]

fib_tail(n) ==
  LET fib_acc[nab \in Nat \X Nat \X Nat] ==
        LET k == nab[1]  a == nab[2]  b == nab[3]
        IN IF k = 0 THEN a ELSE fib_acc[<< k - 1, b, Wrap(a + b) >>]
  IN fib_acc[<< n, 0, 1 >>]

factorial(n) == For(LAMBDA acc, i : Wrap(acc * i), 1, 2, n)

(***************************************************************************)
(* sieve: the flags 0..n are reset, the others keep what an earlier call   *)
(* left.                                                                   *)
(***************************************************************************)
CrossOut_Strict(flags, p, n) ==
  IF p * p < n /\ flags[p] = 0
  THEN [m \in DOMAIN flags |-> IF m >= p * p /\ m <= n /\ m % p = 0 THEN 1 ELSE flags[m]]
  ELSE flags

CrossOut(flags, p, n) ==
  IF p * p <= n /\ flags[p] = 0
  THEN [m \in DOMAIN flags |-> IF m >= p * p /\ m <= n /\ m % p = 0 THEN 1 ELSE flags[m]]
  ELSE flags

sieve(SIEVE, n) ==
  IF n > SIEVE_MAX THEN [result |-> Wrap(-1), SIEVE |-> SIEVE]
  ELSE LET reset == [m \in DOMAIN SIEVE |-> IF m <= n THEN 0 ELSE SIEVE[m]]
           flags == For(LAMBDA f, p : CrossOut(f, p, n), reset, 2, n)
       IN [result |-> Cardinality({m \in 2..n : flags[m] = 0}), SIEVE |-> flags]

(***************************************************************************)
(* crc32: one table lookup per input byte.                                 *)
(***************************************************************************)
CrcEntry(i) ==
  For(LAMBDA c, j : IF c % 2 = 1 THEN Xor(POLY, c \div 2) ELSE c \div 2, i, 1, BYTE)

CrcOf(input, n) ==
  LET table == [i \in 0..(2^BYTE - 1) |-> CrcEntry(i)]
      Step(crc, i) == Xor(ShiftRight(crc, BYTE), table[LowBits(Xor(crc, input[i]), BYTE)])
  IN Complement(For(Step, 2^WORD - 1, 0, n - 1))

crc32(INPUT, seed) ==
  LET filled == LcgBytes(seed, CRC_N) IN [result |-> CrcOf(filled, CRC_N), INPUT |-> filled]

(***************************************************************************)
(* convolution: the border of OUT_BUF is never written.                    *)
(***************************************************************************)
BoxMean(image, x, y) ==
  LET Row(dy) == For(LAMBDA acc, dx : acc + image[(y + dy) * IMAGE + x + dx], 0, -1, 1)
  IN (Row(-1) + Row(0) + Row(1)) \div 9

Blurred(input, output) ==
  [i \in DOMAIN output |->
     LET x == i % IMAGE  y == i \div IMAGE
     IN IF x \in 1..(IMAGE - 2) /\ y \in 1..(IMAGE - 2) THEN BoxMean(input, x, y) ELSE output[i]]

ImageSum(image) == LowBits(Wrap(Total(image, 0, IMAGE * IMAGE - 1)), WORD - 2)

convolve(IN_BUF, OUT_BUF, seed) ==
  LET in == LcgBytes(seed, IMAGE * IMAGE)
      out == Blurred(in, OUT_BUF)
  IN [result |-> ImageSum(out), IN_BUF |-> in, OUT_BUF |-> out]

(***************************************************************************)
(* bulk_memory: chunks of DST copied from SRC, a stripe filled, per round. *)
(* The bytes between the chunks keep what they had, in the first round     *)
(* what the call before left. Chunks of one round do not overlap.          *)
(***************************************************************************)
SizeOf(round) == SIZES[(round % Len(SIZES)) + 1]

CopiedChunks(src, dst, round) ==
  LET size == SizeOf(round)
  IN [b \in DOMAIN dst |->
        LET in == b % (2 * size)  off == b - in
            src_off == And(off + round * SKEW, BULK_N - size)
        IN IF in < size /\ off + size <= BULK_N THEN src[src_off + in] ELSE dst[b]]

FilledStripe(dst, round) ==
  LET size == SizeOf(round)  fill_off == And(round * STRIDE, BULK_N - size)
  IN [b \in DOMAIN dst |->
        IF b >= fill_off /\ b < fill_off + size THEN LowBits(round, BYTE) ELSE dst[b]]

BulkRounds(src, dst) ==
  For(LAMBDA d, round : FilledStripe(CopiedChunks(src, d, round), round), dst, 0, BULK_ROUNDS - 1)

BulkSum(dst) == LowBits(Wrap(Total(dst, 0, BULK_N - 1)), WORD - 1)

bulk_memory(SRC, DST, seed) ==
  LET src == LcgBytes(seed, BULK_N)
      dst == BulkRounds(src, DST)
  IN [result |-> BulkSum(dst), SRC |-> src, DST |-> dst]
=============================================================================
