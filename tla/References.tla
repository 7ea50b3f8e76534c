----------------------------- MODULE References -----------------------------
(***************************************************************************)
(* The host's own computation of the workloads' results (the *_reference   *)
(* functions of benchmark-core), on buffers of their own, and what the     *)
(* computations stand for in mathematics.                                  *)
(***************************************************************************)
EXTENDS Kernels, DispatchKernels, SimdKernels, AudioKernel
LOCAL Math == INSTANCE Combinatorics

fib_reference(n) == For(LAMBDA p, i : << p[2], Wrap(p[1] + p[2]) >>, << 0, 1 >>, 1, n)[1]

factorial_reference(n) == factorial(n)

sieve_reference(n) ==
  IF n < 2 THEN 0
  ELSE LET flags == For(LAMBDA f, p : CrossOut(f, p, n), Zeroes(n + 1), 2, n)
       IN Cardinality({i \in 2..n : flags[i] = 0})

crc32_reference(seed) == CrcOf(LcgBytes(seed, CRC_N), CRC_N)

ProductByRows(a, b, Madd(_, _, _)) ==
  [c \in Cells(MAT) |->
     For(LAMBDA acc, k : Madd(a[(c \div MAT) * MAT + k], b[k * MAT + (c % MAT)], acc), 0, 0, MAT - 1)]

matmul_simd_reference(seed) ==
  TruncatedTrace(ProductByRows(FilledA(seed), FilledB(seed), MulThenAdd))

matmul_fma_reference(seed) == TruncatedTrace(ProductByRows(FilledA(seed), FilledB(seed), MulAdd))

convolution_reference(seed) ==
  ImageSum(Blurred(LcgBytes(seed, IMAGE * IMAGE), Zeroes(IMAGE * IMAGE)))

bulk_memory_reference(seed) == BulkSum(BulkRounds(LcgBytes(seed, BULK_N), Zeroes(BULK_N)))

call_indirect_reference(seed) == call_indirect(seed)

audio_dsp_reference(seed) ==
  LET start == init(seed)
  IN LowBits(RenderAll(start.SAMPLE, start.VOICES_STATE, start.LPF_STATE).sum, WORD - 1)

-----------------------------------------------------------------------------
(* The same results from their mathematical definitions.                   *)

\* Diagonal sums of Pascal's triangle.
Fibonacci(n) ==
  IF n = 0 THEN 0
  ELSE Wrap(Total([k \in 0..(n - 1) |-> IF 2 * k <= n - 1 THEN Math!choose(n - 1 - k, k) ELSE 0], 0, n - 1))

PrimesUpTo(n) == {p \in 2..n : \A d \in 2..(p - 1) : p % d # 0}

\* Polynomial division of the message, one bit at a time, low bit first.
Remainder(message) ==
  LET BitAt(k) == BitOf(message[k \div BYTE], k % BYTE)
      Divide(r, k) == Xor(r \div 2, IF r % 2 = BitAt(k) THEN 0 ELSE POLY)
  IN Complement(For(Divide, 2^WORD - 1, 0, Cardinality(DOMAIN message) * BYTE - 1))

\* A byte of the destination is what the last write to it left there, 0 if there is none.
LastWrites(src) ==
  LET InStripe(b, r) == LET at == And(r * STRIDE, BULK_N - SizeOf(r)) IN b \in at..(at + SizeOf(r) - 1)
      InChunk(b, r) == (b % (2 * SizeOf(r))) < SizeOf(r)
      Source(b, r) == LET in == b % (2 * SizeOf(r))
                          from == ((b - in) + r * SKEW) % BULK_N
                      IN in + (from - (from % SizeOf(r)))
      Writers(b) == {r \in 0..(BULK_ROUNDS - 1) : InStripe(b, r) \/ InChunk(b, r)}
      LastWriter(b) == CHOOSE r \in Writers(b) : \A q \in Writers(b) : q <= r
  IN [b \in 0..(BULK_N - 1) |->
        IF Writers(b) = {} THEN 0
        ELSE IF InStripe(b, LastWriter(b)) THEN LowBits(LastWriter(b), BYTE)
        ELSE src[Source(b, LastWriter(b))]]
=============================================================================
