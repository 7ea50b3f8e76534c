---------------------------- MODULE SimdKernels ----------------------------
(***************************************************************************)
(* The SIMD workloads: matrix products of floats with separate and with    *)
(* relaxed multiply-add, and the two kernels of relaxed_kernels. `impl` is *)
(* the way a runtime executes the relaxed instructions, which may differ   *)
(* between runtimes and builds:                                            *)
(*   fused      a multiply-add rounds once instead of twice                *)
(*   unsigned7  the dot product reads its second operand unsigned          *)
(*   saturate   its sums of two products saturate instead of wrapping      *)
(***************************************************************************)
EXTENDS Words
CONSTANTS
  MAT,                    \* matmul: N, a multiple of 4
  SCALE_A, SCALE_B, ONE,  \* 0.001, 0.002 and 1.0 in units of the last place kept
  DOT_M, DOT_K,           \* relaxed_dot: M and K, K a multiple of 16
  NPTS, DEG               \* relaxed_madd: points, a multiple of 4, and degree

ASSUME MatricesAssumption == MAT \in Nat \ {0}

\* A polynomial of degree DEG with coefficients up to 4 at points up to 3 fits a float.
ASSUME RelaxedAssumption ==
  DOT_M \in Nat /\ DOT_K \in Nat /\ NPTS \in Nat /\ DEG \in Nat /\ 2 * 3^(DEG + 1) <= 2^MANTISSA
ASSUME PowersOfThree == 3^0 = 1 /\ \A n \in 0..DEG : 3^(n + 1) = 3 * 3^n

Implementations == [fused: BOOLEAN, unsigned7: BOOLEAN, saturate: BOOLEAN]

(***************************************************************************)
(* matmul_simd and matmul_fma                                              *)
(***************************************************************************)
Cells(n) == 0..(n * n - 1)

FilledA(seed) ==
  [c \in Cells(MAT) |->
     LET i == c \div MAT  j == c % MAT
     IN Round(Round(Signed(Xor(Wrap(i + seed), Wrap(j * 7)))) * SCALE_A)]
FilledB(seed) ==
  [c \in Cells(MAT) |->
     LET i == c \div MAT  j == c % MAT IN Round(LowBits(Wrap(i * 13 + j + seed), BYTE) * SCALE_B)]

MulThenAdd(a, b, acc) == Round(acc + Round(a * b))
MulAdd(a, b, acc) == Round(acc + a * b)

\* Four columns at a time, one lane each.
Lanes == 0..3
Product(A, B, Madd(_, _, _)) ==
  LET Acc(i, j) == For(LAMBDA acc, k : [l \in Lanes |-> Madd(A[i * MAT + k], B[k * MAT + j + l], acc[l])],
                       [l \in Lanes |-> 0], 0, MAT - 1)
  IN [c \in Cells(MAT) |-> LET lane == (c % MAT) % 4 IN Acc(c \div MAT, (c % MAT) - lane)[lane]]

TruncatedTrace(C) ==
  ToWord(Quotient(For(LAMBDA sum, i : Round(sum + C[i * MAT + i]), 0, 0, MAT - 1), ONE))

matmul(seed) ==
  LET A == FilledA(seed)  B == FilledB(seed)  C == Product(A, B, MulThenAdd)
  IN [result |-> TruncatedTrace(C), A |-> A, B |-> B, C |-> C]

f32x4_relaxed_madd(impl, a, b, c) == IF impl.fused THEN MulAdd(a, b, c) ELSE MulThenAdd(a, b, c)

matmul_fma(impl, seed) ==
  LET A == FilledA(seed)  B == FilledB(seed)
      C == Product(A, B, LAMBDA a, b, acc : f32x4_relaxed_madd(impl, a, b, acc))
  IN [result |-> TruncatedTrace(C), A |-> A, B |-> B, C |-> C]

(***************************************************************************)
(* relaxed_dot. The operands stay in memory for the next call with the     *)
(* same seed; a fresh instance holds the seed i32::MIN.                    *)
(***************************************************************************)
MinWord == 2^(WORD - 1)
SignedByte(x) == IF x < 2^(BYTE - 1) THEN x ELSE x - 2^BYTE

DotBytes_Unmasked(words) ==
  [A |-> [i \in 0..(DOT_M * DOT_K - 1) |-> HighBits(words[2 * i + 1], BYTE)],
   BT |-> [i \in 0..(DOT_M * DOT_K - 1) |-> HighBits(words[2 * i + 2], BYTE)]]

\* The operands are drawn in turn; those of BT keep seven of the eight bits.
DotBytes(words) ==
  [A |-> [i \in 0..(DOT_M * DOT_K - 1) |-> HighBits(words[2 * i + 1], BYTE)],
   BT |-> [i \in 0..(DOT_M * DOT_K - 1) |-> LowBits(HighBits(words[2 * i + 2], BYTE), BYTE - 1)]]

fill_dot_Filled(A, BT, DOT_SEED, seed) ==
  IF DOT_SEED # MinWord THEN [A |-> A, BT |-> BT, DOT_SEED |-> DOT_SEED]
  ELSE LET drawn == DotBytes(LcgWords(Xor(seed, Wrap(\hF491)), 2 * DOT_M * DOT_K))
       IN [A |-> drawn.A, BT |-> drawn.BT, DOT_SEED |-> seed]

fill_dot(A, BT, DOT_SEED, seed) ==
  IF DOT_SEED = seed THEN [A |-> A, BT |-> BT, DOT_SEED |-> DOT_SEED]
  ELSE LET drawn == DotBytes(LcgWords(Xor(seed, Wrap(\hF491)), 2 * DOT_M * DOT_K))
       IN [A |-> drawn.A, BT |-> drawn.BT, DOT_SEED |-> seed]

\* A sum of two products in 2 * BYTE bits.
PairSum(impl, x) ==
  LET top == 2^(2 * BYTE - 1)
  IN IF impl.saturate
     THEN IF x >= top THEN top - 1 ELSE IF x < -top THEN -top ELSE x
     ELSE ((x + top) % (2 * top)) - top

\* i32x4.relaxed_dot_i8x16_i7x16_add_s, its four lanes added up as the kernel does in the end.
DotAdd(impl, A, BT, a, b) ==
  LET Second(y) == IF impl.unsigned7 THEN y ELSE SignedByte(y)
      Prod(k) == SignedByte(A[a + k]) * Second(BT[b + k])
      Lane(l) == PairSum(impl, Prod(4 * l) + Prod(4 * l + 1)) + PairSum(impl, Prod(4 * l + 2) + Prod(4 * l + 3))
  IN Lane(0) + Lane(1) + Lane(2) + Lane(3)

dot_kernel(impl, A, BT) ==
  LET Cell(i, j) == For(LAMBDA acc, k : acc + DotAdd(impl, A, BT, i * DOT_K + 16 * k, j * DOT_K + 16 * k),
                        0, 0, DOT_K \div 16 - 1)
      Step(sum, c) == Wrap(RotateLeft(sum, 3) + Cell(c \div DOT_M, c % DOT_M))
  IN For(Step, 0, 0, DOT_M * DOT_M - 1)

(***************************************************************************)
(* relaxed_madd: Horner's rule on small integers, which an f32 holds       *)
(* exactly; the sums of the lanes are words.                               *)
(***************************************************************************)
fill_madd(X, COEF, MADD_SEED, seed) ==
  IF MADD_SEED = seed THEN [X |-> X, COEF |-> COEF, MADD_SEED |-> MADD_SEED]
  ELSE LET words == LcgWords(Xor(seed, Wrap(\h79B9)), NPTS + DEG + 1)
       IN [X |-> [i \in 0..(NPTS - 1) |-> (HighBits(words[i + 1], BYTE) % 7) - 3],
           COEF |-> [c \in 0..DEG |-> (HighBits(words[NPTS + c + 1], BYTE) % 9) - 4],
           MADD_SEED |-> seed]

madd_kernel(impl, X, COEF) ==
  LET Horner(x) == For(LAMBDA p, d : f32x4_relaxed_madd(impl, p, x, COEF[DEG - d]), COEF[DEG], 1, DEG)
      Step(acc, i) == [l \in Lanes |-> Wrap(acc[l] * 31 + Horner(X[4 * i + l]))]
      acc == For(Step, [l \in Lanes |-> 0], 0, NPTS \div 4 - 1)
      Turned(l) == RotateLeft(acc[l], l * (WORD \div 4))
  IN Xor(Xor(Turned(0), Turned(1)), Xor(Turned(2), Turned(3)))

relaxed_dot(impl, A, BT, DOT_SEED, seed) ==
  LET m == fill_dot(A, BT, DOT_SEED, seed)
  IN [result |-> dot_kernel(impl, m.A, m.BT), A |-> m.A, BT |-> m.BT, DOT_SEED |-> m.DOT_SEED]

relaxed_madd(impl, X, COEF, MADD_SEED, seed) ==
  LET m == fill_madd(X, COEF, MADD_SEED, seed)
  IN [result |-> madd_kernel(impl, m.X, m.COEF), X |-> m.X, COEF |-> m.COEF, MADD_SEED |-> m.MADD_SEED]
=============================================================================
