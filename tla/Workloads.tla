------------------------------ MODULE Workloads ------------------------------
(***************************************************************************)
(* One instance of one workload module, called again and again as the      *)
(* measurement loops do: the statics live as long as the instance, and     *)
(* every result is compared with one expected value.                       *)
(***************************************************************************)
EXTENDS References, TLC

CONSTANTS
  Numbers,   \* arguments of fib, fib_tail, factorial and sieve
  Seeds      \* arguments of the other exports, as words

ASSUME ArgumentsAssumption == Numbers \subseteq Nat /\ Seeds \subseteq 0..(2^WORD - 1)

VARIABLES
  module,    \* the module of this instance
  impl,      \* how its runtime executes the relaxed instructions
  statics,   \* the instance's static memory
  last       \* the last call: export, argument and result
instance_vars == << module, impl, statics, last >>

Exports ==
  [fib |-> {"fib"}, fib_tail |-> {"fib_tail"}, factorial |-> {"factorial"}, sieve |-> {"sieve"},
   crc32 |-> {"crc32"}, convolution |-> {"convolve"}, bulk_memory |-> {"bulk_memory"},
   call_indirect |-> {"call_indirect"}, audio_dsp |-> {"audio_dsp"}, matmul_simd |-> {"matmul"},
   matmul_fma |-> {"matmul_fma"}, relaxed_kernels |-> {"relaxed_dot", "relaxed_madd"},
   vtable_dispatch |-> {"vtable_mono", "vtable_bi", "vtable_poly4", "vtable_poly6"}]

FreshStatics(m) ==
  CASE m = "sieve" -> [SIEVE |-> Zeroes(SIEVE_MAX + 1)]
    [] m = "crc32" -> [INPUT |-> Zeroes(CRC_N)]
    [] m = "convolution" -> [IN_BUF |-> Zeroes(IMAGE * IMAGE), OUT_BUF |-> Zeroes(IMAGE * IMAGE)]
    [] m = "bulk_memory" -> [SRC |-> Zeroes(BULK_N), DST |-> Zeroes(BULK_N)]
    [] m = "audio_dsp" ->
         [SAMPLE |-> Zeroes(SAMPLE_MEM), LPF_STATE |-> 0,
          VOICES_STATE |-> [v \in 0..(VOICES - 1) |-> [pos |-> 0, inc |-> 0, env |-> 0, phase |-> 0, off |-> 0]]]
    [] m \in {"matmul_simd", "matmul_fma"} ->
         [A |-> Zeroes(MAT * MAT), B |-> Zeroes(MAT * MAT), C |-> Zeroes(MAT * MAT)]
    [] m = "relaxed_kernels" ->
         [A |-> Zeroes(DOT_M * DOT_K), BT |-> Zeroes(DOT_M * DOT_K), DOT_SEED |-> MinWord,
          X |-> Zeroes(NPTS), COEF |-> Zeroes(DEG + 1), MADD_SEED |-> MinWord]
    [] OTHER -> << >>

\* The result of an export, with the statics it leaves where it has any.
Run(export, m, i, x) ==
  CASE export = "fib" -> [result |-> fib(x)]
    [] export = "fib_tail" -> [result |-> fib_tail(x)]
    [] export = "factorial" -> [result |-> factorial(x)]
    [] export = "sieve" -> sieve(m.SIEVE, x)
    [] export = "crc32" -> crc32(m.INPUT, x)
    [] export = "convolve" -> convolve(m.IN_BUF, m.OUT_BUF, x)
    [] export = "bulk_memory" -> bulk_memory(m.SRC, m.DST, x)
    [] export = "call_indirect" -> [result |-> call_indirect(x)]
    [] export = "audio_dsp" -> audio_dsp(m.SAMPLE, m.VOICES_STATE, m.LPF_STATE, x)
    [] export = "matmul" -> matmul(x)
    [] export = "matmul_fma" -> matmul_fma(i, x)
    [] export = "relaxed_dot" -> relaxed_dot(i, m.A, m.BT, m.DOT_SEED, x)
    [] export = "relaxed_madd" -> relaxed_madd(i, m.X, m.COEF, m.MADD_SEED, x)
    [] export = "vtable_mono" -> [result |-> vtable_mono(x)]
    [] export = "vtable_bi" -> [result |-> vtable_bi(x)]
    [] export = "vtable_poly4" -> [result |-> vtable_poly4(x)]
    [] export = "vtable_poly6" -> [result |-> vtable_poly6(x)]

Counting == {"fib", "fib_tail", "factorial", "sieve"}
ArgumentsOf(export) == IF export \in Counting THEN Numbers ELSE Seeds
Relaxed == {"matmul_fma", "relaxed_kernels"}
Plain == [fused |-> TRUE, unsigned7 |-> FALSE, saturate |-> FALSE]
NoCall == [export |-> "none", arg |-> 0, result |-> 0]

InstanceInit ==
  /\ module \in DOMAIN Exports
  /\ impl \in (IF module \in Relaxed THEN Implementations ELSE {Plain})
  /\ statics = FreshStatics(module)
  /\ last = NoCall

Call(export, x) ==
  LET ran == Run(export, statics, impl, x)
  IN /\ last' = [export |-> export, arg |-> x, result |-> ran.result]
     /\ statics' = [s \in DOMAIN statics |-> IF s \in DOMAIN ran THEN ran[s] ELSE statics[s]]
     /\ UNCHANGED << module, impl >>

InstanceNext == \E export \in Exports[module] : \E x \in ArgumentsOf(export) : Call(export, x)

InstanceSpec == InstanceInit /\ [][InstanceNext]_instance_vars

-----------------------------------------------------------------------------
\* What a result should be. runwasm and runwasm-compare compare with the host's own
\* computation of the workload; an export they do not run has no expected value but that of
\* a first call. (The app and run_matrix compare with constants recorded once at the one
\* argument of each case, EXPECTED_* in lib.rs.)
Expected(export, x) ==
  CASE export \in {"fib", "fib_tail"} -> fib_reference(x)
    [] export = "factorial" -> factorial_reference(x)
    [] export = "sieve" -> sieve_reference(x)
    [] export = "crc32" -> crc32_reference(x)
    [] export = "convolve" -> convolution_reference(x)
    [] export = "bulk_memory" -> bulk_memory_reference(x)
    [] export = "call_indirect" -> call_indirect_reference(x)
    [] export = "audio_dsp" -> audio_dsp_reference(x)
    [] export = "matmul" -> matmul_simd_reference(x)
    [] export = "matmul_fma" -> matmul_fma_reference(x)
    [] OTHER -> Run(export, FreshStatics(module), impl, x).result

\* Where the two are meant to agree: within the static buffer, with the reference's single
\* rounding, and not for the seed that marks a fresh instance's operands as filled.
Comparable(export, x) ==
  /\ export = "sieve" => x <= SIEVE_MAX
  /\ export = "matmul_fma" => impl.fused
  /\ export \in {"relaxed_dot", "relaxed_madd"} => x # MinWord

\* Statics carry nothing from one call into the result of the next: a call on a used
\* instance, whatever it was called with before, gives the expected result.
UsedInstanceAgrees ==
  last # NoCall /\ Comparable(last.export, last.arg) => last.result = Expected(last.export, last.arg)

\* The host's references, by which runwasm and runwasm-compare call a result right or
\* wrong, compute what they are named for: Fibonacci numbers, primes, the CRC, what the
\* last writes leave.
ReferencesAreRight ==
  LET x == last.arg
  IN CASE last.export \in {"fib", "fib_tail"} -> fib_reference(x) = Fibonacci(x)
       [] last.export = "sieve" -> sieve_reference(x) = Cardinality(PrimesUpTo(x))
       [] last.export = "crc32" -> crc32_reference(x) = Remainder(LcgBytes(x, CRC_N))
       [] last.export = "bulk_memory" ->
            bulk_memory_reference(x) = BulkSum(LastWrites(LcgBytes(x, BULK_N)))
       [] OTHER -> TRUE

\* relaxed_kernels.rs: whatever a runtime chooses for the relaxed instructions, the two
\* kernels give one result: the operands stay where the choices coincide.
RelaxedChoicesAgree ==
  last.export \in {"relaxed_dot", "relaxed_madd"} /\ last.arg # MinWord =>
    \A i \in Implementations : Run(last.export, FreshStatics(module), i, last.arg).result = last.result
=============================================================================
