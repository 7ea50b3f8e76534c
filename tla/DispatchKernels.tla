-------------------------- MODULE DispatchKernels --------------------------
(***************************************************************************)
(* The workloads that call through function tables: call_indirect picks    *)
(* one of sixteen leaf operations per iteration, vtable_dispatch one of    *)
(* six algorithms. Neither keeps anything between calls.                   *)
(***************************************************************************)
EXTENDS Words
CONSTANT ITERS  \* iterations per call

(***************************************************************************)
(* call_indirect. A shift or rotation count is masked to the word's width, *)
(* min and max compare signed words.                                       *)
(***************************************************************************)
OpName == << "add", "sub", "mul", "xor", "and", "or", "shl", "shr",
             "rotl", "rotr", "min", "max", "clz", "ctz", "popcount", "negxor" >>

LeafOp(name, a, b) ==
  CASE name = "add"  -> Wrap(a + b)
    [] name = "sub"  -> Wrap(a - b)
    [] name = "mul"  -> Wrap(a * b)
    [] name = "xor"  -> Xor(a, b)
    [] name = "and"  -> And(a, b)
    [] name = "or"   -> Or(a, b)
    [] name = "shl"  -> ShiftLeft(a, b % WORD)
    [] name = "shr"  -> ShiftRight(a, b % WORD)
    [] name = "rotl" -> RotateLeft(a, b)
    [] name = "rotr" -> RotateRight(a, b)
    [] name = "min"  -> IF Signed(a) < Signed(b) THEN a ELSE b
    [] name = "max"  -> IF Signed(a) > Signed(b) THEN a ELSE b
    [] name = "clz"  -> LeadingZeros(a)
    [] name = "ctz"  -> TrailingZeros(a)
    [] name = "popcount" -> CountOnes(a)
    [] name = "negxor"   -> Xor(Complement(a), b)

call_indirect(seed) ==
  LET words == LcgWords(seed, ITERS)
      Step(acc, i) == LeafOp(OpName[HighBits(words[i], 4) + 1], acc, words[i])
  IN For(Step, seed, 1, ITERS)

(***************************************************************************)
(* vtable_dispatch. Multipliers and masks by their low 16 bits.            *)
(***************************************************************************)
Algorithms == << "AES_GCM", "SHA256", "HMAC", "ECDSA", "ED25519", "RSA_PSS" >>

digest_step(alg, state, input) ==
  CASE alg = "AES_GCM" -> Wrap(state + input * Wrap(\h79b1))
    [] alg = "SHA256"  -> LET e == Wrap(state + input) IN Wrap(RotateRight(e, 17) + e)
    [] alg = "HMAC"    -> Wrap(Wrap(state * Wrap(input + 1)) + \hbeef)
    [] alg = "ECDSA"   -> Xor(state, RotateLeft(input, 13))
    [] alg = "ED25519" -> Wrap(RotateRight(state, 7) + Xor(input, Wrap(\ha5a5)))
    [] alg = "RSA_PSS" -> Wrap(RotateLeft(Wrap(state + input), 3) * Wrap(\h3593))

mix(alg, a, b) ==
  CASE alg = "AES_GCM" -> Xor(RotateLeft(a, 5), b)
    [] alg = "SHA256"  -> Wrap(a + b * Wrap(\h79b9))
    [] alg = "HMAC"    -> Wrap(Xor(a, b) + Xor(RotateLeft(a, 7), RotateRight(b, 25)))
    [] alg = "ECDSA"   -> Wrap(Wrap(a + b) * Wrap(\hae35))
    [] alg = "ED25519" -> Wrap(a * b + RotateLeft(b, 11))
    [] alg = "RSA_PSS" -> Xor(Wrap(a + b), Wrap(RotateRight(a, 13) * Or(b, 1)))

finalize(alg, s) ==
  CASE alg = "AES_GCM" -> Xor(s, ShiftRight(s, WORD \div 2))
    [] alg = "SHA256"  -> Wrap(RotateLeft(s, 13) * Wrap(\hca6b))
    [] alg = "HMAC"    -> Xor(RotateLeft(s, 11), RotateRight(s, 19))
    [] alg = "ECDSA"   -> Wrap(s * Wrap(\h2d51))
    [] alg = "ED25519" -> Xor(s, RotateRight(Wrap(s * Wrap(\h79b9)), 15))
    [] alg = "RSA_PSS" -> Wrap(RotateLeft(s, 5) - RotateRight(s, 11))

\* The remainder is taken of the unsigned word, so the seeds around -1 do not
\* continue the rotation of six.
pick_alg(idx) == Algorithms[(idx % 6) + 1]

\* One iteration of every entry point: digest, then mix with 31 * i.
Dispatch(alg, state, i) == mix(alg, digest_step(alg, state, i), Wrap(i * 31))

\* The algorithm of iteration i of an entry point that rotates over `ways`.
AlgOf(seed, ways, i) == pick_alg(Wrap(seed + (i % ways)))

vtable_mono(seed) ==
  LET alg == pick_alg(seed)
  IN finalize(alg, For(LAMBDA state, i : Dispatch(alg, state, i), seed, 0, ITERS - 1))

Rotating(seed, ways) ==
  For(LAMBDA state, i : Dispatch(AlgOf(seed, ways, i), state, i), seed, 0, ITERS - 1)

vtable_bi(seed) == Rotating(seed, 2)
vtable_poly4(seed) == Rotating(seed, 4)
vtable_poly6(seed) == Rotating(seed, 6)
=============================================================================
