----------------------------- MODULE CaseTable -----------------------------
(***************************************************************************)
(* What there is to run: the case table of cases.rs with its dispatch, and *)
(* the C functions of lib.rs that name a runtime and a workload each and   *)
(* do without the table. A row says which runner a call ends up in,        *)
(* whether its result is compared with the reference and whether it is     *)
(* reported as known to crash instead of being run.                        *)
(***************************************************************************)

RUNTIMES == {"pulley", "wamr", "wasm3", "wasmedge", "zwasm", "wasmz", "tinywasm"}

Counted == {"fib", "fib_tail", "factorial", "sieve"}
Kernels == {"crc32", "matmul_simd", "matmul_fma", "convolution", "audio_dsp", "bulk_memory",
            "call_indirect"}
Vtables == {"vtable_mono", "vtable_bi", "vtable_poly4", "vtable_poly6"}
Scalar == {"factorial.scalar", "sieve.scalar", "crc32.scalar", "convolution.scalar",
           "bulk_memory.scalar"}
Features == {"tailcall_fsm", "eh_parser_exnref", "eh_parser_legacy", "gc_trees",
             "callref_dispatch", "callref_dispatch.indirect", "relaxed_dot", "relaxed_madd",
             "mem64_chase", "mem64_chase.mem32", "multimem_transform",
             "multimem_transform.single"}
InstantiateEach == {"extconst_init", "extconst_init.mvp"}
PorfforMain == {"graphql_porf", "graphql_porf_trycatch"}

CASES == Counted \cup Kernels \cup Scalar \cup Vtables \cup Features \cup InstantiateEach
         \cup PorfforMain \cup {"xmrsplayer", "graphql_as", "sqlite3"}

\* Without an expected result: it depends on the iterations, or there is none.
Referenced == CASES \ (PorfforMain \cup {"xmrsplayer", "sqlite3"})

KNOWN_CRASHES == {<<"wasmz", "sieve">>, <<"wasmz", "crc32">>, <<"zwasm", "gc_trees">>}
known_crash(rt, c) == <<rt, c>> \in KNOWN_CRASHES

\* The runner run_case dispatches to; "none" where it answers without running.
CaseRunner(rt, c) ==
    CASE c \in InstantiateEach -> "run_instantiate_each"
      [] c \in PorfforMain /\ rt # "wasm3" -> "run_graphql_validation_porf"
      [] c = "sqlite3" -> IF rt = "pulley" THEN "run_sqlite3" ELSE "none"
      [] OTHER -> "run_workload"

Row(rt, c, runner, checked, notRun) ==
    [rt |-> rt, case |-> c, runner |-> runner, checked |-> checked, notRun |-> notRun]

run_case(rt, c) == Row(rt, c, CaseRunner(rt, c), c \in Referenced, known_crash(rt, c))

\* bench_run_case looks both up first.
bench_run_case(rt, c) ==
    IF rt \in RUNTIMES /\ c \in CASES THEN run_case(rt, c) ELSE Row(rt, c, "none", FALSE, FALSE)

-----------------------------------------------------------------------------
(* The C functions. Those with an argument compare only at the table's.    *)

Generic(rt, cases) ==
    {Row(rt, c, "run_workload", c # "xmrsplayer", FALSE) : c \in cases}
Porffor(rt) == Row(rt, "graphql_porf", "run_graphql_validation_porf", FALSE, FALSE)
Shared == Counted \cup Kernels \cup Vtables \cup {"xmrsplayer"}

PulleyFunctions ==
    Generic("pulley", Shared) \cup
        {Row("pulley", "graphql_as", "run_graphql_validation_as", TRUE, FALSE),
         Porffor("pulley"), Row("pulley", "sqlite3", "run_sqlite3", FALSE, FALSE)}
WamrFunctions == Generic("wamr", Shared \cup {"graphql_as"}) \cup {Porffor("wamr")}
\* wasm3 has no runner of its own for Porffor's main.
Wasm3Functions ==
    Generic("wasm3", Shared \cup {"graphql_as"})
        \cup {Row("wasm3", "graphql_porf", "run_workload", FALSE, FALSE)}
WasmEdgeFunctions == Generic("wasmedge", Shared \cup {"graphql_as"}) \cup {Porffor("wasmedge")}
ZwasmFunctions == Generic("zwasm", Shared \cup {"graphql_as"}) \cup {Porffor("zwasm")}

Crashing == {"sieve", "crc32"}
WasmzFunctions_Unguarded == Generic("wasmz", Shared \cup {"graphql_as"}) \cup {Porffor("wasmz")}
WasmzFunctions ==
    Generic("wasmz", (Shared \cup {"graphql_as"}) \ Crashing) \cup {Porffor("wasmz")}
        \cup {Row("wasmz", c, "run_workload", TRUE, known_crash("wasmz", c)) : c \in Crashing}

Functions == PulleyFunctions \cup WamrFunctions \cup Wasm3Functions \cup WasmEdgeFunctions
             \cup ZwasmFunctions \cup WasmzFunctions
=============================================================================
