------------------------------ MODULE MCMatrix ------------------------------
(***************************************************************************)
(* Two runtimes, four cases, two reps and two modes. The id of the second  *)
(* case contains the first's. Wasmz crashes on a case that is listed and   *)
(* may crash on one that is not; Pulley may fail on the main thread.       *)
(***************************************************************************)
EXTENDS Matrix, MatrixPlans

MCRuntimes == <<"pulley", "wasmz">>
MCCases == <<"fib", "fib_tail", "audio_dsp", "sqlite3">>
MCContains == {<<c, c>> : c \in Range(MCCases)} \cup {<<"fib", "fib_tail">>}
MCReferenced == {"fib", "fib_tail", "audio_dsp"}
MCKnownCrashes == {<<"wasmz", "fib_tail">>}

MCOutcomes(rt, c) ==
    CASE <<rt, c>> = <<"pulley", "fib_tail">> -> {"right", "wrong"}
      [] <<rt, c>> = <<"pulley", "sqlite3">> -> {"wrong", "panic"}
      [] <<rt, c>> = <<"wasmz", "fib">> -> {"right", "panic"}
      [] <<rt, c>> = <<"wasmz", "fib_tail">> -> {"crash"}
      [] <<rt, c>> = <<"wasmz", "audio_dsp">> -> {"right", "crash"}
      [] <<rt, c>> = <<"wasmz", "sqlite3">> -> {"error"}
      [] OTHER -> {"right"}

AllPlans == {TimingPlan, MemoryPlan, PmuPlan}
=============================================================================
