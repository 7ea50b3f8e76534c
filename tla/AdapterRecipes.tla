--------------------------- MODULE AdapterRecipes ---------------------------
(***************************************************************************)
(* The runners of the adapters to runtimes behind a C API (wamr.rs,        *)
(* wasm3.rs, wasmz.rs, zwasm.rs, wasmedge.rs), each as the sequence of its *)
(* steps that create, hand over, use or free a native object.              *)
(*                                                                         *)
(* An object is named by its handle. A fallible step lists the objects the *)
(* code frees by hand before it returns the error; objects in a guard (a   *)
(* local with a Drop) are freed after those, last guard first.             *)
(*                                                                         *)
(* A definition Name_Fault is Name with one plausible mistake in it; no    *)
(* behaviour uses it.                                                      *)
(***************************************************************************)
EXTENDS Integers, Sequences, SequencesExt

CONSTANTS
    Runners,      \* the runners looked at
    Careful       \* those that clean up after every failure and measure nothing else

Handles ==
    {"bytes", "module", "inst", "exec_env", "env", "runtime", "engine", "store",
     "linker", "exports", "bin", "ty", "etypes", "MEMORY", "conf", "vm", "func",
     "porf_mod", "name", "loader", "validator", "executor", "ast"}

-----------------------------------------------------------------------------
(* The steps.                                                              *)

Step(op) == [op |-> op, h |-> "none", guard |-> <<>>, uses |-> {}, undo |-> <<>>, back |-> 0]

\* Create h; the call may fail. Own puts it into a guard at once. May leaves
\* a NULL in the guard, to be noticed by a later Check.
Take(h, undo) == [Step("take") EXCEPT !.h = h, !.undo = undo]
Own(h) == [Step("take") EXCEPT !.h = h, !.guard = <<h>>]
May(h) == [Step("may") EXCEPT !.h = h, !.guard = <<h>>]
Check(hs) == [Step("check") EXCEPT !.uses = hs]
\* Create h; the call is not checked, or cannot fail.
Create(h) == [Step("create") EXCEPT !.h = h]
Local(h) == [Step("create") EXCEPT !.h = h, !.guard = <<h>>]
\* A value with a Drop that frees these, in this order, skipping NULLs.
Guard(hs) == [Step("guard") EXCEPT !.guard = hs]
\* A fallible library call, and the calls that run the guest.
Use(hs, undo) == [Step("use") EXCEPT !.uses = hs, !.undo = undo]
Call(hs, undo) == [Step("call") EXCEPT !.uses = hs, !.undo = undo]
\* Hand h over to owner, which frees it from then on. Hand cannot fail.
Give(h, owner, undo) == [Step("give") EXCEPT !.h = h, !.uses = {owner}, !.undo = undo]
Hand(h, owner) == [Step("hand") EXCEPT !.h = h, !.uses = {owner}]
Free(h) == [Step("free") EXCEPT !.h = h]
Drop == Step("drop")                            \* drop(the last guard)
Forget(h) == [Step("forget") EXCEPT !.h = h]    \* free h if set, and set it to NULL
Meter(m) == [Step("meter") EXCEPT !.h = m]      \* "clock", "window" or "off"
Repeat(back) == [Step("repeat") EXCEPT !.back = back]

\* Two warm-up calls, then the timed calls inside a Window.
Measured(hs) ==
    <<Call(hs, <<>>), Call(hs, <<>>), Meter("window"), Call(hs, <<>>), Repeat(1)>>
MeasureCalls(hs) == Measured(hs) \o <<Meter("off")>>
\* measure_samples: the sample does its own timing.
MeasureSamples(sample) == sample \o <<Repeat(Len(sample))>>
\* A guest of the femtovg run: called any number of times, then dropped.
Serve(hs) == <<Call(hs, <<>>), Repeat(1)>>

-----------------------------------------------------------------------------
(* WAMR                                                                    *)

WamrGeneric ==
    <<Local("bytes"),
      Take("module", <<>>),
      Take("inst", <<"module">>),
      Use({"inst"}, <<"inst", "module">>),
      Take("exec_env", <<"inst", "module">>)>>
    \o Measured({"exec_env"})
    \o <<Free("exec_env"), Free("inst"), Free("module"), Meter("off")>>

\* instantiate_sample
WamrSample_InstanceFirst ==
    <<Meter("clock"),
      Take("inst", <<>>),
      Use({"inst"}, <<"inst">>),
      Take("exec_env", <<"inst">>),
      Call({"exec_env", "inst"}, <<"inst", "exec_env">>),
      Meter("off"),
      Free("inst"), Free("exec_env")>>
WamrSample_TimesTeardown ==
    <<Meter("clock"),
      Take("inst", <<>>),
      Use({"inst"}, <<"inst">>),
      Take("exec_env", <<"inst">>),
      Call({"exec_env", "inst"}, <<"exec_env", "inst">>),
      Free("exec_env"), Free("inst"),
      Meter("off")>>
WamrSample ==
    <<Meter("clock"),
      Take("inst", <<>>),
      Use({"inst"}, <<"inst">>),
      Take("exec_env", <<"inst">>),
      Call({"exec_env", "inst"}, <<"exec_env", "inst">>),
      Meter("off"),
      Free("exec_env"), Free("inst")>>

WamrEach == <<Local("bytes"), Own("module")>> \o MeasureSamples(WamrSample)
WamrPorf == <<Local("bytes"), Own("module")>> \o MeasureSamples(WamrSample)

WamrGuest ==
    <<Local("bytes"),
      Take("module", <<>>),
      Take("inst", <<"module">>),
      Use({"inst"}, <<"inst", "module">>),
      Take("exec_env", <<"inst", "module">>),
      Guard(<<"exec_env", "inst", "module">>)>>
    \o Serve({"exec_env"})

-----------------------------------------------------------------------------
(* wasm3: m3_ParseModule creates a module, m3_LoadModule hands it over.    *)

Wasm3Generic ==
    <<Own("env"), Own("runtime"), Local("bytes"),
      Take("module", <<>>),
      Give("module", "runtime", <<"module">>),
      Use({"runtime", "module"}, <<>>)>>
    \o MeasureCalls({"runtime", "module"})

Wasm3Each ==
    <<Own("env"), Local("bytes")>>
    \o MeasureSamples(
        <<Meter("clock"),
          Own("runtime"),
          Take("module", <<>>),
          Give("module", "runtime", <<"module">>),
          Use({"runtime", "module"}, <<>>),
          Call({"runtime", "module"}, <<>>),
          Use({"runtime", "module"}, <<>>),
          Meter("off"),
          Drop>>)

Wasm3Guest ==
    <<Local("bytes"),
      Take("env", <<>>),
      Take("runtime", <<"env">>),
      Take("module", <<"runtime", "env">>),
      Give("module", "runtime", <<"module", "runtime", "env">>),
      Use({"module"}, <<"runtime", "env">>),    \* m3_LinkRawFunction
      Use({"runtime"}, <<"runtime", "env">>),   \* m3_FindFunction
      Guard(<<"runtime", "env">>)>>
    \o Serve({"runtime", "module"})

-----------------------------------------------------------------------------
(* wasmz: the caller's bytes stay with the thread's closure.               *)

WasmzGeneric ==
    <<Local("bytes"), Own("engine"), Own("store"), Own("module"), Own("inst")>>
    \o MeasureCalls({"inst"})

WasmzSample ==
    <<Meter("clock"), Own("inst"), Call({"inst"}, <<>>), Meter("off"), Drop>>

WasmzEach ==
    <<Local("bytes"), Own("engine"), Own("store"), Own("module")>>
    \o MeasureSamples(WasmzSample)

WasmzPorf ==
    <<Local("bytes"), Own("engine"), Own("store"), Own("linker"),
      Use({"linker"}, <<>>),
      Own("module")>>
    \o MeasureSamples(WasmzSample)

\* wasmz_linker_new and wasmz_store_new are not checked.
WasmzGuest ==
    <<Take("engine", <<>>),
      Create("linker"), Create("store"),
      Guard(<<"inst", "module", "linker", "store", "engine">>),
      Use({"linker"}, <<>>),
      Take("module", <<>>),
      Take("inst", <<>>)>>
    \o Serve({"inst"})

-----------------------------------------------------------------------------
(* zwasm: a Loaded holds everything; its Drop skips what is NULL.          *)

\* release
ZwasmRelease_KeepsPointer == <<Forget("exports"), Free("inst")>>
ZwasmRelease == <<Forget("exports"), Forget("inst")>>

ZwasmInstantiate ==
    ZwasmRelease
    \o <<Take("inst", <<>>),
         Use({"inst"}, <<>>),        \* is it interpreter-backed?
         Create("exports"),
         Use({"exports"}, <<>>)>>    \* as many exports as export types?

\* Loaded::new; the host functions belong to the store.
ZwasmNew(imports) ==
    <<Guard(<<"exports", "inst", "module", "store", "engine">>),
      Take("engine", <<>>), Take("store", <<>>),
      Create("bin"), Take("module", <<"bin">>), Free("bin")>>
    \o (IF imports THEN <<Create("ty"), Use({"store", "ty"}, <<"ty">>), Free("ty")>> ELSE <<>>)
    \o <<Create("etypes"), Free("etypes")>>
    \o ZwasmInstantiate

ZwasmSample ==
    ZwasmRelease
    \o <<Meter("clock")>>
    \o ZwasmInstantiate
    \o <<Use({"exports"}, <<>>), Call({"inst"}, <<>>), Meter("off")>>

ZwasmGeneric == ZwasmNew(FALSE) \o <<Use({"exports"}, <<>>)>> \o MeasureCalls({"inst"})
ZwasmEach == ZwasmNew(FALSE) \o MeasureSamples(ZwasmSample)
ZwasmPorf == ZwasmNew(TRUE) \o MeasureSamples(ZwasmSample)

\* MEMORY is a thread-local pointer into the exports, reset by the guest's Drop.
ZwasmGuest ==
    ZwasmNew(TRUE)
    \o <<Create("MEMORY"), Use({"exports"}, <<>>), Guard(<<"MEMORY">>)>>
    \o Serve({"inst", "MEMORY"})

-----------------------------------------------------------------------------
(* WasmEdge                                                                *)

WasmEdgeGeneric ==
    <<Own("conf"), Own("vm"), Create("bytes"),
      Take("porf_mod", <<>>), Take("ty", <<>>), Take("func", <<"ty">>), Free("ty"),
      Hand("func", "porf_mod"), Give("porf_mod", "vm", <<>>),
      Use({"vm", "bytes"}, <<"bytes">>), Free("bytes"),
      Use({"vm"}, <<>>), Use({"vm"}, <<>>),      \* validate, instantiate
      Local("name")>>
    \o MeasureCalls({"vm", "name"})

WasmEdgeParse_ChecksFirst ==
    <<Create("bytes"), Take("ast", <<>>), Free("bytes"), Guard(<<"ast">>),
      Use({"validator", "ast"}, <<>>)>>
\* LoaderParseFromBytes, then BytesDelete, then the check.
WasmEdgeParse ==
    <<Create("bytes"), Take("ast", <<"bytes">>), Free("bytes"), Guard(<<"ast">>),
      Use({"validator", "ast"}, <<>>)>>

\* executor_samples
WasmEdgeExecutor(porf) ==
    <<Own("conf"), May("loader"), May("validator"), May("executor"), May("store"),
      Check({"loader", "validator", "executor", "store"})>>
    \o (IF porf
        THEN <<Own("porf_mod"), Create("ty"), Take("func", <<"ty">>), Free("ty"),
               Hand("func", "porf_mod"), Use({"executor", "store", "porf_mod"}, <<>>)>>
        ELSE <<>>)
    \o WasmEdgeParse
    \o <<Local("name")>>
    \o MeasureSamples(
        <<Meter("clock"),
          Own("inst"),
          Use({"inst", "name"}, <<>>),
          Call({"inst"}, <<>>),
          Meter("off"),
          Drop>>)

\* Whatever is created goes onto `owned`, deleted from its end. The creation
\* of the first five is not checked.
WasmEdgeGuest ==
    <<Local("conf"), Local("loader"), Local("validator"), Local("executor"), Local("store"),
      Own("porf_mod"),
      Create("ty"), Take("func", <<"ty">>), Free("ty"), Hand("func", "porf_mod"),
      Use({"executor", "store", "porf_mod"}, <<>>)>>
    \o WasmEdgeParse
    \o <<Own("inst"), Use({"inst"}, <<>>)>>
    \o Serve({"executor", "inst"})

-----------------------------------------------------------------------------
\* What must outlive what: <<h, d>> says d must be there as long as h is.
Needs == [
    wamr |-> {<<"module", "bytes">>, <<"inst", "module">>, <<"exec_env", "inst">>},
    wasm3 |-> {<<"runtime", "env">>, <<"module", "env">>, <<"module", "bytes">>},
    wasmz |-> {<<"store", "engine">>, <<"module", "engine">>, <<"inst", "store">>,
               <<"inst", "module">>},
    zwasm |-> {<<"store", "engine">>, <<"module", "store">>, <<"inst", "module">>,
               <<"exports", "inst">>, <<"MEMORY", "exports">>},
    wasmedge |-> {<<"vm", "conf">>, <<"loader", "conf">>, <<"validator", "conf">>,
                  <<"executor", "conf">>, <<"inst", "store">>, <<"inst", "executor">>}]

Runner(rt, kind, steps) == [rt |-> rt, kind |-> kind, steps |-> steps]

Recipes == [
    wamr_generic |-> Runner("wamr", "calls", WamrGeneric),
    wamr_each |-> Runner("wamr", "samples", WamrEach),
    wamr_porf |-> Runner("wamr", "samples", WamrPorf),
    wamr_guest |-> Runner("wamr", "guest", WamrGuest),
    wasm3_generic |-> Runner("wasm3", "calls", Wasm3Generic),
    wasm3_each |-> Runner("wasm3", "samples", Wasm3Each),
    wasm3_guest |-> Runner("wasm3", "guest", Wasm3Guest),
    wasmz_generic |-> Runner("wasmz", "calls", WasmzGeneric),
    wasmz_each |-> Runner("wasmz", "samples", WasmzEach),
    wasmz_porf |-> Runner("wasmz", "samples", WasmzPorf),
    wasmz_guest |-> Runner("wasmz", "guest", WasmzGuest),
    zwasm_generic |-> Runner("zwasm", "calls", ZwasmGeneric),
    zwasm_each |-> Runner("zwasm", "samples", ZwasmEach),
    zwasm_porf |-> Runner("zwasm", "samples", ZwasmPorf),
    zwasm_guest |-> Runner("zwasm", "guest", ZwasmGuest),
    wasmedge_generic |-> Runner("wasmedge", "calls", WasmEdgeGeneric),
    wasmedge_each |-> Runner("wasmedge", "samples", WasmEdgeExecutor(FALSE)),
    wasmedge_porf |-> Runner("wasmedge", "samples", WasmEdgeExecutor(TRUE)),
    wasmedge_guest |-> Runner("wasmedge", "guest", WasmEdgeGuest)]

ASSUME RunnersAssumption == Runners \subseteq DOMAIN Recipes
ASSUME CarefulAssumption == Careful \subseteq Runners

\* What guards hold, oldest first, in the order they are dropped.
Held(g) == FlattenSeq(Reverse(g))
=============================================================================
