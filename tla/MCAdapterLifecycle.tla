------------------------- MODULE MCAdapterLifecycle -------------------------
(***************************************************************************)
(* All runners, and the careful ones: each of the other four is known to   *)
(* break a property of the lifecycle on some path (README.md).             *)
(***************************************************************************)
EXTENDS AdapterLifecycle

AllRunners == DOMAIN Recipes
CarefulRunners ==
    AllRunners \ {"wamr_generic", "wasm3_generic", "zwasm_guest", "wasmedge_generic"}
Wasm3Only == {"wasm3_generic"}
=============================================================================
