------------------------------ MODULE MCMeasure ------------------------------
(***************************************************************************)
(* Measurements, and the runners that make them: all of them, and the      *)
(* careful ones (MCAdapterLifecycle), are held to AdapterDiscipline.       *)
(***************************************************************************)
EXTENDS Measure, AdapterDiscipline

AllRunners == DOMAIN Recipes
CarefulRunners ==
    AllRunners \ {"wamr_generic", "wasm3_generic", "zwasm_guest", "wasmedge_generic"}
=============================================================================
