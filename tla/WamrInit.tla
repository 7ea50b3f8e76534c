------------------------------ MODULE WamrInit ------------------------------
(***************************************************************************)
(* WAMR's process-wide state (wamr.rs): wasm_runtime_init behind one Once, *)
(* the native symbols of two kinds of modules behind a Once each, and the  *)
(* way every caller goes through them before it loads a module. The tests  *)
(* put a Once of their own around wamr::init.                              *)
(*                                                                         *)
(* A definition Name_Fault is Name with one plausible mistake in it; no    *)
(* behaviour of the model uses it.                                         *)
(***************************************************************************)
CONSTANTS
    Threads,   \* the threads of the process
    Nobody     \* no thread

ASSUME NobodyAssumption == Nobody \notin Threads

VARIABLES
    pc,        \* where each thread stands; "away" outside of this code
    need,      \* what it came for
    of,        \* the Once it is at, or in the closure of
    once,      \* the state of each Once
    INIT_OK,   \* the plain static
    runtime,   \* what wasm_runtime_init left: "down" or "up"
    calledBy,  \* the thread that called wasm_runtime_init last, or Nobody
    natives    \* the import modules registered so far
wamr == <<pc, need, of, once, INIT_OK, runtime, calledBy, natives>>

\* init: wamr::init. plain, porf, fvg: a module without imports, Porffor's
\* with ("", "b"), the femtovg guest with "fvg". test: a test of tests/*.rs.
Needs == {"init", "plain", "porf", "fvg", "test"}
Onces == {"INIT", "REGISTER_ONCE", "REGISTER", "HARNESS"}
Places == {"away", "call_once", "closure", "store", "check", "load", "loaded",
           "returned", "failed", "panicked"}

Imports(n) == CASE n = "porf" -> {""} [] n = "fvg" -> {"fvg"} [] OTHER -> {}
Registered(o) == IF o = "REGISTER_ONCE" THEN "" ELSE "fvg"

WInit ==
    /\ pc = [t \in Threads |-> "away"]
    /\ need = [t \in Threads |-> "init"]
    /\ of = [t \in Threads |-> "INIT"]
    /\ once = [o \in Onces |-> "new"]
    /\ INIT_OK = FALSE /\ runtime = "down" /\ calledBy = Nobody
    /\ natives = {}

Begin(t, n) ==
    /\ pc[t] = "away"
    /\ need' = [need EXCEPT ![t] = n]
    /\ of' = [of EXCEPT ![t] = IF n = "test" THEN "HARNESS" ELSE "INIT"]
    /\ pc' = [pc EXCEPT ![t] = "call_once"]
    /\ UNCHANGED <<once, INIT_OK, runtime, calledBy, natives>>

-----------------------------------------------------------------------------
(* Once::call_once: the first caller runs the closure, the others wait for *)
(* it; one whose closure panicked panics every later caller.               *)

EnterOnce(t) ==
    /\ pc[t] = "call_once"
    /\ once[of[t]] = "new"
    /\ once' = [once EXCEPT ![of[t]] = "running"]
    /\ pc' = [pc EXCEPT ![t] = "closure"]
    /\ UNCHANGED <<need, of, INIT_OK, runtime, calledBy, natives>>

Resume(o) == IF o = "INIT" THEN "check" ELSE "load"

FindDone(t) ==
    /\ pc[t] = "call_once"
    /\ once[of[t]] = "done"
    /\ pc' = [pc EXCEPT ![t] = Resume(of[t])]
    /\ UNCHANGED <<need, of, once, INIT_OK, runtime, calledBy, natives>>

FindPoisoned(t) ==
    /\ pc[t] = "call_once"
    /\ once[of[t]] = "poisoned"
    /\ pc' = [pc EXCEPT ![t] = "panicked"]
    /\ UNCHANGED <<need, of, once, INIT_OK, runtime, calledBy, natives>>

-----------------------------------------------------------------------------
(* The closures. *)

RuntimeInit(t) ==
    /\ pc[t] = "closure" /\ of[t] = "INIT"
    /\ runtime' \in {"up", "down"}
    /\ calledBy' = t
    /\ pc' = [pc EXCEPT ![t] = "store"]
    /\ UNCHANGED <<need, of, once, INIT_OK, natives>>

StoreOk(t) ==
    /\ pc[t] = "store"
    /\ INIT_OK' = (runtime = "up")
    /\ once' = [once EXCEPT !["INIT"] = "done"]
    /\ pc' = [pc EXCEPT ![t] = "check"]
    /\ UNCHANGED <<need, of, runtime, calledBy, natives>>

\* What wasm_runtime_register_natives adds to is set up by wasm_runtime_init.
Register(t) ==
    /\ pc[t] = "closure" /\ of[t] \in {"REGISTER_ONCE", "REGISTER"}
    /\ natives' = IF runtime = "up" THEN natives \cup {Registered(of[t])} ELSE natives
    /\ once' = [once EXCEPT ![of[t]] = "done"]
    /\ pc' = [pc EXCEPT ![t] = "load"]
    /\ UNCHANGED <<need, of, INIT_OK, runtime, calledBy>>

\* The tests' Once goes through wamr::init, not through itself.
Nested_Itself == "HARNESS"
Nested == "INIT"

HarnessInit(t) ==
    /\ pc[t] = "closure" /\ of[t] = "HARNESS"
    /\ of' = [of EXCEPT ![t] = Nested]
    /\ pc' = [pc EXCEPT ![t] = "call_once"]
    /\ UNCHANGED <<need, once, INIT_OK, runtime, calledBy, natives>>

-----------------------------------------------------------------------------
(* After ensure_init's Once: the static is read, and what the caller has   *)
(* to register comes before its module.                                    *)

NativesOnce(n) ==
    CASE n = "porf" -> "REGISTER_ONCE" [] n = "fvg" -> "REGISTER" [] OTHER -> "INIT"

AfterInit_Loads(n) == IF n = "init" THEN "returned" ELSE "load"
AfterInit(n) ==
    CASE n = "init" -> "returned"
      [] n \in {"porf", "fvg"} -> "call_once"
      [] OTHER -> "load"

CheckOk(t) ==
    /\ pc[t] = "check" /\ INIT_OK
    /\ pc' = [pc EXCEPT ![t] = AfterInit(need[t])]
    /\ of' = [of EXCEPT ![t] = NativesOnce(need[t])]
    /\ once' = IF need[t] = "test" THEN [once EXCEPT !["HARNESS"] = "done"] ELSE once
    /\ UNCHANGED <<need, INIT_OK, runtime, calledBy, natives>>

\* ensure_init's Err; a test expects Ok and panics inside its Once.
CheckFails(t) ==
    /\ pc[t] = "check" /\ ~INIT_OK
    /\ pc' = [pc EXCEPT ![t] = IF need[t] = "test" THEN "panicked" ELSE "failed"]
    /\ once' = IF need[t] = "test" THEN [once EXCEPT !["HARNESS"] = "poisoned"] ELSE once
    /\ UNCHANGED <<need, of, INIT_OK, runtime, calledBy, natives>>

Load(t) ==
    /\ pc[t] = "load"
    /\ pc' = [pc EXCEPT ![t] = "loaded"]
    /\ UNCHANGED <<need, of, once, INIT_OK, runtime, calledBy, natives>>

Leave(t) ==
    /\ pc[t] \in {"loaded", "returned", "failed"}
    /\ pc' = [pc EXCEPT ![t] = "away"]
    /\ UNCHANGED <<need, of, once, INIT_OK, runtime, calledBy, natives>>

\* A thread goes on by itself from call_once to its module or its failure.
Proceed(t) ==
    \/ EnterOnce(t) \/ FindDone(t) \/ FindPoisoned(t)
    \/ RuntimeInit(t) \/ StoreOk(t) \/ Register(t) \/ HarnessInit(t)
    \/ CheckOk(t) \/ CheckFails(t) \/ Load(t)

WNext == \E t \in Threads : Proceed(t) \/ Leave(t) \/ \E n \in Needs : Begin(t, n)
WSpec == WInit /\ [][WNext]_wamr

-----------------------------------------------------------------------------
\* A module is loaded into a runtime that is up, was set up once and for
\* good, and knows the module's imports, whichever threads came together.
LoadsAreServed ==
    \A t \in Threads : pc[t] \in {"load", "loaded"} =>
        /\ INIT_OK /\ runtime = "up" /\ once["INIT"] = "done"
        /\ Imports(need[t]) \subseteq natives
=============================================================================
