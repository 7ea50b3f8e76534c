----------------------------- MODULE MatrixPlans -----------------------------
(***************************************************************************)
(* The launches of run_matrix the M4 scripts make, in order: the timing    *)
(* pass (run-m4-pass.sh, one process per rep and runtime), the memory pass *)
(* (run-m4-memory-pass.sh, one per runtime and case) and the PMU pass      *)
(* (run-m4-pmu-pass.sh, one capture per mode, runtime and group of cases). *)
(* A launch is its environment: RUNTIMES names one runtime, WORKLOADS is a *)
(* set of needles (empty: not set), MATRIX_REP the rep, or the mode's      *)
(* index, and MATRIX_THREAD_PER_CASE is set by the PMU pass alone.         *)
(***************************************************************************)
EXTENDS Naturals, Sequences, SequencesExt

CONSTANTS
    RuntimesList, \* RUNTIMES_LIST
    Cases,        \* the ids of cases.rs, in order
    N,            \* reps of the timing pass
    Modes,        \* how many counter modes
    Heavy,        \* the case with a capture of its own: audio_dsp
    LeftOut       \* the one the PMU pass leaves out: sqlite3

ASSUME CountsAssumption == N \in Nat /\ Modes \in Nat
\* A runtime is listed once.
ASSUME RuntimesAssumption ==
    RuntimesList \in Seq(Range(RuntimesList)) /\ IsInjective(RuntimesList)
ASSUME CasesAssumption == Cases \in Seq(Range(Cases))
\* GROUP_A is not empty: an empty WORKLOADS would select every case.
ASSUME GroupsAssumption == Range(Cases) \ {Heavy, LeftOut} # {}

\* An entry `=id` of WORKLOADS.
Exactly(c) == [exact |-> TRUE, case |-> c]

TimingPlan ==
    FlattenSeq([rep \in 1..N |->
        [i \in DOMAIN RuntimesList |->
            [part |-> "timing", rt |-> RuntimesList[i], needles |-> {}, rep |-> rep,
             threads |-> FALSE]]])

MemoryPlan ==
    FlattenSeq([i \in DOMAIN RuntimesList |->
        [j \in DOMAIN Cases |->
            [part |-> "memory", rt |-> RuntimesList[i], needles |-> {Exactly(Cases[j])},
             rep |-> 0, threads |-> FALSE]]])

Groups == <<{Exactly(c) : c \in Range(Cases) \ {Heavy, LeftOut}}, {Exactly(Heavy)}>>

PmuPlan ==
    FlattenSeq([mode \in 1..Modes |->
        FlattenSeq([i \in DOMAIN RuntimesList |->
            [g \in DOMAIN Groups |->
                [part |-> "pmu", rt |-> RuntimesList[i], needles |-> Groups[g], rep |-> mode,
                 threads |-> TRUE]]])])
=============================================================================
