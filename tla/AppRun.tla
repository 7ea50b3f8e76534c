------------------------------- MODULE AppRun -------------------------------
(***************************************************************************)
(* One process of the benchmark app (BenchmarkContentView.swift).          *)
(*                                                                         *)
(* The main thread runs runAll and the blocks other threads put on the     *)
(* main dispatch queue, one at a time and in order; a worker block on a    *)
(* global queue runs the workloads and reports through both stderr and     *)
(* main-queue blocks. All @State is touched by main-thread steps only.     *)
(*                                                                         *)
(* A definition Name_Fault is Name with one plausible mistake in it; no    *)
(* behaviour of the model uses it.                                         *)
(***************************************************************************)
EXTENDS Integers, Sequences

CONSTANTS
    Rows,       \* how many rows the filters leave (e2e: runtimes times scenes)
    Outcomes,   \* what a row may report: a result or an error
    MaxRuns     \* bound: times the user (or onAppear) starts a run

ASSUME RowsAssumption == Rows \in Nat
ASSUME RunsAssumption == MaxRuns \in Nat

VARIABLES
    e2e,        \* FEMTOVG_E2E is set: scenes instead of the workload list
    running,    \* @State: a run is under way; disables the button
    results,    \* @State: the rows on screen
    label,      \* @State currentLabel: the row named in the status line, or 0
    idleOff,    \* the idle timer is disabled
    mainQueue,  \* blocks dispatched to the main queue and not yet run
    runs,       \* runs started so far
    workers,    \* the worker block of each run
    console     \* the lines written to stderr

vars == <<e2e, running, results, label, idleOff, mainQueue, runs, workers, console>>

LabelBlock(i) == [kind |-> "label", row |-> i]
AppendBlock(x) == [kind |-> "append", result |-> x]
FinishBlock == [kind |-> "finish"]

\* at: rows reported; report: the result formatted and not yet handed over.
NoWorker == [pc |-> "none", at |-> 0, report |-> <<>>]

Promise == INSTANCE AppConsole WITH
    reporting <- \E r \in 1..MaxRuns : workers[r].pc \notin {"none", "ended"}
                    \/ (~e2e /\ r = runs /\ running),
    run <- runs,
    at <- IF runs = 0 THEN 0 ELSE workers[runs].at

-----------------------------------------------------------------------------
Init ==
    /\ e2e \in BOOLEAN
    /\ running = FALSE
    /\ results = <<>>
    /\ label = 0
    /\ idleOff = FALSE
    /\ mainQueue = <<>>
    /\ runs = 0
    /\ workers = [r \in 1..MaxRuns |-> NoWorker]
    /\ console = <<>>

\* The worker's first step after a row, or from the start: the next row, or,
\* when none is left, the end of the loop.
NextRow(i) == IF i = Rows THEN "finish" ELSE IF e2e THEN "run" ELSE "announce"

\* onAppear or a tap on "Run all". Everything up to the dispatch happens on
\* the main thread without leaving it.
MayRun == ~running

RunAll ==
    /\ MayRun
    /\ runs < MaxRuns
    /\ running' = TRUE
    /\ results' = <<>>
    /\ idleOff' = TRUE
    /\ runs' = runs + 1
    /\ console' = Append(console, Promise!HeaderLine(runs + 1))
    /\ workers' = [workers EXCEPT ![runs + 1] =
                      [pc |-> NextRow(0), at |-> 0, report |-> <<>>]]
    /\ UNCHANGED <<e2e, label, mainQueue>>

-----------------------------------------------------------------------------
(* The worker of run r.                                                    *)

\* DispatchQueue.main.async { currentLabel = w.label }
Announce(r) ==
    /\ workers[r].pc = "announce"
    /\ mainQueue' = Append(mainQueue, LabelBlock(workers[r].at + 1))
    /\ workers' = [workers EXCEPT ![r].pc = "run"]
    /\ UNCHANGED <<e2e, running, results, label, idleOff, runs, console>>

\* w.run(), formatReport and the line on stderr.
RunWorkload(r) ==
    /\ ~e2e
    /\ workers[r].pc = "run"
    /\ \E o \in Outcomes :
          LET i == workers[r].at + 1 IN
          /\ console' = Append(console, Promise!RowLine(r, i, o))
          /\ workers' = [workers EXCEPT ![r] =
                [pc |-> "post", at |-> i, report |-> <<[row |-> i, outcome |-> o]>>]]
    /\ UNCHANGED <<e2e, running, results, label, idleOff, mainQueue, runs>>

\* DispatchQueue.main.async { results.append(result) }
PostResult(r) ==
    /\ workers[r].pc = "post"
    /\ mainQueue' = Append(mainQueue, AppendBlock(Head(workers[r].report)))
    /\ workers' = [workers EXCEPT ![r] =
          [pc |-> NextRow(workers[r].at), at |-> workers[r].at, report |-> <<>>]]
    /\ UNCHANGED <<e2e, running, results, label, idleOff, runs, console>>

\* One cell of runFemtovgE2E. A null text (guard let ... else continue) is skipped.
RunE2eCell(r) ==
    /\ e2e
    /\ workers[r].pc = "run"
    /\ LET i == workers[r].at + 1 IN
          /\ \/ \E o \in Outcomes : console' = Append(console, Promise!RowLine(r, i, o))
             \/ console' = console
          /\ workers' = [workers EXCEPT ![r] =
                [pc |-> NextRow(i), at |-> i, report |-> <<>>]]
    /\ UNCHANGED <<e2e, running, results, label, idleOff, mainQueue, runs>>

\* The block that ends the run goes behind every result block.
WithFinish_Jumps(q) == <<FinishBlock>> \o q
WithFinish_NoReset(q) == q
WithFinish(q) == Append(q, FinishBlock)

\* In E2E mode the worker writes the marker itself.
FinishWorker(r) ==
    /\ workers[r].pc = "finish"
    /\ workers' = [workers EXCEPT ![r].pc = "ended"]
    /\ console' = IF e2e THEN Append(console, Promise!MarkerLine(r)) ELSE console
    /\ mainQueue' = WithFinish(mainQueue)
    /\ UNCHANGED <<e2e, running, results, label, idleOff, runs>>

-----------------------------------------------------------------------------
(* The blocks, on the main thread.                                         *)

SetLabel ==
    /\ mainQueue # <<>> /\ Head(mainQueue).kind = "label"
    /\ mainQueue' = Tail(mainQueue)
    /\ label' = Head(mainQueue).row
    /\ UNCHANGED <<e2e, running, results, idleOff, runs, workers, console>>

AppendResult ==
    /\ mainQueue # <<>> /\ Head(mainQueue).kind = "append"
    /\ mainQueue' = Tail(mainQueue)
    /\ results' = Append(results, Head(mainQueue).result)
    /\ UNCHANGED <<e2e, running, label, idleOff, runs, workers, console>>

\* winnerSummary is computed from the rows on screen at this moment.
OnScreen == {results[i] : i \in DOMAIN results}

AllowSleep_Forgotten == idleOff
AllowSleep == FALSE

\* running = false, then (workload list only) the verdict and the marker.
FinishRun ==
    /\ mainQueue # <<>> /\ Head(mainQueue).kind = "finish"
    /\ mainQueue' = Tail(mainQueue)
    /\ running' = FALSE /\ label' = 0 /\ idleOff' = AllowSleep
    /\ console' = IF e2e
                  THEN console
                  ELSE console \o <<Promise!VerdictLine(runs, OnScreen), Promise!MarkerLine(runs)>>
    /\ UNCHANGED <<e2e, results, runs, workers>>

Work(r) == Announce(r) \/ RunWorkload(r) \/ PostResult(r) \/ RunE2eCell(r) \/ FinishWorker(r)
MainBlock == SetLabel \/ AppendResult \/ FinishRun

\* With no block queued and no worker active the app just stays on screen
\* until it is terminated.
Idle ==
    /\ mainQueue = <<>>
    /\ \A r \in 1..MaxRuns : workers[r].pc \in {"none", "ended"}
    /\ UNCHANGED vars

Next == RunAll \/ MainBlock \/ (\E r \in 1..MaxRuns : Work(r)) \/ Idle

Spec == Init /\ [][Next]_vars

\* Workloads end, the worker's QoS class keeps it scheduled while the app is
\* in the foreground, and the main queue is drained. Nobody has to tap.
Fairness == WF_vars(MainBlock) /\ \A r \in 1..MaxRuns : WF_vars(Work(r))
FairSpec == Spec /\ Fairness

-----------------------------------------------------------------------------
\* The console keeps the promise the launcher and the summary rely on: the
\* marker never comes before a row of its run, and the verdict is computed
\* over all of them (BENCH_DONE in runAll, "FEMTOVG_E2E done").
KeepsPromise == Promise!Spec

\* The rows on screen are those of the current run, in catalog order, without
\* repeats (their ids identify them to ForEach) and as the console has them; the
\* status line names the row in progress or the one just put on screen, never
\* a row of an earlier run.
ScreenMatchesConsole ==
    /\ \A i \in DOMAIN results : results[i].row = i
    /\ OnScreen \subseteq Promise!RowsOf(console, runs)
    /\ (running /\ ~e2e) => Len(results) \in {label - 1, label}

Working(r) == workers[r].pc \notin {"none", "ended"}

\* At most one worker runs workloads (two would measure each other), the screen
\* cannot lock while it does, and once the run is over the device may sleep.
OneWakefulWorker ==
    /\ \A r, s \in 1..MaxRuns : (r # s /\ Working(r)) => ~Working(s)
    /\ (\E r \in 1..MaxRuns : Working(r)) => idleOff
    /\ ~running => ~idleOff

\* Every run ends and the button can be used again.
RunsEnd == running ~> ~running
=============================================================================
