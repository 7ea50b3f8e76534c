------------------------------- MODULE Measure -------------------------------
(***************************************************************************)
(* The measurement of one case (lib.rs): warm-up calls, an iteration count *)
(* sized from the last of them, the timed calls inside a Window, and the   *)
(* RunReport made of the samples and of two kinds of kernel counter.       *)
(*                                                                         *)
(* thread_times (task_info) sums the CPU time of the live threads of the   *)
(* process; proc_usage (rusage) counts all its threads, the ended ones     *)
(* too, and tells P-core time apart. The other threads of the process run  *)
(* on while the bench thread measures, so the readings of a window are     *)
(* steps of their own. User and system time are one number here, and so    *)
(* are P-core time, instructions and cycles, which are read together.      *)
(*                                                                         *)
(* Times are ticks. A definition Name_Fault is Name with one plausible     *)
(* mistake in it; no behaviour of the model uses it.                       *)
(***************************************************************************)
EXTENDS Integers, Sequences, FiniteSets

CONSTANTS
    MaxIters,      \* 16_384
    BenchTarget,   \* BENCH_TARGET_MS; 0: not set, or not a positive number
    DefaultTarget, \* the caller's target_total, 200 ms
    Asked,         \* the iteration counts a caller may ask for; 0: sized here
    CpuTimes,      \* the CPU time a call may take
    Waits,         \* the time it may spend off the CPU
    Teardowns,     \* the CPU time of dropping a sample's instance
    MaxOthers      \* bound: CPU time of the other threads

ASSUME MaxItersAssumption == MaxIters \in Nat \ {0}
ASSUME TargetAssumption == BenchTarget \in Nat /\ DefaultTarget \in Nat
ASSUME AskedAssumption == Asked \subseteq Nat
ASSUME TimesAssumption == CpuTimes \cup Waits \cup Teardowns \subseteq Nat
ASSUME OthersAssumption == MaxOthers \in Nat

VARIABLES
    kind,       \* which of the four loops
    asked,      \* its iters argument
    pc,         \* where the bench thread stands
    warmups,    \* warm-up calls still to make
    warm,       \* how long the last one took
    n,          \* timed calls to make
    samples,    \* how long each took
    mine,       \* CPU time of the bench thread
    others,     \* CPU time of the other live threads
    gone,       \* CPU time of the threads that have ended
    fast,       \* P-core time of them all
    opening,    \* what the window read before the loop
    closing,    \* what it read after it
    report,     \* NoReport until finish has built it
    \* Kept for the properties alone:
    began,      \* the process's CPU time when the warm-up was over
    timed,      \* CPU time of the timed calls
    elapsed,    \* their time on the clock
    threadEnded \* a thread has ended since the window opened

machine == <<mine, others, gone, fast>>
ghosts == <<began, timed, elapsed, threadEnded>>
vars == <<kind, asked, pc, warmups, warm, n, samples, machine, opening, closing, report, ghosts>>

-----------------------------------------------------------------------------
(* The arithmetic.                                                         *)

AtLeast1(t) == IF t = 0 THEN 1 ELSE t
Target == IF BenchTarget > 0 THEN BenchTarget ELSE DefaultTarget

\* pick_iters; a reading of zero counts as one tick.
PickIters_RoundedUp(first) ==
    LET raw == AtLeast1((Target + AtLeast1(first) - 1) \div AtLeast1(first))
    IN  IF raw > MaxIters THEN MaxIters ELSE raw
PickIters(first) ==
    LET raw == AtLeast1(Target \div AtLeast1(first))
    IN  IF raw > MaxIters THEN MaxIters ELSE raw

\* Positions in the sorted samples, from 0. The float product of the code is
\* the exact quotient at every length up to MaxIters.
MedianIndex(len) == len \div 2
P99Index(len) ==
    LET i == (99 * len) \div 100 IN IF i > len - 1 THEN len - 1 ELSE i

\* The sample at position k once they are sorted.
Ranked_Unsorted(s, k) == s[k + 1]
Ranked(s, k) ==
    LET below(v) == Cardinality({i \in DOMAIN s : s[i] < v})
        upto(v) == Cardinality({i \in DOMAIN s : s[i] <= v})
    IN  CHOOSE v \in {s[i] : i \in DOMAIN s} : below(v) <= k /\ k < upto(v)

\* saturating_sub: a counter of live threads may have gone down.
Since_Forgotten(after, before) == after
Since(after, before) == IF after < before THEN 0 ELSE after - before

-----------------------------------------------------------------------------
NoReading == [cpu |-> 0, fast |-> 0]
NoReport == [done |-> FALSE]

\* measure_calls, measure_samples, Pulley's graphql_as and sqlite3.
Kinds == {"calls", "samples", "one_warmup", "once"}
Warmups(k) == CASE k \in {"calls", "samples"} -> 2
                [] k = "one_warmup" -> 1
                [] k = "once" -> 0

Init ==
    /\ kind \in Kinds
    /\ asked \in IF kind = "calls" THEN Asked ELSE {0}
    /\ pc = "warmup"
    /\ warmups = Warmups(kind) /\ warm = 0
    /\ n = 0
    /\ samples = <<>>
    /\ mine = 0 /\ others = 0 /\ gone = 0 /\ fast = 0
    /\ opening = NoReading /\ closing = NoReading
    /\ report = NoReport
    /\ began = 0 /\ timed = 0 /\ elapsed = 0 /\ threadEnded = FALSE

Process == mine + others + gone
CounterNow == [cpu |-> mine + others, fast |-> fast]

\* One call or sample: its CPU time, all on one kind of core, and for a sample
\* the drop of its instance once the clock has stopped.
DropsOf(k) == IF k = "samples" THEN Teardowns ELSE {0}
Spend(t, d, onP) ==
    /\ mine' = mine + t + d
    /\ fast' = IF onP THEN fast + t + d ELSE fast

Warmup ==
    /\ pc = "warmup"
    /\ warmups > 0
    /\ \E t \in CpuTimes, w \in Waits, d \in DropsOf(kind), onP \in BOOLEAN :
          /\ Spend(t, d, onP)
          /\ warm' = t + w
    /\ warmups' = warmups - 1
    /\ UNCHANGED <<kind, asked, pc, n, samples, others, gone, opening, closing, report, ghosts>>

Size ==
    /\ pc = "warmup"
    /\ warmups = 0
    /\ n' = CASE kind = "once" -> 1
              [] kind # "once" /\ asked > 0 -> asked
              [] kind # "once" /\ asked = 0 -> PickIters(warm)
    /\ pc' = "open1"
    /\ began' = Process
    /\ UNCHANGED <<kind, asked, warmups, warm, samples, machine, opening, closing,
                   report, timed, elapsed, threadEnded>>

\* Window::start reads the thread times first, finish the rusage first.
OpeningReads == [open1 |-> "cpu", open2 |-> "fast"]
ClosingReads_Swapped == [close1 |-> "cpu", close2 |-> "fast"]
ClosingReads == [close1 |-> "fast", close2 |-> "cpu"]

OpenWindow ==
    /\ pc \in DOMAIN OpeningReads
    /\ opening' = [opening EXCEPT ![OpeningReads[pc]] = CounterNow[OpeningReads[pc]]]
    /\ pc' = IF pc = "open1" THEN "open2" ELSE "call"
    /\ UNCHANGED <<kind, asked, warmups, warm, n, samples, machine, closing, report, ghosts>>

TimedCall ==
    /\ pc = "call"
    /\ Len(samples) < n
    /\ \E t \in CpuTimes, w \in Waits, d \in DropsOf(kind), onP \in BOOLEAN :
          /\ Spend(t, d, onP)
          /\ samples' = Append(samples, t + w)
          /\ timed' = timed + t
          /\ elapsed' = elapsed + t + w
    /\ UNCHANGED <<kind, asked, pc, warmups, warm, n, others, gone, opening, closing,
                   report, began, threadEnded>>

\* A trap, in a warm-up or a timed call: no report.
CallFails ==
    /\ \/ pc = "warmup" /\ warmups > 0
       \/ pc = "call" /\ Len(samples) < n
    /\ pc' = "failed"
    /\ UNCHANGED <<kind, asked, warmups, warm, n, samples, machine, opening, closing,
                   report, ghosts>>

EndLoop ==
    /\ pc = "call"
    /\ Len(samples) = n
    /\ pc' = "close1"
    /\ UNCHANGED <<kind, asked, warmups, warm, n, samples, machine, opening, closing,
                   report, ghosts>>

CloseWindow ==
    /\ pc \in DOMAIN ClosingReads
    /\ closing' = [closing EXCEPT ![ClosingReads[pc]] = CounterNow[ClosingReads[pc]]]
    /\ pc' = IF pc = "close1" THEN "close2" ELSE "finish"
    /\ UNCHANGED <<kind, asked, warmups, warm, n, samples, machine, opening, report, ghosts>>

Finish ==
    /\ pc = "finish"
    /\ report' = [done |-> TRUE,
                  iterations |-> n,
                  min |-> Ranked(samples, 0),
                  median |-> Ranked(samples, MedianIndex(Len(samples))),
                  p99 |-> Ranked(samples, P99Index(Len(samples))),
                  cpu |-> Since(closing.cpu, opening.cpu),
                  fast |-> Since(closing.fast, opening.fast)]
    /\ pc' = "reported"
    /\ UNCHANGED <<kind, asked, warmups, warm, n, samples, machine, opening, closing, ghosts>>

-----------------------------------------------------------------------------
\* The app's main thread, dispatch workers, a runtime's helper threads.
OthersRun ==
    /\ others + gone < MaxOthers
    /\ others' = others + 1
    /\ fast' \in {fast, fast + 1}
    /\ UNCHANGED <<kind, asked, pc, warmups, warm, n, samples, mine, gone, opening,
                   closing, report, ghosts>>

ThreadEnds ==
    /\ others > 0
    /\ \E c \in 1..others :
          /\ others' = others - c
          /\ gone' = gone + c
    /\ threadEnded' = (threadEnded \/ pc # "warmup")
    /\ UNCHANGED <<kind, asked, pc, warmups, warm, n, samples, mine, fast, opening,
                   closing, report, began, timed, elapsed>>

Done == pc \in {"reported", "failed"} /\ UNCHANGED vars

Bench ==
    \/ Warmup \/ Size \/ OpenWindow \/ TimedCall \/ CallFails \/ EndLoop
    \/ CloseWindow \/ Finish

Next == Bench \/ OthersRun \/ ThreadEnds \/ Done

Spec == Init /\ [][Next]_vars

-----------------------------------------------------------------------------
Reading == [cpu : Nat, fast : Nat]
RunReport == [done : {TRUE}, iterations : Nat, min : Nat, median : Nat, p99 : Nat,
              cpu : Nat, fast : Nat]

TypeOK ==
    /\ kind \in Kinds
    /\ asked \in Nat
    /\ pc \in {"warmup", "open1", "open2", "call", "close1", "close2", "finish",
               "reported", "failed"}
    /\ warmups \in 0..2 /\ warm \in Nat
    /\ n \in Nat
    /\ samples \in Seq(Nat)
    /\ mine \in Nat /\ others \in Nat /\ gone \in Nat /\ fast \in Nat
    /\ opening \in Reading /\ closing \in Reading
    /\ report \in RunReport \cup {NoReport}
    /\ began \in Nat /\ timed \in Nat /\ elapsed \in Nat /\ threadEnded \in BOOLEAN

\* pick_iters gives a loop that runs at least once, at most MaxIters times,
\* and unless one call alone exceeds the budget is expected to stay within it.
SizedToBudget ==
    (kind # "once" /\ asked = 0 /\ pc # "warmup" /\ pc # "failed") =>
        /\ n \in 1..MaxIters
        /\ n = 1 \/ n * AtLeast1(warm) <= Target

\* The three statistics of a report are what their names say of the samples,
\* and there is one sample per iteration reported (Window::finish).
StatisticsDescribeSamples ==
    report.done =>
        LET atMost(v) == Cardinality({i \in DOMAIN samples : samples[i] <= v})
            atLeast(v) == Cardinality({i \in DOMAIN samples : samples[i] >= v})
        IN  /\ Len(samples) = report.iterations
            /\ atLeast(report.min) = Len(samples) /\ atMost(report.min) > 0
            /\ 2 * atMost(report.median) >= Len(samples)
            /\ 2 * atLeast(report.median) >= Len(samples)
            /\ 100 * atMost(report.p99) >= 99 * Len(samples)
            /\ report.min <= report.median /\ report.median <= report.p99

\* No CPU time spent before the window, by the warm-up or by anyone, is in the
\* report, whatever the other threads do.
WarmupIsNotCharged == report.done => report.cpu <= Process - began

\* The CPU time of every timed call is in the report, unless a thread has ended
\* meanwhile and took its time out of the sum of the live ones.
TimedCallsAreCharged == (report.done /\ ~threadEnded) => report.cpu >= timed

\* Both together: what the report charges is the timed calls and nothing before
\* them (Window, residency::ProcUsage::since).
CpuIsTheTimedCalls == WarmupIsNotCharged /\ TimedCallsAreCharged

\* P-core time is part of the CPU time it is compared with (e_share), although
\* the two come from different calls: the window of the first is inside that
\* of the second.
FastWithinCpu == (report.done /\ ~threadEnded) => report.fast <= report.cpu
=============================================================================
