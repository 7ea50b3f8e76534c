------------------------------- MODULE Matrix -------------------------------
(***************************************************************************)
(* A pass on the M4: a script launches run_matrix once per entry of a plan *)
(* (MatrixPlans), each process runs its cases one after the other and      *)
(* appends one JSON line per case to the pass's file, and in the PMU pass  *)
(* the capture of the process is reduced to one line per thread.           *)
(*                                                                         *)
(* Instructions are units of work, one per case that runs, each counted    *)
(* for the thread it ran on and for the process; a peak footprint is the   *)
(* set of cases whose memory it may hold. A runtime may take its process   *)
(* down, panic, fail, or return a wrong result. The scripts never look at  *)
(* what a process did and append to what the directory already holds.      *)
(***************************************************************************)
EXTENDS Naturals, Sequences, SequencesExt, Lists

CONSTANTS
    Plans,        \* the plans to run, see MatrixPlans
    AllCases,     \* CASES, in order
    IdContains,   \* <<a, b>>: the id b contains a
    Referenced,   \* the cases with an expected result
    KnownCrashes, \* KNOWN_CRASHES: <<runtime, case>>
    BigStack,     \* the runtimes that run a case on a thread of their own
    Outcomes(_, _), \* what a case may come to on a runtime
    MaxRuns       \* bound: how often the script is started on one directory

CaseIds == Range(AllCases)

\* The ids of CASES differ.
ASSUME AllCasesAssumption == AllCases \in Seq(CaseIds) /\ IsInjective(AllCases)

VARIABLES
    plan,    \* the script's launches
    runs,    \* times the script was started
    next,    \* the launch under way, or to come
    pc,      \* where its process stands
    todo,    \* the cases still to run
    before,  \* its counters when the case began
    outcome, \* what the case came to
    spent,   \* units of work, in order
    lines,   \* the JSON lines of the pass
    captured \* pmu.jsonl

vars == <<plan, runs, next, pc, todo, before, outcome, spent, lines, captured>>
files == <<lines, captured>>

-----------------------------------------------------------------------------
(* Which cases a process runs, on which thread, and what it makes of them. *)

Hits(needle, c) ==
    IF needle.exact THEN c = needle.case ELSE <<needle.case, c>> \in IdContains

Selected(launch, c) ==
    launch.needles = {} \/ \E needle \in launch.needles : Hits(needle, c)
Selection(launch) == Among(AllCases, {c \in CaseIds : Selected(launch, c)})

KnownCrash_Unlisted(rt, c) == FALSE
KnownCrash(rt, c) == <<rt, c>> \in KnownCrashes

\* run_on_thread: called from a case's thread, the new one takes its name.
Main == [name |-> "main"]
CaseThread(c) == [name |-> "case", of |-> c]
RunnerThread(parent) == IF parent.name = "case" THEN parent ELSE [name |-> "runner"]

ThreadOf(launch, c) ==
    LET caller == IF launch.threads THEN CaseThread(c) ELSE Main
    IN  IF launch.rt \in BigStack THEN RunnerThread(caller) ELSE caller

\* A panic is caught where a thread is joined; on the main thread it is fatal.
Fatal(launch, result) ==
    \/ result = "crash"
    \/ result = "panic" /\ ~launch.threads /\ launch.rt \notin BigStack

\* run_case: a result that is not the expected one is an error.
Accepted(c, result) == result = "right" \/ (result = "wrong" /\ c \notin Referenced)

-----------------------------------------------------------------------------
Init ==
    /\ plan \in Plans
    /\ runs = 1 /\ next = 1
    /\ pc = "launch"
    /\ todo = <<>>
    /\ before = 0 /\ outcome = "none" /\ spent = <<>>
    /\ lines = <<>> /\ captured = <<>>

Launch == plan[next]
Case == Head(todo)

Start ==
    /\ pc = "launch"
    /\ next <= Len(plan)
    /\ todo' = Selection(Launch)
    /\ pc' = "case"
    /\ before' = 0 /\ outcome' = "none" /\ spent' = <<>>
    /\ UNCHANGED <<plan, runs, next, files>>

\* The process's counters now: usage_before.
UsageBefore_Once(work) == 0
UsageBefore(work) == Len(work)

Begin ==
    /\ pc = "case"
    /\ todo # <<>>
    /\ before' = UsageBefore(spent)
    /\ pc' = "run"
    /\ UNCHANGED <<plan, runs, next, todo, outcome, spent, files>>

\* A case that crashes its process is listed, and reported without being run.
NotRun ==
    /\ pc = "run"
    /\ KnownCrash(Launch.rt, Case)
    /\ outcome' = "n/a"
    /\ pc' = "report"
    /\ UNCHANGED <<plan, runs, next, todo, before, spent, files>>

RunCase ==
    /\ pc = "run"
    /\ ~KnownCrash(Launch.rt, Case)
    /\ \E result \in Outcomes(Launch.rt, Case) :
          /\ outcome' = result
          /\ pc' = IF Fatal(Launch, result) THEN "ended" ELSE "report"
    /\ spent' = Append(spent, [case |-> Case, launch |-> <<runs, next>>,
                               thread |-> ThreadOf(Launch, Case)])
    /\ UNCHANGED <<plan, runs, next, todo, before, files>>

\* case_instructions and the footprint peak are only in the lines of successes.
\* launch and result are kept for the properties alone.
Report ==
    /\ pc = "report"
    /\ lines' = Append(lines,
           [rt |-> Launch.rt, case |-> Case, rep |-> Launch.rep,
            ok |-> Accepted(Case, outcome),
            usage |-> Range(SubSeq(spent, before + 1, Len(spent))),
            peak |-> {unit.case : unit \in Range(spent)},
            launch |-> <<runs, next>>, result |-> outcome])
    /\ todo' = Tail(todo)
    /\ outcome' = "none"
    /\ pc' = "case"
    /\ UNCHANGED <<plan, runs, next, before, spent, captured>>

Exit ==
    /\ pc = "case"
    /\ todo = <<>>
    /\ pc' = "ended"
    /\ UNCHANGED <<plan, runs, next, todo, before, outcome, spent, files>>

\* The script goes on whatever the process came to; a capture is reduced to
\* one line per thread name first.
CaseLines ==
    LET names == {unit.thread : unit \in Range(spent)}
    IN  {[rt |-> Launch.rt, mode |-> Launch.rep, thread |-> t, launch |-> <<runs, next>>,
          units |-> {unit \in Range(spent) : unit.thread = t}] : t \in names}

GoOn ==
    /\ pc = "ended"
    /\ captured' = IF Launch.part = "pmu" THEN captured \o SetToSeq(CaseLines) ELSE captured
    /\ next' = next + 1
    /\ pc' = "launch"
    /\ todo' = <<>> /\ outcome' = "none"
    /\ UNCHANGED <<plan, runs, before, spent, lines>>

\* The pass again, into the same directory.
Again ==
    /\ pc = "launch"
    /\ next > Len(plan)
    /\ runs < MaxRuns
    /\ runs' = runs + 1
    /\ next' = 1
    /\ UNCHANGED <<plan, pc, todo, before, outcome, spent, files>>

Done == pc = "launch" /\ next > Len(plan) /\ UNCHANGED vars

Next == Start \/ Begin \/ NotRun \/ RunCase \/ Report \/ Exit \/ GoOn \/ Again \/ Done

Spec == Init /\ [][Next]_vars

-----------------------------------------------------------------------------
(* What the summary makes of the files (load_pmu). Both files hold a line  *)
(* per launch in the order of the launches, and the last one counts.       *)

\* The mode a line's rep stands for.
ModeOf_FromZero(rep) == rep + 1
ModeOf(rep) == rep

Counts(rt, c, mode) ==
    Among(captured, {t \in Range(captured) :
                        t.rt = rt /\ t.thread = CaseThread(c) /\ t.mode = mode})
Instructions(rt, c, mode) ==
    Among(lines, {l \in Range(lines) :
                     l.rt = rt /\ l.case = c /\ l.ok /\ ModeOf(l.rep) = mode})

-----------------------------------------------------------------------------
\* A known crash costs no row, its own included: until its process dies of
\* something else every selected case has its line, in order, and a process
\* that ends with cases left was taken down by one that is not listed.
OnlyNewCrashesCostRows ==
    LET mine == Among(lines, {l \in Range(lines) : l.launch = <<runs, next>>})
        reported == [i \in DOMAIN mine |-> mine[i].case]
    IN  pc # "launch" =>
            /\ reported \o todo = Selection(Launch)
            /\ (pc = "ended" /\ todo # <<>>) => <<Launch.rt, Case>> \notin KnownCrashes

\* What is recorded with a case is that case's: a line that says ok has its
\* consensus result, when it has one ("A fast wrong answer is not a result",
\* cases.rs); "the peak is the case's own" (run_matrix.rs), no other case having
\* run in the process of a memory line; its instructions are its own, all of
\* them, in that process; and the PMU pass finds every unit of its work on a
\* thread of its name, also when the runtime moves it to one with more stack.
LinesAreTheCases ==
    /\ \A i \in DOMAIN lines :
        /\ (lines[i].ok /\ lines[i].case \in Referenced) => lines[i].result = "right"
        /\ plan[lines[i].launch[2]].part = "memory" => lines[i].peak \subseteq {lines[i].case}
        /\ \A unit \in lines[i].usage :
               unit.case = lines[i].case /\ unit.launch = lines[i].launch
        /\ lines[i].ok => lines[i].usage # {}
    /\ \A i \in DOMAIN captured : \A unit \in captured[i].units :
        captured[i].thread = CaseThread(unit.case)

\* "the denominator is the same capture's instruction count" (load_pmu): events
\* per instruction divide counts and instructions of one run of the case, if
\* the script was started once on its directory.
RatioOfOneCapture ==
    runs = 1 =>
        \A launch \in Range(plan), c \in CaseIds :
            LET counts == Counts(launch.rt, c, launch.rep)
                instructions == Instructions(launch.rt, c, launch.rep)
            IN  (launch.part = "pmu" /\ counts # <<>> /\ instructions # <<>>) =>
                    Last(counts).units = Last(instructions).usage
=============================================================================
