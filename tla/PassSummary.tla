----------------------------- MODULE PassSummary -----------------------------
(***************************************************************************)
(* The logs of a device pass and what load_device_logs                     *)
(* (scripts/summarize-pass.py) makes of them: one row per rep, runtime and *)
(* case.                                                                   *)
(*                                                                         *)
(* A label substring (a needle of WORKLOADS, WORKLOADS_EXCLUDE or          *)
(* HEAVY_ROWS) is represented by its number, and its matches by the set of *)
(* cases whose label contains it. A definition Name_Fault is Name with one *)
(* plausible mistake in it; no behaviour uses it.                          *)
(***************************************************************************)
EXTENDS Integers, Sequences, FiniteSets, SequencesExt, Lists

CONSTANTS
    Reps,          \* N: repetitions of the pass
    RuntimesList,  \* RUNTIMES_LIST, a sequence
    Split,         \* SPLIT_RUNTIMES: their heavy rows get launches of their own
    Catalog,       \* the app's cases, in catalog order
    Heavy          \* HEAVY_ROWS: Heavy[i] is the set of cases needle i matches

ASSUME RepsAssumption == Reps \in Nat
\* Each (rep, runtime) writes files of its own: a runtime is listed once.
ASSUME RuntimesAssumption ==
    RuntimesList \in Seq(Range(RuntimesList)) /\ IsInjective(RuntimesList)

Cases == Range(Catalog)
ASSUME CatalogAssumption == Catalog \in Seq(Cases)
ASSUME HeavyAssumption == Heavy \in Seq(SUBSET Cases)

Needles == DOMAIN Heavy

\* One launch of the app: the needles it asks for and those it leaves out.
\* part orders the log files of a (rep, runtime) by name: -h1, -h2, ..., then
\* the log without a suffix.
LaunchFor(rep, rt, part, want, leave) ==
    [rep |-> rep, rt |-> rt, part |-> part, want |-> want, leave |-> leave]

HeavyLeftOut_Forgotten == {}
HeavyLeftOut == Needles

LaunchesOf(rep, rt) ==
    IF rt \in Split
    THEN <<LaunchFor(rep, rt, Len(Heavy) + 1, {}, HeavyLeftOut)>>
            \o [i \in Needles |-> LaunchFor(rep, rt, i, {i}, {})]
    ELSE <<LaunchFor(rep, rt, Len(Heavy) + 1, {}, {})>>

\* The whole pass: runtimes in list order within each rep.
Launches ==
    FlattenSeq([rep \in 1..Reps |->
        FlattenSeq([i \in DOMAIN RuntimesList |-> LaunchesOf(rep, RuntimesList[i])])])

Matches(needles, c) == \E i \in needles : c \in Heavy[i]

\* The app's filter: some wanted needle, or none given, and no excluded one.
Covers(l, c) == (l.want = {} \/ Matches(l.want, c)) /\ ~Matches(l.leave, c)
Plan(l) == Among(Catalog, {c \in Cases : Covers(l, c)})

-----------------------------------------------------------------------------
(* A log: the filter line, the result lines, the completion marker, and    *)
(* devicectl's "App terminated due to signal N".                           *)

Signals == {"none", "os", "launcher"}   \* launcher: SIGTERM, its own terminate
Log == [header : BOOLEAN, rows : Seq(Cases), marker : BOOLEAN, signal : Signals]
EmptyLog == [header |-> FALSE, rows |-> <<>>, marker |-> FALSE, signal |-> "none"]

RowsIn(log) == {log.rows[i] : i \in DOMAIN log.rows}

-----------------------------------------------------------------------------
(* load_device_logs. logs[n] is the log of Launches[n].                    *)

Of(rep, rt) == {n \in DOMAIN Launches : Launches[n].rep = rep /\ Launches[n].rt = rt}
Seen(logs, rep, rt) == UNION {RowsIn(logs[n]) : n \in Of(rep, rt)}

\* signal 15 is the launcher's own terminate, not a kill.
Killed(logs, rep, rt) == {n \in Of(rep, rt) : logs[n].signal = "os"}

\* The needles are read back from the filter line the app printed.
LoggedNeedles(logs, n) == IF logs[n].header THEN Launches[n].want ELSE {}

\* The killed launches a missing row may be put down to: those whose filter
\* names it or, when there is none, the unfiltered ones.
Suspects_AnyKilled(logs, rep, rt, c) == Killed(logs, rep, rt)
Suspects(logs, rep, rt, c) ==
    LET naming == {n \in Killed(logs, rep, rt) : Matches(LoggedNeedles(logs, n), c)}
    IN  IF naming # {}
        THEN naming
        ELSE {n \in Killed(logs, rep, rt) : LoggedNeedles(logs, n) = {}}

\* who[0]: the first of them in the order of their file names.
FirstByName(ns) == CHOOSE n \in ns : \A m \in ns : Launches[n].part <= Launches[m].part

ResultRow(n, c) ==
    [rep |-> Launches[n].rep, rt |-> Launches[n].rt, case |-> c, kind |-> "result", launch |-> n]
ErrorRow(logs, rep, rt, c) ==
    LET ns == Suspects(logs, rep, rt, c)
    IN  [rep |-> rep, rt |-> rt, case |-> c,
         kind |-> IF ns = {} THEN "unreported" ELSE "killed",
         launch |-> IF ns = {} THEN 0 ELSE FirstByName(ns)]

\* The (rep, runtime) pairs that get rows at all.
Present(logs) ==
    {p \in (1..Reps) \X {RuntimesList[i] : i \in DOMAIN RuntimesList} :
        Seen(logs, p[1], p[2]) # {} \/ Killed(logs, p[1], p[2]) # {}}

ResultRows(logs) ==
    UNION {{ResultRow(n, c) : c \in RowsIn(logs[n])} : n \in DOMAIN Launches}
ErrorRows(logs) ==
    UNION {{ErrorRow(logs, p[1], p[2], c) : c \in Cases \ Seen(logs, p[1], p[2])} : p \in Present(logs)}

Summary(logs) == ResultRows(logs) \cup ErrorRows(logs)
=============================================================================
