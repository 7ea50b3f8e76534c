----------------------------- MODULE AppConsole -----------------------------
(***************************************************************************)
(* What the benchmark app promises whoever reads its console, the launcher *)
(* scripts and summarize-pass.py: runs follow one another; a run opens     *)
(* with its header lines, gives one line per row in catalog order, and     *)
(* closes with the verdict over all of those rows and the completion       *)
(* marker, after which no line of that run appears.                        *)
(***************************************************************************)
EXTENDS Integers, Sequences

CONSTANTS
    Rows,       \* how many rows the filters leave (e2e: runtimes times scenes)
    Outcomes,   \* what a row may report
    MaxRuns     \* bound: runs of one process

VARIABLES
    e2e,        \* a FEMTOVG_E2E launch
    console,    \* the lines written to stderr
    reporting,  \* a run is under way
    run,        \* its number, from 1
    at          \* how many of its rows are behind it

vars == <<e2e, console, reporting, run, at>>

HeaderLine(r) == [kind |-> "header", run |-> r]
RowLine(r, i, o) == [kind |-> "row", run |-> r, row |-> i, outcome |-> o]
VerdictLine(r, s) == [kind |-> "verdict", run |-> r, over |-> s]
MarkerLine(r) == [kind |-> "marker", run |-> r]

\* The rows run r has put on console c, each with what it reported.
RowsOf(c, r) ==
    {[row |-> c[i].row, outcome |-> c[i].outcome] :
        i \in {j \in DOMAIN c : c[j].kind = "row" /\ c[j].run = r}}

Init ==
    /\ e2e \in BOOLEAN
    /\ console = <<>>
    /\ reporting = FALSE
    /\ run = 0
    /\ at = 0

Begin ==
    /\ ~reporting
    /\ run < MaxRuns
    /\ run' = run + 1
    /\ reporting' = TRUE
    /\ at' = 0
    /\ console' = Append(console, HeaderLine(run + 1))
    /\ UNCHANGED e2e

\* An E2E cell for which the library returns no text has no line.
Row ==
    /\ reporting
    /\ at < Rows
    /\ at' = at + 1
    /\ \/ \E o \in Outcomes : console' = Append(console, RowLine(run, at + 1, o))
       \/ e2e /\ console' = console
    /\ UNCHANGED <<e2e, reporting, run>>

Close ==
    /\ reporting
    /\ at = Rows
    /\ reporting' = FALSE
    /\ console' = IF e2e
                  THEN Append(console, MarkerLine(run))
                  ELSE console \o <<VerdictLine(run, RowsOf(console, run)), MarkerLine(run)>>
    /\ UNCHANGED <<e2e, run, at>>

Next == Begin \/ Row \/ Close

Spec == Init /\ [][Next]_vars
=============================================================================
