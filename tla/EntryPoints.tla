---------------------------- MODULE EntryPoints ----------------------------
(***************************************************************************)
(* The C interface (lib.rs) and its callers: the app, whose main thread    *)
(* initializes the runtimes and whose worker then calls one entry point    *)
(* after another, and the test binaries, whose threads come to WAMR by     *)
(* themselves. A report or a femtovg line carries a C string that belongs  *)
(* to whoever was handed it.                                               *)
(***************************************************************************)
EXTENDS WamrInit, CaseTable

CONSTANTS
    Main, Worker,  \* the app's threads, see ThreadsAssumption
    Strings,       \* the addresses CString::into_raw may return
    NULL

ASSUME ThreadsAssumption == {Main, Worker} \subseteq Threads /\ Main # Worker
ASSUME NullAssumption == NULL \notin Strings

VARIABLES
    program,   \* "app" or "tests"
    running,   \* the app's: a run is under way
    at,        \* where a thread is in its call
    call,      \* the entry point
    outcome,   \* what the runner came to: "right", "wrong" or "failed"
    report,    \* the BenchReport, or the line, the caller holds
    live,      \* the C strings allocated and not freed
    shown      \* the result on its way to the screen or the log
entry == <<program, running, at, call, outcome, report, live, shown>>
vars == <<wamr, entry>>

\* Every argument bench_run_case and bench_femtovg_e2e tell apart.
Cases == {bench_run_case(rt, c) : rt \in RUNTIMES \cup {"unknown"},
                                  c \in CASES \cup {"unknown", "null"}}
Scenes == {Row(rt, "fvg", IF rt = "unknown" THEN "none" ELSE "run_e2e", FALSE, FALSE) :
              rt \in RUNTIMES \cup {"unknown"}}
Calls == Functions \cup Cases \cup Scenes

NoReport == [ok |-> FALSE, text |-> NULL]
NoRow == Row("none", "none", "none", FALSE, FALSE)
Nothing == [call |-> NoRow, outcome |-> "none", report |-> NoReport]

Init ==
    /\ WInit
    /\ program \in {"app", "tests"}
    /\ running = FALSE
    /\ at = [t \in Threads |-> "idle"]
    /\ call = NoRow /\ outcome = "none" /\ report = NoReport
    /\ live = {} /\ shown = Nothing

-----------------------------------------------------------------------------
RunAll_NoInit ==
    /\ program = "app" /\ ~running
    /\ running' = TRUE
    /\ at' = [at EXCEPT ![Worker] = "row"]
    /\ UNCHANGED <<wamr, program, call, outcome, report, live, shown>>
\* onAppear or the button: bench_init_wamr on the main thread, then the worker.
RunAll ==
    /\ program = "app" /\ ~running
    /\ running' = TRUE
    /\ at' = [at EXCEPT ![Main] = "init"]
    /\ Begin(Main, "init")
    /\ UNCHANGED <<program, call, outcome, report, live, shown>>

\* The result of bench_init_wamr is logged and not acted upon.
Dispatch ==
    /\ at[Main] = "init"
    /\ Leave(Main)
    /\ at' = [at EXCEPT ![Main] = "idle", ![Worker] = "row"]
    /\ UNCHANGED <<program, running, call, outcome, report, live, shown>>

EndRun ==
    /\ at[Worker] = "row"
    /\ at' = [at EXCEPT ![Worker] = "idle"]
    /\ running' = FALSE
    /\ UNCHANGED <<wamr, program, call, outcome, report, live, shown>>

Need(c) ==
    CASE c.runner = "run_graphql_validation_porf" -> "porf"
      [] c.runner = "run_e2e" -> "fvg"
      [] OTHER -> "plain"

Ran(c) == ~c.notRun /\ c.runner # "none"

\* A call that never gets to a runner.
Decline(c) ==
    /\ ~Ran(c)
    /\ at' = [at EXCEPT ![Worker] = "report"]
    /\ outcome' = "failed"
    /\ UNCHANGED wamr

EnterWamr(c) ==
    /\ Ran(c) /\ c.rt = "wamr"
    /\ Begin(Worker, Need(c))
    /\ at' = [at EXCEPT ![Worker] = "wamr"]
    /\ UNCHANGED outcome

EnterOther(c) ==
    /\ Ran(c) /\ c.rt # "wamr"
    /\ at' = [at EXCEPT ![Worker] = "run"]
    /\ UNCHANGED <<outcome, wamr>>

PickRow(c) ==
    /\ at[Worker] = "row"
    /\ call' = c
    /\ Decline(c) \/ EnterWamr(c) \/ EnterOther(c)
    /\ UNCHANGED <<program, running, report, live, shown>>

LeaveWamr ==
    /\ at[Worker] = "wamr"
    /\ Leave(Worker)
    /\ at' = [at EXCEPT ![Worker] = IF pc[Worker] = "loaded" THEN "run" ELSE "report"]
    /\ outcome' = IF pc[Worker] = "loaded" THEN outcome ELSE "failed"
    /\ UNCHANGED <<program, running, call, report, live, shown>>

RunRow ==
    /\ at[Worker] = "run"
    /\ outcome' \in {"right", "wrong", "failed"}
    /\ at' = [at EXCEPT ![Worker] = "report"]
    /\ UNCHANGED <<wamr, program, running, call, report, live, shown>>

-----------------------------------------------------------------------------
\* report_from_checked and run_case: a wrong result is an error.
Accepted(c, o) == o = "right" \/ (o = "wrong" /\ ~c.checked)

\* report_from: the text of an error leaves Rust's ownership here.
ReportFrom(c, o) ==
    IF Accepted(c, o)
    THEN report' = [ok |-> TRUE, text |-> NULL] /\ UNCHANGED live
    ELSE \E s \in Strings \ live :
            report' = [ok |-> FALSE, text |-> s] /\ live' = live \cup {s}

\* bench_femtovg_e2e: a line either way, or NULL for one with a NUL in it.
LineFrom(o) ==
    \/ report' = [ok |-> FALSE, text |-> NULL] /\ UNCHANGED live
    \/ \E s \in Strings \ live :
          report' = [ok |-> o # "failed", text |-> s] /\ live' = live \cup {s}

Report ==
    /\ at[Worker] = "report"
    /\ IF call \in Scenes THEN LineFrom(outcome) ELSE ReportFrom(call, outcome)
    /\ at' = [at EXCEPT ![Worker] = "format"]
    /\ UNCHANGED <<wamr, program, running, call, outcome, shown>>

\* formatReport frees the text of a failed report and clears the pointer in
\* the report that is stored; runFemtovgE2E copies its line and frees it.
Stored_Dangling(r) == r
Stored(r) == [r EXCEPT !.text = NULL]

Format ==
    /\ at[Worker] = "format"
    /\ live' = live \ {report.text}
    /\ shown' = IF call \in Scenes /\ report.text = NULL THEN shown
                ELSE [call |-> call, outcome |-> outcome, report |-> Stored(report)]
    /\ call' = NoRow /\ outcome' = "none" /\ report' = NoReport
    /\ at' = [at EXCEPT ![Worker] = "show"]
    /\ UNCHANGED <<wamr, program, running>>

\* The result is handed to the main queue, the line to stderr.
Show ==
    /\ at[Worker] = "show"
    /\ shown' = Nothing
    /\ at' = [at EXCEPT ![Worker] = "row"]
    /\ UNCHANGED <<wamr, program, running, call, outcome, report, live>>

-----------------------------------------------------------------------------
\* A test binary's thread: Module::from_wat and what it loads.
Test(t) ==
    /\ program = "tests"
    /\ Begin(t, "test")
    /\ UNCHANGED entry

TestEnds(t) ==
    /\ program = "tests"
    /\ Leave(t)
    /\ UNCHANGED entry

InWamr(t) == Proceed(t) /\ UNCHANGED entry

Working == Dispatch \/ LeaveWamr \/ RunRow \/ Report \/ Format \/ Show

Next ==
    \/ RunAll \/ EndRun \/ Working
    \/ \E c \in Calls : PickRow(c)
    \/ \E t \in Threads : InWamr(t) \/ Test(t) \/ TestEnds(t)

\* A runner comes back; when the next row or run begins is up to the caller.
Spec ==
    /\ Init /\ [][Next]_vars
    /\ WF_vars(Working)
    /\ \A t \in Threads : WF_vars(InWamr(t))

-----------------------------------------------------------------------------
\* "Must be called from the main thread before any worker thread tries to load
\* a module": in the app it is the main thread that sets WAMR up, however often
\* a run is started and whatever the worker calls.
MainInitsWamr == program = "app" => calledBy \in {Nobody, Main}

\* What is shown of a call is what the case table says of its case, also where
\* the call has a C function of its own; a case known to crash is never run.
RowsFollowTable ==
    /\ at[Worker] = "run" => <<call.rt, call.case>> \notin KNOWN_CRASHES
    /\ shown.call \in Functions \cup Cases /\ shown.call.case \in CASES =>
          (shown.report.ok <=>
              \/ shown.outcome = "right"
              \/ shown.outcome = "wrong" /\ shown.call.case \notin Referenced)

\* Every C string has one owner: the report being formatted while there is one,
\* and no result that is kept points at one.
StringsAreOwned ==
    /\ live = IF at[Worker] = "format" THEN {report.text} \ {NULL} ELSE {}
    /\ shown.report.text = NULL

\* Nobody waits for ever at a Once, and every call returns to its caller.
CallsReturn ==
    /\ \A t \in Threads : pc[t] = "call_once" ~> pc[t] \in {"loaded", "returned", "failed", "panicked"}
    /\ at[Worker] \in {"wamr", "run", "report", "format", "show"} ~> at[Worker] = "row"
=============================================================================
