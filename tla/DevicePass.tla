----------------------------- MODULE DevicePass -----------------------------
(***************************************************************************)
(* The iPhone measurement pass (scripts/run-device-pass.sh): one app       *)
(* launch after another, each watched through the console that devicectl   *)
(* copies into a log, ended when the completion marker arrives, the        *)
(* console goes away or time runs out, and retried when it gave nothing.   *)
(*                                                                         *)
(* Around the launcher: the app (AppConsole says what it writes), the      *)
(* system, which may kill or suspend it, and the device tunnel, which may  *)
(* drop and take with it what it has not delivered.                        *)
(*                                                                         *)
(* A definition Name_Fault is Name with one plausible mistake in it; no    *)
(* behaviour of the model uses it.                                         *)
(***************************************************************************)
EXTENDS PassSummary

CONSTANTS
    MaxPolls    \* MAX_WAIT_SECS / 3: polls of the log before giving up

ASSUME PollsAssumption == MaxPolls \in Nat

Attempts == 3

VARIABLES
    pc,        \* where the launcher stands
    n,         \* the launch under way: Launches[n]
    attempt,   \* its attempt, from 1
    polls,     \* polls of this attempt
    logs,      \* the log files
    app,       \* the app process: its state and the lines it has yet to write
    console,   \* devicectl is alive and streaming (lpid)
    pipe       \* lines on their way to the log

launcher == <<pc, n, attempt, polls>>
vars == <<launcher, logs, app, console, pipe>>

-----------------------------------------------------------------------------
Header == [kind |-> "header"]
RowLine(c) == [kind |-> "row", case |-> c]
Marker == [kind |-> "marker"]
SignalLine(s) == [kind |-> "signal", signal |-> s]

NoApp == [state |-> "none", todo |-> <<>>]
RowLines(l) == [i \in DOMAIN Plan(l) |-> RowLine(Plan(l)[i])]

\* What a run of the app writes (the promise of AppConsole, for one run).
Script_MarkerFirst(l) == <<Header, Marker>> \o RowLines(l)
Script(l) == <<Header>> \o RowLines(l) \o <<Marker>>
NewApp(l) == [state |-> "running", todo |-> Script(l)]

Written(log, line) ==
    CASE line.kind = "header" -> [log EXCEPT !.header = TRUE]
      [] line.kind = "row"    -> [log EXCEPT !.rows = Append(@, line.case)]
      [] line.kind = "marker" -> [log EXCEPT !.marker = TRUE]
      [] line.kind = "signal" -> [log EXCEPT !.signal = line.signal]

Init ==
    /\ pc = IF Launches = <<>> THEN "done" ELSE "launch"
    /\ n = 1 /\ attempt = 1 /\ polls = 0
    /\ logs = [k \in DOMAIN Launches |-> EmptyLog]
    /\ app = NoApp
    /\ console = FALSE
    /\ pipe = <<>>

-----------------------------------------------------------------------------
(* The launcher.                                                           *)

\* devicectl ... launch --console --terminate-existing > log: truncates the
\* log, ends an earlier process, starts the app; without a tunnel it fails.
Launch ==
    /\ pc = "launch"
    /\ logs' = [logs EXCEPT ![n] = EmptyLog]
    /\ polls' = 0
    /\ pipe' = <<>>
    /\ \/ app' = NewApp(Launches[n]) /\ console' = TRUE
       \/ app' = app /\ console' = FALSE
    /\ pc' = "poll"
    /\ UNCHANGED <<n, attempt>>

\* sleep 3, then look for the marker.
PollMarker ==
    /\ pc = "poll"
    /\ polls < MaxPolls
    /\ polls' = polls + 1
    /\ pc' = IF logs[n].marker THEN "stop" ELSE "alive"
    /\ UNCHANGED <<n, attempt, logs, app, console, pipe>>

\* kill -0: the launch ended without the marker.
PollAlive ==
    /\ pc = "alive"
    /\ pc' = IF console THEN "poll" ELSE "stop"
    /\ UNCHANGED <<n, attempt, polls, logs, app, console, pipe>>

TimeIsUp_WaitsForConsole == polls = MaxPolls /\ ~console
TimeIsUp == polls = MaxPolls

GiveUp ==
    /\ pc = "poll"
    /\ TimeIsUp
    /\ pc' = "stop"
    /\ UNCHANGED <<n, attempt, polls, logs, app, console, pipe>>

\* app_pid and terminate; without a tunnel the app is not found.
StopApp ==
    /\ pc = "stop"
    /\ \/ /\ app.state # "none"
          /\ app' = NoApp
          /\ pipe' = IF console THEN Append(pipe, SignalLine("launcher")) ELSE pipe
       \/ UNCHANGED <<app, pipe>>
    /\ pc' = "kill"
    /\ UNCHANGED <<n, attempt, polls, logs, console>>

\* kill and wait for devicectl: what it has not written is lost.
KillConsole == console' = FALSE /\ pipe' = <<>>

EndLaunch ==
    /\ pc = "kill"
    /\ KillConsole
    /\ pc' = "judge"
    /\ UNCHANGED <<n, attempt, polls, logs, app>>

\* Another attempt only for a launch that gave no result and was not killed.
WorthRetrying_DespiteRows == ~logs[n].marker /\ logs[n].signal = "none"
WorthRetrying == ~logs[n].marker /\ logs[n].rows = <<>> /\ logs[n].signal = "none"

AttemptsLeft == attempt < Attempts

Judge ==
    /\ pc = "judge"
    /\ IF WorthRetrying /\ AttemptsLeft
       THEN attempt' = attempt + 1 /\ n' = n /\ pc' = "launch"
       ELSE IF n < Len(Launches)
            THEN attempt' = 1 /\ n' = n + 1 /\ pc' = "launch"
            ELSE pc' = "done" /\ UNCHANGED <<attempt, n>>
    /\ UNCHANGED <<polls, logs, app, console, pipe>>

-----------------------------------------------------------------------------
(* The app, the system and the tunnel.                                     *)

\* The app writes its next line; nobody reads it when the console is gone.
AppWrite ==
    /\ app.state = "running"
    /\ app.todo # <<>>
    /\ app' = [app EXCEPT !.todo = Tail(@)]
    /\ pipe' = IF console THEN Append(pipe, Head(app.todo)) ELSE pipe
    /\ UNCHANGED <<launcher, logs, console>>

\* jetsam, or a crash of the runtime being measured.
OsKill ==
    /\ app.state # "none"
    /\ app' = NoApp
    /\ pipe' = IF console THEN Append(pipe, SignalLine("os")) ELSE pipe
    /\ UNCHANGED <<launcher, logs, console>>

\* Auto-lock: iOS suspends the app, which then stays on one row.
Suspend ==
    /\ app.state = "running"
    /\ app' = [app EXCEPT !.state = "suspended"]
    /\ UNCHANGED <<launcher, logs, console, pipe>>

Deliver ==
    /\ console
    /\ pipe # <<>>
    /\ logs' = [logs EXCEPT ![n] = Written(@, Head(pipe))]
    /\ pipe' = Tail(pipe)
    /\ UNCHANGED <<launcher, app, console>>

TunnelDrop ==
    /\ console
    /\ console' = FALSE
    /\ pipe' = <<>>
    /\ UNCHANGED <<launcher, logs, app>>

\* devicectl exits once the app is gone and everything is written.
ConsoleEnds ==
    /\ console
    /\ app.state = "none"
    /\ pipe = <<>>
    /\ console' = FALSE
    /\ UNCHANGED <<launcher, logs, app, pipe>>

Launcher ==
    \/ Launch \/ PollMarker \/ PollAlive \/ GiveUp
    \/ StopApp \/ EndLaunch \/ Judge
Device == AppWrite \/ OsKill \/ Suspend \/ Deliver \/ TunnelDrop \/ ConsoleEnds

Finished == pc = "done" /\ UNCHANGED vars

Next == Launcher \/ Device \/ Finished

Spec == Init /\ [][Next]_vars

\* The launcher is a shell loop whose commands return; nothing is assumed of
\* the device.
FairSpec == Spec /\ WF_vars(Launcher)

-----------------------------------------------------------------------------
\* A result line that has reached a log stays there: no retry overwrites it
\* and no later launch writes to the file (launch_once truncates its log); and
\* a launch whose app the system killed is a result, not a tunnel drop: it is
\* not tried again (run_launch).
RetriesLoseNothing ==
    [][\A k \in DOMAIN Launches :
          /\ RowsIn(logs[k]) \subseteq RowsIn(logs'[k])
          /\ logs[k].signal = "os" => logs'[k].signal = "os"]_vars

\* A log with the marker holds one result line for every case the launch was
\* to run and no other.
MarkerMeansComplete ==
    \A k \in DOMAIN Launches : logs[k].marker => logs[k].rows = Plan(Launches[k])

\* Splitting, excluding and retrying leave the summary of a (rep, runtime)
\* that reported anything with exactly one row per case.
EveryCaseOnce ==
    pc = "done" =>
        \A p \in Present(logs) : \A c \in Cases :
            Cardinality({r \in Summary(logs) :
                            r.rep = p[1] /\ r.rt = p[2] /\ r.case = c}) = 1

\* Rows an OS kill took away are shown as killed, not as merely missing; and
\* when the launches that were not killed completed and the killed ones got as
\* far as their filter line, a missing row is put down to a launch that was
\* to run it.
KillsAreExplained ==
    pc = "done" =>
        \A r \in Summary(logs) :
            /\ r.kind = "unreported" =>
                \A k \in Of(r.rep, r.rt) :
                    (logs[k].signal = "os" /\ logs[k].header) => ~Covers(Launches[k], r.case)
            /\ (/\ r.kind = "killed"
                /\ \A k \in Of(r.rep, r.rt) :
                       logs[k].marker \/ (logs[k].signal = "os" /\ logs[k].header))
               => Covers(Launches[r.launch], r.case)

\* As the header of run-device-pass.sh and run_launch's comment have it: a
\* launch without results is given up before the last attempt only if the
\* system killed it.
OnlyKillsStopRetries ==
    [][(pc = "judge" /\ pc' # "judge" /\ logs[n].rows = <<>> /\ ~logs[n].marker
            /\ attempt < Attempts /\ logs[n].signal # "os")
        => attempt' = attempt + 1]_vars

\* Whatever the device does, the pass comes to its end.
PassEnds == <>(pc = "done")
=============================================================================
