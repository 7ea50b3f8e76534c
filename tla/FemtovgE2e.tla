----------------------------- MODULE FemtovgE2e -----------------------------
(***************************************************************************)
(* The femtovg end-to-end run: a wasm guest draws frames, the host copies  *)
(* the buffers out inside the fvg.render import, encodes and submits them  *)
(* to the GPU once fvg_frame has returned, waits for that submission and   *)
(* records the frame if the pass is the measured (last) one.               *)
(*                                                                         *)
(* Three parties act: the E2E thread (the driver, femtovg_e2e.rs), the     *)
(* guest it calls (femtovg-guest/src/lib.rs), which calls the imports back *)
(* on the same thread, and the GPU, which executes its queue in order and  *)
(* at its own pace. Its device may be lost at any moment.                  *)
(*                                                                         *)
(* A frame's data is a pair <<v, c>>: a vertex array and a command stream. *)
(* FNV-1a over their concatenation is represented by the pair itself, so   *)
(* equal hashes mean equal buffers.                                        *)
(*                                                                         *)
(* A definition Name_Fault is Name with one plausible mistake in it; no    *)
(* behaviour of the model uses it.                                         *)
(***************************************************************************)
EXTENDS Integers, Sequences, FiniteSets

CONSTANTS
    Frames,      \* cfg.frames: frames of one pass over the zoom schedule
    Passes,      \* cfg.passes as the caller gave it (0 is possible)
    Verts,       \* the vertex arrays a flush may carry
    Streams,     \* the command streams a flush may carry
    CountOf,     \* CountOf[c]: the command count in the second word of c
    MaxFlushes,  \* bound: flushes of one fvg_frame
    MaxPages     \* bound: linear-memory size, in pages

ASSUME FramesAssumption == Frames \in Nat
ASSUME PassesAssumption == Passes \in Nat
ASSUME CountAssumption == CountOf \in [Streams -> Nat]
ASSUME FlushAssumption == MaxFlushes \in Nat
ASSUME PagesAssumption == MaxPages \in Nat \ {0}

VARIABLES
    pc,         \* where the E2E thread stands
    host,       \* the HOST thread-local: NoHost or a HostState
    guest,      \* the instance: its buffers, its LAST_COMMANDS, its memory size
    pass,       \* the pass under way, from 1
    frame,      \* the frame of the pass under way, from 1
    queue,      \* work submitted to the GPU and not yet executed
    target,     \* what the offscreen texture shows
    lost,       \* the device is lost: what is queued will never execute
    frames,     \* FrameStats of the measured pass so far
    clock,      \* process CPU time: one tick per guest frame, encode, read-back
    cpuBefore,  \* the usage sample the measured pass starts from
    maxPages,   \* the running maximum of fvg_mem_pages
    cpu,        \* the CPU time charged to the measured pass
    pixels,     \* what the read-back returned
    report,     \* NoReport until the run succeeds
    \* What the guest handed over, kept for the properties alone:
    flushes,    \* the fvg.render calls of the frame under way
    drawn       \* what each encoded frame of the pass under way was made of

driver == <<pass, frame, frames, clock, cpuBefore, maxPages, cpu, pixels, report>>
ghosts == <<flushes, drawn>>
vars == <<pc, host, guest, queue, target, lost, driver, ghosts>>

-----------------------------------------------------------------------------
Buffers == Verts \X Streams
NoBuffers == <<>>
NoHost == [installed |-> FALSE]
NoReport == [done |-> FALSE]
NoUsage == -1

TotalPasses == IF Passes = 0 THEN 1 ELSE Passes
Measured == pass = TotalPasses

\* A frame's two spans are copied into the host separately, as in host_render.
HostState ==
    [installed : {TRUE}, sized : BOOLEAN, rendered : BOOLEAN,
     verts : Verts \cup {NoBuffers}, commands : Streams \cup {NoBuffers},
     hash : Buffers \cup {NoBuffers}]
FreshHost ==
    [installed |-> TRUE, sized |-> FALSE, rendered |-> FALSE,
     verts |-> NoBuffers, commands |-> NoBuffers, hash |-> NoBuffers]

GuestState ==
    [loaded : BOOLEAN, ready : BOOLEAN, buf : Buffers \cup {NoBuffers},
     last : Nat, pages : 0..MaxPages]
NoGuest == [loaded |-> FALSE, ready |-> FALSE, buf |-> NoBuffers, last |-> 0, pages |-> 0]
NewGuest == [loaded |-> TRUE, ready |-> FALSE, buf |-> NoBuffers, last |-> 0, pages |-> 1]

\* How many flushes the frame made, the last one the host took, whether it took
\* them all.
Flushes == [n : 0..MaxFlushes, last : Buffers \cup {NoBuffers}, whole : BOOLEAN]
NoFlushes == [n |-> 0, last |-> NoBuffers, whole |-> TRUE]
DrawnRecord == [buf : Buffers \cup {NoBuffers}, whole : BOOLEAN, shown : BOOLEAN]
FrameStats == [verts : Verts, commands : Nat, hash : Buffers]
Draw(b) == [kind |-> "draw", buf |-> b]
Copy == [kind |-> "copy", buf |-> NoBuffers]
Work == {Draw(b) : b \in Buffers} \cup {Copy}

Stages == {"gpu", "install", "instantiate", "init", "pages", "pass", "frame",
           "guest", "encode", "wait", "record", "pass_end", "usage", "copy",
           "map", "mapped", "recv", "png", "unwind", "uninstall", "ok", "err"}

-----------------------------------------------------------------------------
Init ==
    /\ pc = "gpu"
    /\ host = NoHost
    /\ guest = NoGuest
    /\ pass = 0 /\ frame = 0
    /\ queue = <<>>
    /\ target = NoBuffers
    /\ lost = FALSE
    /\ frames = <<>>
    /\ clock = 0 /\ cpuBefore = NoUsage
    /\ maxPages = 0
    /\ cpu = 0 /\ pixels = NoBuffers
    /\ report = NoReport
    /\ flushes = NoFlushes
    /\ drawn = <<>>

\* Any `?` or bail!: the locals are dropped in reverse order of declaration,
\* the guest first, then the Uninstall guard.
Bail_UninstallsFirst == pc' = "uninstall"
Bail == pc' = "unwind"

\* poll(Wait { submission, timeout: None }) returns: the submission waited for,
\* always the newest in the queue, has executed.
PollReturns_WithoutWaiting == TRUE
PollReturns == queue = <<>>

\* poll(wait_indefinitely) returns: everything submitted has executed.
PollAllReturns_WithoutWaiting == TRUE
PollAllReturns == queue = <<>>

AcquireGpu ==
    /\ pc = "gpu"
    /\ pc' \in {"install", "err"}
    /\ UNCHANGED <<host, guest, queue, target, lost, driver, ghosts>>

InstallHost ==
    /\ pc = "install"
    /\ host' = FreshHost
    /\ pc' = "instantiate"
    /\ UNCHANGED <<guest, queue, target, lost, driver, ghosts>>

InstantiateGuest ==
    /\ pc = "instantiate"
    /\ \/ /\ guest' = NewGuest
          /\ pc' = "init"
       \/ Bail /\ UNCHANGED guest
    /\ UNCHANGED <<host, queue, target, lost, driver, ghosts>>

\* with_host: a callback that finds no host state does nothing.
HostSetSize(h) == IF h.installed THEN [h EXCEPT !.sized = TRUE] ELSE h

\* fvg_init: parse the scene, create the canvas (which calls fvg.set_size),
\* store STATE. A negative result or a trap ends the run.
InitGuest ==
    /\ pc = "init"
    /\ \/ /\ host' = HostSetSize(host)
          /\ guest' = [guest EXCEPT !.ready = TRUE]
          /\ pc' = "pages"
       \/ Bail /\ UNCHANGED <<host, guest>>
    /\ UNCHANGED <<queue, target, lost, driver, ghosts>>

\* fvg_mem_pages before the first pass.
FirstMemPages ==
    /\ pc = "pages"
    /\ \/ /\ maxPages' = guest.pages
          /\ pc' = "pass"
       \/ Bail /\ UNCHANGED maxPages
    /\ UNCHANGED <<host, guest, queue, target, lost, pass, frame, frames, clock,
                   cpuBefore, cpu, pixels, report, ghosts>>

\* The usage sample of the pass numbered p: taken as the measured pass starts.
UsageBaseline_FirstPass(p) == IF p = 1 THEN clock ELSE cpuBefore
UsageBaseline(p) == IF p = TotalPasses THEN clock ELSE cpuBefore

StartPass ==
    /\ pc = "pass"
    /\ pass' = pass + 1
    /\ cpuBefore' = UsageBaseline(pass + 1)
    /\ frame' = 0
    /\ drawn' = <<>>
    /\ pc' = "frame"
    /\ UNCHANGED <<host, guest, queue, target, lost, frames, clock, maxPages, cpu,
                   pixels, report, flushes>>

\* The top of the frame loop: clear `rendered`, then call into the guest.
ClearRendered_Forgotten(h) == h
ClearRendered(h) == IF h.installed THEN [h EXCEPT !.rendered = FALSE] ELSE h

StartFrame ==
    /\ pc = "frame"
    /\ frame < Frames
    /\ frame' = frame + 1
    /\ host' = ClearRendered(host)
    /\ flushes' = NoFlushes
    /\ pc' = "guest"
    /\ UNCHANGED <<guest, queue, target, lost, pass, frames, clock, cpuBefore,
                   maxPages, cpu, pixels, report, drawn>>

EndFrames ==
    /\ pc = "frame"
    /\ frame = Frames
    /\ pc' = "pass_end"
    /\ UNCHANGED <<host, guest, queue, target, lost, driver, ghosts>>

-----------------------------------------------------------------------------
(* The guest inside fvg_frame.                                             *)

\* host_render: hash both spans, copy both out of linear memory, set the flag.
HostRender_FirstWins(h, b) ==
    IF h.installed /\ ~h.rendered
    THEN [h EXCEPT !.hash = b, !.verts = b[1], !.commands = b[2], !.rendered = TRUE]
    ELSE h
HostRender(h, b) ==
    IF h.installed
    THEN [h EXCEPT !.hash = b, !.verts = b[1], !.commands = b[2], !.rendered = TRUE]
    ELSE h

\* Linear memory never shrinks.
GuestGrow ==
    /\ pc = "guest"
    /\ guest.pages < MaxPages
    /\ guest' = [guest EXCEPT !.pages = @ + 1]
    /\ UNCHANGED <<pc, host, queue, target, lost, driver, ghosts>>

\* One canvas flush: WireSink::render stores LAST_COMMANDS and calls
\* fvg.render with its two spans. The binding ignores the call when a span is
\* outside linear memory (guest_span).
GuestFlush(v, c, inBounds) ==
    /\ pc = "guest"
    /\ guest.ready
    /\ flushes.n < MaxFlushes
    /\ guest' = [guest EXCEPT !.buf = <<v, c>>, !.last = CountOf[c]]
    /\ host' = IF inBounds THEN HostRender(host, <<v, c>>) ELSE host
    /\ flushes' = [n |-> flushes.n + 1,
                   last |-> IF inBounds THEN <<v, c>> ELSE flushes.last,
                   whole |-> flushes.whole /\ inBounds]
    /\ UNCHANGED <<pc, queue, target, lost, driver, drawn>>

\* fvg_frame returns: the flush's vectors are cleared or freed, so from here
\* on linear memory no longer holds the frame.
GuestReturn ==
    /\ pc = "guest"
    /\ guest' = [guest EXCEPT !.buf = NoBuffers]
    /\ clock' = clock + 1
    /\ IF guest.ready THEN pc' = "encode" ELSE Bail
    /\ UNCHANGED <<host, queue, target, lost, pass, frame, frames, cpuBefore,
                   maxPages, cpu, pixels, report, ghosts>>

GuestTrap ==
    /\ pc = "guest"
    /\ clock' = clock + 1
    /\ Bail
    /\ UNCHANGED <<host, guest, queue, target, lost, pass, frame, frames, cpuBefore,
                   maxPages, cpu, pixels, report, ghosts>>

-----------------------------------------------------------------------------
(* The driver after fvg_frame: encode, submit, wait, record.               *)

\* The replayer decodes and renders the copied buffers. It may fail to decode,
\* or produce no command buffer and then nothing is submitted.
EncodeFrame(submitted) ==
    /\ host.installed /\ host.rendered
    /\ drawn' = Append(drawn, [buf |-> flushes.last, whole |-> flushes.whole,
                              shown |-> submitted])
    /\ queue' = IF submitted
                THEN Append(queue, Draw(<<host.verts, host.commands>>))
                ELSE queue
    /\ pc' = IF submitted THEN "wait" ELSE "record"

Encode ==
    /\ pc = "encode"
    /\ clock' = clock + 1
    /\ \/ \E submitted \in BOOLEAN : EncodeFrame(submitted)
       \/ Bail /\ UNCHANGED <<queue, drawn>>
    /\ UNCHANGED <<host, guest, target, lost, pass, frame, frames, cpuBefore,
                   maxPages, cpu, pixels, report, flushes>>

\* The poll has no time-out: it returns once the submission has executed, and
\* fails only on a lost device (by an error, or by a panic of wgpu's, which
\* unwinds through the same drops).
WaitSubmission ==
    /\ pc = "wait"
    /\ \/ PollReturns /\ pc' = "record"
       \/ lost /\ Bail
    /\ UNCHANGED <<host, guest, queue, target, lost, driver, ghosts>>

RecordFrame ==
    /\ pc = "record"
    /\ frames' = IF Measured
                 THEN Append(frames, [verts |-> host.verts, commands |-> guest.last,
                                      hash |-> host.hash])
                 ELSE frames
    /\ pc' = "frame"
    /\ UNCHANGED <<host, guest, queue, target, lost, pass, frame, clock, cpuBefore,
                   maxPages, cpu, pixels, report, ghosts>>

\* fvg_mem_pages is asked once per pass, not once per frame.
PeakPages_AtInit == maxPages
PeakPages == IF guest.pages > maxPages THEN guest.pages ELSE maxPages

AfterPass == IF Measured THEN "usage" ELSE "pass"

EndPass ==
    /\ pc = "pass_end"
    /\ \/ /\ maxPages' = PeakPages
          /\ pc' = AfterPass
       \/ Bail /\ UNCHANGED maxPages
    /\ UNCHANGED <<host, guest, queue, target, lost, pass, frame, frames, clock,
                   cpuBefore, cpu, pixels, report, ghosts>>

-----------------------------------------------------------------------------
(* After the last pass: usage sample, read-back, report.                   *)

SampleUsage ==
    /\ pc = "usage"
    /\ cpu' = clock - cpuBefore
    /\ pc' = "copy"
    /\ UNCHANGED <<host, guest, queue, target, lost, pass, frame, frames, clock,
                   cpuBefore, maxPages, pixels, report, ghosts>>

SubmitCopy ==
    /\ pc = "copy"
    /\ clock' = clock + 1
    /\ \/ queue' = Append(queue, Copy) /\ pc' = "map"
       \/ lost /\ Bail /\ UNCHANGED queue
    /\ UNCHANGED <<host, guest, target, lost, pass, frame, frames, cpuBefore,
                   maxPages, cpu, pixels, report, ghosts>>

\* The map_async callback, which sends the result rx.recv() waits for, runs in a
\* poll that finds the copy executed, and nowhere else. No poll follows this one:
\* had it not run the callback, recv would block for ever.
AfterPoll == IF queue = <<>> THEN "mapped" ELSE "recv"

PollCopy ==
    /\ pc = "map"
    /\ \/ PollAllReturns /\ pc' = AfterPoll
       \/ lost /\ Bail
    /\ UNCHANGED <<host, guest, queue, target, lost, driver, ghosts>>

\* The result is received and the mapped range copied out.
ReadBack ==
    /\ pc = "mapped"
    /\ \/ pixels' = target /\ pc' = "png"
       \/ lost /\ Bail /\ UNCHANGED pixels
    /\ UNCHANGED <<host, guest, queue, target, lost, pass, frame, frames, clock,
                   cpuBefore, maxPages, cpu, report, ghosts>>

\* write_png, when asked for, may still fail; otherwise the report is built.
FinishReport ==
    /\ pc = "png"
    /\ report' \in {report,
                   [done |-> TRUE, cpu |-> cpu, texture |-> pixels,
                    frames |-> frames, maxPages |-> maxPages]}
    /\ Bail
    /\ UNCHANGED <<host, guest, queue, target, lost, pass, frame, frames, clock,
                   cpuBefore, maxPages, cpu, pixels, ghosts>>

DropGuest ==
    /\ pc = "unwind"
    /\ guest' = NoGuest
    /\ pc' = "uninstall"
    /\ UNCHANGED <<host, queue, target, lost, driver, ghosts>>

UninstallHost ==
    /\ pc = "uninstall"
    /\ host' = NoHost
    /\ pc' = IF report.done THEN "ok" ELSE "err"
    /\ UNCHANGED <<guest, queue, target, lost, driver, ghosts>>

-----------------------------------------------------------------------------
\* The GPU executes submissions in order, whenever it gets to them.
GpuExecute ==
    /\ ~lost
    /\ queue # <<>>
    /\ target' = IF Head(queue).kind = "draw" THEN Head(queue).buf ELSE target
    /\ queue' = Tail(queue)
    /\ UNCHANGED <<pc, host, guest, lost, driver, ghosts>>

\* The graphics driver resets or the system takes the device away, at any moment.
DeviceLost ==
    /\ ~lost
    /\ pc \notin {"gpu", "ok", "err"}
    /\ lost' = TRUE
    /\ UNCHANGED <<pc, host, guest, queue, target, driver, ghosts>>

Guest ==
    \/ GuestGrow
    \/ \E v \in Verts, c \in Streams, inBounds \in BOOLEAN : GuestFlush(v, c, inBounds)
    \/ GuestReturn
    \/ GuestTrap

Driver ==
    \/ AcquireGpu \/ InstallHost \/ InstantiateGuest \/ InitGuest \/ FirstMemPages
    \/ StartPass \/ StartFrame \/ EndFrames
    \/ Encode \/ WaitSubmission \/ RecordFrame \/ EndPass
    \/ SampleUsage \/ SubmitCopy \/ PollCopy \/ ReadBack \/ FinishReport
    \/ DropGuest \/ UninstallHost

\* The thread has been joined and the GPU will do nothing more. (A thread left
\* in recv for ever would stand still too: that is RunEnds' to find.)
Joined ==
    /\ pc \in {"ok", "err", "recv"}
    /\ queue = <<>> \/ lost
    /\ UNCHANGED vars

Next == Driver \/ Guest \/ GpuExecute \/ DeviceLost \/ Joined

Spec == Init /\ [][Next]_vars

\* The E2E thread goes on whenever it can, fvg_frame returns or traps (it draws
\* a finite display list), and the GPU gets through its queue unless the device
\* is lost. Nothing makes a device be lost.
Fairness ==
    /\ WF_vars(Driver)
    /\ WF_vars(GuestReturn \/ GuestTrap)
    /\ WF_vars(GpuExecute)

FairSpec == Spec /\ Fairness

-----------------------------------------------------------------------------
Report == [done : {TRUE}, cpu : Int, texture : Buffers \cup {NoBuffers},
           frames : Seq(FrameStats), maxPages : 0..MaxPages]

\* Every variable has its type (the E2E thread's locals, HostState, FrameStats).
TypeOK ==
    /\ pc \in Stages
    /\ host \in HostState \cup {NoHost}
    /\ guest \in GuestState
    /\ pass \in 0..TotalPasses
    /\ frame \in 0..Frames
    /\ queue \in Seq(Work)
    /\ target \in Buffers \cup {NoBuffers}
    /\ lost \in BOOLEAN
    /\ frames \in Seq(FrameStats)
    /\ clock \in Nat
    /\ cpuBefore \in Nat \cup {NoUsage}
    /\ maxPages \in 0..MaxPages
    /\ cpu \in Int
    /\ pixels \in Buffers \cup {NoBuffers}
    /\ report \in Report \cup {NoReport}
    /\ flushes \in Flushes
    /\ drawn \in Seq(DrawnRecord)

\* The import callbacks always find the host state: HOST is installed before
\* the guest exists and taken away only after it is gone, on every exit, and
\* nothing is left installed when the thread ends (run_e2e_on_this_thread,
\* Uninstall).
HostOutlivesGuest ==
    /\ guest.loaded => host.installed
    /\ pc \in {"ok", "err"} => ~host.installed

\* Guest CPU time never includes GPU work: while fvg_frame runs nothing
\* submitted earlier is still executing (docs/femtovg-e2e-abi.md).
GuestNeverOverlapsGpu == pc = "guest" => queue = <<>>

\* Recorded frame k carries the vertices and the hash of the last buffers the
\* guest flushed in frame k of the measured pass: never those of the frame
\* before, of the warmup pass, or of memory the guest has reused since.
FramesAreWhatTheGuestDrew ==
    Measured =>
        \A k \in 1..Len(frames) :
            /\ frames[k].hash = drawn[k].buf
            /\ frames[k].verts = drawn[k].buf[1]

\* The command count of a frame (LAST_COMMANDS, through the guest's return
\* value) belongs to the stream that was hashed, when no flush was refused.
CommandCountMatchesHash ==
    Measured =>
        \A k \in 1..Len(frames) :
            drawn[k].whole => frames[k].commands = CountOf[frames[k].hash[2]]

\* The texture read back shows the last frame of the report, and sampling
\* fvg_mem_pages once per pass still finds the peak of the run.
ReportIsOfTheRun ==
    report.done =>
        /\ (Frames > 0 /\ drawn[Frames].shown) => report.texture = report.frames[Frames].hash
        /\ guest.loaded => report.maxPages = guest.pages

\* A report has exactly one entry per frame of the schedule, and the CPU time
\* it states is that of those frames: their guest calls and their encodes.
ReportCoversMeasuredPass ==
    report.done =>
        /\ Len(report.frames) = Frames
        /\ report.cpu = 2 * Frames

\* The run ends. The driver blocks in three places, two polls without a time-out
\* and a recv (femtovg_e2e.rs:506, 391, 392), and none has a way out while the
\* device is there but the execution of what was submitted: it never waits for
\* work that was not submitted or for a callback that no poll will run.
RunEnds == <>(pc \in {"ok", "err"})

=============================================================================
