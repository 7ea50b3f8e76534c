-------------------------- MODULE FemtovgE2e_proofs --------------------------
(***************************************************************************)
(* Proofs about FemtovgE2e, for every number of frames and passes and      *)
(* every set of buffers.                                                   *)
(***************************************************************************)
EXTENDS FemtovgE2e, SequenceTheorems, TLAPS

NoHostStages == {"gpu", "install", "ok", "err"}
NoGuestStages == NoHostStages \cup {"instantiate", "uninstall"}
FrameStages == {"guest", "encode", "wait", "record"}

\* HOST is installed exactly while the driver is between its two ends, and the
\* guest lives strictly inside that span.
HostSpan ==
    /\ host.installed <=> pc \notin NoHostStages
    /\ pc \in NoGuestStages => ~guest.loaded

\* Where the pass and frame counters stand at each stage.
Counters ==
    /\ pc \in {"gpu", "install", "instantiate", "init", "pages", "pass"} => pass < TotalPasses
    /\ pc \in {"usage", "copy", "map", "mapped", "png"} => Measured
    /\ pc \in FrameStages => frame > 0

\* Once the flag is set, the three copies in the host state are of one flush:
\* the last one the host took.
CopiesAgree ==
    /\ (host.installed /\ host.rendered) =>
           /\ host.hash \in Buffers
           /\ host.hash = flushes.last
           /\ host.verts = host.hash[1]
           /\ host.commands = host.hash[2]
    /\ pc \in {"wait", "record"} => host.rendered

CoreInv == TypeOK /\ HostSpan /\ Counters /\ CopiesAgree

\* A run makes at least one pass, whatever it is asked for.
LEMMA TotalPassesPositive == TotalPasses \in Nat /\ TotalPasses > 0
  BY PassesAssumption DEF TotalPasses

USE FramesAssumption, PassesAssumption, CountAssumption, FlushAssumption,
    PagesAssumption

-----------------------------------------------------------------------------
(* What the record updates of the actions leave true.                      *)

\* A guest just instantiated is in a state of its type.
LEMMA FreshGuest == NewGuest \in GuestState
  BY DEF NewGuest, GuestState

\* The guest's updates keep its type and the fields they do not name.
LEMMA GuestUpdates ==
    ASSUME NEW g \in GuestState
    PROVE  /\ [g EXCEPT !.ready = TRUE] \in GuestState
           /\ g.pages < MaxPages => [g EXCEPT !.pages = @ + 1] \in GuestState
           /\ [g EXCEPT !.buf = NoBuffers] \in GuestState
           /\ \A b \in Buffers, n \in Nat : [g EXCEPT !.buf = b, !.last = n] \in GuestState
<1>1. [g EXCEPT !.ready = TRUE] \in GuestState
  BY DEF GuestState
<1>2. ASSUME g.pages < MaxPages
      PROVE  [g EXCEPT !.pages = @ + 1] \in GuestState
  BY <1>2 DEF GuestState
<1>3. [g EXCEPT !.buf = NoBuffers] \in GuestState
  BY DEF GuestState
<1>4. ASSUME NEW b \in Buffers, NEW n \in Nat
      PROVE  [g EXCEPT !.buf = b, !.last = n] \in GuestState
  BY DEF GuestState
<1> QED BY <1>1, <1>2, <1>3, <1>4

\* The host state's updates keep its type.
LEMMA HostUpdates ==
    ASSUME NEW h \in HostState
    PROVE  /\ h.installed
           /\ HostSetSize(h) \in HostState
           /\ ClearRendered(h) \in HostState /\ ~ClearRendered(h).rendered
           /\ \A b \in Buffers :
                 HostRender(h, b) \in HostState /\ HostRender(h, b).rendered
<1>1. h.installed
  BY DEF HostState
<1>2. HostSetSize(h) \in HostState
  BY DEF HostState, HostSetSize
<1>3. ClearRendered(h) \in HostState /\ ~ClearRendered(h).rendered
  BY <1>1 DEF HostState, ClearRendered
<1>4. ASSUME NEW b \in Buffers
      PROVE  HostRender(h, b) \in HostState /\ HostRender(h, b).rendered
  BY <1>1 DEF HostState, HostRender, Buffers
<1> QED BY <1>1, <1>2, <1>3, <1>4

\* set_size leaves what render copied alone.
LEMMA SetSizeKeepsCopies ==
    ASSUME NEW h \in HostState
    PROVE  /\ HostSetSize(h).rendered = h.rendered
           /\ HostSetSize(h).hash = h.hash
           /\ HostSetSize(h).verts = h.verts
           /\ HostSetSize(h).commands = h.commands
  BY DEF HostState, HostSetSize

\* render's buffers and counts come from the same call.
LEMMA RenderCopies ==
    ASSUME NEW h \in HostState, NEW b \in Buffers
    PROVE  /\ HostRender(h, b).hash = b
           /\ HostRender(h, b).verts = b[1]
           /\ HostRender(h, b).commands = b[2]
  BY DEF HostState, HostRender

\* While HOST is set it holds a host state.
LEMMA HostKnown == TypeOK /\ host.installed => host \in HostState
  BY DEF TypeOK, NoHost

\* The copy of the read-back is work the GPU can be given.
LEMMA CopyQueued == \A q \in Seq(Work) : Append(q, Copy) \in Seq(Work)
  BY DEF Work, Copy

-----------------------------------------------------------------------------
\* A run that has not begun satisfies the core invariant.
LEMMA CoreInit == Init => CoreInv
<1> SUFFICES ASSUME Init PROVE CoreInv
  OBVIOUS
<1>1. TypeOK
  <2>1. guest \in GuestState /\ flushes \in Flushes
    BY DEF Init, NoGuest, GuestState, NoBuffers, NoFlushes, Flushes
  <2>2. pc \in Stages /\ pass \in 0..TotalPasses
    BY TotalPassesPositive DEF Init, Stages
  <2>3. lost \in BOOLEAN
    BY DEF Init
  <2>4. queue \in Seq(Work) /\ frames \in Seq(FrameStats) /\ drawn \in Seq(DrawnRecord)
    BY DEF Init
  <2>5. frame \in 0..Frames /\ clock \in Nat /\ maxPages \in 0..MaxPages /\ cpu \in Int
    BY DEF Init
  <2>6. /\ host = NoHost /\ report = NoReport /\ cpuBefore = NoUsage
        /\ target = NoBuffers /\ pixels = NoBuffers
    BY DEF Init
  <2> QED BY <2>1, <2>2, <2>3, <2>4, <2>5, <2>6 DEF TypeOK
<1>2. HostSpan /\ Counters /\ CopiesAgree
  BY TotalPassesPositive
     DEF Init, HostSpan, Counters, CopiesAgree, NoHost, NoGuest, NoHostStages,
         NoGuestStages, FrameStages
<1> QED BY <1>1, <1>2 DEF CoreInv

\* Every step of the driver, the guest and the GPU keeps it.
LEMMA CoreStep == CoreInv /\ [Next]_vars => CoreInv'
<1> SUFFICES ASSUME CoreInv, [Next]_vars PROVE CoreInv'
  OBVIOUS
<1> USE DEF CoreInv, TypeOK, HostSpan, Counters, CopiesAgree, NoHostStages,
            NoGuestStages, FrameStages, Stages, driver, ghosts, Measured
<1> USE TotalPassesPositive
<1>1. CASE AcquireGpu
  BY <1>1 DEF AcquireGpu
<1>2. CASE InstallHost
  BY <1>2 DEF InstallHost, FreshHost, HostState
<1>3. CASE InstantiateGuest
  BY <1>3, FreshGuest DEF InstantiateGuest, Bail
<1>4. CASE InitGuest
  <2>1. host \in HostState
    BY <1>4, HostKnown DEF InitGuest
  <2>2. host' \in HostState /\ host'.installed /\ guest' \in GuestState
    BY <1>4, <2>1, HostUpdates, GuestUpdates DEF InitGuest, Bail
  <2> QED BY <1>4, <2>1, <2>2, SetSizeKeepsCopies DEF InitGuest, Bail
<1>5. CASE FirstMemPages
  BY <1>5 DEF FirstMemPages, GuestState, Bail
<1>6. CASE StartPass
  BY <1>6 DEF StartPass, UsageBaseline
<1>7. CASE StartFrame
  <2>1. host \in HostState
    BY <1>7, HostKnown DEF StartFrame
  <2>2. host' \in HostState /\ host'.installed /\ ~host'.rendered
    BY <1>7, <2>1, HostUpdates DEF StartFrame
  <2>3. flushes' \in Flushes
    BY <1>7 DEF StartFrame, NoFlushes, Flushes
  <2> QED BY <1>7, <2>2, <2>3 DEF StartFrame
<1>8. CASE EndFrames
  BY <1>8 DEF EndFrames
<1>9. CASE GuestGrow
  <2>1. guest' \in GuestState
    BY <1>9, GuestUpdates DEF GuestGrow
  <2> QED BY <1>9, <2>1 DEF GuestGrow
<1>10. ASSUME NEW v \in Verts, NEW c \in Streams, NEW inBounds \in BOOLEAN,
              GuestFlush(v, c, inBounds)
       PROVE  CoreInv'
  <2>1. host \in HostState
    BY <1>10, HostKnown DEF GuestFlush
  <2>2. <<v, c>> \in Buffers /\ CountOf[c] \in Nat
    BY DEF Buffers
  <2>3. host' \in HostState /\ host'.installed
    BY <1>10, <2>1, <2>2, HostUpdates DEF GuestFlush
  <2>4. guest' \in GuestState
    BY <1>10, <2>2, GuestUpdates DEF GuestFlush
  <2>5. flushes' \in Flushes
    BY <1>10, <2>2 DEF GuestFlush, Flushes
  <2>6. CASE inBounds
    <3>1. host' = HostRender(host, <<v, c>>) /\ flushes'.last = <<v, c>>
      BY <1>10, <2>6 DEF GuestFlush
    <3> QED BY <1>10, <2>1, <2>2, <2>3, <2>4, <2>5, <3>1, RenderCopies DEF GuestFlush
  <2>7. CASE ~inBounds
    <3>1. host' = host /\ flushes'.last = flushes.last
      BY <1>10, <2>7 DEF GuestFlush
    <3> QED BY <1>10, <2>3, <2>4, <2>5, <3>1 DEF GuestFlush
  <2> QED BY <2>6, <2>7
<1>11. CASE GuestReturn
  <2>1. guest' \in GuestState
    BY <1>11, GuestUpdates DEF GuestReturn
  <2> QED BY <1>11, <2>1 DEF GuestReturn, Bail
<1>12. CASE GuestTrap
  BY <1>12 DEF GuestTrap, Bail
<1>13. CASE Encode
  <2>1. ASSUME NEW submitted \in BOOLEAN, EncodeFrame(submitted)
        PROVE  CoreInv'
    <3>1. <<host.verts, host.commands>> \in Buffers
      BY <2>1 DEF EncodeFrame, Buffers
    <3>2. queue' \in Seq(Work)
      BY <2>1, <3>1 DEF EncodeFrame, Work
    <3>3. drawn' \in Seq(DrawnRecord)
      BY <2>1 DEF EncodeFrame, DrawnRecord, Flushes
    <3>4. pc' \in {"wait", "record"} /\ host.installed /\ host.rendered
      BY <2>1 DEF EncodeFrame
    <3>5. TypeOK'
      BY <1>13, <3>2, <3>3, <3>4 DEF Encode
    <3>6. HostSpan' /\ Counters' /\ CopiesAgree'
      BY <1>13, <3>4 DEF Encode
    <3> QED BY <3>5, <3>6
  <2>2. CASE Bail /\ UNCHANGED <<queue, drawn>>
    BY <1>13, <2>2 DEF Encode, Bail
  <2> QED BY <1>13, <2>1, <2>2 DEF Encode
<1>14. CASE WaitSubmission
  BY <1>14 DEF WaitSubmission, Bail, PollReturns
<1>15. CASE RecordFrame
  <2>1. host.verts \in Verts /\ host.hash \in Buffers /\ guest.last \in Nat
    BY <1>15 DEF RecordFrame, Buffers, GuestState
  <2>2. frames' \in Seq(FrameStats)
    <3>1. [verts |-> host.verts, commands |-> guest.last, hash |-> host.hash] \in FrameStats
      BY <2>1 DEF FrameStats
    <3> QED BY <1>15, <3>1 DEF RecordFrame
  <2> QED BY <1>15, <2>2 DEF RecordFrame
<1>16. CASE EndPass
  BY <1>16 DEF EndPass, PeakPages, AfterPass, GuestState, Bail
<1>17. CASE SampleUsage
  BY <1>17 DEF SampleUsage
<1>18. CASE SubmitCopy
  <2>1. queue' = queue \/ queue' = Append(queue, Copy)
    BY <1>18 DEF SubmitCopy
  <2>2. queue' \in Seq(Work)
    BY <2>1, CopyQueued
  <2>3. pc' \in {"map", "unwind"}
    BY <1>18 DEF SubmitCopy, Bail
  <2> QED BY <1>18, <2>2, <2>3 DEF SubmitCopy
<1>19. CASE ReadBack
  BY <1>19 DEF ReadBack, Bail
<1>20. CASE FinishReport
  <2>1. report' \in Report \cup {NoReport}
    <3>1. [done |-> TRUE, cpu |-> cpu, texture |-> pixels, frames |-> frames,
           maxPages |-> maxPages] \in Report
      BY DEF Report
    <3> QED BY <1>20, <3>1 DEF FinishReport
  <2> QED BY <1>20, <2>1 DEF FinishReport, Bail
<1>21. CASE DropGuest
  BY <1>21 DEF DropGuest, NoGuest, GuestState, NoBuffers
<1>22. CASE UninstallHost
  BY <1>22 DEF UninstallHost, NoHost
<1>23. CASE GpuExecute
  BY <1>23 DEF GpuExecute, Work, Draw, Copy
<1>24. CASE PollCopy
  BY <1>24 DEF PollCopy, PollAllReturns, AfterPoll, Bail
<1>25. CASE DeviceLost
  BY <1>25 DEF DeviceLost
<1>26. CASE UNCHANGED vars
  BY <1>26 DEF vars
<1> QED
  BY <1>1, <1>2, <1>3, <1>4, <1>5, <1>6, <1>7, <1>8, <1>9, <1>10, <1>11, <1>12,
     <1>13, <1>14, <1>15, <1>16, <1>17, <1>18, <1>19, <1>20, <1>21, <1>22, <1>23,
     <1>24, <1>25, <1>26 DEF Next, Driver, Guest, Joined

\* The types hold in every behaviour, for any passes, frames and buffers.
THEOREM TypeCorrect == Spec => []TypeOK
<1>1. Init => CoreInv
  BY CoreInit
<1>2. CoreInv /\ [Next]_vars => CoreInv'
  BY CoreStep
<1>3. CoreInv => TypeOK
  BY DEF CoreInv
<1> QED BY <1>1, <1>2, <1>3, PTL DEF Spec

\* So does the rest of the core invariant.
THEOREM CoreAlways == Spec => []CoreInv
<1> QED BY CoreInit, CoreStep, PTL DEF Spec

\* The import callbacks always find the host state.
THEOREM HostAlwaysOutlivesGuest == Spec => []HostOutlivesGuest
<1>1. CoreInv => HostOutlivesGuest
  BY DEF CoreInv, TypeOK, HostSpan, HostOutlivesGuest, NoGuestStages, NoHostStages, Stages
<1> QED BY <1>1, CoreAlways, PTL

-----------------------------------------------------------------------------
\* The GPU's queue is empty except between a submission and its wait, or once
\* the run has failed.
QueueIdle ==
    pc \notin {"wait", "map", "unwind", "uninstall", "ok", "err"} => queue = <<>>

\* Only the wait stages ever have a submission under way.
LEMMA QueueStep == CoreInv /\ QueueIdle /\ [Next]_vars => QueueIdle'
<1> SUFFICES ASSUME CoreInv, QueueIdle, [Next]_vars PROVE QueueIdle'
  OBVIOUS
<1> USE DEF QueueIdle
<1>1. CASE AcquireGpu
  BY <1>1 DEF AcquireGpu
<1>2. CASE InstallHost
  BY <1>2 DEF InstallHost
<1>3. CASE InstantiateGuest
  BY <1>3 DEF InstantiateGuest, Bail
<1>4. CASE InitGuest
  BY <1>4 DEF InitGuest, Bail
<1>5. CASE FirstMemPages
  BY <1>5 DEF FirstMemPages, Bail
<1>6. CASE StartPass
  BY <1>6 DEF StartPass, UsageBaseline
<1>7. CASE StartFrame
  BY <1>7 DEF StartFrame
<1>8. CASE EndFrames
  BY <1>8 DEF EndFrames
<1>9. CASE GuestGrow
  BY <1>9 DEF GuestGrow
<1>10. ASSUME NEW v \in Verts, NEW c \in Streams, NEW inBounds \in BOOLEAN,
              GuestFlush(v, c, inBounds)
       PROVE  QueueIdle'
  BY <1>10 DEF GuestFlush
<1>11. CASE GuestReturn
  BY <1>11 DEF GuestReturn, Bail
<1>12. CASE GuestTrap
  BY <1>12 DEF GuestTrap, Bail
<1>13. CASE Encode
  BY <1>13 DEF Encode, EncodeFrame, Bail
<1>14. CASE WaitSubmission
  BY <1>14 DEF WaitSubmission, Bail, PollReturns
<1>15. CASE RecordFrame
  BY <1>15 DEF RecordFrame
<1>16. CASE EndPass
  BY <1>16 DEF EndPass, AfterPass, Bail
<1>17. CASE SampleUsage
  BY <1>17 DEF SampleUsage
<1>18. CASE SubmitCopy
  BY <1>18 DEF SubmitCopy, Bail
<1>19. CASE ReadBack
  BY <1>19 DEF ReadBack, Bail
<1>20. CASE FinishReport
  BY <1>20 DEF FinishReport, Bail
<1>21. CASE DropGuest
  BY <1>21 DEF DropGuest
<1>22. CASE UninstallHost
  BY <1>22 DEF UninstallHost
<1>23. CASE GpuExecute
  BY <1>23 DEF GpuExecute
<1>24. CASE PollCopy
  BY <1>24 DEF PollCopy, PollAllReturns, AfterPoll, Bail
<1>25. CASE DeviceLost
  BY <1>25 DEF DeviceLost
<1>26. CASE UNCHANGED vars
  BY <1>26 DEF vars
<1> QED
  BY <1>1, <1>2, <1>3, <1>4, <1>5, <1>6, <1>7, <1>8, <1>9, <1>10, <1>11, <1>12,
     <1>13, <1>14, <1>15, <1>16, <1>17, <1>18, <1>19, <1>20, <1>21, <1>22, <1>23,
     <1>24, <1>25, <1>26 DEF Next, Driver, Guest, Joined

\* While fvg_frame runs the GPU has nothing of an earlier frame left to do.
THEOREM GuestAlwaysAlone == Spec => []GuestNeverOverlapsGpu
<1>1. Init => QueueIdle
  BY DEF Init, QueueIdle
<1>2. QueueIdle => GuestNeverOverlapsGpu
  BY DEF QueueIdle, GuestNeverOverlapsGpu
<1> QED BY <1>1, <1>2, CoreAlways, QueueStep, PTL DEF Spec

-----------------------------------------------------------------------------
AfterFrames == {"pass_end", "usage", "copy", "map", "mapped", "png"}

\* How far each list has got at each stage of the frame loop.
Lengths ==
    /\ pc = "frame" => Len(drawn) = frame
    /\ pc \in {"guest", "encode"} => Len(drawn) = frame - 1
    /\ pc \in {"wait", "record"} => Len(drawn) = frame
    /\ pc \in AfterFrames => frame = Frames /\ Len(drawn) = Frames
    /\ ~Measured => frames = <<>>
    /\ Measured =>
           /\ pc = "frame" => Len(frames) = frame
           /\ pc \in FrameStages => Len(frames) = frame - 1
           /\ pc \in AfterFrames => Len(frames) = Frames
           /\ Len(frames) <= Len(drawn)

\* The frame being encoded is the last one drawn, and its command count is
\* that of the stream in the host state.
UnderWay ==
    /\ pc \in {"wait", "record"} =>
           drawn[frame].buf = host.hash /\ drawn[frame].whole = flushes.whole
    /\ (pc \in FrameStages /\ host.rendered /\ flushes.whole) =>
           guest.last = CountOf[host.hash[2]]

\* The CPU clock since the measured pass began.
ClockRead ==
    /\ (Measured /\ pc = "frame") => clock = cpuBefore + 2 * frame
    /\ (Measured /\ pc = "guest") => clock = cpuBefore + 2 * frame - 2
    /\ (Measured /\ pc = "encode") => clock = cpuBefore + 2 * frame - 1
    /\ (Measured /\ pc \in {"wait", "record"}) => clock = cpuBefore + 2 * frame
    /\ (Measured /\ pc \in {"pass_end", "usage"}) => clock = cpuBefore + 2 * Frames
    /\ (Measured /\ pc \in FrameStages \cup {"frame", "pass_end", "usage"}) => cpuBefore \in Nat
    /\ pc \in {"copy", "map", "mapped", "png"} => cpu = 2 * Frames

FrameInv ==
    /\ Lengths
    /\ UnderWay
    /\ ClockRead
    /\ FramesAreWhatTheGuestDrew
    /\ CommandCountMatchesHash
    /\ ReportCoversMeasuredPass

\* The recorded frames of a pass are as many as the frames done.
LEMMA LengthsStep == CoreInv /\ Lengths /\ [Next]_vars => Lengths'
<1> SUFFICES ASSUME CoreInv, Lengths, [Next]_vars PROVE Lengths'
  OBVIOUS
<1> USE TotalPassesPositive DEF CoreInv, Lengths, Measured, AfterFrames, FrameStages, driver, ghosts, TypeOK, Counters
<1>1. CASE AcquireGpu
  BY <1>1 DEF AcquireGpu
<1>2. CASE InstallHost
  BY <1>2 DEF InstallHost
<1>3. CASE InstantiateGuest
  BY <1>3 DEF InstantiateGuest, Bail
<1>4. CASE InitGuest
  BY <1>4 DEF InitGuest, Bail
<1>5. CASE FirstMemPages
  BY <1>5 DEF FirstMemPages, Bail
<1>6. CASE StartPass
  BY <1>6 DEF StartPass, UsageBaseline
<1>7. CASE StartFrame
  BY <1>7 DEF StartFrame
<1>8. CASE EndFrames
  BY <1>8 DEF EndFrames
<1>9. CASE GuestGrow
  BY <1>9 DEF GuestGrow
<1>10. ASSUME NEW v \in Verts, NEW c \in Streams, NEW inBounds \in BOOLEAN,
              GuestFlush(v, c, inBounds)
       PROVE  Lengths'
  BY <1>10 DEF GuestFlush
<1>11. CASE GuestReturn
  BY <1>11 DEF GuestReturn, Bail
<1>12. CASE GuestTrap
  BY <1>12 DEF GuestTrap, Bail
<1>13. CASE Encode
  <2>1. CASE Bail /\ UNCHANGED <<queue, drawn>>
    BY <1>13, <2>1 DEF Encode, Bail
  <2>2. ASSUME NEW submitted \in BOOLEAN, EncodeFrame(submitted)
        PROVE  Lengths'
    <3>1. Len(drawn') = Len(drawn) + 1
      BY <2>2 DEF EncodeFrame
    <3>2. pc' \in {"wait", "record"}
      BY <2>2 DEF EncodeFrame
    <3> QED BY <1>13, <3>1, <3>2 DEF Encode
  <2> QED BY <1>13, <2>1, <2>2 DEF Encode
<1>14. CASE WaitSubmission
  BY <1>14 DEF WaitSubmission, Bail, PollReturns
<1>15. CASE RecordFrame
  BY <1>15 DEF RecordFrame
<1>16. CASE EndPass
  BY <1>16 DEF EndPass, AfterPass, Bail
<1>17. CASE SampleUsage
  BY <1>17 DEF SampleUsage
<1>18. CASE SubmitCopy
  BY <1>18 DEF SubmitCopy, Bail
<1>19. CASE ReadBack
  BY <1>19 DEF ReadBack, Bail
<1>20. CASE FinishReport
  BY <1>20 DEF FinishReport, Bail
<1>21. CASE DropGuest
  BY <1>21 DEF DropGuest
<1>22. CASE UninstallHost
  BY <1>22 DEF UninstallHost
<1>23. CASE GpuExecute
  BY <1>23 DEF GpuExecute
<1>24. CASE PollCopy
  BY <1>24 DEF PollCopy, PollAllReturns, AfterPoll, Bail
<1>25. CASE DeviceLost
  BY <1>25 DEF DeviceLost
<1>26. CASE UNCHANGED vars
  BY <1>26 DEF vars
<1> QED
  BY <1>1, <1>2, <1>3, <1>4, <1>5, <1>6, <1>7, <1>8, <1>9, <1>10, <1>11, <1>12,
     <1>13, <1>14, <1>15, <1>16, <1>17, <1>18, <1>19, <1>20, <1>21, <1>22, <1>23,
     <1>24, <1>25, <1>26 DEF Next, Driver, Guest, Joined

\* While the guest runs, the buffers of the host are its last flush.
LEMMA UnderWayStep == CoreInv /\ Lengths /\ UnderWay /\ [Next]_vars => UnderWay'
<1> SUFFICES ASSUME CoreInv, Lengths, UnderWay, [Next]_vars PROVE UnderWay'
  OBVIOUS
<1> USE TotalPassesPositive DEF UnderWay, FrameStages, driver, ghosts
<1>1. CASE AcquireGpu
  BY <1>1 DEF AcquireGpu
<1>2. CASE InstallHost
  BY <1>2 DEF InstallHost
<1>3. CASE InstantiateGuest
  BY <1>3 DEF InstantiateGuest, Bail
<1>4. CASE InitGuest
  BY <1>4 DEF InitGuest, Bail
<1>5. CASE FirstMemPages
  BY <1>5 DEF FirstMemPages, Bail
<1>6. CASE StartPass
  BY <1>6 DEF StartPass, UsageBaseline
<1>7. CASE StartFrame
  <2>1. ~host'.rendered
    BY <1>7, HostKnown, HostUpdates DEF StartFrame, CoreInv, HostSpan, NoHostStages
  <2> QED BY <1>7, <2>1 DEF StartFrame
<1>8. CASE EndFrames
  BY <1>8 DEF EndFrames
<1>9. CASE GuestGrow
  <2>1. guest'.last = guest.last
    BY <1>9 DEF GuestGrow, CoreInv, TypeOK, GuestState
  <2> QED BY <1>9, <2>1 DEF GuestGrow
<1>10. ASSUME NEW v \in Verts, NEW c \in Streams, NEW inBounds \in BOOLEAN,
              GuestFlush(v, c, inBounds)
       PROVE  UnderWay'
  <2>1. host \in HostState /\ guest \in GuestState /\ <<v, c>> \in Buffers
    BY <1>10, HostKnown DEF GuestFlush, CoreInv, TypeOK, HostSpan, NoHostStages, Buffers
  <2>2. CASE inBounds
    <3>1. host'.hash = <<v, c>>
      BY <1>10, <2>1, <2>2, RenderCopies DEF GuestFlush
    <3>2. guest'.last = CountOf[c]
      BY <1>10, <2>1 DEF GuestFlush, GuestState
    <3> QED BY <1>10, <3>1, <3>2 DEF GuestFlush
  <2>3. CASE ~inBounds
    BY <1>10, <2>3 DEF GuestFlush
  <2> QED BY <2>2, <2>3
<1>11. CASE GuestReturn
  <2>1. guest'.last = guest.last
    BY <1>11 DEF GuestReturn, CoreInv, TypeOK, GuestState
  <2> QED BY <1>11, <2>1 DEF GuestReturn, Bail
<1>12. CASE GuestTrap
  BY <1>12 DEF GuestTrap, Bail
<1>13. CASE Encode
  <2>1. Len(drawn) = frame - 1 /\ drawn \in Seq(DrawnRecord) /\ frame \in Nat
    BY <1>13 DEF Encode, Lengths, CoreInv, TypeOK
  <2>2. ASSUME NEW submitted \in BOOLEAN, EncodeFrame(submitted)
        PROVE  UnderWay'
    <3>1. drawn'[frame] = [buf |-> flushes.last, whole |-> flushes.whole, shown |-> submitted]
      BY <2>1, <2>2 DEF EncodeFrame
    <3>2. host.hash = flushes.last
      BY <2>2 DEF EncodeFrame, CoreInv, CopiesAgree
    <3>3. UNCHANGED <<host, guest, frame, flushes>> /\ pc = "encode" /\ pc' \in {"wait", "record"}
      BY <1>13, <2>2 DEF Encode, EncodeFrame
    <3>4. drawn'[frame].buf = host.hash /\ drawn'[frame].whole = flushes.whole
      BY <3>1, <3>2
    <3> QED BY <3>3, <3>4
  <2>3. CASE Bail /\ UNCHANGED <<queue, drawn>>
    BY <1>13, <2>3 DEF Encode, Bail
  <2> QED BY <1>13, <2>2, <2>3 DEF Encode
<1>14. CASE WaitSubmission
  BY <1>14 DEF WaitSubmission, Bail, PollReturns
<1>15. CASE RecordFrame
  BY <1>15 DEF RecordFrame
<1>16. CASE EndPass
  BY <1>16 DEF EndPass, AfterPass, Bail
<1>17. CASE SampleUsage
  BY <1>17 DEF SampleUsage
<1>18. CASE SubmitCopy
  BY <1>18 DEF SubmitCopy, Bail
<1>19. CASE ReadBack
  BY <1>19 DEF ReadBack, Bail
<1>20. CASE FinishReport
  BY <1>20 DEF FinishReport, Bail
<1>21. CASE DropGuest
  BY <1>21 DEF DropGuest
<1>22. CASE UninstallHost
  BY <1>22 DEF UninstallHost
<1>23. CASE GpuExecute
  BY <1>23 DEF GpuExecute
<1>24. CASE PollCopy
  BY <1>24 DEF PollCopy, PollAllReturns, AfterPoll, Bail
<1>25. CASE DeviceLost
  BY <1>25 DEF DeviceLost
<1>26. CASE UNCHANGED vars
  BY <1>26 DEF vars
<1> QED
  BY <1>1, <1>2, <1>3, <1>4, <1>5, <1>6, <1>7, <1>8, <1>9, <1>10, <1>11, <1>12,
     <1>13, <1>14, <1>15, <1>16, <1>17, <1>18, <1>19, <1>20, <1>21, <1>22, <1>23,
     <1>24, <1>25, <1>26 DEF Next, Driver, Guest, Joined

\* The clock and the counters are read where the measured pass begins.
LEMMA ClockStep == CoreInv /\ Lengths /\ ClockRead /\ [Next]_vars => ClockRead'
<1> SUFFICES ASSUME CoreInv, Lengths, ClockRead, [Next]_vars PROVE ClockRead'
  OBVIOUS
<1> USE TotalPassesPositive DEF CoreInv, Lengths, ClockRead, Measured, AfterFrames, FrameStages, driver, ghosts, TypeOK, Counters
<1>1. CASE AcquireGpu
  BY <1>1 DEF AcquireGpu
<1>2. CASE InstallHost
  BY <1>2 DEF InstallHost
<1>3. CASE InstantiateGuest
  BY <1>3 DEF InstantiateGuest, Bail
<1>4. CASE InitGuest
  BY <1>4 DEF InitGuest, Bail
<1>5. CASE FirstMemPages
  BY <1>5 DEF FirstMemPages, Bail
<1>6. CASE StartPass
  BY <1>6 DEF StartPass, UsageBaseline
<1>7. CASE StartFrame
  BY <1>7 DEF StartFrame
<1>8. CASE EndFrames
  BY <1>8 DEF EndFrames
<1>9. CASE GuestGrow
  BY <1>9 DEF GuestGrow
<1>10. ASSUME NEW v \in Verts, NEW c \in Streams, NEW inBounds \in BOOLEAN,
              GuestFlush(v, c, inBounds)
       PROVE  ClockRead'
  BY <1>10 DEF GuestFlush
<1>11. CASE GuestReturn
  <2>1. pc' \in {"encode", "unwind"} /\ clock' = clock + 1
    BY <1>11 DEF GuestReturn, Bail
  <2>2. UNCHANGED <<frame, pass, cpuBefore>>
    BY <1>11 DEF GuestReturn
  <2>3. Measured => clock = cpuBefore + 2 * frame - 2 /\ cpuBefore \in Nat
    BY <1>11 DEF GuestReturn
  <2>4. Measured => clock' = cpuBefore + 2 * frame - 1
    BY <2>1, <2>3
  <2> QED BY <2>1, <2>2, <2>3, <2>4
<1>12. CASE GuestTrap
  BY <1>12 DEF GuestTrap, Bail
<1>13. CASE Encode
  <2>1. pc' \in {"wait", "record", "unwind"} /\ clock' = clock + 1
    BY <1>13 DEF Encode, EncodeFrame, Bail
  <2>2. UNCHANGED <<frame, pass, cpuBefore>>
    BY <1>13 DEF Encode
  <2> QED BY <1>13, <2>1, <2>2 DEF Encode
<1>14. CASE WaitSubmission
  BY <1>14 DEF WaitSubmission, Bail, PollReturns
<1>15. CASE RecordFrame
  BY <1>15 DEF RecordFrame
<1>16. CASE EndPass
  BY <1>16 DEF EndPass, AfterPass, Bail
<1>17. CASE SampleUsage
  BY <1>17 DEF SampleUsage
<1>18. CASE SubmitCopy
  BY <1>18 DEF SubmitCopy, Bail
<1>19. CASE ReadBack
  BY <1>19 DEF ReadBack, Bail
<1>20. CASE FinishReport
  BY <1>20 DEF FinishReport, Bail
<1>21. CASE DropGuest
  BY <1>21 DEF DropGuest
<1>22. CASE UninstallHost
  BY <1>22 DEF UninstallHost
<1>23. CASE GpuExecute
  BY <1>23 DEF GpuExecute
<1>24. CASE PollCopy
  BY <1>24 DEF PollCopy, PollAllReturns, AfterPoll, Bail
<1>25. CASE DeviceLost
  BY <1>25 DEF DeviceLost
<1>26. CASE UNCHANGED vars
  BY <1>26 DEF vars
<1> QED
  BY <1>1, <1>2, <1>3, <1>4, <1>5, <1>6, <1>7, <1>8, <1>9, <1>10, <1>11, <1>12,
     <1>13, <1>14, <1>15, <1>16, <1>17, <1>18, <1>19, <1>20, <1>21, <1>22, <1>23,
     <1>24, <1>25, <1>26 DEF Next, Driver, Guest, Joined

DrawnAsRecorded == FramesAreWhatTheGuestDrew /\ CommandCountMatchesHash

\* A frame is recorded from the buffers it was drawn from.
LEMMA DrawnStep == CoreInv /\ Lengths /\ UnderWay /\ DrawnAsRecorded /\ [Next]_vars => DrawnAsRecorded'
<1> SUFFICES ASSUME CoreInv, Lengths, UnderWay, DrawnAsRecorded, [Next]_vars PROVE DrawnAsRecorded'
  OBVIOUS
<1> USE TotalPassesPositive DEF DrawnAsRecorded, FramesAreWhatTheGuestDrew, CommandCountMatchesHash,
            Measured, driver, ghosts
<1>1. CASE AcquireGpu
  BY <1>1 DEF AcquireGpu
<1>2. CASE InstallHost
  BY <1>2 DEF InstallHost
<1>3. CASE InstantiateGuest
  BY <1>3 DEF InstantiateGuest, Bail
<1>4. CASE InitGuest
  BY <1>4 DEF InitGuest, Bail
<1>5. CASE FirstMemPages
  BY <1>5 DEF FirstMemPages, Bail
<1>6. CASE StartPass
  <2>1. frames' = <<>>
    BY <1>6 DEF StartPass, CoreInv, TypeOK, Counters, Lengths
  <2> QED BY <2>1
<1>7. CASE StartFrame
  BY <1>7 DEF StartFrame
<1>8. CASE EndFrames
  BY <1>8 DEF EndFrames
<1>9. CASE GuestGrow
  BY <1>9 DEF GuestGrow
<1>10. ASSUME NEW v \in Verts, NEW c \in Streams, NEW inBounds \in BOOLEAN,
              GuestFlush(v, c, inBounds)
       PROVE  DrawnAsRecorded'
  BY <1>10 DEF GuestFlush
<1>11. CASE GuestReturn
  BY <1>11 DEF GuestReturn, Bail
<1>12. CASE GuestTrap
  BY <1>12 DEF GuestTrap, Bail
<1>13. CASE Encode
  <2>1. CASE Bail /\ UNCHANGED <<queue, drawn>>
    BY <1>13, <2>1 DEF Encode, Bail
  <2>2. ASSUME NEW submitted \in BOOLEAN, EncodeFrame(submitted)
        PROVE  DrawnAsRecorded'
    <3>1. \A k \in 1..Len(drawn) : drawn'[k] = drawn[k]
      BY <2>2 DEF EncodeFrame, CoreInv, TypeOK
    <3>2. Measured => Len(frames) <= Len(drawn)
      BY DEF Lengths
    <3>3. Len(frames) \in Nat /\ Len(drawn) \in Nat
      BY DEF CoreInv, TypeOK
    <3> QED BY <1>13, <3>1, <3>2, <3>3 DEF Encode
  <2> QED BY <1>13, <2>1, <2>2 DEF Encode
<1>14. CASE WaitSubmission
  BY <1>14 DEF WaitSubmission, Bail, PollReturns
<1>15. CASE RecordFrame
  <2> DEFINE entry == [verts |-> host.verts, commands |-> guest.last, hash |-> host.hash]
  <2>1. CASE ~Measured
    BY <1>15, <2>1 DEF RecordFrame
  <2>2. CASE Measured
    <3>1. frames' = Append(frames, entry) /\ Len(frames) = frame - 1 /\ frames \in Seq(FrameStats)
      BY <1>15, <2>2 DEF RecordFrame, Lengths, FrameStages, CoreInv, TypeOK
    <3>2. /\ Len(frames') = frame
          /\ frames'[frame] = entry
          /\ \A k \in 1..Len(frames) : frames'[k] = frames[k]
      BY <3>1 DEF CoreInv, TypeOK
    <3>3. host.hash = drawn[frame].buf /\ host.verts = host.hash[1]
      BY <1>15 DEF RecordFrame, UnderWay, CoreInv, CopiesAgree, HostSpan, NoHostStages
    <3>4. drawn[frame].whole => guest.last = CountOf[host.hash[2]]
      BY <1>15 DEF RecordFrame, UnderWay, FrameStages, CoreInv, CopiesAgree
    <3>5. \A k \in 1..Len(frames') : k = frame \/ k \in 1..Len(frames)
      BY <3>1, <3>2 DEF CoreInv, TypeOK
    <3> QED BY <1>15, <2>2, <3>2, <3>3, <3>4, <3>5 DEF RecordFrame
  <2> QED BY <2>1, <2>2
<1>16. CASE EndPass
  BY <1>16 DEF EndPass, AfterPass, Bail
<1>17. CASE SampleUsage
  BY <1>17 DEF SampleUsage
<1>18. CASE SubmitCopy
  BY <1>18 DEF SubmitCopy, Bail
<1>19. CASE ReadBack
  BY <1>19 DEF ReadBack, Bail
<1>20. CASE FinishReport
  BY <1>20 DEF FinishReport, Bail
<1>21. CASE DropGuest
  BY <1>21 DEF DropGuest
<1>22. CASE UninstallHost
  BY <1>22 DEF UninstallHost
<1>23. CASE GpuExecute
  BY <1>23 DEF GpuExecute
<1>24. CASE PollCopy
  BY <1>24 DEF PollCopy, PollAllReturns, AfterPoll, Bail
<1>25. CASE DeviceLost
  BY <1>25 DEF DeviceLost
<1>26. CASE UNCHANGED vars
  BY <1>26 DEF vars
<1> QED
  BY <1>1, <1>2, <1>3, <1>4, <1>5, <1>6, <1>7, <1>8, <1>9, <1>10, <1>11, <1>12,
     <1>13, <1>14, <1>15, <1>16, <1>17, <1>18, <1>19, <1>20, <1>21, <1>22, <1>23,
     <1>24, <1>25, <1>26 DEF Next, Driver, Guest, Joined

\* The report is made of the measured pass and of nothing else.
LEMMA ReportStep == CoreInv /\ Lengths /\ ClockRead /\ ReportCoversMeasuredPass /\ [Next]_vars => ReportCoversMeasuredPass'
<1> SUFFICES ASSUME CoreInv, Lengths, ClockRead, ReportCoversMeasuredPass, [Next]_vars PROVE ReportCoversMeasuredPass'
  OBVIOUS
<1> USE TotalPassesPositive DEF ReportCoversMeasuredPass, driver, ghosts
<1>1. CASE AcquireGpu
  BY <1>1 DEF AcquireGpu
<1>2. CASE InstallHost
  BY <1>2 DEF InstallHost
<1>3. CASE InstantiateGuest
  BY <1>3 DEF InstantiateGuest, Bail
<1>4. CASE InitGuest
  BY <1>4 DEF InitGuest, Bail
<1>5. CASE FirstMemPages
  BY <1>5 DEF FirstMemPages, Bail
<1>6. CASE StartPass
  BY <1>6 DEF StartPass, UsageBaseline
<1>7. CASE StartFrame
  BY <1>7 DEF StartFrame
<1>8. CASE EndFrames
  BY <1>8 DEF EndFrames
<1>9. CASE GuestGrow
  BY <1>9 DEF GuestGrow
<1>10. ASSUME NEW v \in Verts, NEW c \in Streams, NEW inBounds \in BOOLEAN,
              GuestFlush(v, c, inBounds)
       PROVE  ReportCoversMeasuredPass'
  BY <1>10 DEF GuestFlush
<1>11. CASE GuestReturn
  BY <1>11 DEF GuestReturn, Bail
<1>12. CASE GuestTrap
  BY <1>12 DEF GuestTrap, Bail
<1>13. CASE Encode
  BY <1>13 DEF Encode, EncodeFrame, Bail
<1>14. CASE WaitSubmission
  BY <1>14 DEF WaitSubmission, Bail, PollReturns
<1>15. CASE RecordFrame
  BY <1>15 DEF RecordFrame
<1>16. CASE EndPass
  BY <1>16 DEF EndPass, AfterPass, Bail
<1>17. CASE SampleUsage
  BY <1>17 DEF SampleUsage
<1>18. CASE SubmitCopy
  BY <1>18 DEF SubmitCopy, Bail
<1>19. CASE ReadBack
  BY <1>19 DEF ReadBack, Bail
<1>20. CASE FinishReport
  <2>1. cpu = 2 * Frames /\ Len(frames) = Frames
    BY <1>20 DEF FinishReport, Lengths, ClockRead, AfterFrames, CoreInv, Counters
  <2> QED BY <1>20, <2>1 DEF FinishReport
<1>21. CASE DropGuest
  BY <1>21 DEF DropGuest
<1>22. CASE UninstallHost
  BY <1>22 DEF UninstallHost
<1>23. CASE GpuExecute
  BY <1>23 DEF GpuExecute
<1>24. CASE PollCopy
  BY <1>24 DEF PollCopy, PollAllReturns, AfterPoll, Bail
<1>25. CASE DeviceLost
  BY <1>25 DEF DeviceLost
<1>26. CASE UNCHANGED vars
  BY <1>26 DEF vars
<1> QED
  BY <1>1, <1>2, <1>3, <1>4, <1>5, <1>6, <1>7, <1>8, <1>9, <1>10, <1>11, <1>12,
     <1>13, <1>14, <1>15, <1>16, <1>17, <1>18, <1>19, <1>20, <1>21, <1>22, <1>23,
     <1>24, <1>25, <1>26 DEF Next, Driver, Guest, Joined

\* The invariant of the frames holds in every behaviour.
THEOREM FrameInvAlways == Spec => []FrameInv
<1>1. Init => FrameInv
  BY TotalPassesPositive
     DEF Init, FrameInv, Lengths, UnderWay, ClockRead, FramesAreWhatTheGuestDrew,
         CommandCountMatchesHash, ReportCoversMeasuredPass, AfterFrames, FrameStages,
         Measured, NoReport
<1>2. CoreInv /\ FrameInv /\ [Next]_vars => FrameInv'
  BY LengthsStep, UnderWayStep, ClockStep, DrawnStep, ReportStep
     DEF FrameInv, DrawnAsRecorded
<1> QED BY <1>1, <1>2, CoreAlways, PTL DEF Spec

\* A recorded frame is made of the last buffers the guest flushed in it.
THEOREM FramesAlwaysDrawn == Spec => []FramesAreWhatTheGuestDrew
<1>1. FrameInv => FramesAreWhatTheGuestDrew
  BY DEF FrameInv
<1> QED BY <1>1, FrameInvAlways, PTL

\* Its command count belongs to the stream that was hashed.
THEOREM CommandCountsAlwaysMatch == Spec => []CommandCountMatchesHash
<1>1. FrameInv => CommandCountMatchesHash
  BY DEF FrameInv
<1> QED BY <1>1, FrameInvAlways, PTL

\* A report has one entry per frame and charges the measured pass alone.
THEOREM ReportAlwaysCovers == Spec => []ReportCoversMeasuredPass
<1>1. FrameInv => ReportCoversMeasuredPass
  BY DEF FrameInv
<1> QED BY <1>1, FrameInvAlways, PTL

-----------------------------------------------------------------------------
(* The texture and the pages of a report.                                  *)

SettledStages == {"frame", "guest", "encode", "record", "pass_end", "usage", "copy"}
ReportStages == {"unwind", "uninstall", "ok", "err"}

\* The last frame drawn in the pass under way, when it was submitted at all.
LastShown == drawn # <<>> /\ drawn[Len(drawn)].shown
LastBuffers == drawn[Len(drawn)].buf

\* Where the last frame is at each stage: on its way to the texture, on it, or
\* in what was read back.
OnTexture ==
    LastShown =>
        /\ pc \in SettledStages => target = LastBuffers
        /\ pc = "wait" => \/ queue = <<Draw(LastBuffers)>>
                          \/ queue = <<>> /\ target = LastBuffers
        /\ pc = "map" => queue \in {<<>>, <<Copy>>} /\ target = LastBuffers
        /\ pc = "mapped" => target = LastBuffers
        /\ pc = "png" => pixels = LastBuffers

\* Memory only grows, so the last time it is asked for finds the peak.
PagesSeen ==
    /\ pc \in {"pass", "frame", "pass_end"} \cup FrameStages => maxPages <= guest.pages
    /\ pc \in {"usage", "copy", "map", "mapped", "png"} => maxPages = guest.pages

\* A report holds what the read-back and the measured pass left, which nothing
\* changes while the run is wound up.
ReportKept ==
    report.done =>
        /\ pc \in ReportStages
        /\ Measured
        /\ report.frames = frames /\ Len(drawn) = Frames
        /\ LastShown => report.texture = LastBuffers
        /\ guest.loaded => report.maxPages = guest.pages

TextureInv == OnTexture /\ PagesSeen /\ ReportKept

\* A frame submitted is the one the last record of the pass is of.
LEMMA SubmittedIsLast ==
    ASSUME CoreInv, QueueIdle, pc = "encode", NEW submitted \in BOOLEAN, EncodeFrame(submitted)
    PROVE  LastShown' =>
              submitted /\ queue' = <<Draw(LastBuffers')>> /\ pc' = "wait"
<1>1. drawn \in Seq(DrawnRecord) BY DEF CoreInv, TypeOK
<1> DEFINE r == [buf |-> flushes.last, whole |-> flushes.whole, shown |-> submitted]
<1>2. drawn' = Append(drawn, r) BY DEF EncodeFrame
<1>3. drawn'[Len(drawn')] = r BY <1>1, <1>2
<1>4. LastBuffers' = flushes.last /\ (LastShown' => submitted)
  BY <1>3 DEF LastBuffers, LastShown
<1>5. host.hash \in Buffers /\ host.hash = flushes.last
      /\ host.verts = host.hash[1] /\ host.commands = host.hash[2]
  BY DEF EncodeFrame, CoreInv, CopiesAgree
<1>6. <<host.verts, host.commands>> = flushes.last BY <1>5 DEF Buffers
<1>7. queue = <<>> BY DEF QueueIdle
<1>8. submitted => queue' = Append(queue, Draw(flushes.last)) /\ pc' = "wait"
  BY <1>6 DEF EncodeFrame
<1>. QED BY <1>4, <1>7, <1>8

\* Every step of the driver, the guest and the GPU keeps the texture invariant.
LEMMA TextureStep ==
    CoreInv /\ QueueIdle /\ Lengths /\ TextureInv /\ [Next]_vars => TextureInv'
<1> SUFFICES ASSUME CoreInv, QueueIdle, Lengths, TextureInv, [Next]_vars PROVE TextureInv'
  OBVIOUS
<1> USE DEF driver, ghosts, SettledStages, ReportStages
<1>0. OnTexture /\ PagesSeen /\ ReportKept BY DEF TextureInv
<1>1. CASE AcquireGpu \/ InstallHost \/ InstantiateGuest \/ InitGuest
  <2>1. /\ pc \in {"gpu", "install", "instantiate", "init"}
        /\ pc' \in {"install", "instantiate", "init", "pages", "err", "unwind"}
        /\ UNCHANGED <<pass, frames, drawn, report>>
    BY <1>1 DEF AcquireGpu, InstallHost, InstantiateGuest, InitGuest, Bail
  <2>2. ~report.done BY <1>0, <2>1 DEF ReportKept
  <2>. QED BY <2>1, <2>2 DEF TextureInv, OnTexture, PagesSeen, ReportKept, FrameStages
<1>2. CASE FirstMemPages
  <2>1. /\ pc = "pages" /\ pc' \in {"pass", "unwind"} /\ (pc' = "pass" => maxPages' = guest.pages)
        /\ UNCHANGED <<guest, pass, frames, drawn, report>>
    BY <1>2 DEF FirstMemPages, Bail
  <2>2. ~report.done BY <1>0, <2>1 DEF ReportKept
  <2>3. guest.pages \in Nat BY DEF CoreInv, TypeOK, GuestState
  <2>. QED BY <2>1, <2>2, <2>3 DEF TextureInv, OnTexture, PagesSeen, ReportKept, FrameStages
<1>3. CASE StartPass
  <2>1. /\ pc = "pass" /\ pc' = "frame" /\ drawn' = <<>>
        /\ UNCHANGED <<guest, maxPages, report>>
    BY <1>3 DEF StartPass
  <2>2. ~report.done BY <1>0, <2>1 DEF ReportKept
  <2>3. ~LastShown' BY <2>1 DEF LastShown
  <2>. QED BY <1>0, <2>1, <2>2, <2>3 DEF TextureInv, OnTexture, PagesSeen, ReportKept, FrameStages
<1>4. CASE StartFrame \/ EndFrames \/ GuestTrap \/ RecordFrame \/ SampleUsage
  <2>1. /\ pc \in {"frame", "guest", "record", "usage"}
        /\ pc' \in {"guest", "pass_end", "unwind", "frame", "copy"}
        /\ (pc = "usage" <=> pc' = "copy")
        /\ UNCHANGED <<guest, queue, target, pass, maxPages, pixels, report, drawn>>
    BY <1>4 DEF StartFrame, EndFrames, GuestTrap, RecordFrame, SampleUsage, Bail
  <2>2. ~report.done BY <1>0, <2>1 DEF ReportKept
  <2>. QED BY <1>0, <2>1, <2>2
         DEF TextureInv, OnTexture, PagesSeen, ReportKept, FrameStages, LastShown, LastBuffers
<1>5. CASE GuestGrow \/ GuestReturn
          \/ \E v \in Verts, c \in Streams, inBounds \in BOOLEAN : GuestFlush(v, c, inBounds)
  <2>1. /\ pc = "guest" /\ pc' \in {"guest", "encode", "unwind"}
        /\ UNCHANGED <<queue, target, pass, maxPages, pixels, report, drawn>>
    BY <1>5 DEF GuestGrow, GuestReturn, GuestFlush, Bail
  <2>2. ~report.done BY <1>0, <2>1 DEF ReportKept
  <2>3. guest'.pages >= guest.pages /\ guest.pages \in Nat /\ guest'.pages \in Nat
    <3>1. guest \in GuestState BY DEF CoreInv, TypeOK
    <3>2. CASE GuestGrow BY <3>1, <3>2 DEF GuestGrow, GuestState
    <3>3. CASE GuestReturn BY <3>1, <3>3 DEF GuestReturn, GuestState
    <3>4. ASSUME NEW v \in Verts, NEW c \in Streams, NEW inBounds \in BOOLEAN,
                 GuestFlush(v, c, inBounds)
          PROVE  guest'.pages = guest.pages
      BY <3>1, <3>4 DEF GuestFlush, GuestState
    <3>5. guest.pages \in Nat BY <3>1 DEF GuestState
    <3>. QED BY <1>5, <3>2, <3>3, <3>4, <3>5
  <2>4. maxPages \in Nat BY DEF CoreInv, TypeOK
  <2>. QED BY <1>0, <2>1, <2>2, <2>3, <2>4
         DEF TextureInv, OnTexture, PagesSeen, ReportKept, FrameStages, LastShown, LastBuffers
<1>6. CASE Encode
  <2>1. pc = "encode" /\ UNCHANGED <<guest, target, pass, maxPages, pixels, report>>
    BY <1>6 DEF Encode
  <2>2. ~report.done BY <1>0, <2>1 DEF ReportKept
  <2>3. CASE Bail
    <3>1. pc' = "unwind" BY <2>3 DEF Bail
    <3>. QED BY <2>1, <2>2, <3>1
           DEF TextureInv, OnTexture, PagesSeen, ReportKept, FrameStages
  <2>4. ASSUME NEW submitted \in BOOLEAN, EncodeFrame(submitted)
        PROVE  TextureInv'
    <3>1. LastShown' => queue' = <<Draw(LastBuffers')>> /\ pc' = "wait"
      BY <2>1, <2>4, SubmittedIsLast
    <3>2. pc' \in {"wait", "record"} BY <2>4 DEF EncodeFrame
    <3>3. OnTexture' BY <3>1, <3>2 DEF OnTexture
    <3>. QED BY <1>0, <2>1, <2>2, <3>2, <3>3 DEF TextureInv, PagesSeen, ReportKept, FrameStages
  <2>. QED BY <1>6, <2>3, <2>4 DEF Encode
<1>7. CASE WaitSubmission
  <2>1. /\ pc = "wait" /\ ((pc' = "record" /\ queue = <<>>) \/ pc' = "unwind")
        /\ UNCHANGED <<guest, queue, target, pass, maxPages, pixels, report, drawn>>
    BY <1>7 DEF WaitSubmission, PollReturns, Bail
  <2>2. ~report.done BY <1>0, <2>1 DEF ReportKept
  <2>3. <<Draw(LastBuffers)>> # <<>> OBVIOUS
  <2>. QED BY <1>0, <2>1, <2>2, <2>3
         DEF TextureInv, OnTexture, PagesSeen, ReportKept, FrameStages, LastShown, LastBuffers
<1>8. CASE EndPass
  <2>1. /\ pc = "pass_end"
        /\ (pc' \in {"usage", "pass"} /\ maxPages' = PeakPages) \/ pc' = "unwind"
        /\ UNCHANGED <<guest, queue, target, pass, pixels, report, drawn>>
    BY <1>8 DEF EndPass, AfterPass, Bail
  <2>2. ~report.done BY <1>0, <2>1 DEF ReportKept
  <2>3. guest.pages \in Nat /\ maxPages \in Nat BY DEF CoreInv, TypeOK, GuestState
  <2>4. PeakPages = guest.pages BY <1>0, <2>1, <2>3 DEF PagesSeen, PeakPages
  <2>. QED BY <1>0, <2>1, <2>2, <2>3, <2>4
         DEF TextureInv, OnTexture, PagesSeen, ReportKept, FrameStages, LastShown, LastBuffers
<1>9. CASE SubmitCopy
  <2>1. /\ pc = "copy" /\ ((pc' = "map" /\ queue' = Append(queue, Copy)) \/ pc' = "unwind")
        /\ UNCHANGED <<guest, target, pass, maxPages, pixels, report, drawn>>
    BY <1>9 DEF SubmitCopy, Bail
  <2>2. ~report.done BY <1>0, <2>1 DEF ReportKept
  <2>3. pc' = "map" => queue' = <<Copy>> BY <2>1 DEF QueueIdle
  <2>. QED BY <1>0, <2>1, <2>2, <2>3
         DEF TextureInv, OnTexture, PagesSeen, ReportKept, FrameStages, LastShown, LastBuffers
<1>10. CASE ReadBack
  <2>1. /\ pc = "mapped" /\ ((pc' = "png" /\ pixels' = target) \/ pc' = "unwind")
        /\ UNCHANGED <<guest, queue, target, pass, maxPages, report, drawn>>
    BY <1>10 DEF ReadBack, Bail
  <2>2. ~report.done BY <1>0, <2>1 DEF ReportKept
  <2>. QED BY <1>0, <2>1, <2>2
         DEF TextureInv, OnTexture, PagesSeen, ReportKept, FrameStages, LastShown, LastBuffers
<1>11. CASE FinishReport
  <2>1. /\ pc = "png" /\ pc' = "unwind"
        /\ UNCHANGED <<guest, queue, target, pass, frames, maxPages, pixels, drawn>>
    BY <1>11 DEF FinishReport, Bail
  <2>2. ~report.done BY <1>0, <2>1 DEF ReportKept
  <2>3. Measured /\ Len(drawn) = Frames
    BY <2>1 DEF CoreInv, Counters, Lengths, AfterFrames
  <2>4. \/ report' = report
        \/ report'.texture = pixels /\ report'.frames = frames /\ report'.maxPages = maxPages
    BY <1>11 DEF FinishReport
  <2>5. ReportKept'
    BY <1>0, <2>1, <2>2, <2>3, <2>4
    DEF ReportKept, OnTexture, PagesSeen, LastShown, LastBuffers, Measured
  <2>. QED BY <2>1, <2>5 DEF TextureInv, OnTexture, PagesSeen, FrameStages
<1>12. CASE DropGuest \/ UninstallHost
  <2>1. /\ pc \in ReportStages /\ pc' \in ReportStages
        /\ ~guest'.loaded \/ guest' = guest
        /\ UNCHANGED <<pass, frames, drawn, report>>
    BY <1>12 DEF DropGuest, UninstallHost, NoGuest
  <2>2. ReportKept'
    BY <1>0, <2>1 DEF ReportKept, LastShown, LastBuffers, Measured
  <2>. QED BY <2>1, <2>2 DEF TextureInv, OnTexture, PagesSeen, FrameStages
<1>13. CASE GpuExecute
  <2>1. /\ queue # <<>> /\ queue' = Tail(queue)
        /\ target' = IF Head(queue).kind = "draw" THEN Head(queue).buf ELSE target
        /\ UNCHANGED <<pc, guest, pass, frames, maxPages, pixels, report, drawn>>
    BY <1>13 DEF GpuExecute
  <2>2. pc \in {"wait", "map"} \cup ReportStages
    BY <2>1 DEF QueueIdle
  <2>3. LastShown' = LastShown /\ LastBuffers' = LastBuffers
    BY <2>1 DEF LastShown, LastBuffers
  <2>4. OnTexture'
    <3>1. CASE pc = "wait" /\ LastShown
      <4>1. queue = <<Draw(LastBuffers)>> BY <1>0, <2>1, <3>1 DEF OnTexture
      <4>2. queue' = <<>> /\ target' = LastBuffers BY <2>1, <4>1 DEF Draw
      <4>. QED BY <2>1, <2>3, <3>1, <4>2 DEF OnTexture
    <3>2. CASE pc = "map" /\ LastShown
      <4>1. queue = <<Copy>> /\ target = LastBuffers BY <1>0, <2>1, <3>2 DEF OnTexture
      <4>2. queue' = <<>> /\ target' = LastBuffers BY <2>1, <4>1 DEF Copy
      <4>. QED BY <2>1, <2>3, <3>2, <4>2 DEF OnTexture
    <3>3. CASE pc \in ReportStages \/ ~LastShown
      BY <2>1, <2>3, <3>3 DEF OnTexture
    <3>. QED BY <2>2, <3>1, <3>2, <3>3
  <2>5. PagesSeen' BY <1>0, <2>1 DEF PagesSeen
  <2>6. ReportKept' BY <1>0, <2>1 DEF ReportKept, LastShown, LastBuffers, Measured
  <2>. QED BY <2>4, <2>5, <2>6 DEF TextureInv
<1>14. CASE PollCopy
  <2>1. /\ pc = "map" /\ pc' \in {"mapped", "unwind"}
        /\ UNCHANGED <<guest, queue, target, pass, maxPages, pixels, report, drawn>>
    BY <1>14 DEF PollCopy, PollAllReturns, AfterPoll, Bail
  <2>2. ~report.done BY <1>0, <2>1 DEF ReportKept
  <2>. QED BY <1>0, <2>1, <2>2
         DEF TextureInv, OnTexture, PagesSeen, ReportKept, FrameStages, LastShown, LastBuffers
<1>15. CASE UNCHANGED vars \/ DeviceLost
  <2>1. UNCHANGED <<pc, guest, queue, target, pass, frames, maxPages, pixels, report, drawn>>
    BY <1>15 DEF vars, DeviceLost
  <2>. QED BY <1>0, <2>1
         DEF TextureInv, OnTexture, PagesSeen, ReportKept, LastShown, LastBuffers, Measured
<1> QED
  BY <1>1, <1>2, <1>3, <1>4, <1>5, <1>6, <1>7, <1>8, <1>9, <1>10, <1>11, <1>12, <1>13, <1>14, <1>15
  DEF Next, Driver, Guest, Joined

\* The texture read back is the last frame of the report and the pages are the
\* peak of the run, whatever the pace of the GPU and the growth of the memory.
THEOREM ReportAlwaysOfTheRun == Spec => []ReportIsOfTheRun
<1>1. Init => QueueIdle
  BY DEF Init, QueueIdle
<1>2. Init => TextureInv
  <2>. SUFFICES ASSUME Init PROVE TextureInv OBVIOUS
  <2>1. ~report.done /\ drawn = <<>> /\ pc = "gpu" BY DEF Init, NoReport
  <2>. QED BY <2>1 DEF TextureInv, OnTexture, PagesSeen, ReportKept, LastShown, FrameStages
<1>3. FrameInv => Lengths /\ FramesAreWhatTheGuestDrew
  BY DEF FrameInv
<1>4. CoreInv /\ Lengths /\ FramesAreWhatTheGuestDrew /\ ReportCoversMeasuredPass /\ TextureInv => ReportIsOfTheRun
  <2>. SUFFICES ASSUME FramesAreWhatTheGuestDrew, ReportCoversMeasuredPass, TextureInv, report.done
                PROVE  ReportIsOfTheRun
    BY DEF ReportIsOfTheRun
  <2>1. ReportKept BY DEF TextureInv
  <2>2. Measured /\ report.frames = frames /\ Len(drawn) = Frames /\ Len(frames) = Frames
    BY <2>1 DEF ReportKept, ReportCoversMeasuredPass
  <2>3. ASSUME Frames > 0, drawn[Frames].shown
        PROVE  report.texture = report.frames[Frames].hash
    <3>1. LastShown /\ LastBuffers = drawn[Frames].buf
      <4>1. drawn # <<>> BY <2>2, <2>3, EmptySeq
      <4>. QED BY <2>2, <2>3, <4>1 DEF LastShown, LastBuffers
    <3>2. frames[Frames].hash = drawn[Frames].buf
      BY <2>2, <2>3 DEF FramesAreWhatTheGuestDrew
    <3>. QED BY <2>1, <2>2, <3>1, <3>2 DEF ReportKept
  <2>. QED BY <2>1, <2>3 DEF ReportKept, ReportIsOfTheRun
<1>5. FrameInv => ReportCoversMeasuredPass BY DEF FrameInv
<1> QED BY <1>1, <1>2, <1>3, <1>4, <1>5, CoreAlways, FrameInvAlways, QueueStep, TextureStep, PTL
       DEF Spec
=============================================================================
