------------------------------- MODULE CmAsync -------------------------------
(***************************************************************************)
(* The component-model async benchmark (cm-async-bench/src/lib.rs): waits  *)
(* one after the other, waits all at once, then a stream written to stdout *)
(* chunk by chunk while write-via-stream reads it, REPS times. A write is  *)
(* answered by the host with the bytes it took; what it has not taken is   *)
(* written again, and after STALL_LIMIT answers without progress, or when  *)
(* the reader is gone, the phase gives up.                                 *)
(*                                                                         *)
(* A definition Name_Fault is Name with one plausible mistake in it; no    *)
(* behaviour of the model uses it.                                         *)
(***************************************************************************)
EXTENDS Integers, Sequences

CONSTANTS REPS, SEQ_CALLS, CONCURRENT, CHUNK, CHUNKS, STALL_LIMIT

ASSUME SizesAssumption ==
    /\ {SEQ_CALLS, CONCURRENT} \subseteq Nat
    /\ {REPS, CHUNK, CHUNKS, STALL_LIMIT} \subseteq Nat \ {0}

VARIABLES
    phase,     \* where run() stands
    rep,       \* the rep under way, from 1
    waits,     \* wait-for calls of the phase still to return
    chunk,     \* the chunk being written, from 0
    buf,       \* what of it has not been accepted: bytes from..CHUNK-1
    status,    \* the answer to the last write
    idle,      \* consecutive answers without progress
    written,   \* bytes accepted
    stalled,
    reader,    \* the host's end: "reading", "gone", or "returned" from the call
    writer,    \* the guest's end tx: "open" or "dropped"
    received,  \* the bytes stdout got in this rep, in order
    reports    \* what each rep reported of its stream phase
stream == <<chunk, buf, status, idle, written, stalled>>
ends == <<reader, writer, received>>
cm_vars == <<phase, rep, waits, stream, ends, reports>>

NoStatus == [kind |-> "none", n |-> 0]
Complete(n) == [kind |-> "Complete", n |-> n]
Cancelled == [kind |-> "Cancelled", n |-> 0]
Dropped == [kind |-> "Dropped", n |-> 0]

remaining == CHUNK - buf

CmInit ==
    /\ phase = "wait_for_0" /\ rep = 1 /\ waits = SEQ_CALLS
    /\ chunk = 0 /\ buf = 0 /\ status = NoStatus /\ idle = 0
    /\ written = 0 /\ stalled = FALSE
    /\ reader = "reading" /\ writer = "open" /\ received = <<>>
    /\ reports = <<>>

-----------------------------------------------------------------------------
(* wait-for(0), sequentially and all in flight: each of them returns. *)

WaitReturns ==
    /\ phase \in {"wait_for_0", "concurrent_wait"}
    /\ waits > 0
    /\ waits' = waits - 1
    /\ UNCHANGED <<phase, rep, stream, ends, reports>>

NextPhase ==
    /\ waits = 0
    /\ \/ /\ phase = "wait_for_0"
          /\ phase' = "concurrent_wait" /\ waits' = CONCURRENT
          /\ UNCHANGED <<stream, ends>>
       \/ /\ phase = "concurrent_wait"
          /\ phase' = "write" /\ waits' = 0
          /\ chunk' = 0 /\ buf' = 0 /\ status' = NoStatus /\ idle' = 0
          /\ written' = 0 /\ stalled' = FALSE
          /\ reader' = "reading" /\ writer' = "open" /\ received' = <<>>
    /\ UNCHANGED <<rep, reports>>

-----------------------------------------------------------------------------
(* The host, answering tx.write and tx.write_buf, and its end of the stream. *)

Bytes(n) == [k \in 1..n |-> <<chunk, buf + k - 1>>]

AnswerComplete(n) ==
    /\ phase = "write" /\ reader = "reading"
    /\ status' = Complete(n)
    /\ received' = received \o Bytes(n)
    /\ phase' = "answered"
    /\ UNCHANGED <<rep, waits, chunk, buf, idle, written, stalled, reader, writer, reports>>

AnswerCancelled ==
    /\ phase = "write" /\ reader = "reading"
    /\ status' = Cancelled
    /\ phase' = "answered"
    /\ UNCHANGED <<rep, waits, chunk, buf, idle, written, stalled, ends, reports>>

AnswerDropped ==
    /\ phase = "write" /\ reader # "reading"
    /\ status' = Dropped
    /\ phase' = "answered"
    /\ UNCHANGED <<rep, waits, chunk, buf, idle, written, stalled, ends, reports>>

\* The host closes its end, of its own accord.
ReaderGone ==
    /\ phase \in {"write", "answered"}
    /\ reader = "reading"
    /\ reader' = "gone"
    /\ UNCHANGED <<phase, rep, waits, stream, writer, received, reports>>

\* write-via-stream returns after its end is closed, or at the end of the stream.
ReaderReturns ==
    /\ reader = "gone" \/ (reader = "reading" /\ writer = "dropped")
    /\ reader' = "returned"
    /\ UNCHANGED <<phase, rep, waits, stream, writer, received, reports>>

-----------------------------------------------------------------------------
(* stream_to_stdout. *)

Idle_Uncounted == 0
Idle ==
    IF status.kind = "Complete" /\ status.n > 0 THEN 0 ELSE idle + 1

\* What write_buf goes on with.
Rest_WholeChunk == 0
Rest == buf + status.n

GiveUp ==
    /\ stalled' = TRUE
    /\ phase' = "drop"
    /\ UNCHANGED <<chunk, buf, idle>>

Handle ==
    /\ phase = "answered"
    /\ written' = written + status.n
    /\ \/ status.kind = "Dropped" /\ GiveUp
       \/ /\ status.kind # "Dropped"
          /\ \/ /\ status.n = remaining      \* on to the next chunk
                /\ chunk' = chunk + 1 /\ buf' = 0 /\ idle' = 0
                /\ phase' = IF chunk + 1 < CHUNKS THEN "write" ELSE "drop"
                /\ UNCHANGED stalled
             \/ /\ status.n < remaining
                /\ Idle >= STALL_LIMIT
                /\ GiveUp
             \/ /\ status.n < remaining      \* write_buf
                /\ Idle < STALL_LIMIT
                /\ idle' = Idle /\ buf' = Rest
                /\ phase' = "write"
                /\ UNCHANGED <<chunk, stalled>>
    /\ UNCHANGED <<rep, waits, status, ends, reports>>

DropWriter ==
    /\ phase = "drop"
    /\ writer' = "dropped"
    /\ phase' = "join"
    /\ UNCHANGED <<rep, waits, stream, reader, received, reports>>

\* join! waits for write-via-stream too; then the rep's line, and the next rep.
Join ==
    /\ phase = "join"
    /\ reader = "returned"
    /\ reports' = Append(reports, [stalled |-> stalled, bytes |-> written])
    /\ rep' = rep + 1
    /\ waits' = SEQ_CALLS
    /\ phase' = IF rep < REPS THEN "wait_for_0" ELSE "done"
    /\ UNCHANGED <<stream, ends>>

Ended == phase = "done" /\ UNCHANGED cm_vars

Guest == NextPhase \/ Handle \/ DropWriter \/ Join
Host ==
    \/ WaitReturns \/ AnswerCancelled \/ AnswerDropped \/ ReaderReturns
    \/ \E n \in 0..remaining : AnswerComplete(n)
CmNext == Guest \/ Host \/ ReaderGone \/ Ended

CmSpec == CmInit /\ [][CmNext]_cm_vars

\* The guest goes on when it can, and the host answers every wait and every
\* write sooner or later, if only with nothing accepted.
CmFairSpec == CmSpec /\ WF_cm_vars(Guest) /\ WF_cm_vars(Host)

-----------------------------------------------------------------------------
\* The bytes stdout gets are those of the chunks, in order, none skipped and
\* none twice, whatever part of a write the host accepts each time; what a rep
\* reports as accepted is what stdout got, and all of it unless it stalled.
NothingSkipped ==
    /\ \A k \in DOMAIN received :
          received[k] = <<(k - 1) \div CHUNK, (k - 1) % CHUNK>>
    /\ phase \in {"write", "drop", "join"} => written = Len(received)
    /\ phase = "join" /\ ~stalled => written = CHUNKS * CHUNK

\* A host that answers but stops accepting does not hang the benchmark: every
\* rep ends and reports (lib.rs, "reports stalled instead of hanging").
PhasesEnd == <>(phase = "done" /\ Len(reports) = REPS)
=============================================================================
