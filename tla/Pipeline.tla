------------------------------ MODULE Pipeline ------------------------------
(***************************************************************************)
(* agents/windows/internal/screen/pipeline.go, with the encode loop of     *)
(* webrtc.go that pulls from it: the capture goroutine and the encoder     *)
(* goroutine of one video session.  They share no lock.  A buffer belongs  *)
(* to whoever took it out of a channel, and a one-token channel, the gate, *)
(* keeps a screen capture and a libvpx encode from overlapping.            *)
(*                                                                         *)
(* A channel of buffers is the set of its contents (free) or its one slot  *)
(* (pending); a frame is the number of the capture it came from.           *)
(***************************************************************************)
EXTENDS Naturals

CONSTANTS Buffers,     \* the pipelineBuffers I420 buffers
          None,
          MaxFrames    \* bound on the captures of a behaviour

ASSUME PipelineAssumption == None \notin Buffers /\ MaxFrames \in Nat

VARIABLES
    free, pending, closed,   \* the channels free and frames
    errCh,                   \* the channel errCh holds an error
    gate,                    \* the channel gate holds the token
    ctxDone,                 \* the session's context is cancelled
    cPc, cBuf,               \* pipeline.run: its place, and the buffer it owns
    captured,                \* the frame it holds, counted from the first
    content,                 \* the frame last converted into each buffer
    ePc, eBuf,               \* the encode loop, and p.inFlight
    shown,                   \* the frame last handed to libvpx
    eEnd,                    \* how enc.Read ended the loop, None if it did not
    outside                  \* the context was cancelled by somebody else

channels  == <<free, pending, closed, errCh>>
capturer  == <<cPc, cBuf, captured, content>>
encoder   == <<ePc, eBuf, shown, eEnd>>
pipeVars  == <<channels, gate, ctxDone, capturer, encoder, outside>>

\* newPipeline and start: the frame that sized the stream is the first.
PipelineInit ==
    /\ free = Buffers /\ pending = None /\ closed = FALSE /\ errCh = FALSE
    /\ gate = TRUE /\ ctxDone = FALSE /\ outside = FALSE
    /\ cPc = "check" /\ cBuf = None /\ captured = 1
    /\ content = [b \in Buffers |-> 0]
    /\ ePc = "setup" /\ eBuf = None /\ shown = 0 /\ eEnd = None

----------------------------------------------------------------------------
(* run: the capture goroutine.                                             *)

CStep(from, to) == cPc = from /\ cPc' = to

CheckContext ==
    /\ CStep("check", IF ctxDone THEN "closing" ELSE "acquire")
    /\ UNCHANGED <<channels, gate, ctxDone, cBuf, captured, content, encoder,
                   outside>>

\* acquire's first select, a free buffer.
TakeFree ==
    /\ IF free # {}
       THEN /\ CStep("acquire", "convert")
            /\ cBuf' \in free
            /\ free' = free \ {cBuf'}
       ELSE /\ CStep("acquire", "reclaim")
            /\ UNCHANGED <<cBuf, free>>
    /\ UNCHANGED <<pending, closed, errCh, gate, ctxDone, captured, content,
                   encoder, outside>>

\* acquire's second select, the pending frame; without one the capture is
\* skipped.
Reclaim ==
    /\ CStep("reclaim", IF pending # None THEN "convert" ELSE "tick")
    /\ cBuf' = pending
    /\ pending' = None
    /\ UNCHANGED <<free, closed, errCh, gate, ctxDone, captured, content,
                   encoder, outside>>

Convert ==
    /\ CStep("convert", "drain")
    /\ content' = [content EXCEPT ![cBuf] = captured]
    /\ UNCHANGED <<channels, gate, ctxDone, cBuf, captured, encoder, outside>>

\* publish: the frame not consumed yet goes back to free.
Drain ==
    /\ CStep("drain", "put")
    /\ free' = IF pending # None THEN free \cup {pending} ELSE free
    /\ pending' = None
    /\ UNCHANGED <<closed, errCh, gate, ctxDone, cBuf, captured, content,
                   encoder, outside>>

\* Mutant: the buffer is published and handed back.
Put_AndFree ==
    /\ CStep("put", "tick")
    /\ pending' = cBuf
    /\ free' = free \cup {cBuf}
    /\ cBuf' = None
    /\ UNCHANGED <<closed, errCh, gate, ctxDone, captured, content, encoder,
                   outside>>

Put ==
    /\ CStep("put", "tick")
    /\ IF pending = None
       THEN pending' = cBuf /\ UNCHANGED free
       ELSE free' = free \cup {cBuf} /\ UNCHANGED pending
    /\ cBuf' = None
    /\ UNCHANGED <<closed, errCh, gate, ctxDone, captured, content, encoder,
                   outside>>

\* The ticker, or the context; when both are ready the select takes either.
Tick ==
    /\ CStep("tick", "lock")
    /\ captured < MaxFrames
    /\ UNCHANGED <<channels, gate, ctxDone, cBuf, captured, content, encoder,
                   outside>>

\* Mutant: the capture does not wait for the token.
LockForCapture_Skipped ==
    /\ CStep("lock", "capture")
    /\ gate' = FALSE
    /\ UNCHANGED <<channels, ctxDone, cBuf, captured, content, encoder, outside>>

LockForCapture ==
    /\ CStep("lock", "capture")
    /\ gate
    /\ gate' = FALSE
    /\ UNCHANGED <<channels, ctxDone, cBuf, captured, content, encoder, outside>>

\* Mutant: the goroutine waits for the token whatever became of the session.
StopCapturing_IfTicking ==
    /\ CStep("tick", "closing")
    /\ ctxDone
    /\ UNCHANGED <<channels, gate, ctxDone, cBuf, captured, content, encoder,
                   outside>>

\* ctx.Done in the wait for the ticker or in lockGate.
StopCapturing ==
    /\ cPc \in {"tick", "lock"} /\ cPc' = "closing"
    /\ ctxDone
    /\ UNCHANGED <<channels, gate, ctxDone, cBuf, captured, content, encoder,
                   outside>>

Capture ==
    /\ CStep("capture", "check")
    /\ gate' = TRUE
    /\ captured' = captured + 1
    /\ UNCHANGED <<channels, ctxDone, cBuf, content, encoder, outside>>

\* Mutant: the error path returns without the token.
CaptureFails_KeepsGate ==
    /\ CStep("capture", "fail")
    /\ UNCHANGED <<channels, gate, ctxDone, cBuf, captured, content, encoder,
                   outside>>

CaptureFails ==
    /\ CStep("capture", "fail")
    /\ gate' = TRUE
    /\ UNCHANGED <<channels, ctxDone, cBuf, captured, content, encoder, outside>>

Fail ==
    /\ CStep("fail", "closing")
    /\ errCh' = TRUE
    /\ UNCHANGED <<free, pending, closed, gate, ctxDone, cBuf, captured, content,
                   encoder, outside>>

\* The deferred close(p.frames); a frame still in it can be received.
CloseFrames ==
    /\ CStep("closing", "stopped")
    /\ closed' = TRUE
    /\ UNCHANGED <<free, pending, errCh, gate, ctxDone, cBuf, captured, content,
                   encoder, outside>>

----------------------------------------------------------------------------
(* negotiateAndStream and pipeline.read: the encoder goroutine.            *)

EStep(from, to) == ePc = from /\ ePc' = to

\* The loop asks for a frame unless the session is over.
AskForFrame ==
    /\ ePc \in {"setup", "encoding"}
    /\ ~ctxDone
    /\ ePc' = "release"
    /\ UNCHANGED <<channels, gate, ctxDone, capturer, eBuf, shown, eEnd, outside>>

\* holdsGate is true exactly when a frame is in flight.
GiveGateBack ==
    /\ EStep("release", "recycle")
    /\ gate' = (gate \/ eBuf # None)
    /\ UNCHANGED <<channels, ctxDone, capturer, eBuf, shown, eEnd, outside>>

Recycle_AsPending ==
    /\ EStep("recycle", "poll")
    /\ pending' = IF pending = None THEN eBuf ELSE pending
    /\ free' = IF pending # None /\ eBuf # None THEN free \cup {eBuf} ELSE free
    /\ eBuf' = None
    /\ UNCHANGED <<closed, errCh, gate, ctxDone, capturer, shown, eEnd, outside>>

Recycle ==
    /\ EStep("recycle", "poll")
    /\ free' = IF eBuf # None THEN free \cup {eBuf} ELSE free
    /\ eBuf' = None
    /\ UNCHANGED <<pending, closed, errCh, gate, ctxDone, capturer, shown, eEnd,
                   outside>>

\* The error read, and the defer of negotiateAndStream that cancels.
EndLoop(how) ==
    /\ ePc' = "ended"
    /\ eEnd' = how
    /\ ctxDone' = TRUE

PollError ==
    /\ ePc = "poll"
    /\ IF errCh
       THEN EndLoop("error") /\ errCh' = FALSE
       ELSE ePc' = "wait" /\ UNCHANGED <<eEnd, ctxDone, errCh>>
    /\ UNCHANGED <<free, pending, closed, gate, capturer, eBuf, shown, outside>>

\* The select of read, whose ready cases are taken in any order.
WaitError ==
    /\ ePc = "wait" /\ errCh
    /\ EndLoop("error")
    /\ errCh' = FALSE
    /\ UNCHANGED <<free, pending, closed, gate, capturer, eBuf, shown, outside>>

WaitEOF ==
    /\ ePc = "wait"
    /\ ctxDone \/ (closed /\ pending = None)
    /\ EndLoop("eof")
    /\ UNCHANGED <<channels, gate, capturer, eBuf, shown, outside>>

WaitFrame ==
    /\ pending # None
    /\ EStep("wait", "lock")
    /\ eBuf' = pending
    /\ pending' = None
    /\ UNCHANGED <<free, closed, errCh, gate, ctxDone, capturer, shown, eEnd,
                   outside>>

\* The token is asked for with the frame in hand; then libvpx reads eBuf.
LockForEncode ==
    /\ EStep("lock", "encoding")
    /\ gate
    /\ gate' = FALSE
    /\ shown' = content[eBuf]
    /\ UNCHANGED <<channels, ctxDone, capturer, eBuf, eEnd, outside>>

LockEOF ==
    /\ ePc = "lock" /\ ctxDone
    /\ EndLoop("eof")
    /\ UNCHANGED <<channels, gate, capturer, eBuf, shown, outside>>

\* ctx.Err at the top of the loop, a setup step or the encoder that fails, or
\* the thirtieth sample that cannot be written.
LeaveLoop ==
    /\ ePc \in {"setup", "encoding"}
    /\ EndLoop("left")
    /\ UNCHANGED <<channels, gate, capturer, eBuf, shown, outside>>

\* Manager.stopLocked, the peer connection failing, the socket going away.
CancelSession ==
    /\ ~ctxDone
    /\ ctxDone' = TRUE /\ outside' = TRUE
    /\ UNCHANGED <<channels, gate, capturer, encoder>>

----------------------------------------------------------------------------
CaptureStep ==
    \/ CheckContext \/ TakeFree \/ Reclaim \/ Convert \/ Drain \/ Put \/ Tick
    \/ LockForCapture \/ StopCapturing \/ Capture \/ CaptureFails \/ Fail
    \/ CloseFrames

EncodeStep ==
    \/ AskForFrame \/ GiveGateBack \/ Recycle \/ PollError \/ WaitError
    \/ WaitEOF \/ WaitFrame \/ LockForEncode \/ LockEOF \/ LeaveLoop

\* Both goroutines have returned.
Stopped == cPc = "stopped" /\ ePc = "ended" /\ UNCHANGED pipeVars

PipelineNext == CaptureStep \/ EncodeStep \/ CancelSession \/ Stopped

PipelineSpec == PipelineInit /\ [][PipelineNext]_pipeVars

\* Both goroutines run; a capture and an encode return, which is what the gate
\* is for.
FairPipelineSpec ==
    PipelineSpec /\ WF_pipeVars(CaptureStep) /\ WF_pipeVars(EncodeStep)

----------------------------------------------------------------------------
PipelineTypeOK ==
    /\ free \subseteq Buffers
    /\ pending \in Buffers \cup {None}
    /\ closed \in BOOLEAN /\ errCh \in BOOLEAN /\ gate \in BOOLEAN
    /\ ctxDone \in BOOLEAN /\ outside \in BOOLEAN
    /\ cPc \in {"check", "acquire", "reclaim", "convert", "drain", "put", "tick",
                "lock", "capture", "fail", "closing", "stopped"}
    /\ cBuf \in Buffers \cup {None}
    /\ captured \in Nat
    /\ content \in [Buffers -> Nat]
    /\ ePc \in {"setup", "release", "recycle", "poll", "wait", "lock",
                "encoding", "ended"}
    /\ eBuf \in Buffers \cup {None}
    /\ shown \in Nat
    /\ eEnd \in {None, "eof", "error", "left"}

\* A screen capture never overlaps a libvpx encode, which would wedge inside
\* win32k (pipeline.go:54-63).
GateExclusive == ~(cPc = "capture" /\ ePc = "encoding")

\* Every buffer has exactly one owner: the free list, the frames channel, the
\* capturer or the encoder.  No buffer is lost, and none is written to while
\* libvpx reads it (pipeline.go:31-39).
BuffersOwnedOnce ==
    /\ \A b \in Buffers : b \in free \/ b \in {pending, cBuf, eBuf}
    /\ \A b \in free : b \notin {pending, cBuf, eBuf}
    /\ pending # None => pending \notin {cBuf, eBuf}
    /\ cBuf # None => cBuf # eBuf

\* With three buffers the capturer always finds a free one: it never has to
\* skip a capture or take back a pending frame (pipeline.go:88-90).
AlwaysAFreeBuffer == cPc = "acquire" => free # {}

\* The encoder is never handed a frame twice, or one older than the last.
FramesGoForward ==
    [][ePc = "lock" /\ ePc' = "encoding" => shown' > shown]_pipeVars

\* When the session is cancelled, by whomever, or a capture fails and nobody
\* cancels it, neither goroutine is left waiting for the other's token or frame
\* (pipeline.go:70-73, and the failing return of run).
BothGoroutinesEnd ==
    ctxDone \/ cPc = "fail" ~> cPc = "stopped" /\ ePc = "ended"

\* AGENT_WINDOWS.md:204, "A failed session is reported, not downgraded."  Stated
\* for the encode loop: it reports any end but io.EOF, which nobody but the
\* end of the session should bring about.  The code does not keep it.
FailedSessionIsReported == ePc = "ended" /\ ~outside => eEnd # "eof"
============================================================================
