---------------------------- MODULE Video_proofs ----------------------------
(***************************************************************************)
(* Proofs about the two halves of a video session, module by module: the   *)
(* two share no variable, and nothing here relates one to the other.       *)
(*                                                                         *)
(* Pipeline, for any number of buffers and of frames.  Places says which   *)
(* of the two goroutines holds a buffer at which place, Token that the     *)
(* gate's token is with one of them or in the channel, and Order that what *)
(* a buffer not yet shown holds is newer than what was.                    *)
(*                                                                         *)
(* Viewer, for any number of attempts, candidates and faults.  A candidate *)
(* would be stranded by a second description on the same connection, so    *)
(* that the invariant follows each session from its start to its offer:    *)
(* StartsOnce, that the device is told of an attempt once, and OffersOnce, *)
(* that its offer is in one place only, on its way or taken.               *)
(* BuffersDescribed says where a buffer may be emptied.  One lemma for     *)
(* each end (ConnStep, ReceiveStep, BackendStep, DeviceStep) says what a   *)
(* step there may change; each action then has to fit one of them.         *)
(***************************************************************************)
EXTENDS Pipeline, Viewer, TLAPS

----------------------------------------------------------------------------
(* The capture pipeline.                                                   *)

Places ==
    /\ cBuf # None <=> cPc \in {"convert", "drain", "put"}
    /\ ePc \in {"lock", "encoding"} => eBuf # None
    /\ ePc \in {"setup", "poll", "wait"} => eBuf = None

Encoding == ePc \in {"encoding", "release"} /\ eBuf # None

Token ==
    /\ gate => cPc # "capture" /\ ~Encoding
    /\ ~(cPc = "capture" /\ Encoding)

\* The frame in the capturer's hands has not been converted into any buffer.
Unconverted == cPc \in {"acquire", "reclaim", "convert"}

Order ==
    /\ shown <= captured
    /\ Unconverted \/ cPc = "check" => shown < captured
    /\ pending # None =>
           /\ shown < content[pending] /\ content[pending] <= captured
           /\ cPc \in {"check", "acquire", "reclaim", "convert", "drain", "put"}
                  => content[pending] < captured
    /\ ePc = "lock" =>
           /\ shown < content[eBuf] /\ content[eBuf] <= captured
           /\ cPc \in {"check", "acquire", "reclaim", "convert", "drain", "put"}
                  => content[eBuf] < captured
    /\ pending # None /\ ePc = "lock" => content[eBuf] < content[pending]
    /\ cPc \in {"drain", "put"} => content[cBuf] = captured /\ shown < captured

PipelineInv ==
    PipelineTypeOK /\ BuffersOwnedOnce /\ Places /\ Token /\ Order

LEMMA PipelineInitial == PipelineInit => PipelineInv
  <1> SUFFICES ASSUME PipelineInit PROVE PipelineInv
    OBVIOUS
  <1> USE PipelineAssumption DEF PipelineInit
  <1>1. PipelineTypeOK BY DEF PipelineTypeOK
  <1>2. BuffersOwnedOnce BY DEF BuffersOwnedOnce
  <1>3. Places BY DEF Places
  <1>4. Token BY DEF Token, Encoding
  <1>5. Order BY DEF Order, Unconverted
  <1> QED BY <1>1, <1>2, <1>3, <1>4, <1>5 DEF PipelineInv

\* A step of the capture goroutine keeps the invariant.
LEMMA CaptureKeeps == PipelineInv /\ CaptureStep => PipelineInv'
  <1> SUFFICES ASSUME PipelineInv, CaptureStep PROVE PipelineInv'
    OBVIOUS
  <1> USE PipelineAssumption
      DEF PipelineInv, PipelineTypeOK, BuffersOwnedOnce, Places, Token,
          Encoding, Order, Unconverted, CStep, channels, encoder
  <1>1. CASE CheckContext BY <1>1 DEF CheckContext
  <1>2. CASE TakeFree BY <1>2 DEF TakeFree
  <1>3. CASE Reclaim BY <1>3 DEF Reclaim
  <1>4. CASE Convert BY <1>4 DEF Convert
  <1>5. CASE Drain BY <1>5 DEF Drain
  <1>6. CASE Put BY <1>6 DEF Put
  <1>7. CASE Tick BY <1>7 DEF Tick
  <1>8. CASE LockForCapture
    <2>1. PipelineTypeOK' BY <1>8 DEF LockForCapture
    <2>2. BuffersOwnedOnce' BY <1>8 DEF LockForCapture
    <2>3. Places' BY <1>8 DEF LockForCapture
    <2>4. Token' BY <1>8 DEF LockForCapture
    <2>5. Order' BY <1>8 DEF LockForCapture
    <2> QED BY <2>1, <2>2, <2>3, <2>4, <2>5
  <1>9. CASE StopCapturing BY <1>9 DEF StopCapturing
  <1>10. CASE Capture
    <2>1. PipelineTypeOK' BY <1>10 DEF Capture
    <2>2. BuffersOwnedOnce' BY <1>10 DEF Capture
    <2>3. Places' BY <1>10 DEF Capture
    <2>4. Token' BY <1>10 DEF Capture
    <2>5. Order' BY <1>10 DEF Capture
    <2> QED BY <2>1, <2>2, <2>3, <2>4, <2>5
  <1>11. CASE CaptureFails BY <1>11 DEF CaptureFails
  <1>12. CASE Fail BY <1>12 DEF Fail
  <1>13. CASE CloseFrames BY <1>13 DEF CloseFrames
  <1> QED
    BY <1>1, <1>2, <1>3, <1>4, <1>5, <1>6, <1>7, <1>8, <1>9, <1>10, <1>11,
       <1>12, <1>13 DEF CaptureStep

\* A step of the encoder goroutine keeps it.
LEMMA EncodeKeeps == PipelineInv /\ EncodeStep => PipelineInv'
  <1> SUFFICES ASSUME PipelineInv, EncodeStep PROVE PipelineInv'
    OBVIOUS
  <1> USE PipelineAssumption
      DEF PipelineInv, PipelineTypeOK, BuffersOwnedOnce, Places, Token,
          Encoding, Order, Unconverted, EStep, EndLoop, channels, capturer
  <1>1. CASE AskForFrame BY <1>1 DEF AskForFrame
  <1>2. CASE GiveGateBack BY <1>2 DEF GiveGateBack
  <1>3. CASE Recycle BY <1>3 DEF Recycle
  <1>4. CASE PollError
    <2>1. PipelineTypeOK' BY <1>4 DEF PollError
    <2>2. BuffersOwnedOnce' BY <1>4 DEF PollError
    <2>3. Places' BY <1>4 DEF PollError
    <2>4. Token' BY <1>4 DEF PollError
    <2>5. Order' BY <1>4 DEF PollError
    <2> QED BY <2>1, <2>2, <2>3, <2>4, <2>5
  <1>5. CASE WaitError BY <1>5 DEF WaitError
  <1>6. CASE WaitEOF BY <1>6 DEF WaitEOF
  <1>7. CASE WaitFrame BY <1>7 DEF WaitFrame
  <1>8. CASE LockForEncode
    <2>1. PipelineTypeOK' BY <1>8 DEF LockForEncode
    <2>2. BuffersOwnedOnce' BY <1>8 DEF LockForEncode
    <2>3. Places' BY <1>8 DEF LockForEncode
    <2>4. Token' BY <1>8 DEF LockForEncode
    <2>5. Order' BY <1>8 DEF LockForEncode
    <2> QED BY <2>1, <2>2, <2>3, <2>4, <2>5
  <1>9. CASE LockEOF BY <1>9 DEF LockEOF
  <1>10. CASE LeaveLoop BY <1>10 DEF LeaveLoop
  <1> QED
    BY <1>1, <1>2, <1>3, <1>4, <1>5, <1>6, <1>7, <1>8, <1>9, <1>10
    DEF EncodeStep

LEMMA PipelineKeeps == PipelineInv /\ [PipelineNext]_pipeVars => PipelineInv'
  <1> SUFFICES ASSUME PipelineInv, [PipelineNext]_pipeVars PROVE PipelineInv'
    OBVIOUS
  <1>1. CASE CaptureStep BY <1>1, CaptureKeeps
  <1>2. CASE EncodeStep BY <1>2, EncodeKeeps
  <1>3. CASE CancelSession
    BY <1>3 DEF CancelSession, PipelineInv, PipelineTypeOK, BuffersOwnedOnce,
       Places, Token, Encoding, Order, Unconverted, channels, capturer, encoder
  <1>4. CASE Stopped \/ UNCHANGED pipeVars
    BY <1>4 DEF Stopped, PipelineInv, PipelineTypeOK, BuffersOwnedOnce, Places,
       Token, Encoding, Order, Unconverted, pipeVars, channels, capturer,
       encoder
  <1> QED BY <1>1, <1>2, <1>3, <1>4 DEF PipelineNext

LEMMA PipelineInvariant == PipelineSpec => []PipelineInv
  BY PipelineInitial, PipelineKeeps, PTL DEF PipelineSpec

\* The buffers and the channels hold what their types say.
THEOREM PipelineTypeCorrect == PipelineSpec => []PipelineTypeOK
  BY PipelineInvariant, PTL DEF PipelineInv

\* A capture and an encode never overlap.
THEOREM GateExclusiveAlways == PipelineSpec => []GateExclusive
  <1>1. PipelineInv => GateExclusive
    BY DEF PipelineInv, Places, Token, Encoding, GateExclusive
  <1> QED BY PipelineInvariant, <1>1, PTL

\* No buffer is lost, shared, or written to while libvpx reads it.
THEOREM BuffersOwnedOnceAlways == PipelineSpec => []BuffersOwnedOnce
  BY PipelineInvariant, PTL DEF PipelineInv

\* With three buffers or more, the capturer always has one to write to.
THEOREM AlwaysAFreeBufferAlways ==
    ASSUME NEW x \in Buffers, NEW y \in Buffers, NEW z \in Buffers,
           x # y, y # z, x # z
    PROVE  PipelineSpec => []AlwaysAFreeBuffer
  <1>1. PipelineInv => AlwaysAFreeBuffer
    BY PipelineAssumption
    DEF PipelineInv, BuffersOwnedOnce, Places, AlwaysAFreeBuffer
  <1> QED BY PipelineInvariant, <1>1, PTL

\* What the encoder is handed is newer than everything it was handed before.
THEOREM FramesGoForwardAlways == PipelineSpec => FramesGoForward
  <1>1. PipelineInv /\ PipelineInv' /\ [PipelineNext]_pipeVars
          => [ePc = "lock" /\ ePc' = "encoding" => shown' > shown]_pipeVars
    <2> SUFFICES ASSUME PipelineInv, PipelineNext,
                        ePc = "lock", ePc' = "encoding"
                 PROVE  shown' > shown
      OBVIOUS
    <2>1. LockForEncode
      BY DEF PipelineNext, CaptureStep, EncodeStep, CancelSession, Stopped,
         CheckContext, TakeFree, Reclaim, Convert, Drain, Put, Tick,
         LockForCapture, StopCapturing, Capture, CaptureFails, Fail,
         CloseFrames, AskForFrame, GiveGateBack, Recycle, PollError, WaitError, WaitEOF,
         WaitFrame, LockEOF, LeaveLoop, EStep, EndLoop, encoder, pipeVars
    <2> QED
      BY <2>1 DEF LockForEncode, EStep, PipelineInv, PipelineTypeOK, Places, Order
  <1> QED
    BY PipelineInvariant, <1>1, PTL DEF PipelineSpec, FramesGoForward

----------------------------------------------------------------------------
(* Watching: what the variables of Viewer hold.                            *)

Sockets == {"none", "fetching", "opening", "open", "closing", "closed"}
Answering == {"none", "setting", "flushing", "answering", "done", "failed"}
SessionPlaces ==
    {"none", "acquiring", "quality", "offering", "describing", "done"}

Frames(types) == [type : types, of : Attempts, n : Nat]
ToBrowser == Frames({"ready", "offer", "candidate", "error", "busy", "end"})
FromBrowser == Frames({"answer", "candidate", "bye"})
ToDevice   == Frames({"start", "stop", "answer", "candidate"})
FromDevice == Frames({"ready", "offer", "candidate", "error"})
Trickled == Frames({"candidate"})

ConnStates ==
    [ws : Sockets, closed : BOOLEAN, named : BOOLEAN, peer : BOOLEAN,
     remote : BOOLEAN, pending : SUBSET Trickled, applied : SUBSET Trickled,
     offer : [Attempts -> Answering]]
AgentStates ==
    [at : SessionPlaces, closed : BOOLEAN, capturing : BOOLEAN,
     remote : BOOLEAN,
     pending : SUBSET Trickled, flush : SUBSET Trickled,
     applied : SUBSET Trickled, answer : [Attempts -> Answering]]

Shown == [state : {"connecting", "negotiating", "live", "failed", "closed"},
          error : BOOLEAN, playing : BOOLEAN]

ViewerTypeOK ==
    /\ cur \in 0 .. LastAttempt /\ session \in 0 .. LastAttempt
    /\ slot \in 0 .. LastAttempt /\ online \in BOOLEAN
    /\ ui \in Shown
    /\ conn \in [Attempts -> ConnStates]
    /\ agent \in [Attempts -> AgentStates]
    /\ down \in [Attempts -> Seq(ToBrowser)]
    /\ up \in [Attempts -> Seq(FromBrowser)]
    /\ toAgent \in Seq(ToDevice) /\ fromAgent \in Seq(FromDevice)
    /\ cands \in Nat /\ faults \in Nat
    /\ \A k \in Attempts : \A i \in 1 .. Len(up[k]) :
          up[k][i].type = "answer" => up[k][i].n \in Attempts
    /\ \A i \in 1 .. Len(toAgent) :
          toAgent[i].type = "answer" => toAgent[i].n \in Attempts

IsIn(t, s, q) == \E i \in 1 .. Len(q) : q[i].type = t /\ q[i].of = s
AtMostOnce(t, s, q) ==
    \A i, j \in 1 .. Len(q) :
        /\ q[i].type = t /\ q[i].of = s
        /\ q[j].type = t /\ q[j].of = s
        => i = j

\* The attempt has yet to be served.
Early(k) == conn[k].ws \in {"none", "fetching", "opening"}

\* An attempt is served once, and told to the device once.
StartsOnce ==
    /\ cur # 0 => \A k \in Attempts : k > cur => conn[k].ws = "none"
    /\ \A s \in Attempts :
          /\ Early(s) => /\ agent[s].at = "none" /\ ~IsIn("start", s, toAgent)
                         /\ slot # s /\ down[s] = <<>>
          /\ IsIn("start", s, toAgent) => agent[s].at = "none"
          /\ AtMostOnce("start", s, toAgent)

\* A session offers once, so that no browser has its offer set twice.
OffersOnce ==
    \A s \in Attempts :
        /\ AtMostOnce("offer", s, fromAgent)
        /\ agent[s].at # "done" => ~IsIn("offer", s, fromAgent)
        /\ \A k \in Attempts :
              /\ agent[s].at # "done" \/ IsIn("offer", s, fromAgent) =>
                    ~IsIn("offer", s, down[k]) /\ conn[k].offer[s] = "none"
              /\ AtMostOnce("offer", s, down[k])
              /\ IsIn("offer", s, down[k]) => conn[k].offer[s] = "none"

\* Candidates are taken out of a buffer into a connection that has its remote
\* description.
BuffersDescribed ==
    \A k, s \in Attempts :
        /\ conn[k].offer[s] = "flushing" => conn[k].remote
        /\ agent[k].answer[s] \in {"flushing", "done"} => agent[k].remote

ViewerInv ==
    ViewerTypeOK /\ StartsOnce /\ OffersOnce /\ BuffersDescribed
        /\ NoCandidateStranded

----------------------------------------------------------------------------
\* The frames of a queue.

\* What two queues put end to end hold.
LEMMA Joined ==
    ASSUME NEW S, NEW q \in Seq(S), NEW p \in Seq(S), NEW t, NEW s
    PROVE  /\ IsIn(t, s, q \o p) <=> IsIn(t, s, q) \/ IsIn(t, s, p)
           /\ AtMostOnce(t, s, q) /\ AtMostOnce(t, s, p)
                 /\ ~(IsIn(t, s, q) /\ IsIn(t, s, p))
              => AtMostOnce(t, s, q \o p)
  <1> DEFINE r == q \o p
  <1>1. /\ Len(r) = Len(q) + Len(p) /\ Len(q) \in Nat /\ Len(p) \in Nat
        /\ \A i \in 1 .. Len(q) : i \in 1 .. Len(r) /\ r[i] = q[i]
        /\ \A i \in 1 .. Len(p) :
              i + Len(q) \in 1 .. Len(r) /\ r[i + Len(q)] = p[i]
        /\ \A i \in 1 .. Len(r) :
              \/ i \in 1 .. Len(q) /\ r[i] = q[i]
              \/ i - Len(q) \in 1 .. Len(p) /\ r[i] = p[i - Len(q)]
    OBVIOUS
  <1> HIDE DEF r
  <1>2. IsIn(t, s, r) <=> IsIn(t, s, q) \/ IsIn(t, s, p)
    <2>1. ASSUME NEW i \in 1 .. Len(r), r[i].type = t, r[i].of = s
          PROVE  IsIn(t, s, q) \/ IsIn(t, s, p)
      <3>1. CASE i \in 1 .. Len(q) /\ r[i] = q[i] BY <2>1, <3>1 DEF IsIn
      <3>2. CASE i - Len(q) \in 1 .. Len(p) /\ r[i] = p[i - Len(q)]
        BY <2>1, <3>2 DEF IsIn
      <3> QED BY <1>1, <3>1, <3>2
    <2>2. IsIn(t, s, q) => IsIn(t, s, r) BY <1>1 DEF IsIn
    <2>3. IsIn(t, s, p) => IsIn(t, s, r) BY <1>1 DEF IsIn
    <2> QED BY <2>1, <2>2, <2>3 DEF IsIn
  <1>3. ASSUME AtMostOnce(t, s, q), AtMostOnce(t, s, p),
               ~(IsIn(t, s, q) /\ IsIn(t, s, p)),
               NEW i \in 1 .. Len(r), NEW j \in 1 .. Len(r),
               r[i].type = t, r[i].of = s, r[j].type = t, r[j].of = s
        PROVE  i = j
    <2>1. CASE IsIn(t, s, q)
      <3>1. i \in 1 .. Len(q) /\ r[i] = q[i] BY <1>1, <1>3, <2>1 DEF IsIn
      <3>2. j \in 1 .. Len(q) /\ r[j] = q[j] BY <1>1, <1>3, <2>1 DEF IsIn
      <3> QED BY <1>3, <3>1, <3>2 DEF AtMostOnce
    <2>2. CASE ~IsIn(t, s, q)
      <3>1. i - Len(q) \in 1 .. Len(p) /\ r[i] = p[i - Len(q)]
        BY <1>1, <1>3, <2>2 DEF IsIn
      <3>2. j - Len(q) \in 1 .. Len(p) /\ r[j] = p[j - Len(q)]
        BY <1>1, <1>3, <2>2 DEF IsIn
      <3>3. i - Len(q) = j - Len(q)
        BY <1>3, <3>1, <3>2 DEF AtMostOnce
      <3> QED BY <1>1, <3>3
    <2> QED BY <2>1, <2>2
  <1> QED BY <1>2, <1>3 DEF AtMostOnce, r

\* What a queue of one frame, and the empty one, hold.
LEMMA Single ==
    ASSUME NEW f, NEW t, NEW s
    PROVE  /\ IsIn(t, s, <<f>>) <=> f.type = t /\ f.of = s
           /\ AtMostOnce(t, s, <<f>>)
           /\ ~IsIn(t, s, <<>>) /\ AtMostOnce(t, s, <<>>)
  BY DEF IsIn, AtMostOnce

\* What a queue holds once a frame has joined it.
LEMMA Appended ==
    ASSUME NEW S, NEW q \in Seq(S), NEW f \in S, NEW t, NEW s
    PROVE  /\ IsIn(t, s, Append(q, f)) <=>
                 IsIn(t, s, q) \/ (f.type = t /\ f.of = s)
           /\ AtMostOnce(t, s, q) /\ ~(IsIn(t, s, q) /\ f.type = t /\ f.of = s)
              => AtMostOnce(t, s, Append(q, f))
  <1> DEFINE p == <<f>>
  <1>1. Append(q, f) = q \o p /\ p \in Seq(S) OBVIOUS
  <1>2. IsIn(t, s, p) <=> f.type = t /\ f.of = s BY Single
  <1>3. AtMostOnce(t, s, p) BY Single
  <1> HIDE DEF p
  <1> QED BY <1>1, <1>2, <1>3, Joined

\* What a queue holds once its first frame is taken.
LEMMA Taken ==
    ASSUME NEW S, NEW q \in Seq(S), q # <<>>, NEW t, NEW s
    PROVE  /\ IsIn(t, s, Tail(q)) => IsIn(t, s, q)
           /\ Head(q).type = t /\ Head(q).of = s => IsIn(t, s, q)
           /\ AtMostOnce(t, s, q) =>
                 /\ AtMostOnce(t, s, Tail(q))
                 /\ Head(q).type = t /\ Head(q).of = s => ~IsIn(t, s, Tail(q))
  <1> DEFINE r == Tail(q)
  <1>1. Len(q) > 0 OBVIOUS
  <1>2. /\ Len(r) = Len(q) - 1 /\ Len(q) \in Nat
        /\ \A i \in 1 .. Len(r) : i + 1 \in 1 .. Len(q) /\ r[i] = q[i + 1]
        /\ 1 \in 1 .. Len(q) /\ Head(q) = q[1]
    BY <1>1
  <1> HIDE DEF r
  <1>3. IsIn(t, s, r) => IsIn(t, s, q) BY <1>2 DEF IsIn
  <1>4. Head(q).type = t /\ Head(q).of = s => IsIn(t, s, q) BY <1>2 DEF IsIn
  <1>5. AtMostOnce(t, s, q) => AtMostOnce(t, s, r)
    <2> SUFFICES ASSUME AtMostOnce(t, s, q),
                        NEW i \in 1 .. Len(r), NEW j \in 1 .. Len(r),
                        r[i].type = t, r[i].of = s, r[j].type = t, r[j].of = s
                 PROVE  i = j
      BY DEF AtMostOnce
    <2>1. i + 1 = j + 1 BY <1>2 DEF AtMostOnce
    <2> QED BY <2>1
  <1>6. AtMostOnce(t, s, q) /\ Head(q).type = t /\ Head(q).of = s =>
           ~IsIn(t, s, r)
    <2> SUFFICES ASSUME AtMostOnce(t, s, q), Head(q).type = t, Head(q).of = s,
                        NEW i \in 1 .. Len(r), r[i].type = t, r[i].of = s
                 PROVE  FALSE
      BY DEF IsIn
    <2>1. i + 1 = 1 BY <1>2 DEF AtMostOnce
    <2> QED BY <2>1
  <1> QED BY <1>3, <1>4, <1>5, <1>6 DEF r

\* Nothing has been served, sent or gathered at first.
LEMMA ViewerInitial == Init => ViewerInv
  <1> SUFFICES ASSUME Init PROVE ViewerInv
    OBVIOUS
  <1> USE ViewerAssumption DEF Init
  <1>1. FreshConn \in ConnStates
    BY DEF FreshConn, ConnStates, Sockets, Answering
  <1>2. FreshAgent \in AgentStates
    BY DEF FreshAgent, AgentStates, SessionPlaces, Answering
  <1>3. conn \in [Attempts -> ConnStates]
    BY <1>1 DEF ConnStates, Sockets
  <1>4. agent \in [Attempts -> AgentStates] BY <1>2
  <1>5. /\ \A k \in Attempts : Len(up[k]) = 0 /\ Len(down[k]) = 0
        /\ Len(toAgent) = 0 /\ Len(fromAgent) = 0
    OBVIOUS
  <1>6. /\ \A k \in Attempts :
              /\ conn[k].offer = [s \in Attempts |-> "none"]
              /\ ~conn[k].remote /\ conn[k].applied = {} /\ conn[k].pending = {}
              /\ conn[k].ws = IF k = 1 THEN "fetching" ELSE "none"
        /\ \A k \in Attempts :
              /\ agent[k].answer = [s \in Attempts |-> "none"]
              /\ ~agent[k].remote /\ agent[k].applied = {}
              /\ agent[k].pending = {} /\ agent[k].at = "none"
    BY <1>1, <1>2 DEF FreshConn, FreshAgent
  <1>7. ViewerTypeOK
    <2>1. /\ down \in [Attempts -> Seq(ToBrowser)]
          /\ up \in [Attempts -> Seq(FromBrowser)]
          /\ toAgent \in Seq(ToDevice) /\ fromAgent \in Seq(FromDevice)
      OBVIOUS
    <2>2. ui \in Shown BY DEF FreshUI, Shown
    <2> QED BY <1>3, <1>4, <1>5, <2>1, <2>2 DEF ViewerTypeOK
  <1>8. StartsOnce
    <2>1. \A k \in Attempts : k > cur => conn[k].ws = "none"
      BY <1>6 DEF Attempts
    <2>2. \A s \in Attempts :
             /\ agent[s].at = "none" /\ ~IsIn("start", s, toAgent)
             /\ AtMostOnce("start", s, toAgent)
      BY <1>6, Single
    <2>3. \A s \in Attempts : slot # s /\ down[s] = <<>> BY DEF Attempts
    <2> QED BY <2>1, <2>2, <2>3 DEF StartsOnce
  <1>9. OffersOnce BY <1>5, <1>6 DEF OffersOnce, IsIn, AtMostOnce
  <1>10. BuffersDescribed /\ NoCandidateStranded
    BY <1>6 DEF BuffersDescribed, NoCandidateStranded
  <1> QED BY <1>7, <1>8, <1>9, <1>10 DEF ViewerInv

----------------------------------------------------------------------------
\* What leaves each part of the invariant alone.

\* No attempt is made, dialled or started, and no start is sent.
LEMMA StartsStay ==
    ASSUME StartsOnce, cur' \in {0, cur},
           \A k \in Attempts : /\ conn[k].ws = "none" => conn'[k].ws = "none"
                               /\ Early(k)' => Early(k)
                               /\ slot' = k => slot = k
                               /\ down[k] = <<>> => down'[k] = <<>>
                               /\ agent[k].at = "none" <=> agent'[k].at = "none",
           \A s \in Attempts :
              /\ IsIn("start", s, toAgent') => IsIn("start", s, toAgent)
              /\ AtMostOnce("start", s, toAgent) => AtMostOnce("start", s, toAgent')
    PROVE  StartsOnce'
  BY DEF StartsOnce, Early

\* No session is ready to offer again, no offer is sent or taken.
LEMMA OffersStay ==
    ASSUME OffersOnce,
           \A s \in Attempts :
              /\ agent[s].at = "done" => agent'[s].at = "done"
              /\ IsIn("offer", s, fromAgent') => IsIn("offer", s, fromAgent)
              /\ AtMostOnce("offer", s, fromAgent) =>
                    AtMostOnce("offer", s, fromAgent')
              /\ \A k \in Attempts :
                    /\ IsIn("offer", s, down'[k]) => IsIn("offer", s, down[k])
                    /\ AtMostOnce("offer", s, down[k]) =>
                          AtMostOnce("offer", s, down'[k])
                    /\ conn[k].offer[s] = "none" => conn'[k].offer[s] = "none"
    PROVE  OffersOnce'
  BY DEF OffersOnce

\* No candidate and no description is taken.
LEMMA BuffersStay ==
    ASSUME BuffersDescribed, NoCandidateStranded,
           \A k \in Attempts :
              /\ conn'[k].remote = conn[k].remote
              /\ conn'[k].pending = conn[k].pending
              /\ conn'[k].applied = conn[k].applied
              /\ agent'[k].remote = agent[k].remote
              /\ agent'[k].pending = agent[k].pending
              /\ agent'[k].applied = agent[k].applied
              /\ \A s \in Attempts :
                    /\ conn'[k].offer[s] = "flushing" <=>
                          conn[k].offer[s] = "flushing"
                    /\ agent'[k].answer[s] \in {"flushing", "done"} =>
                          agent[k].answer[s] \in {"flushing", "done"}
    PROVE  BuffersDescribed' /\ NoCandidateStranded'
  BY DEF BuffersDescribed, NoCandidateStranded

\* Frames made here.
LEMMA Made ==
    ASSUME NEW types, NEW t \in types, NEW s \in Attempts
    PROVE  /\ Frame(t, s) \in Frames(types)
           /\ Frame(t, s).type = t /\ Frame(t, s).of = s
  BY DEF Frame, Frames

LEMMA Gathered ==
    ASSUME NEW types, "candidate" \in types, NEW s \in Attempts, NEW i \in Nat
    PROVE  Cand(s, i) \in Frames(types) /\ Cand(s, i).type = "candidate"
  BY DEF Cand, Frames

----------------------------------------------------------------------------
(* The page.                                                               *)

\* What a browser says to the backend names a session where it answers.
Answers(q) ==
    \A i \in 1 .. Len(q) : q[i].type = "answer" => q[i].n \in Attempts

LEMMA AnswersJoin ==
    ASSUME NEW S, NEW q \in Seq(S), Answers(q), NEW f \in S,
           f.type = "answer" => f.n \in Attempts
    PROVE  Append(q, f) \in Seq(S) /\ Answers(Append(q, f))
  BY DEF Answers

\* A goodbye keeps the types of the sockets.
LEMMA GoodbyeType ==
    ASSUME ViewerTypeOK, NEW k \in Attempts, Goodbye(k)
    PROVE  /\ up' \in [Attempts -> Seq(FromBrowser)]
           /\ \A j \in Attempts : Answers(up'[j])
  <1>1. Frame("bye", k) \in FromBrowser /\ Frame("bye", k).type = "bye"
    BY Made DEF FromBrowser
  <1>2. up \in [Attempts -> Seq(FromBrowser)] /\ \A j \in Attempts : Answers(up[j])
    BY DEF ViewerTypeOK, Answers
  <1>3. \A j \in Attempts :
           /\ Append(up[j], Frame("bye", k)) \in Seq(FromBrowser)
           /\ Answers(Append(up[j], Frame("bye", k)))
    BY <1>1, <1>2, AnswersJoin
  <1> QED BY <1>2, <1>3 DEF Goodbye

\* Closing a connection keeps its buffers and its offers.
LEMMA ClosedType ==
    ASSUME ViewerTypeOK, NEW k \in Attempts
    PROVE  /\ Closed(k) \in ConnStates
           /\ Closed(k).ws = "none" <=> conn[k].ws = "none"
           /\ Closed(k).ws \in {"none", "fetching", "opening"} => Early(k)
           /\ Closed(k).remote = conn[k].remote
           /\ Closed(k).pending = conn[k].pending
           /\ Closed(k).applied = conn[k].applied
           /\ Closed(k).offer = conn[k].offer
  <1>1. conn[k] \in ConnStates BY DEF ViewerTypeOK
  <1> QED BY <1>1 DEF Closed, ConnStates, Sockets, Early

\* Leaving the page and retrying keep the invariant.
LEMMA PageKeeps == ViewerInv /\ (Leave \/ Retry) /\ Alone => ViewerInv'
  <1> SUFFICES ASSUME ViewerInv, Leave \/ Retry, Alone PROVE ViewerInv'
    OBVIOUS
  <1> USE ViewerAssumption DEF agentVars, Alone
  <1>0. ViewerTypeOK BY DEF ViewerInv
  <1>1. cur \in Attempts
    BY <1>0 DEF Leave, Retry, ViewerTypeOK, Attempts
  <1>2. /\ up' \in [Attempts -> Seq(FromBrowser)]
        /\ \A k \in Attempts : Answers(up'[k])
    BY <1>0, <1>1, GoodbyeType DEF Leave, Retry
  <1>3. UNCHANGED <<agent, session, slot, online, down, toAgent, fromAgent,
                    cands, faults>>
    BY DEF Leave, Retry
  <1>4. cur' \in 0 .. LastAttempt /\ ui' \in Shown
    <2>1. CASE Leave BY <1>0, <2>1 DEF Leave, ViewerTypeOK
    <2>2. CASE Retry
      <3>1. cur' \in 0 .. LastAttempt BY <2>2 DEF Retry
      <3>2. ui' = FreshUI BY <2>2 DEF Retry
      <3> QED BY <3>1, <3>2 DEF FreshUI, Shown
    <2> QED BY <2>1, <2>2
  <1>5. CASE Leave
    <2>1. conn' = [conn EXCEPT ![cur] = Closed(cur)] /\ cur' = 0
      BY <1>5 DEF Leave
    <2>2. conn' \in [Attempts -> ConnStates]
      BY <1>0, <1>1, <2>1, ClosedType DEF ViewerTypeOK
    <2>3. \A k \in Attempts :
             conn'[k] = conn[k] \/ (k = cur /\ conn'[k] = Closed(k))
      BY <1>0, <2>1 DEF ViewerTypeOK
    <2>4. ViewerTypeOK'
      BY <1>0, <1>2, <1>3, <1>4, <2>2 DEF ViewerTypeOK, Answers
    <2>5. StartsOnce'
      BY <1>0, <1>1, <1>3, <2>1, <2>3, ClosedType, StartsStay
      DEF ViewerInv, Early
    <2>6. OffersOnce' BY <1>0, <1>1, <1>3, <2>3, ClosedType, OffersStay
      DEF ViewerInv
    <2>7. BuffersDescribed' /\ NoCandidateStranded'
      BY <1>0, <1>1, <1>3, <2>3, ClosedType, BuffersStay DEF ViewerInv
    <2> QED BY <2>4, <2>5, <2>6, <2>7 DEF ViewerInv
  <1>6. CASE Retry
    <2>1. /\ conn' = [conn EXCEPT ![cur] = Closed(cur),
                                  ![cur + 1].ws = "fetching"]
          /\ cur' = cur + 1 /\ cur + 1 \in Attempts
      BY <1>6 DEF Retry, Attempts
    <2>2. conn \in [Attempts -> ConnStates] BY <1>0 DEF ViewerTypeOK
    <2>3. /\ conn' \in [Attempts -> ConnStates]
          /\ conn'[cur] = Closed(cur)
          /\ conn'[cur + 1] = [conn[cur + 1] EXCEPT !.ws = "fetching"]
          /\ \A k \in Attempts \ {cur, cur + 1} : conn'[k] = conn[k]
      <3>1. Closed(cur) \in ConnStates BY <1>0, <1>1, ClosedType
      <3>2. [conn[cur + 1] EXCEPT !.ws = "fetching"] \in ConnStates
        BY <2>1, <2>2 DEF ConnStates, Sockets
      <3>3. cur + 1 # cur BY <1>1 DEF Attempts
      <3> QED BY <1>1, <2>1, <2>2, <3>1, <3>2, <3>3
    <2>4. ViewerTypeOK'
      BY <1>0, <1>2, <1>3, <1>4, <2>3 DEF ViewerTypeOK, Answers
    <2>5. conn[cur + 1].ws = "none" /\ StartsOnce
      BY <1>1, <2>1 DEF ViewerInv, StartsOnce, Attempts
    <2>6. /\ conn'[cur + 1].ws = "fetching"
          /\ \A k \in Attempts :
                /\ conn'[k].remote = conn[k].remote
                /\ conn'[k].pending = conn[k].pending
                /\ conn'[k].applied = conn[k].applied
                /\ conn'[k].offer = conn[k].offer
                /\ Early(k)' => Early(k)
                /\ k # cur + 1 /\ conn[k].ws = "none" => conn'[k].ws = "none"
      <3>1. \A k \in Attempts \ {cur, cur + 1} : conn'[k] = conn[k] BY <2>3
      <3>2. conn[cur + 1] \in ConnStates BY <2>1, <2>2
      <3>3. /\ conn'[cur + 1].ws = "fetching"
            /\ conn'[cur + 1].remote = conn[cur + 1].remote
            /\ conn'[cur + 1].pending = conn[cur + 1].pending
            /\ conn'[cur + 1].applied = conn[cur + 1].applied
            /\ conn'[cur + 1].offer = conn[cur + 1].offer
            /\ Early(cur + 1)
        BY <2>3, <2>5, <3>2 DEF ConnStates, Early
      <3>4. /\ conn'[cur].remote = conn[cur].remote
            /\ conn'[cur].pending = conn[cur].pending
            /\ conn'[cur].applied = conn[cur].applied
            /\ conn'[cur].offer = conn[cur].offer
            /\ conn'[cur].ws \in {"none", "fetching", "opening"} => Early(cur)
            /\ conn[cur].ws = "none" => conn'[cur].ws = "none"
        <4>1. conn'[cur].ws = Closed(cur).ws BY <2>3
        <4>2. conn'[cur].ws \in {"none", "fetching", "opening"} => Early(cur)
          BY <1>0, <1>1, <4>1, ClosedType
        <4> QED BY <1>0, <1>1, <2>3, <4>1, <4>2, ClosedType
      <3>5. ASSUME NEW k \in Attempts
            PROVE  /\ conn'[k].remote = conn[k].remote
                   /\ conn'[k].pending = conn[k].pending
                   /\ conn'[k].applied = conn[k].applied
                   /\ conn'[k].offer = conn[k].offer
                   /\ conn'[k].ws \in {"none", "fetching", "opening"} => Early(k)
                   /\ k # cur + 1 /\ conn[k].ws = "none" => conn'[k].ws = "none"
        <4>1. CASE k = cur BY <3>4, <4>1 DEF Early
        <4>2. CASE k = cur + 1 BY <3>3, <4>2
        <4>3. CASE k \notin {cur, cur + 1} BY <3>1, <4>3 DEF Early
        <4> QED BY <4>1, <4>2, <4>3
      <3> QED BY <3>3, <3>5 DEF Early
    <2>7. StartsOnce'
      <3>1. \A k \in Attempts : k > cur' => conn'[k].ws = "none"
        <4> SUFFICES ASSUME NEW k \in Attempts, k > cur + 1
                     PROVE  conn'[k].ws = "none"
          BY <2>1
        <4>1. k > cur /\ k # cur + 1 /\ cur # 0 BY <1>1 DEF Attempts
        <4>2. conn[k].ws = "none" BY <2>5, <4>1 DEF StartsOnce
        <4> QED BY <2>6, <4>1, <4>2
      <3> QED BY <1>3, <2>5, <2>6, <3>1 DEF StartsOnce, Early
    <2>8. OffersOnce' BY <1>3, <2>6, OffersStay DEF ViewerInv
    <2>9. BuffersDescribed' /\ NoCandidateStranded'
      BY <1>3, <2>6, BuffersStay DEF ViewerInv
    <2> QED BY <2>4, <2>7, <2>8, <2>9 DEF ViewerInv
  <1> QED BY <1>5, <1>6

----------------------------------------------------------------------------
(* The browser's side of an attempt.                                       *)

\* A frame goes up the attempt's socket.
LEMMA SendType ==
    ASSUME ViewerTypeOK, NEW k \in Attempts, NEW f \in FromBrowser,
           f.type = "answer" => f.n \in Attempts, Send(k, f)
    PROVE  /\ up' \in [Attempts -> Seq(FromBrowser)]
           /\ \A j \in Attempts : Answers(up'[j])
  <1>1. up \in [Attempts -> Seq(FromBrowser)] /\ \A j \in Attempts : Answers(up[j])
    BY DEF ViewerTypeOK, Answers
  <1>2. Append(up[k], f) \in Seq(FromBrowser) /\ Answers(Append(up[k], f))
    BY <1>1, AnswersJoin
  <1> QED BY <1>1, <1>2 DEF Send

\* What reaches the page and nothing else.
LEMMA ShowKeeps ==
    ASSUME ViewerInv, ui' \in Shown, cands' \in Nat, faults' \in Nat,
           UNCHANGED <<cur, conn, agentVars, serverVars>>
    PROVE  ViewerInv'
  <1> USE DEF agentVars, serverVars
  <1>1. ViewerTypeOK' BY DEF ViewerInv, ViewerTypeOK
  <1>2. StartsOnce' BY DEF ViewerInv, StartsOnce, Early
  <1>3. OffersOnce' BY DEF ViewerInv, OffersOnce
  <1>4. BuffersDescribed' /\ NoCandidateStranded'
    BY DEF ViewerInv, BuffersDescribed, NoCandidateStranded
  <1> QED BY <1>1, <1>2, <1>3, <1>4 DEF ViewerInv

\* What ICE and the video element report keeps it.
LEMMA ShowsKeep ==
    ASSUME ViewerInv, NEW k \in Attempts, cands' \in Nat, faults' \in Nat,
           Connected(k) \/ Playing(k) \/ Disconnects(k) \/ PeerFails(k)
    PROVE  ViewerInv'
  <1>1. ui \in Shown BY DEF ViewerInv, ViewerTypeOK
  <1>2. ui' \in Shown
    BY <1>1 DEF Connected, Playing, Disconnects, PeerFails, Show, Shown
  <1> QED BY <1>2, ShowKeeps DEF Connected, Playing, Disconnects, PeerFails

\* What one attempt's connection may become without a frame coming in.
MayBecome(k, c) ==
    /\ conn[k].ws = "none" => c.ws = "none"
    /\ c.ws \in {"none", "fetching", "opening"} => Early(k)
    /\ \A s \in Attempts :
          /\ conn[k].offer[s] = "none" => c.offer[s] = "none"
          /\ c.offer[s] = "flushing" => c.remote
    /\ ~c.remote => c.applied = {}
    /\ c.remote /\ (\A s \in Attempts : c.offer[s] # "flushing")
          => c.pending = {}

Elsewhere == UNCHANGED <<cur, agent, session, slot, online, down, toAgent,
                         fromAgent>>

\* A step of one attempt's connection that sends no more than an answer or a
\* candidate.
LEMMA ConnStep ==
    ASSUME ViewerInv, NEW k \in Attempts, NEW c \in ConnStates,
           conn' = [conn EXCEPT ![k] = c], MayBecome(k, c), Elsewhere,
           ui' \in Shown, cands' \in Nat, faults' \in Nat,
           up' \in [Attempts -> Seq(FromBrowser)],
           \A j \in Attempts : Answers(up'[j])
    PROVE  ViewerInv'
  <1> USE DEF MayBecome, Elsewhere
  <1>0. ViewerTypeOK BY DEF ViewerInv
  <1>1. /\ conn' \in [Attempts -> ConnStates] /\ conn'[k] = c
        /\ \A j \in Attempts \ {k} : conn'[j] = conn[j]
    BY <1>0 DEF ViewerTypeOK
  <1>2. ViewerTypeOK' BY <1>0, <1>1 DEF ViewerTypeOK, Answers
  <1>3. StartsOnce' BY <1>1, StartsStay DEF ViewerInv, Early
  <1>4. OffersOnce' BY <1>1, OffersStay DEF ViewerInv
  <1>5. BuffersDescribed' BY <1>1 DEF ViewerInv, BuffersDescribed
  <1>6. NoCandidateStranded' BY <1>1 DEF ViewerInv, NoCandidateStranded
  <1> QED BY <1>2, <1>3, <1>4, <1>5, <1>6 DEF ViewerInv

\* Dialling, and each await of onOffer, keep it.
LEMMA NegotiationKeeps ==
    ASSUME ViewerInv, NEW k \in Attempts, NEW s \in Attempts,
           cands' \in Nat, faults' \in Nat,
           \/ Dial(k) \/ SetOffer(k, s) \/ FlushOne(k, s) \/ Flushed(k, s)
           \/ NegotiationFails(k, s)
    PROVE  ViewerInv'
  <1> USE DEF agentVars, serverVars
  <1>0. /\ conn \in [Attempts -> ConnStates] /\ conn[k] \in ConnStates
        /\ ui \in Shown /\ up \in [Attempts -> Seq(FromBrowser)]
        /\ \A j \in Attempts : Answers(up[j])
    BY DEF ViewerInv, ViewerTypeOK, Answers
  <1>1. /\ \A r \in Attempts : conn[k].offer[r] = "flushing" => conn[k].remote
        /\ ~conn[k].remote => conn[k].applied = {}
        /\ conn[k].remote /\ (\A r \in Attempts : conn[k].offer[r] # "flushing")
              => conn[k].pending = {}
    BY DEF ViewerInv, BuffersDescribed, NoCandidateStranded
  <1>2. CASE Dial(k)
    <2> DEFINE c == [conn[k] EXCEPT !.ws = IF conn[k].closed THEN "closed"
                                           ELSE "opening"]
    <2>1. c \in ConnStates /\ conn' = [conn EXCEPT ![k] = c]
      BY <1>0, <1>2 DEF Dial, ConnStates, Sockets
    <2>2. /\ c.remote = conn[k].remote /\ c.applied = conn[k].applied
          /\ c.pending = conn[k].pending /\ c.offer = conn[k].offer
          /\ conn[k].ws = "fetching" /\ Early(k)
      BY <1>0, <1>2 DEF Dial, ConnStates, Early
    <2> HIDE DEF c
    <2>3. MayBecome(k, c) BY <1>1, <2>2 DEF MayBecome
    <2> QED BY <1>0, <1>2, <2>1, <2>3, ConnStep DEF Dial, Elsewhere
  <1>3. CASE SetOffer(k, s)
    <2> DEFINE c == [conn[k] EXCEPT !.offer = [@ EXCEPT ![s] = "flushing"],
                                    !.remote = TRUE]
    <2>1. c \in ConnStates /\ conn' = [conn EXCEPT ![k] = c]
      BY <1>0, <1>3 DEF SetOffer, ConnStates, Answering
    <2>2. /\ c.remote /\ c.ws = conn[k].ws /\ c.offer[s] = "flushing"
          /\ conn[k].offer[s] = "setting"
          /\ \A r \in Attempts \ {s} : c.offer[r] = conn[k].offer[r]
      BY <1>0, <1>3 DEF SetOffer, Awaits, ConnStates
    <2> HIDE DEF c
    <2>3. MayBecome(k, c) BY <1>1, <2>2 DEF MayBecome, Early
    <2> QED BY <1>0, <1>3, <2>1, <2>3, ConnStep DEF SetOffer, Elsewhere
  <1>4. CASE FlushOne(k, s)
    <2>1. PICK m \in conn[k].pending :
             conn' = [conn EXCEPT ![k].applied = @ \cup {m}]
      BY <1>4 DEF FlushOne
    <2> DEFINE c == [conn[k] EXCEPT !.applied = @ \cup {m}]
    <2>2. c \in ConnStates /\ conn' = [conn EXCEPT ![k] = c]
      BY <1>0, <2>1 DEF ConnStates
    <2>3. /\ c.remote = conn[k].remote /\ c.ws = conn[k].ws
          /\ c.pending = conn[k].pending /\ c.offer = conn[k].offer
          /\ conn[k].remote
      BY <1>0, <1>1, <1>4 DEF FlushOne, Awaits, ConnStates
    <2> HIDE DEF c
    <2>4. MayBecome(k, c) BY <1>1, <2>3 DEF MayBecome, Early
    <2> QED BY <1>0, <1>4, <2>2, <2>4, ConnStep DEF FlushOne, Elsewhere
  <1>5. CASE Flushed(k, s)
    <2> DEFINE c == [conn[k] EXCEPT !.offer = [@ EXCEPT ![s] = "answering"],
                                    !.pending = {}]
    <2>1. c \in ConnStates /\ conn' = [conn EXCEPT ![k] = c]
      BY <1>0, <1>5 DEF Flushed, ConnStates, Answering
    <2>2. /\ c.remote = conn[k].remote /\ c.ws = conn[k].ws
          /\ c.applied = conn[k].applied /\ c.pending = {}
          /\ c.offer[s] = "answering" /\ conn[k].offer[s] = "flushing"
          /\ \A r \in Attempts \ {s} : c.offer[r] = conn[k].offer[r]
      BY <1>0, <1>5 DEF Flushed, Awaits, ConnStates
    <2> HIDE DEF c
    <2>3. MayBecome(k, c) BY <1>1, <2>2 DEF MayBecome, Early
    <2> QED BY <1>0, <1>5, <2>1, <2>3, ConnStep DEF Flushed, Elsewhere
  <1>6. CASE NegotiationFails(k, s)
    <2> DEFINE c == [conn[k] EXCEPT !.offer = [@ EXCEPT ![s] = "failed"]]
    <2>1. c \in ConnStates /\ conn' = [conn EXCEPT ![k] = c]
      BY <1>0, <1>6 DEF NegotiationFails, ConnStates, Answering
    <2>2. /\ c.remote = conn[k].remote /\ c.ws = conn[k].ws
          /\ c.applied = conn[k].applied /\ c.pending = conn[k].pending
          /\ c.offer[s] = "failed"
          /\ conn[k].offer[s] \in {"setting", "answering"}
          /\ \A r \in Attempts \ {s} : c.offer[r] = conn[k].offer[r]
      BY <1>0, <1>6 DEF NegotiationFails, ConnStates
    <2>3. ui' \in Shown BY <1>0, <1>6 DEF NegotiationFails, Show, Shown
    <2>4. /\ \A r \in Attempts :
                /\ conn[k].offer[r] = "none" => c.offer[r] = "none"
                /\ c.offer[r] = "flushing" => c.remote
          /\ (\A r \in Attempts : c.offer[r] # "flushing") =>
                \A r \in Attempts : conn[k].offer[r] # "flushing"
      BY <1>1, <2>2
    <2> HIDE DEF c
    <2>5. MayBecome(k, c) BY <1>1, <2>2, <2>4 DEF MayBecome, Early
    <2> QED BY <1>0, <1>6, <2>1, <2>3, <2>5, ConnStep
      DEF NegotiationFails, Elsewhere
  <1> QED BY <1>2, <1>3, <1>4, <1>5, <1>6

\* An answer or a candidate sent by the browser keeps it.
LEMMA SendsKeep ==
    ASSUME ViewerInv, NEW k \in Attempts, NEW s \in Attempts,
           cands' \in Nat, faults' \in Nat,
           SendAnswer(k, s) \/ BrowserGathers(k)
    PROVE  ViewerInv'
  <1> USE DEF agentVars
  <1>0. /\ conn \in [Attempts -> ConnStates] /\ conn[k] \in ConnStates
        /\ ui \in Shown /\ cands \in Nat /\ ViewerTypeOK
    BY DEF ViewerInv, ViewerTypeOK
  <1>1. /\ \A r \in Attempts : conn[k].offer[r] = "flushing" => conn[k].remote
        /\ ~conn[k].remote => conn[k].applied = {}
        /\ conn[k].remote /\ (\A r \in Attempts : conn[k].offer[r] # "flushing")
              => conn[k].pending = {}
    BY DEF ViewerInv, BuffersDescribed, NoCandidateStranded
  <1>2. CASE SendAnswer(k, s)
    <2> DEFINE c == [conn[k] EXCEPT !.offer = [@ EXCEPT ![s] = "done"]]
               f == [Frame("answer", k) EXCEPT !.n = s]
    <2>1. c \in ConnStates /\ conn' = [conn EXCEPT ![k] = c]
      BY <1>0, <1>2 DEF SendAnswer, ConnStates, Answering
    <2>2. /\ c.remote = conn[k].remote /\ c.ws = conn[k].ws
          /\ c.applied = conn[k].applied /\ c.pending = conn[k].pending
          /\ c.offer[s] = "done" /\ conn[k].offer[s] = "answering"
          /\ \A r \in Attempts \ {s} : c.offer[r] = conn[k].offer[r]
      BY <1>0, <1>2 DEF SendAnswer, Awaits, ConnStates
    <2>3. (\A r \in Attempts : c.offer[r] # "flushing") =>
              \A r \in Attempts : conn[k].offer[r] # "flushing"
      BY <2>2
    <2>4. f \in FromBrowser /\ f.n = s /\ Send(k, f)
      BY <1>2 DEF SendAnswer, FromBrowser, Frames, Frame, Attempts
    <2> HIDE DEF c, f
    <2>5. MayBecome(k, c) BY <1>1, <2>2, <2>3 DEF MayBecome, Early
    <2>6. /\ up' \in [Attempts -> Seq(FromBrowser)]
          /\ \A j \in Attempts : Answers(up'[j])
      BY <1>0, <2>4, SendType
    <2> QED BY <1>0, <1>2, <2>1, <2>5, <2>6, ConnStep
      DEF SendAnswer, Elsewhere
  <1>3. CASE BrowserGathers(k)
    <2>1. PICK f \in FromBrowser : f = Cand(k, cands + 1)
      BY <1>0, Gathered DEF FromBrowser
    <2>2. f.type = "candidate" BY <2>1 DEF Cand
    <2>3. /\ up' \in [Attempts -> Seq(FromBrowser)]
          /\ \A j \in Attempts : Answers(up'[j])
      BY <1>0, <1>3, <2>1, <2>2, SendType DEF BrowserGathers
    <2>4. conn' = [conn EXCEPT ![k] = conn[k]] /\ UNCHANGED browserVars
      BY <1>0, <1>3 DEF BrowserGathers, browserVars
    <2>5. MayBecome(k, conn[k]) BY <1>1 DEF MayBecome, Early
    <2> QED BY <1>0, <1>3, <2>3, <2>4, <2>5, ConnStep
      DEF BrowserGathers, browserVars, Elsewhere
  <1> QED BY <1>2, <1>3

\* What a frame that comes in may make of the connection.
MayTake(k, c, f) ==
    /\ c.ws \notin {"none", "fetching", "opening"}
    /\ \A s \in Attempts :
          /\ conn[k].offer[s] = "none" =>
                c.offer[s] = "none" \/ (f.type = "offer" /\ f.of = s)
          /\ c.offer[s] = "flushing" => c.remote
          /\ c.offer[s] # "flushing" => conn[k].offer[s] # "flushing"
    /\ c.remote = conn[k].remote
    /\ ~c.remote => c.applied = {}
    /\ c.remote => c.pending = conn[k].pending

\* What the invariant says of the frame a browser takes.
LEMMA TakesIn ==
    ASSUME ViewerInv, NEW k \in Attempts, down[k] # <<>>
    PROVE  /\ Head(down[k]) \in ToBrowser /\ Tail(down[k]) \in Seq(ToBrowser)
           /\ \A s \in Attempts :
                 /\ IsIn("offer", s, Tail(down[k])) => IsIn("offer", s, down[k])
                 /\ AtMostOnce("offer", s, Tail(down[k]))
                 /\ Head(down[k]).type = "offer" /\ Head(down[k]).of = s =>
                       /\ ~IsIn("offer", s, Tail(down[k]))
                       /\ IsIn("offer", s, down[k])
                       /\ conn[k].offer[s] = "none"
  <1>1. down[k] \in Seq(ToBrowser) BY DEF ViewerInv, ViewerTypeOK
  <1>2. Head(down[k]) \in ToBrowser /\ Tail(down[k]) \in Seq(ToBrowser)
    BY <1>1
  <1>3. ASSUME NEW s \in Attempts
        PROVE  /\ AtMostOnce("offer", s, down[k])
               /\ IsIn("offer", s, down[k]) => conn[k].offer[s] = "none"
    BY DEF ViewerInv, OffersOnce
  <1> QED BY <1>1, <1>2, <1>3, Taken

\* A step that takes a frame off the socket, into one connection.
LEMMA ReceiveStep ==
    ASSUME ViewerInv, NEW k \in Attempts, down[k] # <<>>,
           down' = [down EXCEPT ![k] = Tail(@)],
           NEW c \in ConnStates, conn' = [conn EXCEPT ![k] = c],
           MayTake(k, c, Head(down[k])), ui' \in Shown,
           cands' \in Nat, faults' \in Nat,
           UNCHANGED <<cur, agent, session, slot, online, up, toAgent, fromAgent>>
    PROVE  ViewerInv'
  <1> DEFINE f == Head(down[k])
  <1>0. ViewerTypeOK BY DEF ViewerInv
  <1>1. /\ conn' \in [Attempts -> ConnStates] /\ conn'[k] = c
        /\ \A j \in Attempts \ {k} : conn'[j] = conn[j]
        /\ down'[k] = Tail(down[k])
        /\ \A j \in Attempts \ {k} : down'[j] = down[j]
    BY <1>0 DEF ViewerTypeOK
  <1>2. f \in ToBrowser /\ Tail(down[k]) \in Seq(ToBrowser) BY TakesIn
  <1>3. ViewerTypeOK'
    <2>1. down' \in [Attempts -> Seq(ToBrowser)]
      BY <1>0, <1>2 DEF ViewerTypeOK
    <2> QED BY <1>0, <1>1, <2>1 DEF ViewerTypeOK, Answers
  <1>4. StartsOnce'
    <2>1. \A j \in Attempts : Early(j)' => j # k /\ Early(j)
      BY <1>1 DEF MayTake, Early
    <2>2. \A j \in Attempts : conn[j].ws = "none" => conn'[j].ws = "none"
      BY <1>1 DEF ViewerInv, StartsOnce, Early
    <2>3. down[k] # <<>> /\ \A j \in Attempts : down[j] = <<>> => down'[j] = <<>>
      BY <1>1
    <2> QED BY <2>1, <2>2, <2>3, StartsStay DEF ViewerInv
  <1>5. OffersOnce'
    <2> SUFFICES ASSUME NEW s \in Attempts, NEW j \in Attempts
                 PROVE  /\ agent[s].at # "done" \/ IsIn("offer", s, fromAgent) =>
                              /\ ~IsIn("offer", s, down'[j])
                              /\ conn'[j].offer[s] = "none"
                        /\ AtMostOnce("offer", s, down'[j])
                        /\ IsIn("offer", s, down'[j]) =>
                              conn'[j].offer[s] = "none"
      BY DEF ViewerInv, OffersOnce
    <2>1. /\ agent[s].at # "done" \/ IsIn("offer", s, fromAgent) =>
                ~IsIn("offer", s, down[j]) /\ conn[j].offer[s] = "none"
          /\ AtMostOnce("offer", s, down[j])
          /\ IsIn("offer", s, down[j]) => conn[j].offer[s] = "none"
      BY DEF ViewerInv, OffersOnce
    <2>2. CASE j # k BY <1>1, <2>1, <2>2
    <2>3. CASE j = k
      <3>1. CASE f.type = "offer" /\ f.of = s
        BY <1>1, <2>1, <2>3, <3>1, TakesIn
      <3>2. CASE ~(f.type = "offer" /\ f.of = s)
        <4>1. conn[k].offer[s] = "none" => c.offer[s] = "none"
          BY <3>2 DEF MayTake
        <4> QED BY <1>1, <2>1, <2>3, <4>1, TakesIn
      <3> QED BY <3>1, <3>2
    <2> QED BY <2>2, <2>3
  <1>6. BuffersDescribed'
    BY <1>1 DEF ViewerInv, BuffersDescribed, MayTake
  <1>7. NoCandidateStranded'
    BY <1>1 DEF ViewerInv, NoCandidateStranded, MayTake
  <1> QED BY <1>3, <1>4, <1>5, <1>6, <1>7 DEF ViewerInv

\* Whatever frame the browser takes, the invariant is kept.
LEMMA ReceivesKeep ==
    ASSUME ViewerInv, NEW k \in Attempts, cands' \in Nat, faults' \in Nat,
           BrowserReceives(k)
    PROVE  ViewerInv'
  <1> USE DEF agentVars
  <1> DEFINE f == Head(down[k])
  <1>0. /\ conn \in [Attempts -> ConnStates] /\ conn[k] \in ConnStates
        /\ ui \in Shown /\ f \in ToBrowser /\ f.of \in Attempts
        /\ down[k] # <<>> /\ ~Early(k)
    <2>1. down[k] # <<>> BY DEF BrowserReceives
    <2>2. f \in ToBrowser BY <2>1, TakesIn
    <2> QED BY <2>1, <2>2
      DEF ViewerInv, ViewerTypeOK, StartsOnce, ToBrowser, Frames
  <1>1. /\ \A r \in Attempts : conn[k].offer[r] = "flushing" => conn[k].remote
        /\ ~conn[k].remote => conn[k].applied = {}
    BY DEF ViewerInv, BuffersDescribed, NoCandidateStranded
  <1>2. \A s \in Attempts : f.type = "offer" /\ f.of = s =>
           conn[k].offer[s] = "none"
    BY <1>0, TakesIn
  <1>3. /\ down' = [down EXCEPT ![k] = Tail(@)]
        /\ UNCHANGED <<cur, agent, session, slot, online, up, toAgent, fromAgent>>
    BY DEF BrowserReceives
  <1>4. \E c \in ConnStates :
           /\ conn' = [conn EXCEPT ![k] = c]
           /\ MayTake(k, c, f) /\ ui' \in Shown
    <2>1. CASE UNCHANGED <<ui, conn>>
      <3>1. conn' = [conn EXCEPT ![k] = conn[k]] BY <1>0, <2>1
      <3>2. MayTake(k, conn[k], f) BY <1>0, <1>1 DEF MayTake, Early
      <3> QED BY <1>0, <2>1, <3>1, <3>2
    <2>2. CASE f.type \in {"busy", "end"} /\ OnClose(k, f.type)
      <3> DEFINE c == [conn[k] EXCEPT !.ws = "closed"]
      <3>1. /\ c \in ConnStates /\ conn' = [conn EXCEPT ![k] = c]
            /\ c.ws = "closed" /\ c.remote = conn[k].remote
            /\ c.applied = conn[k].applied /\ c.pending = conn[k].pending
            /\ c.offer = conn[k].offer
        BY <1>0, <2>2 DEF OnClose, ConnStates, Sockets
      <3>2. ui' \in Shown
        <4>1. [ui EXCEPT !.state = "closed",
                         !.error = @ \/ f.type = "busy" \/ ~conn[k].named] \in Shown
          BY <1>0 DEF Shown
        <4> QED BY <1>0, <2>2, <4>1 DEF OnClose, Show
      <3> HIDE DEF c
      <3>3. MayTake(k, c, f) BY <1>1, <3>1 DEF MayTake
      <3> QED BY <3>1, <3>2, <3>3
    <2>3. CASE f.type = "ready" /\ OnSessionReady(k)
      <3> DEFINE c == EnsurePeer(k)
      <3>1. /\ c \in ConnStates /\ conn' = [conn EXCEPT ![k] = c]
            /\ c.ws = conn[k].ws /\ c.remote = conn[k].remote
            /\ c.applied = conn[k].applied /\ c.pending = conn[k].pending
            /\ c.offer = conn[k].offer
        BY <1>0, <2>3 DEF OnSessionReady, EnsurePeer, ConnStates
      <3>2. ui' \in Shown BY <1>0, <2>3 DEF OnSessionReady, Show, Shown
      <3> HIDE DEF c
      <3>3. MayTake(k, c, f) BY <1>0, <1>1, <3>1 DEF MayTake, Early
      <3> QED BY <3>1, <3>2, <3>3
    <2>4. CASE f.type = "offer" /\ OnOffer(k, f.of)
      <3> DEFINE c == [EnsurePeer(k) EXCEPT !.offer = [@ EXCEPT ![f.of] = "setting"]]
      <3>1. /\ c \in ConnStates /\ conn' = [conn EXCEPT ![k] = c]
            /\ c.ws = conn[k].ws /\ c.remote = conn[k].remote
            /\ c.applied = conn[k].applied /\ c.pending = conn[k].pending
            /\ c.offer[f.of] = "setting"
            /\ \A r \in Attempts \ {f.of} : c.offer[r] = conn[k].offer[r]
        BY <1>0, <2>4 DEF OnOffer, EnsurePeer, ConnStates, Answering
      <3>2. ui' \in Shown BY <1>0, <2>4 DEF OnOffer
      <3> HIDE DEF c
      <3>3. MayTake(k, c, f)
        BY <1>0, <1>1, <1>2, <2>4, <3>1 DEF MayTake, Early
      <3> QED BY <3>1, <3>2, <3>3
    <2>5. CASE f.type = "candidate" /\ OnCandidate(k, f)
      <3>1. f \in Trickled
        BY <1>0, <2>5 DEF ToBrowser, Trickled, Frames
      <3> DEFINE c == IF conn[k].remote
                      THEN [conn[k] EXCEPT !.applied = @ \cup {f}]
                      ELSE [conn[k] EXCEPT !.pending = @ \cup {f}]
      <3>2. /\ c \in ConnStates /\ conn' = [conn EXCEPT ![k] = c]
            /\ c.ws = conn[k].ws /\ c.remote = conn[k].remote
            /\ conn[k].remote => c.pending = conn[k].pending
            /\ ~conn[k].remote => c.applied = conn[k].applied
            /\ c.offer = conn[k].offer
        BY <1>0, <2>5, <3>1 DEF OnCandidate, ConnStates
      <3>3. ui' \in Shown BY <1>0, <2>5 DEF OnCandidate
      <3> HIDE DEF c
      <3>4. MayTake(k, c, f) BY <1>0, <1>1, <3>2 DEF MayTake, Early
      <3> QED BY <3>2, <3>3, <3>4
    <2>6. CASE f.type = "error" /\ OnError(k)
      <3>1. conn' = [conn EXCEPT ![k] = conn[k]]
        BY <1>0, <2>6 DEF OnError
      <3>2. ui' \in Shown BY <1>0, <2>6 DEF OnError, Show, Shown
      <3>3. MayTake(k, conn[k], f) BY <1>0, <1>1 DEF MayTake, Early
      <3> QED BY <1>0, <3>1, <3>2, <3>3
    <2>7. f.type \in {"ready", "offer", "candidate", "error", "busy", "end"}
      BY <1>0 DEF ToBrowser, Frames
    <2> HIDE DEF f
    <2>8. /\ f.type \in {"busy", "end"} => OnClose(k, f.type)
          /\ f.type \notin {"busy", "end"} =>
                \/ UNCHANGED <<ui, conn>>
                \/ f.type = "ready" /\ OnSessionReady(k)
                \/ f.type = "offer" /\ OnOffer(k, f.of)
                \/ f.type = "candidate" /\ OnCandidate(k, f)
                \/ f.type = "error" /\ OnError(k)
      BY <2>7 DEF BrowserReceives, f
    <2> QED BY <2>1, <2>2, <2>3, <2>4, <2>5, <2>6, <2>7, <2>8
  <1> QED BY <1>0, <1>3, <1>4, ReceiveStep

----------------------------------------------------------------------------
(* The backend.                                                            *)

\* What a queue that names its answers is without its first frame.
LEMMA AnswersTaken ==
    ASSUME NEW S, NEW q \in Seq(S), Answers(q), q # <<>>
    PROVE  /\ Tail(q) \in Seq(S) /\ Answers(Tail(q)) /\ Head(q) \in S
           /\ Head(q).type = "answer" => Head(q).n \in Attempts
  <1>1. /\ Len(Tail(q)) = Len(q) - 1 /\ Len(q) \in Nat /\ Len(q) > 0
        /\ \A i \in 1 .. Len(Tail(q)) :
              i + 1 \in 1 .. Len(q) /\ Tail(q)[i] = q[i + 1]
        /\ 1 \in 1 .. Len(q) /\ Head(q) = q[1]
    OBVIOUS
  <1>2. Tail(q) \in Seq(S) /\ Head(q) \in S OBVIOUS
  <1>3. Answers(Tail(q)) BY <1>1 DEF Answers
  <1>4. Head(q).type = "answer" => Head(q).n \in Attempts
    BY <1>1 DEF Answers
  <1> QED BY <1>2, <1>3, <1>4

\* What the backend moves: nothing new to start, an offer only from the device
\* to the attempt that holds it.
ServerTypes ==
    /\ down' \in [Attempts -> Seq(ToBrowser)]
    /\ up' \in [Attempts -> Seq(FromBrowser)]
    /\ \A j \in Attempts : Answers(up'[j])
    /\ toAgent' \in Seq(ToDevice) /\ Answers(toAgent')
    /\ fromAgent' \in Seq(FromDevice)

ServerMoves ==
    /\ slot' \in {0, slot}
    /\ \A k \in Attempts : k # slot => down'[k] = down[k]
    /\ \A s \in Attempts :
          /\ IsIn("start", s, toAgent') => IsIn("start", s, toAgent)
          /\ AtMostOnce("start", s, toAgent')
          /\ IsIn("offer", s, fromAgent') => IsIn("offer", s, fromAgent)
          /\ AtMostOnce("offer", s, fromAgent')
          /\ \A k \in Attempts :
                /\ IsIn("offer", s, down'[k]) =>
                      \/ IsIn("offer", s, down[k])
                      \/ /\ IsIn("offer", s, fromAgent)
                         /\ ~IsIn("offer", s, fromAgent')
                /\ AtMostOnce("offer", s, down'[k])

\* A step of the backend that moves no more than it may.
LEMMA BackendStep ==
    ASSUME ViewerInv, ServerTypes, ServerMoves, cands' \in Nat, faults' \in Nat,
           UNCHANGED <<cur, ui, conn, agent, session, online>>
    PROVE  ViewerInv'
  <1>1. ViewerTypeOK'
    <2>1. ViewerTypeOK BY DEF ViewerInv
    <2>2. slot' \in 0 .. LastAttempt
      BY <2>1, ViewerAssumption DEF ViewerTypeOK, ServerMoves
    <2> QED BY <2>1, <2>2 DEF ViewerTypeOK, ServerTypes, Answers
  <1>2. StartsOnce'
    <2> SUFFICES ASSUME NEW s \in Attempts
                 PROVE  /\ Early(s) => /\ agent[s].at = "none"
                                       /\ ~IsIn("start", s, toAgent')
                                       /\ slot' # s /\ down'[s] = <<>>
                        /\ IsIn("start", s, toAgent') => agent[s].at = "none"
                        /\ AtMostOnce("start", s, toAgent')
      BY DEF ViewerInv, StartsOnce, Early
    <2>1. /\ Early(s) => /\ agent[s].at = "none" /\ ~IsIn("start", s, toAgent)
                         /\ slot # s /\ down[s] = <<>>
          /\ IsIn("start", s, toAgent) => agent[s].at = "none"
      BY DEF ViewerInv, StartsOnce
    <2>2. s # 0 BY ViewerAssumption DEF Attempts
    <2> QED BY <2>1, <2>2 DEF ServerMoves
  <1>3. OffersOnce'
    BY DEF ViewerInv, OffersOnce, ServerMoves
  <1>4. BuffersDescribed' /\ NoCandidateStranded'
    BY DEF ViewerInv, BuffersDescribed, NoCandidateStranded
  <1> QED BY <1>1, <1>2, <1>3, <1>4 DEF ViewerInv

\* A queue that gets, at its end, frames that neither start nor offer.
Idles(q) == \A i \in 1 .. Len(q) : q[i].type \notin {"start", "offer"}

\* Such frames change neither what starts nor what offers.
LEMMA IdlesJoin ==
    ASSUME NEW S, NEW q \in Seq(S), NEW p \in Seq(S), Idles(p),
           NEW t \in {"start", "offer"}, NEW s
    PROVE  /\ q \o p \in Seq(S)
           /\ IsIn(t, s, q \o p) <=> IsIn(t, s, q)
           /\ AtMostOnce(t, s, q) => AtMostOnce(t, s, q \o p)
  <1>1. ~IsIn(t, s, p) /\ AtMostOnce(t, s, p)
    BY DEF Idles, IsIn, AtMostOnce
  <1> QED BY <1>1, Joined

LEMMA IdlesAppend ==
    ASSUME NEW S, NEW q \in Seq(S), NEW f \in S,
           f.type \notin {"start", "offer"}, NEW t \in {"start", "offer"}, NEW s
    PROVE  /\ Append(q, f) \in Seq(S)
           /\ IsIn(t, s, Append(q, f)) <=> IsIn(t, s, q)
           /\ AtMostOnce(t, s, q) => AtMostOnce(t, s, Append(q, f))
  BY Appended

\* What the invariant says of the frames on their way.
LEMMA InFlight ==
    ASSUME ViewerInv
    PROVE  /\ down \in [Attempts -> Seq(ToBrowser)]
           /\ up \in [Attempts -> Seq(FromBrowser)]
           /\ toAgent \in Seq(ToDevice) /\ fromAgent \in Seq(FromDevice)
           /\ \A j \in Attempts : Answers(up[j])
           /\ Answers(toAgent)
           /\ slot \in 0 .. LastAttempt
           /\ \A s \in Attempts :
                 /\ AtMostOnce("start", s, toAgent)
                 /\ AtMostOnce("offer", s, fromAgent)
                 /\ \A k \in Attempts :
                       /\ AtMostOnce("offer", s, down[k])
                       /\ IsIn("offer", s, fromAgent) =>
                             ~IsIn("offer", s, down[k])
  BY DEF ViewerInv, ViewerTypeOK, StartsOnce, OffersOnce, Answers

\* A session ends: its viewer is told, and the device is.
LEMMA EndStep ==
    ASSUME ViewerInv, NEW told \in Seq(ToBrowser), Idles(told),
           slot \in Attempts, EndSession(slot, told),
           up' \in [Attempts -> Seq(FromBrowser)],
           \A j \in Attempts : Answers(up'[j]), cands' \in Nat, faults' \in Nat,
           UNCHANGED <<cur, ui, conn, agent, session, online, fromAgent>>
    PROVE  ViewerInv'
  <1> DEFINE stop == Frame("stop", slot)
             end == <<Frame("end", slot)>>
             more == down[slot] \o told
  <1>1. stop \in ToDevice /\ stop.type = "stop" BY Made DEF ToDevice
  <1>2. /\ end \in Seq(ToBrowser) /\ Idles(end)
        /\ more \in Seq(ToBrowser)
        /\ \A s \in Attempts :
              /\ IsIn("offer", s, more) => IsIn("offer", s, down[slot])
              /\ AtMostOnce("offer", s, more)
    <2>1. Frame("end", slot) \in ToBrowser /\ Frame("end", slot).type = "end"
      BY Made DEF ToBrowser
    <2>2. down[slot] \in Seq(ToBrowser) BY InFlight
    <2>3. end \in Seq(ToBrowser) /\ Idles(end) BY <2>1 DEF Idles
    <2>4. more \in Seq(ToBrowser) BY <2>2
    <2>5. ASSUME NEW s \in Attempts
          PROVE  /\ IsIn("offer", s, more) => IsIn("offer", s, down[slot])
                 /\ AtMostOnce("offer", s, more)
      <3>1. AtMostOnce("offer", s, down[slot]) BY InFlight
      <3> QED BY <2>2, <3>1, IdlesJoin
    <2> QED BY <2>3, <2>4, <2>5
  <1>3. /\ toAgent' = toAgent \/ toAgent' = Append(toAgent, stop)
        /\ slot' = 0
        /\ down' = [down EXCEPT ![slot] = more \o end]
    BY DEF EndSession
  <1> HIDE DEF stop, end, more
  <1>4. toAgent' \in Seq(ToDevice) /\ Answers(toAgent')
    <2>1. Append(toAgent, stop) \in Seq(ToDevice) /\ Answers(Append(toAgent, stop))
      BY <1>1, InFlight, AnswersJoin
    <2> QED BY <1>3, <2>1, InFlight
  <1>5. ASSUME NEW s \in Attempts
        PROVE  /\ IsIn("start", s, toAgent') => IsIn("start", s, toAgent)
               /\ AtMostOnce("start", s, toAgent')
    <2>1. /\ IsIn("start", s, Append(toAgent, stop)) => IsIn("start", s, toAgent)
          /\ AtMostOnce("start", s, Append(toAgent, stop))
      BY <1>1, InFlight, IdlesAppend
    <2> QED BY <1>3, <2>1, InFlight
  <1>6. /\ down' \in [Attempts -> Seq(ToBrowser)]
        /\ \A k \in Attempts : k # slot => down'[k] = down[k]
        /\ down'[slot] = more \o end
    BY <1>2, <1>3, InFlight
  <1>7. ASSUME NEW s \in Attempts, NEW k \in Attempts
        PROVE  /\ IsIn("offer", s, down'[k]) => IsIn("offer", s, down[k])
               /\ AtMostOnce("offer", s, down'[k])
    <2>1. CASE k # slot BY <1>6, <2>1, InFlight
    <2>2. CASE k = slot
      <3>1. /\ IsIn("offer", s, more \o end) <=> IsIn("offer", s, more)
            /\ AtMostOnce("offer", s, more \o end)
        BY <1>2, IdlesJoin
      <3> QED BY <1>2, <1>6, <2>2, <3>1
    <2> QED BY <2>1, <2>2
  <1>8. ServerTypes BY <1>4, <1>6, InFlight DEF ServerTypes
  <1>9. ServerMoves BY <1>3, <1>5, <1>6, <1>7, InFlight DEF ServerMoves
  <1> QED BY <1>8, <1>9, BackendStep

\* The deadline of a silent viewer and a lost device keep it.
LEMMA EndsKeep ==
    ASSUME ViewerInv, NEW k \in Attempts, cands' \in Nat, faults' \in Nat,
           ReadDeadline(k) \/ TellViewer
    PROVE  ViewerInv'
  <1> USE DEF browserVars, agentVars
  <1>1. CASE ReadDeadline(k)
    <2>1. <<>> \in Seq(ToBrowser) /\ Idles(<<>>) BY DEF Idles
    <2>2. slot = k /\ EndSession(slot, <<>>) BY <1>1 DEF ReadDeadline
    <2> QED BY <1>1, <2>1, <2>2, InFlight, EndStep DEF ReadDeadline
  <1>2. CASE TellViewer
    <2> DEFINE told == <<Frame("error", slot)>>
    <2>1. slot \in Attempts BY <1>2, InFlight DEF TellViewer, Attempts
    <2>2. Frame("error", slot) \in ToBrowser
          /\ Frame("error", slot).type = "error"
      BY <2>1, Made DEF ToBrowser
    <2>3. told \in Seq(ToBrowser) /\ Idles(told) BY <2>2 DEF Idles
    <2>4. EndSession(slot, told) BY <1>2 DEF TellViewer
    <2> HIDE DEF told
    <2> QED BY <1>2, <2>1, <2>3, <2>4, InFlight, EndStep DEF TellViewer
  <1> QED BY <1>1, <1>2

\* readViewer keeps it.
LEMMA ServerReadsKeep ==
    ASSUME ViewerInv, NEW k \in Attempts, cands' \in Nat, faults' \in Nat,
           ServerReads(k)
    PROVE  ViewerInv'
  <1> USE DEF browserVars, agentVars
  <1> DEFINE f == Head(up[k])
  <1>1. /\ slot = k /\ up' = [up EXCEPT ![k] = Tail(@)]
        /\ UNCHANGED <<cur, ui, conn, agent, session, online, fromAgent>>
    BY DEF ServerReads
  <1>2. /\ Tail(up[k]) \in Seq(FromBrowser) /\ Answers(Tail(up[k]))
        /\ f \in FromBrowser
        /\ f.type = "answer" => f.n \in Attempts
    BY InFlight, AnswersTaken DEF ServerReads
  <1>3. /\ up' \in [Attempts -> Seq(FromBrowser)]
        /\ \A j \in Attempts : Answers(up'[j])
    BY <1>1, <1>2, InFlight
  <1>4. CASE f.type = "bye" \/ ~online
    <2>1. <<>> \in Seq(ToBrowser) /\ Idles(<<>>) BY DEF Idles
    <2>2. EndSession(slot, <<>>) BY <1>1, <1>4 DEF ServerReads
    <2> QED BY <1>1, <1>3, <2>1, <2>2, InFlight, EndStep
  <1>5. CASE ~(f.type = "bye" \/ ~online)
    <2>1. toAgent' = Append(toAgent, f) /\ UNCHANGED <<slot, down>>
      BY <1>5 DEF ServerReads
    <2> HIDE DEF f
    <2>2. f \in ToDevice /\ f.type \notin {"start", "offer"}
      BY <1>2, <1>5 DEF FromBrowser, ToDevice, Frames
    <2>3. toAgent' \in Seq(ToDevice) /\ Answers(toAgent')
      BY <1>2, <2>1, <2>2, InFlight, AnswersJoin
    <2>4. ASSUME NEW s \in Attempts
          PROVE  /\ IsIn("start", s, toAgent') => IsIn("start", s, toAgent)
                 /\ AtMostOnce("start", s, toAgent')
      BY <2>1, <2>2, InFlight, IdlesAppend
    <2>5. ServerTypes BY <1>1, <1>3, <2>1, <2>3, InFlight DEF ServerTypes
    <2>6. ServerMoves BY <1>1, <2>1, <2>4, InFlight DEF ServerMoves
    <2> QED BY <1>1, <2>5, <2>6, BackendStep
  <1> QED BY <1>4, <1>5

\* What the device says is handed over to its viewer.
LEMMA ForwardKeeps ==
    ASSUME ViewerInv, cands' \in Nat, faults' \in Nat, Forward
    PROVE  ViewerInv'
  <1> USE DEF browserVars, agentVars
  <1> DEFINE f == Head(fromAgent)
  <1>1. /\ fromAgent # <<>> /\ fromAgent' = Tail(fromAgent)
        /\ UNCHANGED <<cur, ui, conn, agent, session, online, slot, up, toAgent>>
    BY DEF Forward
  <1>2. f \in FromDevice /\ Tail(fromAgent) \in Seq(FromDevice)
    BY <1>1, InFlight
  <1>3. f \in ToBrowser BY <1>2 DEF FromDevice, ToBrowser, Frames
  <1>4. ASSUME NEW s \in Attempts
        PROVE  /\ IsIn("offer", s, fromAgent') => IsIn("offer", s, fromAgent)
               /\ AtMostOnce("offer", s, fromAgent')
               /\ f.type = "offer" /\ f.of = s =>
                     /\ IsIn("offer", s, fromAgent)
                     /\ ~IsIn("offer", s, fromAgent')
    BY <1>1, InFlight, Taken
  <1>5. slot # 0 => slot \in Attempts BY InFlight DEF Attempts
  <1>6. /\ down' \in [Attempts -> Seq(ToBrowser)]
        /\ \A k \in Attempts : k # slot => down'[k] = down[k]
        /\ slot # 0 => down'[slot] = Append(down[slot], f)
    <2>1. CASE slot = 0
      <3>1. down' = down BY <2>1 DEF Forward, ToViewer
      <3> QED BY <2>1, <3>1, InFlight
    <2>2. CASE slot # 0
      <3>1. down' = [down EXCEPT ![slot] = @ \o <<f>>]
        BY <2>2 DEF Forward, ToViewer
      <3> HIDE DEF f
      <3>2. down[slot] \o <<f>> = Append(down[slot], f)
        BY <1>3, <1>5, <2>2, InFlight
      <3>3. Append(down[slot], f) \in Seq(ToBrowser)
        BY <1>3, <1>5, <2>2, InFlight
      <3> QED BY <1>5, <2>2, <3>1, <3>2, <3>3, InFlight
    <2> QED BY <2>1, <2>2
  <1> HIDE DEF f
  <1>7. ASSUME NEW s \in Attempts, NEW k \in Attempts
        PROVE  /\ IsIn("offer", s, down'[k]) =>
                     \/ IsIn("offer", s, down[k])
                     \/ /\ IsIn("offer", s, fromAgent)
                        /\ ~IsIn("offer", s, fromAgent')
               /\ AtMostOnce("offer", s, down'[k])
    <2>1. CASE k # slot BY <1>6, <2>1, InFlight
    <2>2. CASE k = slot
      <3>1. slot # 0 BY <2>2, ViewerAssumption DEF Attempts
      <3>2. /\ down[k] \in Seq(ToBrowser) /\ down'[k] = Append(down[k], f)
            /\ AtMostOnce("offer", s, down[k])
            /\ IsIn("offer", s, fromAgent) => ~IsIn("offer", s, down[k])
        BY <1>6, <2>2, <3>1, InFlight
      <3> QED BY <1>3, <1>4, <3>2, Appended
    <2> QED BY <2>1, <2>2
  <1>8. ServerTypes BY <1>1, <1>2, <1>6, InFlight DEF ServerTypes
  <1>9. ServerMoves BY <1>1, <1>4, <1>6, <1>7, InFlight DEF ServerMoves
  <1> QED BY <1>1, <1>8, <1>9, BackendStep

\* Serving an attempt keeps it: only here is a session started.
LEMMA ServeKeeps ==
    ASSUME ViewerInv, NEW k \in Attempts, cands' \in Nat, faults' \in Nat,
           Serve(k)
    PROVE  ViewerInv'
  <1> USE DEF agentVars
  <1> DEFINE c == [conn[k] EXCEPT !.ws = "open"]
             start == Frame("start", k)
  <1>0. conn \in [Attempts -> ConnStates] /\ conn[k] \in ConnStates
    BY DEF ViewerInv, ViewerTypeOK
  <1>1. /\ conn[k].ws = "opening" /\ conn' = [conn EXCEPT ![k] = c]
        /\ UNCHANGED <<cur, ui, agent, session, online, up, fromAgent>>
    BY <1>0 DEF Serve
  <1>2. /\ c \in ConnStates /\ c.ws = "open" /\ c.remote = conn[k].remote
        /\ c.applied = conn[k].applied /\ c.pending = conn[k].pending
        /\ c.offer = conn[k].offer
    BY <1>0 DEF ConnStates, Sockets
  <1> HIDE DEF c
  <1>3. /\ conn' \in [Attempts -> ConnStates] /\ conn'[k] = c
        /\ \A j \in Attempts \ {k} : conn'[j] = conn[j]
    BY <1>0, <1>1, <1>2
  <1>4. /\ agent[k].at = "none" /\ ~IsIn("start", k, toAgent)
        /\ down[k] = <<>> /\ slot # k
    BY <1>1 DEF ViewerInv, StartsOnce, Early
  <1>5. start \in ToDevice /\ start.type = "start" /\ start.of = k
    BY Made DEF ToDevice
  <1>6. \/ /\ slot' = k /\ toAgent' = Append(toAgent, start) /\ down' = down
        \/ /\ slot' = slot /\ toAgent' = toAgent
           /\ \E q \in Seq(ToBrowser) :
                 Idles(q) /\ down' = [down EXCEPT ![k] = q]
    <2>1. CASE slot = 0 /\ online BY <2>1 DEF Serve
    <2>2. CASE ~(slot = 0 /\ online)
      <3> DEFINE q == IF online THEN <<Frame("error", k), Frame("busy", k)>>
                                ELSE <<Frame("end", k)>>
      <3>1. /\ slot' = slot /\ toAgent' = toAgent
            /\ down' = [down EXCEPT ![k] = @ \o q]
        BY <2>2 DEF Serve
      <3>2. /\ Frame("error", k) \in ToBrowser /\ Frame("error", k).type = "error"
            /\ Frame("busy", k) \in ToBrowser /\ Frame("busy", k).type = "busy"
            /\ Frame("end", k) \in ToBrowser /\ Frame("end", k).type = "end"
        BY Made DEF ToBrowser
      <3>3. q \in Seq(ToBrowser) /\ Idles(q) BY <3>2 DEF Idles
      <3> HIDE DEF q
      <3>4. down[k] \o q = q BY <1>4, <3>3
      <3> QED BY <3>1, <3>3, <3>4
    <2> QED BY <2>1, <2>2
  <1> HIDE DEF start
  <1>7. ViewerTypeOK'
    <2>1. slot' \in 0 .. LastAttempt /\ down' \in [Attempts -> Seq(ToBrowser)]
      BY <1>6, InFlight DEF Attempts
    <2>2. toAgent' \in Seq(ToDevice) /\ Answers(toAgent')
      <3>1. /\ Append(toAgent, start) \in Seq(ToDevice)
            /\ Answers(Append(toAgent, start))
        BY <1>5, InFlight, AnswersJoin
      <3> QED BY <1>6, <3>1, InFlight
    <2> QED BY <1>1, <1>3, <2>1, <2>2 DEF ViewerInv, ViewerTypeOK, Answers
  <1>8. StartsOnce'
    <2>1. cur # 0 => \A j \in Attempts : j > cur => conn'[j].ws = "none"
      <3> SUFFICES ASSUME cur # 0, NEW j \in Attempts, j > cur
                   PROVE  conn'[j].ws = "none"
        OBVIOUS
      <3>1. conn[j].ws = "none" BY DEF ViewerInv, StartsOnce
      <3> QED BY <1>1, <1>3, <3>1
    <2>2. ASSUME NEW s \in Attempts
          PROVE  /\ conn'[s].ws \in {"none", "fetching", "opening"} =>
                       /\ agent[s].at = "none" /\ ~IsIn("start", s, toAgent')
                       /\ slot' # s /\ down'[s] = <<>>
                 /\ IsIn("start", s, toAgent') => agent[s].at = "none"
                 /\ AtMostOnce("start", s, toAgent')
      <3>1. /\ Early(s) => /\ agent[s].at = "none" /\ ~IsIn("start", s, toAgent)
                           /\ slot # s /\ down[s] = <<>>
            /\ IsIn("start", s, toAgent) => agent[s].at = "none"
            /\ AtMostOnce("start", s, toAgent)
        BY DEF ViewerInv, StartsOnce
      <3>2. CASE s = k
        <4>1. conn'[s].ws = "open" BY <1>2, <1>3, <3>2
        <4>2. AtMostOnce("start", s, toAgent')
          <5>1. CASE toAgent' = Append(toAgent, start)
            BY <1>4, <1>5, <3>1, <3>2, <5>1, InFlight, Appended
          <5>2. CASE toAgent' = toAgent BY <3>1, <5>2
          <5> QED BY <1>6, <5>1, <5>2
        <4> QED BY <1>4, <3>2, <4>1, <4>2
      <3>3. CASE s # k
        <4>1. /\ IsIn("start", s, toAgent') => IsIn("start", s, toAgent)
              /\ AtMostOnce("start", s, toAgent')
          <5>1. CASE toAgent' = Append(toAgent, start)
            BY <1>5, <3>1, <3>3, <5>1, InFlight, Appended
          <5>2. CASE toAgent' = toAgent BY <3>1, <5>2
          <5> QED BY <1>6, <5>1, <5>2
        <4>2. conn'[s] = conn[s] /\ slot' \in {slot, k} BY <1>3, <1>6, <3>3
        <4>3. down'[s] = down[s] BY <1>6, <3>3, InFlight
        <4> QED BY <3>1, <3>3, <4>1, <4>2, <4>3 DEF Early
      <3> QED BY <3>2, <3>3
    <2> QED BY <1>1, <2>1, <2>2 DEF StartsOnce, Early
  <1>9. OffersOnce'
    <2>1. ASSUME NEW s \in Attempts, NEW j \in Attempts
          PROVE  /\ IsIn("offer", s, down'[j]) => IsIn("offer", s, down[j])
                 /\ AtMostOnce("offer", s, down[j]) =>
                       AtMostOnce("offer", s, down'[j])
                 /\ conn'[j].offer = conn[j].offer
      <3>1. conn'[j].offer = conn[j].offer BY <1>2, <1>3
      <3>2. CASE down' = down BY <3>1, <3>2
      <3>3. ASSUME NEW q \in Seq(ToBrowser), Idles(q),
                   down' = [down EXCEPT ![k] = q]
            PROVE  /\ IsIn("offer", s, down'[j]) => IsIn("offer", s, down[j])
                   /\ AtMostOnce("offer", s, down[j]) =>
                         AtMostOnce("offer", s, down'[j])
        <4>1. CASE j # k BY <3>3, <4>1, InFlight
        <4>2. CASE j = k
          <5>1. down'[j] = q BY <3>3, <4>2, InFlight
          <5> QED BY <3>3, <5>1 DEF Idles, IsIn, AtMostOnce
        <4> QED BY <4>1, <4>2
      <3> QED BY <1>6, <3>1, <3>2, <3>3
    <2> QED BY <1>1, <2>1, OffersStay DEF ViewerInv
  <1>10. BuffersDescribed' /\ NoCandidateStranded'
    BY <1>1, <1>2, <1>3, BuffersStay DEF ViewerInv
  <1> QED BY <1>7, <1>8, <1>9, <1>10 DEF ViewerInv

----------------------------------------------------------------------------
(* The device.                                                             *)

DeviceTypes ==
    /\ agent' \in [Attempts -> AgentStates] /\ session' \in 0 .. LastAttempt
    /\ online' \in BOOLEAN
    /\ toAgent' \in Seq(ToDevice) /\ Answers(toAgent')
    /\ fromAgent' \in Seq(FromDevice)

\* A session begins when its start is taken, and offers when it is done; it
\* takes candidates to a connection that has its remote description.
DeviceMoves ==
    \A s \in Attempts :
        /\ agent[s].at = "none" =>
              \/ agent'[s].at = "none"
              \/ IsIn("start", s, toAgent) /\ ~IsIn("start", s, toAgent')
        /\ agent'[s].at = "none" => agent[s].at = "none"
        /\ agent[s].at = "done" => agent'[s].at = "done"
        /\ IsIn("start", s, toAgent') => IsIn("start", s, toAgent)
        /\ AtMostOnce("start", s, toAgent')
        /\ IsIn("offer", s, fromAgent') =>
              \/ IsIn("offer", s, fromAgent)
              \/ agent[s].at # "done" /\ agent'[s].at = "done"
        /\ AtMostOnce("offer", s, fromAgent')

BuffersMove ==
    \A s \in Attempts :
        /\ \A r \in Attempts :
              agent'[s].answer[r] \in {"flushing", "done"} => agent'[s].remote
        /\ ~agent'[s].remote => agent'[s].applied = {}
        /\ agent'[s].remote => agent'[s].pending = {}

\* A step of the device that changes no more than it may.
LEMMA DeviceStep ==
    ASSUME ViewerInv, DeviceTypes, DeviceMoves, BuffersMove,
           cands' \in Nat, faults' \in Nat,
           UNCHANGED <<cur, ui, conn, slot, down, up>>
    PROVE  ViewerInv'
  <1>1. ViewerTypeOK'
    BY DEF ViewerInv, ViewerTypeOK, DeviceTypes, Answers
  <1>2. StartsOnce'
    <2> SUFFICES ASSUME NEW s \in Attempts
                 PROVE  /\ Early(s) => /\ agent'[s].at = "none"
                                       /\ ~IsIn("start", s, toAgent')
                                       /\ slot # s /\ down[s] = <<>>
                        /\ IsIn("start", s, toAgent') => agent'[s].at = "none"
                        /\ AtMostOnce("start", s, toAgent')
      BY DEF ViewerInv, StartsOnce, Early
    <2>1. /\ Early(s) => /\ agent[s].at = "none" /\ ~IsIn("start", s, toAgent)
                         /\ slot # s /\ down[s] = <<>>
          /\ IsIn("start", s, toAgent) => agent[s].at = "none"
      BY DEF ViewerInv, StartsOnce
    <2> QED BY <2>1 DEF DeviceMoves
  <1>3. OffersOnce'
    BY DEF ViewerInv, OffersOnce, DeviceMoves
  <1>4. BuffersDescribed'
    BY DEF ViewerInv, BuffersDescribed, BuffersMove
  <1>5. NoCandidateStranded'
    BY DEF ViewerInv, NoCandidateStranded, BuffersMove
  <1> QED BY <1>1, <1>2, <1>3, <1>4, <1>5 DEF ViewerInv

\* What one session may become, and say, of itself.
MaySettle(s, a) ==
    /\ a.at = "none" <=> agent[s].at = "none"
    /\ agent[s].at = "done" => a.at = "done"
    /\ \A r \in Attempts : a.answer[r] \in {"flushing", "done"} => a.remote
    /\ ~a.remote => a.applied = {}
    /\ a.remote => a.pending = {}

Says(s, a) ==
    \/ fromAgent' = fromAgent
    \/ \E f \in FromDevice :
          /\ fromAgent' = Append(fromAgent, f)
          /\ f.type = "offer" => /\ f.of = s
                                 /\ agent[s].at # "done" /\ a.at = "done"

\* A step of one session that fits, with one frame at most.
LEMMA SessionStep ==
    ASSUME ViewerInv, NEW s \in Attempts, NEW a \in AgentStates,
           agent' = [agent EXCEPT ![s] = a], MaySettle(s, a), Says(s, a),
           session' \in 0 .. LastAttempt, cands' \in Nat, faults' \in Nat,
           UNCHANGED <<cur, ui, conn, slot, online, down, up, toAgent>>
    PROVE  ViewerInv'
  <1>1. /\ agent' \in [Attempts -> AgentStates] /\ agent'[s] = a
        /\ \A r \in Attempts \ {s} : agent'[r] = agent[r]
        /\ online \in BOOLEAN
    BY DEF ViewerInv, ViewerTypeOK
  <1>2. fromAgent' \in Seq(FromDevice)
    <2>1. fromAgent \in Seq(FromDevice) BY InFlight
    <2> QED BY <2>1 DEF Says
  <1>3. DeviceTypes BY <1>1, <1>2, InFlight DEF DeviceTypes
  <1>4. ASSUME NEW r \in Attempts
        PROVE  /\ IsIn("offer", r, fromAgent') =>
                     \/ IsIn("offer", r, fromAgent)
                     \/ agent[r].at # "done" /\ agent'[r].at = "done"
               /\ AtMostOnce("offer", r, fromAgent')
    <2>1. /\ agent[r].at # "done" => ~IsIn("offer", r, fromAgent)
          /\ AtMostOnce("offer", r, fromAgent)
      BY DEF ViewerInv, OffersOnce
    <2>2. CASE fromAgent' = fromAgent BY <2>1, <2>2
    <2>3. ASSUME NEW f \in FromDevice, fromAgent' = Append(fromAgent, f),
                 f.type = "offer" => /\ f.of = s
                                     /\ agent[s].at # "done" /\ a.at = "done"
          PROVE  /\ IsIn("offer", r, fromAgent') =>
                       \/ IsIn("offer", r, fromAgent)
                       \/ agent[r].at # "done" /\ agent'[r].at = "done"
                 /\ AtMostOnce("offer", r, fromAgent')
      <3>1. CASE f.type = "offer" /\ f.of = r
        <4>1. r = s BY <2>3, <3>1
        <4> QED BY <1>1, <2>1, <2>3, <3>1, <4>1, InFlight, Appended
      <3>2. CASE ~(f.type = "offer" /\ f.of = r)
        BY <2>1, <2>3, <3>2, InFlight, Appended
      <3> QED BY <3>1, <3>2
    <2> QED BY <2>2, <2>3 DEF Says
  <1>5. DeviceMoves
    BY <1>1, <1>4, InFlight DEF DeviceMoves, MaySettle
  <1>6. BuffersMove
    <2> SUFFICES ASSUME NEW r \in Attempts
                 PROVE  /\ \A q \in Attempts :
                              agent'[r].answer[q] \in {"flushing", "done"} =>
                                  agent'[r].remote
                        /\ ~agent'[r].remote => agent'[r].applied = {}
                        /\ agent'[r].remote => agent'[r].pending = {}
      BY DEF BuffersMove
    <2>1. CASE r = s BY <1>1, <2>1 DEF MaySettle
    <2>2. CASE r # s
      BY <1>1, <2>2 DEF ViewerInv, BuffersDescribed, NoCandidateStranded
    <2> QED BY <2>1, <2>2
  <1> QED BY <1>3, <1>5, <1>6, DeviceStep

\* A frame goes out if the device is connected.
LEMMA SaysOne ==
    ASSUME ViewerInv, NEW f \in FromDevice, AgentSends(<<f>>)
    PROVE  fromAgent' = fromAgent \/ fromAgent' = Append(fromAgent, f)
  <1>1. fromAgent \in Seq(FromDevice) BY InFlight
  <1>2. fromAgent \o <<f>> = Append(fromAgent, f) BY <1>1
  <1> QED BY <1>2 DEF AgentSends

\* What the invariant says of one session.
LEMMA OneSession ==
    ASSUME ViewerInv, NEW s \in Attempts
    PROVE  /\ agent \in [Attempts -> AgentStates] /\ agent[s] \in AgentStates
           /\ session \in 0 .. LastAttempt /\ cands \in Nat
           /\ \A r \in Attempts :
                 agent[s].answer[r] \in {"flushing", "done"} => agent[s].remote
           /\ ~agent[s].remote => agent[s].applied = {}
           /\ agent[s].remote => agent[s].pending = {}
  BY DEF ViewerInv, ViewerTypeOK, BuffersDescribed, NoCandidateStranded

\* The session goes from one place to the next and its buffers stay.
LEMMA MovesOn ==
    ASSUME ViewerInv, NEW s \in Attempts, NEW a \in AgentStates,
           a.remote = agent[s].remote, a.pending = agent[s].pending,
           a.applied = agent[s].applied, a.answer = agent[s].answer,
           a.at = "none" <=> agent[s].at = "none",
           agent[s].at = "done" => a.at = "done"
    PROVE  MaySettle(s, a)
  BY OneSession DEF MaySettle

\* Each step of session.start(), and its end, keep it.
LEMMA StartingKeeps ==
    ASSUME ViewerInv, NEW s \in Attempts, cands' \in Nat, faults' \in Nat,
           \/ Acquired(s) \/ Ready(s) \/ OfferCreated(s) \/ SendOffer(s)
           \/ StartFails(s) \/ AgentPeerFails(s)
    PROVE  ViewerInv'
  <1> USE DEF browserVars, serverVars
  <1>1. agent \in [Attempts -> AgentStates] /\ agent[s] \in AgentStates
        /\ session \in 0 .. LastAttempt
    BY OneSession
  <1>2. \A t \in {"ready", "offer", "error"} :
           /\ Frame(t, s) \in FromDevice
           /\ Frame(t, s).type = t /\ Frame(t, s).of = s
    BY Made DEF FromDevice
  <1>3. UNCHANGED <<cur, ui, conn, slot, online, down, up, toAgent>>
    BY DEF Acquired, Ready, OfferCreated, SendOffer, StartFails, AgentPeerFails
  <1>4. CASE Acquired(s)
    <2> DEFINE a == IF agent[s].closed THEN [agent[s] EXCEPT !.at = "done"]
                    ELSE [agent[s] EXCEPT !.at = "quality", !.capturing = TRUE]
    <2>1. /\ a \in AgentStates /\ agent' = [agent EXCEPT ![s] = a]
          /\ a.remote = agent[s].remote /\ a.pending = agent[s].pending
          /\ a.applied = agent[s].applied /\ a.answer = agent[s].answer
          /\ a.at \in {"done", "quality"} /\ agent[s].at = "acquiring"
      BY <1>1, <1>4 DEF Acquired, AgentStates, SessionPlaces
    <2>2. UNCHANGED <<session, fromAgent>> BY <1>4 DEF Acquired
    <2> HIDE DEF a
    <2>3. MaySettle(s, a) /\ Says(s, a) BY <2>1, <2>2, MovesOn DEF Says
    <2> QED BY <1>1, <1>3, <2>1, <2>2, <2>3, SessionStep
  <1>5. CASE Ready(s)
    <2> DEFINE a == [agent[s] EXCEPT !.at = "offering"]
               f == Frame("ready", s)
    <2>1. /\ a \in AgentStates /\ agent' = [agent EXCEPT ![s] = a]
          /\ a.remote = agent[s].remote /\ a.pending = agent[s].pending
          /\ a.applied = agent[s].applied /\ a.answer = agent[s].answer
          /\ a.at = "offering" /\ agent[s].at = "quality"
      BY <1>1, <1>5 DEF Ready, At, AgentStates, SessionPlaces
    <2>2. f \in FromDevice /\ f.type = "ready" BY <1>2
    <2>3. AgentSends(<<f>>) /\ UNCHANGED session BY <1>5 DEF Ready
    <2> HIDE DEF a, f
    <2>4. fromAgent' = fromAgent \/ fromAgent' = Append(fromAgent, f)
      BY <2>2, <2>3, SaysOne
    <2>5. Says(s, a) BY <2>2, <2>4 DEF Says
    <2>6. MaySettle(s, a) BY <2>1, MovesOn
    <2> QED BY <1>1, <1>3, <2>1, <2>3, <2>5, <2>6, SessionStep
  <1>6. CASE OfferCreated(s)
    <2> DEFINE a == [agent[s] EXCEPT !.at = IF agent[s].closed THEN "done"
                                            ELSE "describing"]
    <2>1. /\ a \in AgentStates /\ agent' = [agent EXCEPT ![s] = a]
          /\ a.remote = agent[s].remote /\ a.pending = agent[s].pending
          /\ a.applied = agent[s].applied /\ a.answer = agent[s].answer
          /\ a.at \in {"done", "describing"} /\ agent[s].at = "offering"
      BY <1>1, <1>6 DEF OfferCreated, At, AgentStates, SessionPlaces
    <2>2. UNCHANGED <<session, fromAgent>> BY <1>6 DEF OfferCreated
    <2> HIDE DEF a
    <2>3. MaySettle(s, a) /\ Says(s, a) BY <2>1, <2>2, MovesOn DEF Says
    <2> QED BY <1>1, <1>3, <2>1, <2>2, <2>3, SessionStep
  <1>7. CASE SendOffer(s)
    <2> DEFINE a == [agent[s] EXCEPT !.at = "done"]
               f == Frame("offer", s)
    <2>1. /\ a \in AgentStates /\ agent' = [agent EXCEPT ![s] = a]
          /\ a.remote = agent[s].remote /\ a.pending = agent[s].pending
          /\ a.applied = agent[s].applied /\ a.answer = agent[s].answer
          /\ a.at = "done" /\ agent[s].at = "describing"
      BY <1>1, <1>7 DEF SendOffer, At, AgentStates, SessionPlaces
    <2>2. f \in FromDevice /\ f.type = "offer" /\ f.of = s BY <1>2
    <2>3. AgentSends(<<f>>) /\ UNCHANGED session BY <1>7 DEF SendOffer
    <2> HIDE DEF a, f
    <2>4. fromAgent' = fromAgent \/ fromAgent' = Append(fromAgent, f)
      BY <2>2, <2>3, SaysOne
    <2>5. Says(s, a) BY <2>1, <2>2, <2>4 DEF Says
    <2>6. MaySettle(s, a) BY <2>1, MovesOn
    <2> QED BY <1>1, <1>3, <2>1, <2>3, <2>5, <2>6, SessionStep
  <1>8. CASE StartFails(s)
    <2> DEFINE a == [agent[s] EXCEPT !.at = "done", !.closed = TRUE,
                                     !.capturing = FALSE]
               f == Frame("error", s)
    <2>1. /\ a \in AgentStates /\ agent' = [agent EXCEPT ![s] = a]
          /\ a.remote = agent[s].remote /\ a.pending = agent[s].pending
          /\ a.applied = agent[s].applied /\ a.answer = agent[s].answer
          /\ a.at = "done" /\ agent[s].at \in {"acquiring", "offering", "describing"}
      BY <1>1, <1>8 DEF StartFails, AgentStates, SessionPlaces
    <2>2. f \in FromDevice /\ f.type = "error" BY <1>2
    <2>3. AgentSends(<<f>>) /\ session' \in {0, session}
      BY <1>8 DEF StartFails
    <2> HIDE DEF a, f
    <2>4. fromAgent' = fromAgent \/ fromAgent' = Append(fromAgent, f)
      BY <2>2, <2>3, SaysOne
    <2>5. Says(s, a) BY <2>2, <2>4 DEF Says
    <2>6. MaySettle(s, a) BY <2>1, MovesOn
    <2>7. session' \in 0 .. LastAttempt BY <1>1, <2>3, ViewerAssumption
    <2> QED BY <1>3, <2>1, <2>5, <2>6, <2>7, SessionStep
  <1>9. CASE AgentPeerFails(s)
    <2> DEFINE a == [agent[s] EXCEPT !.closed = TRUE, !.capturing = FALSE]
               f == Frame("error", s)
    <2>0. s # 0 BY ViewerAssumption DEF Attempts
    <2>1. /\ a \in AgentStates /\ agent' = [agent EXCEPT ![s] = a]
          /\ a.remote = agent[s].remote /\ a.pending = agent[s].pending
          /\ a.applied = agent[s].applied /\ a.answer = agent[s].answer
          /\ a.at = agent[s].at
      BY <1>1, <1>9, <2>0 DEF AgentPeerFails, CloseAgent, AgentStates
    <2>2. f \in FromDevice /\ f.type = "error" BY <1>2
    <2>3. AgentSends(<<f>>) /\ UNCHANGED session BY <1>9 DEF AgentPeerFails
    <2> HIDE DEF a, f
    <2>4. fromAgent' = fromAgent \/ fromAgent' = Append(fromAgent, f)
      BY <2>2, <2>3, SaysOne
    <2>5. Says(s, a) BY <2>2, <2>4 DEF Says
    <2>6. MaySettle(s, a) BY <2>1, MovesOn
    <2> QED BY <1>1, <1>3, <2>1, <2>3, <2>5, <2>6, SessionStep
  <1> QED BY <1>4, <1>5, <1>6, <1>7, <1>8, <1>9

\* Each step of handleAnswer, and gathering, keep it.
LEMMA AnsweringKeeps ==
    ASSUME ViewerInv, NEW s \in Attempts, NEW r \in Attempts,
           cands' \in Nat, faults' \in Nat,
           \/ SetAnswer(s, r) \/ AnswerFails(s, r) \/ AgentFlushes(s, r)
           \/ AgentGathers(s)
    PROVE  ViewerInv'
  <1> USE DEF browserVars, agentVars, serverVars
  <1>1. /\ agent \in [Attempts -> AgentStates] /\ agent[s] \in AgentStates
        /\ session \in 0 .. LastAttempt /\ cands \in Nat
        /\ \A q \in Attempts :
              agent[s].answer[q] \in {"flushing", "done"} => agent[s].remote
        /\ ~agent[s].remote => agent[s].applied = {}
        /\ agent[s].remote => agent[s].pending = {}
    BY OneSession
  <1>2. UNCHANGED <<cur, ui, conn, session, slot, online, down, up, toAgent>>
    BY DEF SetAnswer, AnswerFails, AgentFlushes, AgentGathers
  <1>3. CASE SetAnswer(s, r)
    <2> DEFINE a == [agent[s] EXCEPT !.answer = [@ EXCEPT ![r] = "flushing"],
                        !.remote = TRUE, !.flush = agent[s].pending,
                        !.pending = {}]
    <2>1. /\ a \in AgentStates /\ agent' = [agent EXCEPT ![s] = a]
          /\ a.at = agent[s].at /\ a.remote /\ a.pending = {}
      BY <1>1, <1>3 DEF SetAnswer, AgentStates, Answering
    <2>2. UNCHANGED fromAgent BY <1>3 DEF SetAnswer
    <2> HIDE DEF a
    <2>3. MaySettle(s, a) /\ Says(s, a) BY <2>1, <2>2 DEF MaySettle, Says
    <2> QED BY <1>1, <1>2, <2>1, <2>3, SessionStep
  <1>4. CASE AnswerFails(s, r)
    <2> DEFINE a == [agent[s] EXCEPT !.answer = [@ EXCEPT ![r] = "failed"]]
               f == Frame("error", s)
    <2>1. /\ a \in AgentStates /\ agent' = [agent EXCEPT ![s] = a]
          /\ a.at = agent[s].at /\ a.remote = agent[s].remote
          /\ a.pending = agent[s].pending /\ a.applied = agent[s].applied
          /\ a.answer[r] = "failed"
          /\ \A q \in Attempts \ {r} : a.answer[q] = agent[s].answer[q]
      BY <1>1, <1>4 DEF AnswerFails, AgentStates, Answering
    <2>2. f \in FromDevice /\ f.type = "error" BY Made DEF FromDevice
    <2>3. AgentSends(<<f>>) BY <1>4 DEF AnswerFails
    <2> HIDE DEF a, f
    <2>4. fromAgent' = fromAgent \/ fromAgent' = Append(fromAgent, f)
      BY <2>2, <2>3, SaysOne
    <2>5. Says(s, a) BY <2>2, <2>4 DEF Says
    <2>6. MaySettle(s, a) BY <1>1, <2>1 DEF MaySettle
    <2> QED BY <1>1, <1>2, <2>1, <2>5, <2>6, SessionStep
  <1>5. CASE AgentFlushes(s, r)
    <2>1. agent[s].remote /\ agent[s].pending = {} /\ UNCHANGED fromAgent
      BY <1>1, <1>5 DEF AgentFlushes
    <2>2. \E a \in AgentStates :
             /\ agent' = [agent EXCEPT ![s] = a]
             /\ a.at = agent[s].at /\ a.remote /\ a.pending = {}
      <3>1. CASE agent[s].flush = {}
        <4> DEFINE a == [agent[s] EXCEPT !.answer = [@ EXCEPT ![r] = "done"],
                                         !.remote = TRUE]
        <4>1. /\ a \in AgentStates /\ agent' = [agent EXCEPT ![s] = a]
              /\ a.at = agent[s].at /\ a.remote
              /\ a.pending = agent[s].pending
          BY <1>1, <1>5, <3>1 DEF AgentFlushes, AgentStates, Answering
        <4> QED BY <2>1, <4>1
      <3>2. CASE agent[s].flush # {}
        <4>1. PICK c \in agent[s].flush :
                 agent' = [agent EXCEPT ![s].flush = @ \ {c},
                                        ![s].applied = @ \cup {c}]
          BY <1>5, <3>2 DEF AgentFlushes
        <4> DEFINE a == [agent[s] EXCEPT !.flush = @ \ {c},
                                         !.applied = @ \cup {c}]
        <4>2. /\ a \in AgentStates /\ agent' = [agent EXCEPT ![s] = a]
              /\ a.at = agent[s].at /\ a.remote = agent[s].remote
              /\ a.pending = agent[s].pending
          BY <1>1, <4>1 DEF AgentStates
        <4> QED BY <2>1, <4>2
      <3> QED BY <3>1, <3>2
    <2>3. PICK a \in AgentStates :
             /\ agent' = [agent EXCEPT ![s] = a]
             /\ a.at = agent[s].at /\ a.remote /\ a.pending = {}
      BY <2>2
    <2>4. MaySettle(s, a) /\ Says(s, a) BY <2>1, <2>3 DEF MaySettle, Says
    <2> QED BY <1>1, <1>2, <2>3, <2>4, SessionStep
  <1>6. CASE AgentGathers(s)
    <2>1. PICK f \in FromDevice : f = Cand(s, cands + 1)
      BY <1>1, Gathered DEF FromDevice
    <2>2. f.type = "candidate" BY <2>1 DEF Cand
    <2>3. AgentSends(<<f>>) /\ agent' = [agent EXCEPT ![s] = agent[s]]
      BY <1>1, <1>6, <2>1 DEF AgentGathers
    <2>4. fromAgent' = fromAgent \/ fromAgent' = Append(fromAgent, f)
      BY <2>3, SaysOne
    <2>5. Says(s, agent[s]) BY <2>2, <2>4 DEF Says
    <2>6. MaySettle(s, agent[s]) BY <1>1 DEF MaySettle
    <2> QED BY <1>1, <1>2, <2>3, <2>5, <2>6, SessionStep
  <1> QED BY <1>3, <1>4, <1>5, <1>6

\* What leaves every session where it is and takes no candidate amiss.
StaysPut ==
    /\ agent' \in [Attempts -> AgentStates]
    /\ \A s \in Attempts : agent'[s].at = agent[s].at
    /\ BuffersMove

\* Where descriptions and buffers stay, candidates do.
LEMMA BuffersAlone ==
    ASSUME ViewerInv,
           \A r \in Attempts : /\ agent'[r].remote = agent[r].remote
                               /\ agent'[r].answer = agent[r].answer
                               /\ agent'[r].applied = agent[r].applied
                               /\ agent'[r].pending = agent[r].pending
    PROVE  BuffersMove
  BY DEF ViewerInv, BuffersDescribed, NoCandidateStranded, BuffersMove

\* Closing a session leaves its description and buffers.
LEMMA CurrentCloses ==
    ASSUME ViewerInv, NEW s \in 0 .. LastAttempt,
           agent' = [r \in Attempts |->
               IF r = s THEN [agent[r] EXCEPT !.closed = TRUE, !.capturing = FALSE]
               ELSE agent[r]]
    PROVE  StaysPut
  <1>1. ASSUME NEW r \in Attempts
        PROVE  /\ agent'[r] \in AgentStates /\ agent'[r].at = agent[r].at
               /\ agent'[r].remote = agent[r].remote
               /\ agent'[r].answer = agent[r].answer
               /\ agent'[r].applied = agent[r].applied
               /\ agent'[r].pending = agent[r].pending
    BY OneSession DEF AgentStates
  <1>2. agent' \in [Attempts -> AgentStates] BY <1>1
  <1>3. BuffersMove BY <1>1, BuffersAlone
  <1> QED BY <1>1, <1>2, <1>3 DEF StaysPut

\* The types of the device.
LEMMA InSession ==
    ASSUME ViewerInv
    PROVE  /\ session \in 0 .. LastAttempt
           /\ agent \in [Attempts -> AgentStates] /\ online \in BOOLEAN
  BY DEF ViewerInv, ViewerTypeOK

\* One session changed as it may be, and the others not at all.
LEMMA OneStaysPut ==
    ASSUME ViewerInv, NEW s \in Attempts, NEW a \in AgentStates,
           agent' = [agent EXCEPT ![s] = a], a.at = agent[s].at,
           MaySettle(s, a)
    PROVE  StaysPut
  <1>1. /\ agent' \in [Attempts -> AgentStates] /\ agent'[s] = a
        /\ \A r \in Attempts \ {s} : agent'[r] = agent[r]
    BY InSession
  <1>2. BuffersMove
    <2> SUFFICES ASSUME NEW r \in Attempts
                 PROVE  /\ \A q \in Attempts :
                              agent'[r].answer[q] \in {"flushing", "done"} =>
                                  agent'[r].remote
                        /\ ~agent'[r].remote => agent'[r].applied = {}
                        /\ agent'[r].remote => agent'[r].pending = {}
      BY DEF BuffersMove
    <2>1. CASE r = s BY <1>1, <2>1 DEF MaySettle
    <2>2. CASE r # s BY <1>1, <2>2, OneSession
    <2> QED BY <2>1, <2>2
  <1> QED BY <1>1, <1>2 DEF StaysPut

\* Losing the connection keeps it.
LEMMA DeviceLostKeeps ==
    ASSUME ViewerInv, cands' \in Nat, faults' \in Nat, DeviceLost
    PROVE  ViewerInv'
  <1> USE DEF browserVars
  <1>1. /\ toAgent' = <<>> /\ fromAgent' = <<>> /\ session' = 0
        /\ online' = FALSE /\ UNCHANGED <<cur, ui, conn, slot, down, up>>
    BY DEF DeviceLost
  <1>2. StaysPut BY OneSession, InSession, CurrentCloses DEF DeviceLost
  <1>3. DeviceTypes
    <2>1. toAgent' \in Seq(ToDevice) /\ fromAgent' \in Seq(FromDevice)
      BY <1>1
    <2>2. Answers(<<>>) BY DEF Answers
    <2>3. session' \in 0 .. LastAttempt BY <1>1, ViewerAssumption
    <2> QED BY <1>1, <1>2, <2>1, <2>2, <2>3 DEF DeviceTypes, StaysPut
  <1>4. DeviceMoves
    BY <1>1, <1>2, Single DEF DeviceMoves, StaysPut
  <1> QED BY <1>1, <1>2, <1>3, <1>4, DeviceStep DEF StaysPut

\* handleAnswer: the answer is noted, to be set.
LEMMA AnswerTaken ==
    ASSUME ViewerInv, NEW s \in 0 .. LastAttempt, NEW r \in Attempts,
           AgentAnswer(s, r)
    PROVE  StaysPut
  <1>1. CASE ~Takes(s)
    <2>1. agent' = agent BY <1>1 DEF AgentAnswer
    <2> QED BY <2>1, BuffersAlone, InSession DEF StaysPut
  <1>2. CASE Takes(s)
    <2>1. s \in Attempts /\ agent' = [agent EXCEPT ![s].answer[r] = "setting"]
      BY <1>2 DEF AgentAnswer, Takes, Attempts
    <2>2. /\ agent \in [Attempts -> AgentStates] /\ agent[s] \in AgentStates
          /\ \A q \in Attempts :
                agent[s].answer[q] \in {"flushing", "done"} => agent[s].remote
          /\ ~agent[s].remote => agent[s].applied = {}
          /\ agent[s].remote => agent[s].pending = {}
      BY <2>1, OneSession
    <2> DEFINE a == [agent[s] EXCEPT !.answer = [@ EXCEPT ![r] = "setting"]]
    <2>3. /\ a \in AgentStates /\ agent' = [agent EXCEPT ![s] = a]
          /\ a.at = agent[s].at /\ a.remote = agent[s].remote
          /\ a.pending = agent[s].pending /\ a.applied = agent[s].applied
          /\ a.answer[r] = "setting"
          /\ \A q \in Attempts \ {r} : a.answer[q] = agent[s].answer[q]
      BY <2>1, <2>2 DEF AgentStates, Answering
    <2> HIDE DEF a
    <2>4. MaySettle(s, a) BY <2>2, <2>3 DEF MaySettle
    <2> QED BY <2>1, <2>3, <2>4, OneStaysPut
  <1> QED BY <1>1, <1>2

\* handleICECandidate: applied or buffered, as the description says.
LEMMA CandidateTaken ==
    ASSUME ViewerInv, NEW s \in 0 .. LastAttempt, NEW f \in Trickled,
           AgentCandidate(s, f)
    PROVE  StaysPut
  <1>1. CASE ~Takes(s)
    <2>1. agent' = agent BY <1>1 DEF AgentCandidate
    <2> QED BY <2>1, BuffersAlone, InSession DEF StaysPut
  <1>2. CASE Takes(s)
    <2>1. s \in Attempts BY <1>2 DEF Takes, Attempts
    <2>2. /\ agent \in [Attempts -> AgentStates] /\ agent[s] \in AgentStates
          /\ \A q \in Attempts :
                agent[s].answer[q] \in {"flushing", "done"} => agent[s].remote
          /\ ~agent[s].remote => agent[s].applied = {}
          /\ agent[s].remote => agent[s].pending = {}
      BY <2>1, OneSession
    <2> DEFINE a == IF agent[s].remote
                    THEN [agent[s] EXCEPT !.applied = @ \cup {f}]
                    ELSE [agent[s] EXCEPT !.pending = @ \cup {f}]
    <2>3. /\ a \in AgentStates /\ agent' = [agent EXCEPT ![s] = a]
          /\ a.at = agent[s].at /\ a.remote = agent[s].remote
          /\ agent[s].remote => a.pending = agent[s].pending
          /\ ~agent[s].remote => a.applied = agent[s].applied
          /\ a.answer = agent[s].answer
      BY <1>2, <2>1, <2>2 DEF AgentCandidate, AgentStates
    <2> HIDE DEF a
    <2>4. MaySettle(s, a) BY <2>2, <2>3 DEF MaySettle
    <2> QED BY <2>1, <2>3, <2>4, OneStaysPut
  <1> QED BY <1>1, <1>2

\* Whatever message the device takes, the invariant is kept.
LEMMA AgentReceivesKeeps ==
    ASSUME ViewerInv, cands' \in Nat, faults' \in Nat, AgentReceives
    PROVE  ViewerInv'
  <1> USE DEF browserVars
  <1> DEFINE f == Head(toAgent)
  <1>1. /\ toAgent # <<>> /\ toAgent' = Tail(toAgent)
        /\ UNCHANGED <<cur, ui, conn, slot, online, down, up, fromAgent>>
    BY DEF AgentReceives
  <1>2. /\ f \in ToDevice /\ toAgent' \in Seq(ToDevice) /\ Answers(toAgent')
        /\ f.type = "answer" => f.n \in Attempts
    BY <1>1, InFlight, AnswersTaken
  <1>3. ASSUME NEW s \in Attempts
        PROVE  /\ IsIn("start", s, toAgent') => IsIn("start", s, toAgent)
               /\ AtMostOnce("start", s, toAgent')
               /\ f.type = "start" /\ f.of = s =>
                     /\ IsIn("start", s, toAgent)
                     /\ ~IsIn("start", s, toAgent')
                     /\ agent[s].at = "none"
    <2>1. IsIn("start", s, toAgent) => agent[s].at = "none"
      BY DEF ViewerInv, StartsOnce
    <2> QED BY <1>1, <2>1, InFlight, Taken
  <1>4. /\ f.type \in {"start", "stop", "answer", "candidate"}
        /\ f.of \in Attempts
    BY <1>2 DEF ToDevice, Frames
  <1>5. \/ f.type = "start" /\ AgentStart(f.of)
        \/ f.type # "start" /\ StaysPut /\ session' \in 0 .. LastAttempt
    <2>1. CASE f.type = "start" BY <2>1 DEF AgentReceives
    <2>2. CASE f.type = "stop"
      <3>1. CloseAgent(session) /\ session' = 0
        BY <2>2 DEF AgentReceives
      <3>2. session' \in 0 .. LastAttempt BY <3>1, ViewerAssumption
      <3>3. agent' = [r \in Attempts |->
               IF r = session
               THEN [agent[r] EXCEPT !.closed = TRUE, !.capturing = FALSE]
               ELSE agent[r]]
        <4>1. CASE session = 0
          <5>1. agent' = agent BY <3>1, <4>1 DEF CloseAgent
          <5>2. \A r \in Attempts : r # session BY <4>1 DEF Attempts
          <5>3. agent' = [r \in Attempts |-> agent[r]] BY <5>1, InSession
          <5> QED BY <5>2, <5>3
        <4>2. CASE session # 0
          <5>1. agent' = [agent EXCEPT ![session].closed = TRUE,
                                       ![session].capturing = FALSE]
            BY <3>1, <4>2 DEF CloseAgent
          <5>2. session \in Attempts BY <4>2, InSession DEF Attempts
          <5> QED BY <5>1, <5>2, InSession
        <4> QED BY <4>1, <4>2
      <3> QED BY <2>2, <3>2, <3>3, InSession, CurrentCloses
    <2>3. CASE f.type = "answer"
      <3>1. AgentAnswer(session, f.n) /\ session' = session
        BY <2>3 DEF AgentReceives
      <3> QED BY <1>2, <2>3, <3>1, InSession, AnswerTaken
    <2>4. CASE f.type = "candidate"
      <3>1. AgentCandidate(session, f) /\ session' = session
        BY <2>4 DEF AgentReceives
      <3>2. f \in Trickled BY <1>2, <2>4 DEF ToDevice, Trickled, Frames
      <3> QED BY <2>4, <3>1, <3>2, InSession, CandidateTaken
    <2> QED BY <1>4, <2>1, <2>2, <2>3, <2>4
  <1> HIDE DEF f
  <1>6. CASE f.type = "start" /\ AgentStart(f.of)
    <2>1. ASSUME NEW r \in Attempts
          PROVE  /\ agent'[r] \in AgentStates
                 /\ agent'[r].at = IF r = f.of THEN "acquiring" ELSE agent[r].at
                 /\ agent'[r].remote = agent[r].remote
                 /\ agent'[r].answer = agent[r].answer
                 /\ agent'[r].applied = agent[r].applied
                 /\ agent'[r].pending = agent[r].pending
      BY <1>6, OneSession DEF AgentStart, AgentStates, SessionPlaces
    <2>2. /\ agent' \in [Attempts -> AgentStates]
          /\ session' \in 0 .. LastAttempt
      <3>1. f.of \in 0 .. LastAttempt BY <1>4, ViewerAssumption DEF Attempts
      <3>2. session' = f.of BY <1>6 DEF AgentStart
      <3>3. agent' = [r \in Attempts |-> agent'[r]] BY <1>6 DEF AgentStart
      <3>4. agent' \in [Attempts -> AgentStates] BY <2>1, <3>3
      <3> QED BY <3>1, <3>2, <3>4
    <2>3. BuffersMove BY <2>1, BuffersAlone
    <2>4. DeviceTypes
      BY <1>1, <1>2, <2>2, InSession, InFlight DEF DeviceTypes
    <2>5. DeviceMoves
      BY <1>1, <1>3, <1>4, <1>6, <2>1, InFlight DEF DeviceMoves
    <2> QED BY <1>1, <2>3, <2>4, <2>5, DeviceStep
  <1>7. CASE StaysPut /\ session' \in 0 .. LastAttempt
    <2>1. DeviceTypes
      BY <1>1, <1>2, <1>7, InSession, InFlight DEF DeviceTypes, StaysPut
    <2>2. DeviceMoves
      BY <1>1, <1>3, <1>7, InFlight DEF DeviceMoves, StaysPut
    <2> QED BY <1>1, <1>7, <2>1, <2>2, DeviceStep DEF StaysPut
  <1> QED BY <1>5, <1>6, <1>7

----------------------------------------------------------------------------
(* The whole.                                                              *)

LEMMA ViewerStays == ViewerInv /\ UNCHANGED vars => ViewerInv'
  <1> SUFFICES ASSUME ViewerInv, UNCHANGED vars PROVE ViewerInv'
    OBVIOUS
  <1> USE DEF vars
  <1>1. cands' \in Nat /\ faults' \in Nat /\ ui' \in Shown
    BY DEF ViewerInv, ViewerTypeOK
  <1> QED BY <1>1, ShowKeeps DEF agentVars, serverVars

LEMMA ViewerStep == ViewerInv /\ Next => ViewerInv'
  <1> SUFFICES ASSUME ViewerInv, Next PROVE ViewerInv'
    OBVIOUS
  <1>1. cands' \in Nat /\ faults' \in Nat
    <2>1. cands \in Nat /\ faults \in Nat BY DEF ViewerInv, ViewerTypeOK
    <2> QED BY <2>1 DEF Next
  <1>2. CASE Step /\ UNCHANGED <<cands, faults>>
    <2>1. CASE Leave \/ Retry BY <1>2, <2>1, PageKeeps DEF Alone
    <2>2. ASSUME NEW k \in Attempts,
                 \/ BrowserStep(k) \/ IceStep(k) \/ AgentStep(k)
                 \/ ServerStep(k) \/ Playing(k)
          PROVE  ViewerInv'
      <3>1. CASE BrowserStep(k)
        BY <1>1, <3>1, NegotiationKeeps, SendsKeep, ReceivesKeep
        DEF BrowserStep
      <3>2. CASE IceStep(k) BY <1>1, <3>2, ShowsKeep DEF IceStep
      <3>3. CASE AgentStep(k)
        BY <1>1, <3>3, StartingKeeps, AnsweringKeeps DEF AgentStep
      <3>4. CASE ServerStep(k)
        BY <1>1, <3>4, ServeKeeps, ServerReadsKeep DEF ServerStep
      <3>5. CASE Playing(k) BY <1>1, <3>5, ShowsKeep
      <3> QED BY <2>2, <3>1, <3>2, <3>3, <3>4, <3>5
    <2>3. CASE Forward BY <1>1, <2>3, ForwardKeeps
    <2>4. CASE AgentReceives BY <1>1, <2>4, AgentReceivesKeeps
    <2>5. CASE TellViewer
      <3>1. 1 \in Attempts BY ViewerAssumption DEF Attempts
      <3> QED BY <1>1, <2>5, <3>1, EndsKeep
    <2> QED BY <1>2, <2>1, <2>2, <2>3, <2>4, <2>5 DEF Step
  <1>3. ASSUME NEW k \in Attempts, Gather(k) PROVE ViewerInv'
    BY <1>1, <1>3, SendsKeep, AnsweringKeeps DEF Gather
  <1>4. CASE Fault
    <2>1. ASSUME NEW k \in Attempts,
                 \/ Disconnects(k) \/ PeerFails(k) \/ ReadDeadline(k)
                 \/ StartFails(k) \/ AgentPeerFails(k)
                 \/ \E s \in Attempts : NegotiationFails(k, s) \/ AnswerFails(s, k)
          PROVE  ViewerInv'
      BY <1>1, <2>1, ShowsKeep, EndsKeep, StartingKeeps, NegotiationKeeps,
         AnsweringKeeps
    <2>2. CASE DeviceLost BY <1>1, <2>2, DeviceLostKeeps
    <2> QED BY <1>4, <2>1, <2>2 DEF Fault
  <1> QED BY <1>2, <1>3, <1>4 DEF Next

\* The inductive invariant of one operator watching one device: what each
\* place holds, that an attempt starts and offers once whatever the two ends,
\* the backend and the faults do in between, and where candidates wait.
THEOREM ViewerInvariant == Spec => []ViewerInv
  <1>1. ViewerInv /\ [Next]_vars => ViewerInv' BY ViewerStep, ViewerStays
  <1> QED BY ViewerInitial, <1>1, PTL DEF Spec

\* Every variable of the viewer has its type (ScreenViewer, SessionConnection,
\* VP8Session, and the frames between them).
THEOREM ViewerTypeCorrect == Spec => []ViewerTypeOK
  <1>1. ViewerInv => ViewerTypeOK BY DEF ViewerInv
  <1> QED BY ViewerInvariant, <1>1, PTL

\* No candidate reaches a connection without its remote description and none is
\* left in a buffer once there is one, for any number of attempts, candidates
\* and faults (onRemoteCandidate and onOffer; handleICECandidate and
\* handleAnswer).
THEOREM NoCandidateStrandedHolds == Spec => []NoCandidateStranded
  <1>1. ViewerInv => NoCandidateStranded BY DEF ViewerInv
  <1> QED BY ViewerInvariant, <1>1, PTL

=============================================================================
