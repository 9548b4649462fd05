--------------------------- MODULE Android_proofs ---------------------------
(***************************************************************************)
(* Proofs about the Android agent, module by module: the two share no      *)
(* variable, and nothing here relates one to the other.                    *)
(*                                                                         *)
(* AndroidConnection, for any number of sockets and sessions.  The socket  *)
(* side comes first: CurrentSocket says which socket this.ws is, and with  *)
(* it OneWayBack is inductive.  The capture side rests on it:              *)
(* SessionIsServed, that a session exists only while the connection that   *)
(* started it does, and OthersAreClosed, that a start() still under way    *)
(* for another session will find it closed.                                *)
(*                                                                         *)
(* AndroidRuntime, for any number of enrollments and any bounds.           *)
(* LastRequestWins speaks of an empty chain, so that the invariant says    *)
(* what becomes of it on the way there: the last operation queued is the   *)
(* last request, and each step of the head leaves behind what the next     *)
(* steps rely on.                                                          *)
(***************************************************************************)
EXTENDS AndroidConnection, AndroidRuntime, TLAPS

(* AndroidConnection                                                       *)

\* this.ws is the one socket that neither closed nor was told to.
CurrentSocket ==
    /\ \A c \in Sockets : sock[c] \in {"connecting", "open"} <=> ws = c
    /\ stopped => ws = None

\* OneWayBack, said of the sockets that are in use.
Live(c) == sock[c] \notin {"new", "closed"}
OneWay ==
    /\ \A c, d \in Sockets : Live(c) /\ Live(d) => c = d
    /\ reconnectTimer => ~stopped /\ \A c \in Sockets : ~Live(c)
    /\ ~stopped => reconnectTimer \/ \E c \in Sockets : Live(c)

\* this.session exists over a welcomed connection only.
SessionIsServed == session # None => SocketOpen /\ welcomed

\* Of the sessions that ever started, all but the current one are closed.
OthersAreClosed ==
    \A s \in Sessions : pc[s] # "none" => s = session \/ s \in closed

\* A capture is the current session's, and ends when it is closed.
StreamIsCurrent == \A s \in stream : s = session /\ s \notin closed

NetInv   == ConnTypeOK /\ CurrentSocket /\ OneWay
MediaInv == SessionIsServed /\ OthersAreClosed /\ StreamIsCurrent
ConnInv  == NetInv /\ MediaInv

LEMMA ConnInitial == ConnInit => ConnInv
  <1> SUFFICES ASSUME ConnInit PROVE ConnInv
    OBVIOUS
  <1> USE ConnectionAssumption DEF ConnInit
  <1>1. ConnTypeOK BY DEF ConnTypeOK, SocketStates, Places, Statuses
  <1>2. CurrentSocket BY DEF CurrentSocket
  <1>3. OneWay BY DEF OneWay, Live
  <1>4. MediaInv
    BY DEF MediaInv, SessionIsServed, OthersAreClosed, StreamIsCurrent
  <1> QED BY <1>1, <1>2, <1>3, <1>4 DEF ConnInv, NetInv

\* The connection's callbacks keep one way back to the server.
LEMMA NetKeeps == NetInv /\ [ConnNext]_connVars => NetInv'
  <1> SUFFICES ASSUME NetInv, [ConnNext]_connVars PROVE NetInv'
    OBVIOUS
  <1> USE ConnectionAssumption
      DEF NetInv, CurrentSocket, OneWay, Live, ConnTypeOK, SocketStates,
          Places, Statuses
  <1>1. ASSUME NEW c \in Sockets, Connect(c) PROVE NetInv'
    BY <1>1 DEF Connect, beatVars, mediaVars, ownerVars
  <1>2. CASE DialFails
    BY <1>2 DEF DialFails, beatVars, mediaVars, ownerVars
  <1>3. ASSUME NEW c \in Sockets, OnOpen(c) PROVE NetInv'
    BY <1>3 DEF OnOpen, beatVars, mediaVars, ownerVars
  <1>4. CASE HelloTimeout
    <2> USE <1>4 DEF HelloTimeout, CloseSocket, beatVars, mediaVars, ownerVars
    <2>1. CASE welcomed BY <2>1
    <2>2. CASE ~welcomed
      <3>1. ConnTypeOK' BY <2>2
      <3>2. CurrentSocket' BY <2>2
      <3>3. \A c \in Sockets : Live(c)' <=> Live(c) BY <2>2
      <3>4. OneWay' BY <3>3
      <3> QED BY <3>1, <3>2, <3>4
    <2> QED BY <2>1, <2>2
  <1>5. ASSUME NEW c \in Sockets, OnClose(c) PROVE NetInv'
    <2> USE <1>5 DEF OnClose, TeardownSession, Close, beatVars, ownerVars
    <2>1. ConnTypeOK' OBVIOUS
    <2>2. CurrentSocket' OBVIOUS
    <2>3. OneWay'
      <3>1. Live(c) /\ ~reconnectTimer OBVIOUS
      <3>2. \A d \in Sockets : ~Live(d)' BY <3>1
      <3>3. reconnectTimer' <=> ~stopped' BY <3>1
      <3> QED BY <3>2, <3>3
    <2> QED BY <2>1, <2>2, <2>3
  <1>6. ASSUME NEW last \in Statuses, ShutDown(last) PROVE NetInv'
    <2> USE <1>6 DEF ShutDown, TeardownSession, Close, CloseSocket, ownerVars
    <2>1. ConnTypeOK' OBVIOUS
    <2>2. CurrentSocket' OBVIOUS
    <2>3. OneWay' OBVIOUS
    <2> QED BY <2>1, <2>2, <2>3
  <1>7. CASE OnMessage
    <2>1. CASE OnStopSession
      BY <2>1 DEF OnStopSession, TeardownSession, Close, netVars, beatVars,
                  ownerVars
    <2>2. ASSUME NEW s \in Sessions, OnStartSession(s) PROVE NetInv'
      BY <2>2 DEF OnStartSession, Close, netVars, beatVars, ownerVars
    <2>3. CASE SocketOpen /\ OnWelcome
      BY <2>3 DEF OnWelcome, GoOnline, SocketOpen, mediaVars, ownerVars
    <2>4. CASE OnError BY <2>4, <1>6 DEF OnError
    <2> QED BY <1>7, <2>1, <2>2, <2>3, <2>4 DEF OnMessage
  <1>8. ASSUME NEW c \in Sockets, SysInfoBuilt(c) PROVE NetInv'
    BY <1>8 DEF SysInfoBuilt, GoOnline, netVars, mediaVars, ownerVars
  <1>9. CASE Stop BY <1>9, <1>6 DEF Stop
  <1>10. CASE Foregrounded \/ Backgrounded
    <2> USE <1>10 DEF Foregrounded, Backgrounded, netVars, beatVars, mediaVars
    <2>1. ConnTypeOK'
      <3>1. pc' \in [Sessions -> Places] OBVIOUS
      <3>2. foreground' \in BOOLEAN OBVIOUS
      <3> QED BY <3>1, <3>2
    <2>2. CurrentSocket' OBVIOUS
    <2>3. OneWay' OBVIOUS
    <2> QED BY <2>1, <2>2, <2>3
  <1>11. ASSUME NEW s \in Sessions, SessionStep(s) \/ PeerFails(s)
         PROVE  NetInv'
    <2>1. UNCHANGED netVars
      BY <1>11 DEF SessionStep, PeerFails, AppForeground, PostApproval,
                   ApprovalTimeout, CancelApproval, StreamArrives,
                   QualityApplied, OfferCreated, OfferSent, StartRejects
    <2>2. ConnTypeOK'
      <3> USE <2>1 DEF netVars, beatVars, mediaVars, ownerVars, At
      <3>1. CASE StartFails(s) /\ UNCHANGED <<beatVars, foreground>>
                               /\ approval' \in BOOLEAN
        BY <3>1 DEF StartFails, SendRaw, TeardownSession, Close, SocketOpen
      <3>2. CASE AppForeground(s) BY <3>2 DEF AppForeground
      <3>3. CASE PostApproval(s) BY <3>3 DEF PostApproval
      <3>4. CASE ApprovalTimeout(s) BY <3>4 DEF ApprovalTimeout
      <3>5. CASE CancelApproval(s) BY <3>1, <3>5 DEF CancelApproval
      <3>6. CASE StreamArrives(s) BY <3>6 DEF StreamArrives
      <3>7. CASE QualityApplied(s) BY <3>7 DEF QualityApplied
      <3>8. CASE OfferCreated(s) BY <3>8 DEF OfferCreated
      <3>9. CASE OfferSent(s) BY <3>9 DEF OfferSent, SendRaw, SocketOpen
      <3>10. CASE StartRejects(s) BY <3>1, <3>10 DEF StartRejects
      <3>11. CASE PeerFails(s) BY <3>11 DEF PeerFails, Close
      <3> QED
        BY <1>11, <3>2, <3>3, <3>4, <3>5, <3>6, <3>7, <3>8, <3>9, <3>10,
           <3>11 DEF SessionStep
    <2> QED BY <2>1, <2>2 DEF netVars
  <1>12. CASE UNCHANGED connVars
    BY <1>12 DEF connVars, netVars, beatVars, mediaVars, ownerVars
  <1> QED
    BY <1>1, <1>2, <1>3, <1>4, <1>5, <1>7, <1>8, <1>9, <1>10, <1>11, <1>12
    DEF ConnNext

\* The steps that leave the connection and this.session as they are: what is
\* left to show of them is about the sessions.
LEMMA ServedStill ==
    SessionIsServed /\ UNCHANGED <<netVars, session>> => SessionIsServed'
  BY DEF SessionIsServed, SocketOpen, netVars

\* Whatever ends a session ends its capture, and leaves it closed.
LEMMA TornDown ==
    ASSUME MediaInv, TeardownSession, UNCHANGED pc
    PROVE  MediaInv'
  BY DEF MediaInv, SessionIsServed, OthersAreClosed, StreamIsCurrent,
         TeardownSession, Close

\* The callbacks keep the sessions in step with the connection.
LEMMA MediaKeeps == NetInv /\ MediaInv /\ [ConnNext]_connVars => MediaInv'
  <1> SUFFICES ASSUME NetInv, MediaInv, [ConnNext]_connVars PROVE MediaInv'
    OBVIOUS
  <1> USE ConnectionAssumption DEF NetInv, ConnTypeOK
  <1>1. ASSUME NEW c \in Sockets, Connect(c) \/ OnOpen(c) PROVE MediaInv'
    <2>1. session = None
      BY <1>1 DEF Connect, OnOpen, MediaInv, SessionIsServed, SocketOpen,
                  OneWay, Live, CurrentSocket
    <2> QED
      BY <1>1, <2>1 DEF Connect, OnOpen, mediaVars, MediaInv, SessionIsServed,
                        OthersAreClosed, StreamIsCurrent
  <1>2. CASE DialFails
    <2>1. session = None
      BY <1>2 DEF DialFails, MediaInv, SessionIsServed, SocketOpen, OneWay,
                  Live
    <2> QED
      BY <1>2, <2>1 DEF DialFails, mediaVars, MediaInv, SessionIsServed,
                        OthersAreClosed, StreamIsCurrent
  <1>3. CASE HelloTimeout
    <2>1. session = None \/ UNCHANGED <<sock, ws>>
      BY <1>3 DEF HelloTimeout, MediaInv, SessionIsServed
    <2> QED
      BY <1>3, <2>1 DEF HelloTimeout, mediaVars, MediaInv, SessionIsServed,
                        OthersAreClosed, StreamIsCurrent, SocketOpen
  <1>4. ASSUME NEW c \in Sockets, OnClose(c) PROVE MediaInv'
    BY <1>4, TornDown DEF OnClose
  <1>5. ASSUME NEW last \in Statuses, ShutDown(last) PROVE MediaInv'
    BY <1>5, TornDown DEF ShutDown
  <1>6. CASE OnMessage
    <2>1. CASE OnStopSession BY <2>1, TornDown DEF OnStopSession
    <2>2. ASSUME NEW s \in Sessions, welcomed, OnStartSession(s)
          PROVE  MediaInv'
      BY <1>6, <2>2 DEF OnMessage, OnStartSession, Close, netVars, MediaInv,
                        SessionIsServed, OthersAreClosed, StreamIsCurrent,
                        SocketOpen
    <2>3. CASE OnWelcome
      BY <2>3 DEF OnWelcome, mediaVars, MediaInv, SessionIsServed,
                  OthersAreClosed, StreamIsCurrent, SocketOpen
    <2>4. CASE OnError BY <2>4, <1>5 DEF OnError, Statuses
    <2> QED BY <1>6, <2>1, <2>2, <2>3, <2>4 DEF OnMessage
  <1>7. ASSUME NEW c \in Sockets, SysInfoBuilt(c) PROVE MediaInv'
    BY <1>7, ServedStill DEF SysInfoBuilt, mediaVars, MediaInv,
                             OthersAreClosed, StreamIsCurrent
  <1>8. CASE Stop BY <1>8, <1>5 DEF Stop, Statuses
  <1>9. CASE Foregrounded \/ Backgrounded
    BY <1>9, ServedStill DEF Foregrounded, Backgrounded, mediaVars, MediaInv,
                             OthersAreClosed, StreamIsCurrent
  <1>10. ASSUME NEW s \in Sessions, SessionStep(s) \/ PeerFails(s)
         PROVE  MediaInv'
    <2> USE DEF MediaInv, OthersAreClosed, StreamIsCurrent, At, mediaVars
    <2>1. ASSUME StartFails(s), UNCHANGED netVars, pc[s] # "none"
          PROVE  MediaInv'
      <3>1. CASE session = s
        BY <2>1, <3>1 DEF StartFails, TeardownSession, Close, SessionIsServed
      <3>2. CASE session # s
        BY <2>1, <3>2, ServedStill DEF StartFails
      <3> QED BY <3>1, <3>2
    <2>2. CASE AppForeground(s) \/ PostApproval(s) \/ ApprovalTimeout(s)
      BY <2>2, ServedStill DEF AppForeground, PostApproval, ApprovalTimeout
    <2>3. CASE CancelApproval(s)
      BY <2>3, <2>1, ServedStill DEF CancelApproval
    <2>4. CASE StreamArrives(s) BY <2>4, ServedStill DEF StreamArrives
    <2>5. CASE QualityApplied(s) \/ OfferCreated(s) \/ OfferSent(s)
      BY <2>5, ServedStill DEF QualityApplied, OfferCreated, OfferSent
    <2>6. CASE StartRejects(s) BY <2>6, <2>1 DEF StartRejects
    <2>7. CASE PeerFails(s) BY <2>7, ServedStill DEF PeerFails, Close
    <2> QED
      BY <1>10, <2>2, <2>3, <2>4, <2>5, <2>6, <2>7 DEF SessionStep
  <1>11. CASE UNCHANGED connVars
    BY <1>11, ServedStill DEF connVars, mediaVars, MediaInv, OthersAreClosed,
                              StreamIsCurrent
  <1> QED
    BY <1>1, <1>2, <1>3, <1>4, <1>6, <1>7, <1>8, <1>9, <1>10, <1>11
    DEF ConnNext

\* The inductive invariant holds of every behaviour.
THEOREM ConnInvariant == ConnSpec => []ConnInv
  <1>1. ConnInv /\ [ConnNext]_connVars => ConnInv'
    BY NetKeeps, MediaKeeps DEF ConnInv
  <1> QED BY ConnInitial, <1>1, PTL DEF ConnSpec

\* Each variable keeps its type, for any sockets and sessions.
THEOREM ConnTypeCorrect == ConnSpec => []ConnTypeOK
  <1>1. ConnInv => ConnTypeOK BY DEF ConnInv, NetInv
  <1> QED BY ConnInvariant, <1>1, PTL

\* connect, closeSocket, onclose and scheduleReconnect: until it is stopped
\* the agent has one socket to hear from or the timer, and never both.
THEOREM OneWayBackHolds == ConnSpec => []OneWayBack
  <1>1. ConnInv => OneWayBack
    BY DEF ConnInv, NetInv, OneWay, Live, OneWayBack
  <1> QED BY ConnInvariant, <1>1, PTL

\* VP8Session.start and close, teardownSession: the screen is captured for
\* the current session over an open, welcomed socket, or not at all.
THEOREM CaptureNeedsConnectionHolds == ConnSpec => []CaptureNeedsConnection
  <1>1. ConnInv => CaptureNeedsConnection
    <2> SUFFICES ASSUME ConnInv, stream # {} PROVE CaptureNeedsConnection
      BY DEF CaptureNeedsConnection
    <2> USE ConnectionAssumption DEF ConnInv, NetInv, MediaInv, ConnTypeOK
    <2>1. stream = {session} /\ session \notin closed /\ session # None
      BY DEF StreamIsCurrent
    <2>2. SocketOpen /\ welcomed BY <2>1 DEF SessionIsServed
    <2>3. ~stopped BY <2>2 DEF SocketOpen, CurrentSocket
    <2> QED BY <2>1, <2>2, <2>3 DEF CaptureNeedsConnection
  <1> QED BY ConnInvariant, <1>1, PTL

----------------------------------------------------------------------------
(* AndroidRuntime                                                          *)

Flows == {"none", "asked", "saving", "adopting", "done"}
Ops   == [kind : {"start", "stop"},
          by : Identities \cup {"boot", "button", "notification", "reset"}]

TypesOK ==
    /\ RuntimeTypeOK
    /\ queue \in Seq(Ops)
    /\ flow \in [Enrolls -> Flows]
    /\ bootRead \in [id : Identities \cup {NoId}, on : BOOLEAN]

\* While boot still reads nobody has asked for anything but a stop, and nothing
\* that was asked for is forgotten once it has published.
BootIsFirst ==
    /\ loading <=> boot \in {"reading", "read"}
    /\ loading =>
          /\ wish \notin {"on", "off"} /\ conn = NoId
          /\ \A i \in 1 .. Len(queue) : queue[i].kind = "stop"
          /\ \A e \in Enrolls : flow[e] # "saving"

\* Where the head of the chain is, and what it has done so far.
HeadIsRight ==
    /\ opPc # "idle" => queue # <<>>
    /\ opPc \in {"load", "flag", "service"} => Head(queue).kind = "start"
    /\ opPc \in {"unflag", "unservice"} => Head(queue).kind = "stop"
    /\ opPc = "load" => conn = NoId
    /\ opPc \in {"flag", "service"} => opId # NoId
    /\ opPc = "service" => identity # NoId
    /\ opPc = "unservice" => conn = NoId /\ ~storedOn

\* A connection has the service that keeps it alive, and an identity.
ConnectionIsServed == conn # NoId => service /\ identity # NoId

\* The last operation queued is the last request.
LastIsQueued ==
    queue # <<>> =>
        /\ wish = "off" => queue[Len(queue)].kind = "stop"
        /\ wish = "on"  => queue[Len(queue)].kind = "start"

\* When a start is alone and about to connect, nobody has cleared the flag
\* behind its back.
FlagStands ==
    opPc = "service" /\ wish = "on" /\ Len(queue) = 1 => storedOn /\ enabled

RuntimeInv ==
    /\ TypesOK /\ BootIsFirst /\ HeadIsRight /\ ConnectionIsServed
    /\ LastIsQueued /\ FlagStands /\ LastRequestWins

----------------------------------------------------------------------------

\* Every start and every stop has its record.
LEMMA OpExists ==
    ASSUME NEW k \in {"start", "stop"},
           NEW b \in Identities \cup {"boot", "button", "notification", "reset"}
    PROVE  \E o \in Ops : o.kind = k /\ o.by = b
  <1>1. [kind |-> k, by |-> b] \in Ops BY DEF Ops
  <1> QED BY <1>1

\* What joins the chain goes last, and its head stays.
LEMMA Queued ==
    ASSUME queue \in Seq(Ops), NEW o \in Ops
    PROVE  LET q == Append(queue, o) IN
           /\ q \in Seq(Ops) /\ q # <<>> /\ Len(q) = Len(queue) + 1
           /\ q[Len(q)] = o
           /\ queue # <<>> => Head(q) = Head(queue)
           /\ \A i \in 1 .. Len(q) : i \in 1 .. Len(queue) => q[i] = queue[i]
  <1>1. queue # <<>> => Len(queue) > 0 OBVIOUS
  <1> QED BY <1>1

\* What leaves it is its head: the last stays until it is alone.
LEMMA Dequeued ==
    ASSUME queue \in Seq(Ops), queue # <<>>
    PROVE  LET q == Tail(queue) IN
           /\ q \in Seq(Ops) /\ Len(q) = Len(queue) - 1
           /\ q # <<>> => Len(q) > 0 /\ q[Len(q)] = queue[Len(queue)]
           /\ q = <<>> => Len(queue) = 1 /\ Head(queue) = queue[Len(queue)]
           /\ \A i \in 1 .. Len(q) :
                 i + 1 \in 1 .. Len(queue) /\ q[i] = queue[i + 1]
  <1>1. Len(queue) > 0 OBVIOUS
  <1>2. Tail(queue) = <<>> => Len(Tail(queue)) = 0
    <2>1. Len(<<>>) = 0 OBVIOUS
    <2> QED BY <2>1
  <1>3. Tail(queue) # <<>> => Len(Tail(queue)) > 0 OBVIOUS
  <1> QED BY <1>1, <1>2, <1>3

LEMMA RuntimeInitial == RuntimeInit => RuntimeInv
  <1> SUFFICES ASSUME RuntimeInit PROVE RuntimeInv
    OBVIOUS
  <1> USE RuntimeAssumption DEF RuntimeInit
  <1>1. TypesOK
    <2>1. RuntimeTypeOK BY DEF RuntimeTypeOK, Identities
    <2>2. queue \in Seq(Ops) OBVIOUS
    <2>3. flow \in [Enrolls -> Flows] BY DEF Flows
    <2>4. bootRead \in [id : Identities \cup {NoId}, on : BOOLEAN] OBVIOUS
    <2> QED BY <2>1, <2>2, <2>3, <2>4 DEF TypesOK
  <1>2. BootIsFirst BY DEF BootIsFirst
  <1>3. HeadIsRight /\ ConnectionIsServed
    BY DEF HeadIsRight, ConnectionIsServed
  <1>4. LastIsQueued /\ FlagStands /\ LastRequestWins
    BY DEF LastIsQueued, FlagStands, LastRequestWins
  <1> QED BY <1>1, <1>2, <1>3, <1>4 DEF RuntimeInv

\* A step that leaves the chain alone and, of what the chain decides on,
\* changes nothing else.
LEMMA Aside ==
    RuntimeInv /\ TypesOK' /\ BootIsFirst'
        /\ UNCHANGED <<conn, service, storedOn, identity, enabled, opVars, wish>>
    => RuntimeInv'
  BY DEF RuntimeInv, HeadIsRight, ConnectionIsServed, LastIsQueued, FlagStands,
         LastRequestWins, Connected, Disconnected, opVars

\* The head of the chain settles: the last request is still the last, and when
\* nothing is left the head was the last request.
LEMMA Settled ==
    ASSUME RuntimeInv, opPc # "idle", Settle, wish' = wish
    PROVE  /\ queue # <<>> /\ queue' \in Seq(Ops) /\ flow' \in [Enrolls -> Flows]
           /\ opPc' = "idle" /\ opId' = NoId
           /\ LastIsQueued' /\ FlagStands'
           /\ queue' = <<>> => /\ Len(queue) = 1
                               /\ wish = "off" => Head(queue).kind = "stop"
                               /\ wish = "on"  => Head(queue).kind = "start"
           /\ (\A i \in 1 .. Len(queue) : queue[i].kind = "stop")
                 => \A i \in 1 .. Len(queue') : queue'[i].kind = "stop"
           /\ \A e \in Enrolls : flow'[e] = "saving" => flow[e] = "saving"
  <1>1. queue \in Seq(Ops) /\ queue # <<>>
    BY DEF RuntimeInv, TypesOK, HeadIsRight
  <1>2. queue' = Tail(queue) /\ opPc' = "idle" /\ opId' = NoId
    BY DEF Settle
  <1>3. flow \in [Enrolls -> Flows] BY DEF RuntimeInv, TypesOK
  <1>4. /\ flow' \in [Enrolls -> Flows]
        /\ \A e \in Enrolls : flow'[e] = "saving" => flow[e] = "saving"
    BY <1>3 DEF Settle, Flows
  <1>5. LastIsQueued' BY <1>1, <1>2, Dequeued DEF RuntimeInv, LastIsQueued
  <1>6. FlagStands' BY <1>2 DEF FlagStands
  <1>7. queue' = <<>> => /\ Len(queue) = 1
                         /\ wish = "off" => Head(queue).kind = "stop"
                         /\ wish = "on"  => Head(queue).kind = "start"
    BY <1>1, <1>2, Dequeued DEF RuntimeInv, LastIsQueued
  <1> QED BY <1>1, <1>2, <1>4, <1>5, <1>6, <1>7, Dequeued

\* A start or a stop joins the chain.
LEMMA Serialised ==
    ASSUME RuntimeInv, NEW o \in Ops, Serialise(o.kind, o.by)
    PROVE  /\ queue' \in Seq(Ops) /\ queue' # <<>>
           /\ queue'[Len(queue')].kind = o.kind
           /\ queue # <<>> => Head(queue') = Head(queue) /\ Len(queue') > 1
           /\ o.kind = "stop" /\ (\A i \in 1 .. Len(queue) : queue[i].kind = "stop")
                 => \A i \in 1 .. Len(queue') : queue'[i].kind = "stop"
  <1>1. queue \in Seq(Ops) BY DEF RuntimeInv, TypesOK
  <1>2. o = Op(o.kind, o.by) BY DEF Op, Ops
  <1>3. queue' = Append(queue, o) BY <1>2 DEF Serialise
  <1>4. queue # <<>> => Len(queue) > 0 BY <1>1
  <1>5. \A i \in 1 .. Len(queue') : i \in 1 .. Len(queue) \/ i = Len(queue')
    BY <1>1, <1>3
  <1> QED BY <1>1, <1>3, <1>4, <1>5, Queued

----------------------------------------------------------------------------

\* doStart and doStop.
LEMMA OpKeeps == RuntimeInv /\ OpStep => RuntimeInv'
  <1> SUFFICES ASSUME RuntimeInv, OpStep PROVE RuntimeInv'
    OBVIOUS
  <1> USE RuntimeAssumption DEF Advance, Running, stored, state, bootVars, uiVars
  <1>0. TypesOK /\ HeadIsRight BY DEF RuntimeInv
  <1>1. CASE BeginStart
    <2> USE <1>1 DEF BeginStart
    <2>1. TypesOK' BY <1>0 DEF TypesOK, RuntimeTypeOK
    <2>2. BootIsFirst' BY DEF RuntimeInv, BootIsFirst
    <2>3. HeadIsRight' BY DEF RuntimeInv, HeadIsRight, ConnectionIsServed
    <2>4. ConnectionIsServed' /\ LastIsQueued' /\ FlagStands' /\ LastRequestWins'
      BY DEF RuntimeInv, ConnectionIsServed, LastIsQueued, FlagStands,
             LastRequestWins, Connected, Disconnected
    <2> QED BY <2>1, <2>2, <2>3, <2>4 DEF RuntimeInv
  <1>2. CASE StartLoads
    <2> USE <1>2 DEF StartLoads
    <2>1. CASE storedId = NoId
      <3>1. Settle BY <2>1
      <3>2. TypesOK' BY <1>0, <2>1, <3>1, Settled
        DEF TypesOK, RuntimeTypeOK, Settle
      <3>3. BootIsFirst' BY <2>1, <3>1, Settled DEF RuntimeInv, BootIsFirst
      <3>4. HeadIsRight' BY <3>1, Settled DEF HeadIsRight
      <3>5. ConnectionIsServed' BY <1>0, <2>1 DEF ConnectionIsServed, HeadIsRight
      <3>6. LastRequestWins'
        BY <1>0, <2>1, <3>1, Settled DEF HeadIsRight, LastRequestWins
      <3> QED BY <3>1, <3>2, <3>3, <3>4, <3>5, <3>6, Settled DEF RuntimeInv
    <2>2. CASE storedId # NoId
      <3>1. TypesOK' BY <1>0, <2>2 DEF TypesOK, RuntimeTypeOK
      <3>2. BootIsFirst' BY <2>2 DEF RuntimeInv, BootIsFirst
      <3>3. HeadIsRight' BY <1>0, <2>2 DEF HeadIsRight
      <3>4. ConnectionIsServed' /\ LastIsQueued' /\ FlagStands' /\ LastRequestWins'
        BY <2>2 DEF RuntimeInv, ConnectionIsServed, LastIsQueued, FlagStands,
                    LastRequestWins, Connected, Disconnected
      <3> QED BY <3>1, <3>2, <3>3, <3>4 DEF RuntimeInv
    <2> QED BY <2>1, <2>2
  <1>3. CASE StartSetsFlag
    <2> USE <1>3 DEF StartSetsFlag
    <2>1. identity' # NoId /\ Head(queue).kind = "start" /\ queue # <<>>
      BY <1>0 DEF HeadIsRight
    <2>2. CASE conn # NoId
      <3>1. Settle BY <2>2
      <3>2. TypesOK' BY <1>0, <2>2, <3>1, Settled
        DEF TypesOK, RuntimeTypeOK, Settle
      <3>3. BootIsFirst' BY <2>2, <3>1, Settled DEF RuntimeInv, BootIsFirst
      <3>4. HeadIsRight' BY <3>1, Settled DEF HeadIsRight
      <3>5. ConnectionIsServed' BY <2>1, <2>2 DEF RuntimeInv, ConnectionIsServed
      <3>6. LastRequestWins'
        <4>1. service BY <2>2 DEF RuntimeInv, ConnectionIsServed
        <4> QED BY <2>1, <2>2, <3>1, <4>1, Settled DEF LastRequestWins, Connected
      <3> QED BY <3>1, <3>2, <3>3, <3>4, <3>5, <3>6, Settled DEF RuntimeInv
    <2>3. CASE conn = NoId
      <3>1. TypesOK' BY <1>0, <2>3 DEF TypesOK, RuntimeTypeOK
      <3>2. BootIsFirst' BY <2>3 DEF RuntimeInv, BootIsFirst
      <3>3. HeadIsRight' BY <1>0, <2>1, <2>3 DEF HeadIsRight
      <3>4. ConnectionIsServed' /\ LastIsQueued' /\ FlagStands' /\ LastRequestWins'
        BY <2>1, <2>3 DEF RuntimeInv, ConnectionIsServed, LastIsQueued,
                          FlagStands, LastRequestWins
      <3> QED BY <3>1, <3>2, <3>3, <3>4 DEF RuntimeInv
    <2> QED BY <2>2, <2>3
  <1>4. CASE StartConnects
    <2> USE <1>4 DEF StartConnects
    <2>1. /\ identity # NoId /\ opId # NoId /\ queue # <<>>
          /\ Head(queue).kind = "start"
      BY <1>0 DEF HeadIsRight
    <2>2. TypesOK' BY <1>0, Settled DEF TypesOK, RuntimeTypeOK, Settle
    <2>3. BootIsFirst'
      <3>1. ~loading
        <4>1. loading => queue[1].kind = "stop"
          <5>1. Len(queue) > 0 BY <1>0, <2>1 DEF TypesOK
          <5> QED BY <5>1 DEF RuntimeInv, BootIsFirst
        <4> QED BY <2>1, <4>1
      <3> QED BY <3>1 DEF RuntimeInv, BootIsFirst
    <2>4. HeadIsRight' BY Settled DEF HeadIsRight
    <2>5. ConnectionIsServed' BY <2>1 DEF ConnectionIsServed
    <2>6. LastRequestWins'
      <3> USE DEF LastRequestWins, Connected
      <3>1. queue' = <<>> /\ wish = "on" => storedOn /\ enabled
        BY Settled DEF RuntimeInv, FlagStands
      <3> QED BY <2>1, <3>1, Settled
    <2> QED BY <2>2, <2>3, <2>4, <2>5, <2>6, Settled DEF RuntimeInv
  <1>5. CASE BeginStop
    <2> USE <1>5 DEF BeginStop
    <2>1. TypesOK' BY <1>0 DEF TypesOK, RuntimeTypeOK
    <2>2. BootIsFirst' BY DEF RuntimeInv, BootIsFirst
    <2>3. HeadIsRight' BY DEF HeadIsRight
    <2>4. ConnectionIsServed' /\ LastIsQueued' /\ FlagStands' /\ LastRequestWins'
      BY DEF RuntimeInv, ConnectionIsServed, LastIsQueued, FlagStands,
             LastRequestWins, Connected, Disconnected
    <2> QED BY <2>1, <2>2, <2>3, <2>4 DEF RuntimeInv
  <1>6. CASE StopDisconnects
    <2> USE <1>6 DEF StopDisconnects
    <2>1. TypesOK' BY <1>0 DEF TypesOK, RuntimeTypeOK
    <2>2. BootIsFirst' BY DEF RuntimeInv, BootIsFirst
    <2>3. HeadIsRight' BY <1>0 DEF HeadIsRight
    <2>4. ConnectionIsServed' BY DEF ConnectionIsServed
    <2>5. queue # <<>> BY <1>0 DEF HeadIsRight
    <2>6. LastIsQueued' /\ FlagStands' /\ LastRequestWins'
      BY <2>5 DEF RuntimeInv, LastIsQueued, FlagStands, LastRequestWins
    <2> QED BY <2>1, <2>2, <2>3, <2>4, <2>6 DEF RuntimeInv
  <1>7. CASE StopPublishes
    <2> USE <1>7 DEF StopPublishes
    <2>1. conn = NoId /\ ~storedOn /\ Head(queue).kind = "stop"
      BY <1>0 DEF HeadIsRight
    <2>2. TypesOK' BY <1>0, Settled DEF TypesOK, RuntimeTypeOK, Settle
    <2>3. BootIsFirst' BY Settled DEF RuntimeInv, BootIsFirst
    <2>4. HeadIsRight' BY Settled DEF HeadIsRight
    <2>5. ConnectionIsServed' BY <2>1 DEF ConnectionIsServed
    <2>6. LastRequestWins' BY <2>1, Settled DEF LastRequestWins, Disconnected
    <2> QED BY <2>2, <2>3, <2>4, <2>5, <2>6, Settled DEF RuntimeInv
  <1> QED BY <1>1, <1>2, <1>3, <1>4, <1>5, <1>6, <1>7 DEF OpStep

\* The boot path: what is queued while it reads are stops.
LEMMA BootKeeps == RuntimeInv /\ BootStep => RuntimeInv'
  <1> SUFFICES ASSUME RuntimeInv, BootStep PROVE RuntimeInv'
    OBVIOUS
  <1> USE RuntimeAssumption DEF stored, state, opVars, bootVars, uiVars
  <1>0. TypesOK /\ BootIsFirst /\ HeadIsRight BY DEF RuntimeInv
  <1>1. CASE BootReads
    <2>1. TypesOK' BY <1>0, <1>1 DEF BootReads, TypesOK, RuntimeTypeOK
    <2>2. BootIsFirst' BY <1>0, <1>1 DEF BootReads, BootIsFirst
    <2> QED BY <1>1, <2>1, <2>2, Aside DEF BootReads
  <1>2. CASE NoInitialLink
    <2>1. TypesOK' BY <1>0, <1>2 DEF NoInitialLink, TypesOK, RuntimeTypeOK
    <2>2. BootIsFirst' BY <1>0, <1>2 DEF NoInitialLink, BootIsFirst
    <2> QED BY <1>2, <2>1, <2>2, Aside DEF NoInitialLink
  <1>3. CASE BootPublishes
    <2> USE <1>3 DEF BootPublishes
    <2>1. loading /\ conn = NoId /\ wish \notin {"on", "off"}
      BY <1>0 DEF BootIsFirst
    <2>2. opPc \in {"idle", "unflag", "unservice"}
      <3>1. queue # <<>> => queue[1].kind = "stop"
        <4>1. queue # <<>> => Len(queue) > 0 BY <1>0 DEF TypesOK
        <4> QED BY <1>0, <2>1, <4>1 DEF BootIsFirst
      <3> QED BY <1>0, <3>1 DEF HeadIsRight, TypesOK, RuntimeTypeOK
    <2>3. /\ queue' \in Seq(Ops)
          /\ queue # <<>> => queue' # <<>> /\ Head(queue') = Head(queue)
      <3>1. CASE UNCHANGED queue BY <1>0, <3>1 DEF TypesOK
      <3>2. CASE Serialise("start", "boot")
        <4> DEFINE o == Op("start", "boot")
        <4>1. o \in Ops /\ o.kind = "start" /\ o.by = "boot" BY DEF Ops, Op
        <4> HIDE DEF o
        <4> QED BY <3>2, <4>1, Serialised
      <3> QED BY <3>1, <3>2
    <2>4. TypesOK' BY <1>0, <2>3 DEF TypesOK, RuntimeTypeOK
    <2>5. BootIsFirst' BY DEF BootIsFirst
    <2>6. HeadIsRight' BY <1>0, <2>1, <2>2, <2>3 DEF HeadIsRight
    <2>7. ConnectionIsServed' BY <2>1 DEF ConnectionIsServed
    <2>8. LastIsQueued' /\ FlagStands' /\ LastRequestWins'
      BY <2>1 DEF LastIsQueued, FlagStands, LastRequestWins
    <2> QED BY <2>4, <2>5, <2>6, <2>7, <2>8 DEF RuntimeInv
  <1> QED BY <1>1, <1>2, <1>3 DEF BootStep

\* A request joins the chain, whatever its head is doing: Adopt, the buttons
\* and the notification.
LEMMA RequestKeeps ==
    ASSUME RuntimeInv, NEW o \in Ops, Serialise(o.kind, o.by),
           Wish(IF o.kind = "start" THEN "on" ELSE "off"),
           o.kind = "start" => ~loading,
           UNCHANGED <<enabled, loading, conn, service, opPc, opId, bootVars>>,
           storedOn' = storedOn \/ (o.kind = "stop" /\ storedOn' = FALSE),
           identity' = identity \/ identity' # NoId,
           TypesOK', \A e \in Enrolls : flow'[e] # "saving" \/ flow'[e] = flow[e]
    PROVE  RuntimeInv'
  <1> USE DEF bootVars
  <1>0. BootIsFirst /\ HeadIsRight BY DEF RuntimeInv
  <1>1. /\ queue' \in Seq(Ops) /\ queue' # <<>>
        /\ queue'[Len(queue')].kind = o.kind
        /\ queue # <<>> => Head(queue') = Head(queue) /\ Len(queue') > 1
        /\ o.kind = "stop" /\ (\A i \in 1 .. Len(queue) : queue[i].kind = "stop")
              => \A i \in 1 .. Len(queue') : queue'[i].kind = "stop"
    BY Serialised
  <1>2. o.kind \in {"start", "stop"} BY DEF Ops
  <1>3. wish' = IF o.kind = "start" THEN "on"
                ELSE IF loading THEN "early" ELSE "off"
    BY <1>0, <1>2 DEF Wish, BootIsFirst
  <1>4. BootIsFirst' BY <1>0, <1>1, <1>2, <1>3 DEF BootIsFirst
  <1>5. HeadIsRight' BY <1>0, <1>1 DEF HeadIsRight
  <1>6. ConnectionIsServed' BY DEF RuntimeInv, ConnectionIsServed
  <1>7. LastIsQueued' BY <1>1, <1>2, <1>3 DEF LastIsQueued
  <1>8. FlagStands' BY <1>0, <1>1 DEF FlagStands, HeadIsRight
  <1>9. LastRequestWins' BY <1>1 DEF LastRequestWins
  <1> QED BY <1>4, <1>5, <1>6, <1>7, <1>8, <1>9 DEF RuntimeInv

\* Enrollment by link or by form.
LEMMA EnrollKeeps ==
    ASSUME RuntimeInv, NEW e \in Enrolls,
           \/ LinkArrives(e) \/ InitialLink(e) \/ PressEnroll(e)
           \/ Enrolled(e) \/ EnrollFails(e) \/ Adopt(e)
    PROVE  RuntimeInv'
  <1> USE RuntimeAssumption
      DEF stored, state, opVars, bootVars, uiVars, FollowLink
  <1>0. TypesOK /\ BootIsFirst /\ HeadIsRight BY DEF RuntimeInv
  <1>1. CASE LinkArrives(e)
    <2>1. TypesOK' BY <1>0, <1>1 DEF LinkArrives, TypesOK, RuntimeTypeOK, Flows
    <2>2. BootIsFirst' BY <1>0, <1>1 DEF LinkArrives, BootIsFirst, TypesOK
    <2> QED BY <1>1, <2>1, <2>2, Aside DEF LinkArrives
  <1>2. CASE InitialLink(e)
    <2>1. TypesOK' BY <1>0, <1>2 DEF InitialLink, TypesOK, RuntimeTypeOK, Flows
    <2>2. BootIsFirst' BY <1>0, <1>2 DEF InitialLink, BootIsFirst, TypesOK
    <2> QED BY <1>2, <2>1, <2>2, Aside DEF InitialLink
  <1>3. CASE PressEnroll(e)
    <2>1. TypesOK' BY <1>0, <1>3 DEF PressEnroll, TypesOK, RuntimeTypeOK, Flows
    <2>2. BootIsFirst' BY <1>0, <1>3 DEF PressEnroll, BootIsFirst, TypesOK
    <2> QED BY <1>3, <2>1, <2>2, Aside DEF PressEnroll
  <1>4. CASE Enrolled(e)
    <2>1. TypesOK'
      BY <1>0, <1>4 DEF Enrolled, TypesOK, RuntimeTypeOK, Flows, Identities
    <2>2. BootIsFirst' BY <1>0, <1>4 DEF Enrolled, BootIsFirst, TypesOK
    <2> QED BY <1>4, <2>1, <2>2, Aside DEF Enrolled
  <1>5. CASE EnrollFails(e)
    <2>1. TypesOK'
      BY <1>0, <1>5 DEF EnrollFails, TypesOK, RuntimeTypeOK, Flows, Identities
    <2>2. BootIsFirst' BY <1>0, <1>5 DEF EnrollFails, BootIsFirst, TypesOK
    <2> QED BY <1>5, <2>1, <2>2, Aside DEF EnrollFails
  <1>6. CASE Adopt(e)
    <2> USE <1>6 DEF Adopt
    <2>1. PICK o \in Ops : o.kind = "start" /\ o.by = e
      BY OpExists DEF Identities
    <2>2. queue' \in Seq(Ops) BY <2>1, Serialised
    <2>3. TypesOK'
      BY <1>0, <2>2 DEF TypesOK, RuntimeTypeOK, Flows, Identities, Wish
    <2>4. ~loading BY <1>0 DEF BootIsFirst
    <2>5. \A d \in Enrolls : flow'[d] # "saving" \/ flow'[d] = flow[d]
      BY <1>0 DEF TypesOK
    <2> QED BY <2>1, <2>3, <2>4, <2>5, RequestKeeps
  <1> QED BY <1>1, <1>2, <1>3, <1>4, <1>5, <1>6

\* The buttons, the notification, and the end of a reset.
LEMMA OwnerKeeps ==
    ASSUME RuntimeInv,
           \/ PressConnect \/ PressDisconnect \/ PressReset \/ NotificationStop
           \/ ClearIdentity
    PROVE  RuntimeInv'
  <1> USE RuntimeAssumption DEF stored, state, opVars, bootVars, uiVars
  <1>0. TypesOK /\ BootIsFirst BY DEF RuntimeInv
  <1>1. CASE PressConnect
    <2> USE <1>1 DEF PressConnect
    <2>1. PICK o \in Ops : o.kind = "start" /\ o.by = "button"
      BY OpExists
    <2>2. queue' \in Seq(Ops) BY <2>1, Serialised
    <2>3. TypesOK' BY <1>0, <2>2 DEF TypesOK, RuntimeTypeOK, Wish
    <2> QED BY <2>1, <2>3, RequestKeeps DEF DeviceCard
  <1>2. CASE PressDisconnect
    <2> USE <1>2 DEF PressDisconnect
    <2>1. PICK o \in Ops : o.kind = "stop" /\ o.by = "button"
      BY OpExists
    <2>2. queue' \in Seq(Ops) BY <2>1, Serialised
    <2>3. TypesOK' BY <1>0, <2>2 DEF TypesOK, RuntimeTypeOK, Wish
    <2> QED BY <2>1, <2>3, RequestKeeps
  <1>3. CASE PressReset
    <2> USE <1>3 DEF PressReset
    <2>1. PICK o \in Ops : o.kind = "stop" /\ o.by = "reset"
      BY OpExists
    <2>2. queue' \in Seq(Ops) BY <2>1, Serialised
    <2>3. TypesOK' BY <1>0, <2>2 DEF TypesOK, RuntimeTypeOK, Wish
    <2> QED BY <2>1, <2>3, RequestKeeps
  <1>4. CASE NotificationStop
    <2> USE <1>4 DEF NotificationStop
    <2>1. PICK o \in Ops : o.kind = "stop" /\ o.by = "notification"
      BY OpExists
    <2>2. queue' \in Seq(Ops) BY <2>1, Serialised
    <2>3. TypesOK' BY <1>0, <2>2 DEF TypesOK, RuntimeTypeOK, Wish
    <2> QED BY <2>1, <2>3, RequestKeeps
  <1>5. CASE ClearIdentity
    <2>1. TypesOK' BY <1>0, <1>5 DEF ClearIdentity, TypesOK, RuntimeTypeOK
    <2>2. BootIsFirst' BY <1>0, <1>5 DEF ClearIdentity, BootIsFirst
    <2> QED BY <1>5, <2>1, <2>2, Aside DEF ClearIdentity
  <1> QED BY <1>1, <1>2, <1>3, <1>4, <1>5

\* The process dies: the runtime starts over, from whatever is stored.
LEMMA DeathKeeps == RuntimeInv /\ ProcessDies => RuntimeInv'
  <1> SUFFICES ASSUME RuntimeInv, ProcessDies PROVE RuntimeInv'
    OBVIOUS
  <1> USE RuntimeAssumption DEF ProcessDies
  <1>0. TypesOK BY DEF RuntimeInv
  <1>1. TypesOK'
    <2>1. RuntimeTypeOK' BY <1>0 DEF TypesOK, RuntimeTypeOK, Identities
    <2>2. queue' \in Seq(Ops) OBVIOUS
    <2>3. flow' \in [Enrolls -> Flows] BY DEF Flows
    <2>4. bootRead' \in [id : Identities \cup {NoId}, on : BOOLEAN] OBVIOUS
    <2> QED BY <2>1, <2>2, <2>3, <2>4 DEF TypesOK
  <1>2. BootIsFirst' BY DEF BootIsFirst
  <1>3. HeadIsRight' /\ ConnectionIsServed'
    BY DEF HeadIsRight, ConnectionIsServed
  <1>4. LastIsQueued' /\ FlagStands' /\ LastRequestWins'
    BY DEF LastIsQueued, FlagStands, LastRequestWins
  <1> QED BY <1>1, <1>2, <1>3, <1>4 DEF RuntimeInv

----------------------------------------------------------------------------

\* The inductive invariant of runtime.ts, for any number of enrollments and
\* any bound on the chain.
THEOREM RuntimeInvariant == RuntimeSpec => []RuntimeInv
  <1>1. RuntimeInv /\ [RuntimeNext]_runtimeVars => RuntimeInv'
    <2> SUFFICES ASSUME RuntimeInv, [RuntimeNext]_runtimeVars PROVE RuntimeInv'
      OBVIOUS
    <2>1. CASE UNCHANGED runtimeVars
      <3> USE <2>1 DEF runtimeVars, stored, state, opVars, bootVars, uiVars
      <3>1. TypesOK' BY DEF RuntimeInv, TypesOK, RuntimeTypeOK
      <3>2. BootIsFirst' BY DEF RuntimeInv, BootIsFirst
      <3> QED BY <3>1, <3>2, Aside
    <2>2. CASE RuntimeNext
      BY <2>2, OpKeeps, BootKeeps, EnrollKeeps, OwnerKeeps, DeathKeeps
      DEF RuntimeNext
    <2> QED BY <2>1, <2>2
  <1> QED BY <1>1, RuntimeInitial, PTL DEF RuntimeSpec

\* Every state of the runtime is well typed.
THEOREM RuntimeTypeCorrect == RuntimeSpec => []RuntimeTypeOK
  BY RuntimeInvariant, PTL DEF RuntimeInv, TypesOK

\* Once every start and stop has settled, socket, service, stored flag and
\* screen agree with the last request (serialise, doStart, doStop), for any
\* number of requests queued behind one another.
THEOREM LastRequestWinsHolds == RuntimeSpec => []LastRequestWins
  BY RuntimeInvariant, PTL DEF RuntimeInv
=============================================================================
