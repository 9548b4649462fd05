------------------------- MODULE WindowsAgent_proofs -------------------------
(***************************************************************************)
(* Proofs about WindowsAgent, for any number of runs, connections and      *)
(* sessions and for every budget.                                          *)
(*                                                                         *)
(* The argument goes down the chain of contexts.  RunInv: of the runs that *)
(* started, all but the last are cancelled, and of a run's connections all *)
(* but the one it is in.  ReaderInv: what the reader of a connection is    *)
(* about, and what its Manager holds meanwhile.  VideoInv: a video session *)
(* that runs is the one its Manager knows, the one that is about to be     *)
(* given to it, or cancelled.                                              *)
(***************************************************************************)
EXTENDS WindowsAgent, TLAPS

Over == {"returned", "fatal"}

\* startConnection cancels whatever was started before.
OneRunLives ==
    /\ \A r \in runCtx : rPc[r] # "idle"
    /\ \A q, r \in Runs \ runCtx :
          rPc[q] # "idle" /\ rPc[r] # "idle" => q = r

\* A connection is dialled once, by a run past the tray.
Owned ==
    \A c \in Conns :
        /\ own[c] = None <=> sPc[c] = "new"
        /\ own[c] # None => rPc[own[c]] \notin {"idle", "tray"}

\* A run is in session() of one connection; it cancelled the others.
InOneSession ==
    /\ \A r \in Runs : rConn[r] # None => rPc[r] = "session"
    /\ \A c \in Conns :
          sPc[c] # "new" /\ (sPc[c] \notin Over \/ ~OuterDone(c))
              => rConn[own[c]] = c

RunInv == OneRunLives /\ Owned /\ InOneSession

\* The frame in hand names a session.
FrameInHand ==
    \A c \in Conns :
        rdPc[c] \in {"start", "build", "guard", "stop"} => rdMsg[c] # None

\* There is a reader once online() was called.
ReadsWhenOnline ==
    \A c \in Conns :
        rdPc[c] # "none" => sPc[c] \notin {"new", "dialing", "online"}

\* session() cancels its context before it returns.
EndedIsDone == \A c \in Conns : sPc[c] \in Over => c \in inner

\* While Start builds a session the Manager has none.
NoneWhileBuilding ==
    \A c \in Conns : rdPc[c] \in {"build", "guard"} => live[c] = None

StopWasSent ==
    \A c \in Conns : rdPc[c] \in {"stop", "green"} => stopSent # {}

ReaderInv ==
    /\ ReadsWhenOnline /\ EndedIsDone
    /\ LiveIsNamed /\ NoneWhileBuilding /\ StopWasSent

\* What runs is known to its Manager, about to be, or cancelled.
VideoInv ==
    \A s \in Sessions :
        video[s] = "running" =>
            /\ vConn[s] # None /\ rdPc[vConn[s]] # "none"
            /\ \/ s \in vCancel
               \/ live[vConn[s]] = s
               \/ rdPc[vConn[s]] = "guard" /\ rdMsg[vConn[s]] = s

AgentInv ==
    /\ AgentTypeOK /\ FrameInHand
    /\ RunInv /\ ReaderInv /\ VideoInv /\ ViewedIsShown

LEMMA AgentInitial == AgentInit => AgentInv
  <1> SUFFICES ASSUME AgentInit PROVE AgentInv
    OBVIOUS
  <1> USE AgentAssumption DEF AgentInit
  <1>1. AgentTypeOK /\ FrameInHand BY DEF AgentTypeOK, FrameInHand
  <1>2. RunInv
    BY DEF RunInv, OneRunLives, Owned, InOneSession
  <1>3. ReaderInv
    BY DEF ReaderInv, ReadsWhenOnline, EndedIsDone, LiveIsNamed,
           NoneWhileBuilding, StopWasSent, Over
  <1>4. VideoInv /\ ViewedIsShown BY DEF VideoInv, ViewedIsShown
  <1> QED BY <1>1, <1>2, <1>3, <1>4 DEF AgentInv

\* What each step may change has its type, and a frame in hand its session.
LEMMA AgentTypeKeeps ==
    AgentTypeOK /\ FrameInHand /\ [AgentNext]_agentVars
        => AgentTypeOK' /\ FrameInHand'
  <1> SUFFICES ASSUME AgentTypeOK, FrameInHand, [AgentNext]_agentVars
               PROVE  AgentTypeOK' /\ FrameInHand'
    OBVIOUS
  <1> USE AgentAssumption
      DEF AgentTypeOK, FrameInHand, runVars, connVars, readVars, mgrVars,
          videoVars, sentVars, RStep, SStep, RdStep, StopLocked
  <1>1. ASSUME NEW r \in Runs, StartConnection(r)
        PROVE  AgentTypeOK' /\ FrameInHand'
    BY <1>1 DEF StartConnection
  <1>2. ASSUME NEW r \in Runs, RunStep(r)
        PROVE  AgentTypeOK' /\ FrameInHand'
    <2>1. CASE StartRun(r) BY <2>1 DEF StartRun
    <2>2. CASE BackoffElapses(r) BY <2>2 DEF BackoffElapses
    <2>3. CASE BackoffClicked(r) BY <2>3 DEF BackoffClicked
    <2>4. CASE RunStops(r) BY <2>4 DEF RunStops
    <2>5. CASE ShowFatal(r) BY <2>5 DEF ShowFatal
    <2>6. ASSUME NEW c \in Conns, Dial(r, c)
          PROVE  AgentTypeOK' /\ FrameInHand'
      BY <2>6 DEF Dial
    <2>7. ASSUME NEW c \in Conns, SessionOver(r, c)
          PROVE  AgentTypeOK' /\ FrameInHand'
      BY <2>7 DEF SessionOver
    <2> QED
      BY <1>2, <2>1, <2>2, <2>3, <2>4, <2>5, <2>6, <2>7 DEF RunStep
  <1>3. CASE Click BY <1>3 DEF Click
  <1>4. ASSUME NEW c \in Conns, WatchClicked(c)
        PROVE  AgentTypeOK' /\ FrameInHand'
    BY <1>4 DEF WatchClicked
  <1>5. ASSUME NEW c \in Conns, SessionStep(c) \/ LeaveSession(c)
        PROVE  AgentTypeOK' /\ FrameInHand'
    <2>1. CASE Welcomed(c) BY <2>1 DEF Welcomed
    <2>2. CASE NotWelcomed(c) BY <2>2 DEF NotWelcomed
    <2>3. CASE Online(c) BY <2>3 DEF Online
    <2>4. CASE LeaveSession(c) BY <2>4 DEF LeaveSession
    <2>5. CASE Offline(c) BY <2>5 DEF Offline
    <2>6. CASE StopAll(c) BY <2>6 DEF StopAll
    <2>7. CASE EndSession(c) BY <2>7 DEF EndSession
    <2> QED
      BY <1>5, <2>1, <2>2, <2>3, <2>4, <2>5, <2>6, <2>7 DEF SessionStep
  <1>6. ASSUME NEW c \in Conns, ReaderStep(c) \/ ReaderEnds(c)
        PROVE  AgentTypeOK' /\ FrameInHand'
    <2>1. CASE Start(c) BY <2>1 DEF Start
    <2>2. CASE Build(c) BY <2>2 DEF Build
    <2>3. CASE BuildFails(c) BY <2>3 DEF BuildFails
    <2>4. CASE Guard(c) BY <2>4 DEF Guard
    <2>5. CASE TrayInSession(c) BY <2>5 DEF TrayInSession
    <2>6. CASE Stop(c) BY <2>6 DEF Stop
    <2>7. CASE TrayOnline(c) BY <2>7 DEF TrayOnline
    <2>8. CASE ReaderEnds(c) BY <2>8 DEF ReaderEnds
    <2> QED
      BY <1>6, <2>1, <2>2, <2>3, <2>4, <2>5, <2>6, <2>7, <2>8 DEF ReaderStep
  <1>7. ASSUME NEW c \in Conns, NEW s \in Sessions,
               ReadStart(c, s) \/ ReadStop(c, s)
        PROVE  AgentTypeOK' /\ FrameInHand'
    BY <1>7 DEF ReadStart, ReadStop
  <1>8. ASSUME NEW s \in Sessions, VideoEnds(s)
        PROVE  AgentTypeOK' /\ FrameInHand'
    BY <1>8 DEF VideoEnds
  <1>9. CASE UNCHANGED agentVars BY <1>9 DEF agentVars
  <1> QED
    BY <1>1, <1>2, <1>3, <1>4, <1>5, <1>6, <1>7, <1>8, <1>9 DEF AgentNext

\* The steps of a reader, of a video session and of the tray menu leave the
\* runs and their connections alone.
LEMMA RunInvStill ==
    RunInv /\ UNCHANGED <<rPc, rConn, runCtx, own, sPc, outer>> => RunInv'
  BY DEF RunInv, OneRunLives, Owned, InOneSession, OuterDone

\* One run is not cancelled, and it is in one session.
LEMMA RunInvKeeps ==
    AgentTypeOK /\ RunInv /\ [AgentNext]_agentVars => RunInv'
  <1> SUFFICES ASSUME AgentTypeOK, RunInv, [AgentNext]_agentVars
               PROVE  RunInv'
    OBVIOUS
  <1> USE AgentAssumption
      DEF AgentTypeOK, RunInv, OneRunLives, Owned, InOneSession, OuterDone,
          Over, RStep, SStep, connVars, runVars
  <1>1. ASSUME NEW r \in Runs, StartConnection(r) PROVE RunInv'
    <2> USE <1>1 DEF StartConnection
    <2>1. OneRunLives' OBVIOUS
    <2>2. Owned' OBVIOUS
    <2>3. InOneSession' OBVIOUS
    <2> QED BY <2>1, <2>2, <2>3
  <1>2. ASSUME NEW r \in Runs, RunStep(r) PROVE RunInv'
    <2>1. CASE StartRun(r) BY <2>1 DEF StartRun
    <2>2. CASE BackoffElapses(r) BY <2>2 DEF BackoffElapses
    <2>3. CASE BackoffClicked(r) BY <2>3 DEF BackoffClicked
    <2>4. CASE RunStops(r) BY <2>4 DEF RunStops
    <2>5. CASE ShowFatal(r) BY <2>5 DEF ShowFatal
    <2>6. ASSUME NEW c \in Conns, Dial(r, c) PROVE RunInv'
      <3> USE <2>6 DEF Dial
      <3>1. OneRunLives' OBVIOUS
      <3>2. Owned' OBVIOUS
      <3>3. InOneSession' OBVIOUS
      <3> QED BY <3>1, <3>2, <3>3
    <2>7. ASSUME NEW c \in Conns, SessionOver(r, c) PROVE RunInv'
      <3> USE <2>7 DEF SessionOver
      <3>1. OneRunLives' OBVIOUS
      <3>2. Owned' OBVIOUS
      <3>3. InOneSession' OBVIOUS
      <3> QED BY <3>1, <3>2, <3>3
    <2> QED
      BY <1>2, <2>1, <2>2, <2>3, <2>4, <2>5, <2>6, <2>7 DEF RunStep
  <1>3. ASSUME NEW c \in Conns, WatchClicked(c) PROVE RunInv'
    BY <1>3 DEF WatchClicked
  <1>4. ASSUME NEW c \in Conns, SessionStep(c) \/ LeaveSession(c)
        PROVE  RunInv'
    <2>1. UNCHANGED <<runVars, own, outer>>
      BY <1>4 DEF SessionStep, Welcomed, NotWelcomed, Online, LeaveSession,
                  Offline, StopAll, EndSession
    <2>2. sPc[c] \notin {"new", "returned", "fatal"}
      BY <1>4 DEF SessionStep, Welcomed, NotWelcomed, Online, LeaveSession,
                  Offline, StopAll, EndSession
    <2>3. \E at \in {"online", "loop", "offline", "stopall", "end", "returned",
                     "fatal"} : sPc' = [sPc EXCEPT ![c] = at]
      BY <1>4 DEF SessionStep, Welcomed, NotWelcomed, Online, LeaveSession,
                  Offline, StopAll, EndSession
    <2> QED BY <2>1, <2>2, <2>3
  <1>5. CASE \/ Click \/ UNCHANGED agentVars
             \/ \E c \in Conns : ReaderStep(c) \/ ReaderEnds(c)
             \/ \E c \in Conns, s \in Sessions :
                   ReadStart(c, s) \/ ReadStop(c, s)
             \/ \E s \in Sessions : VideoEnds(s)
    <2>1. UNCHANGED <<rPc, rConn, runCtx, own, sPc, outer>>
      BY <1>5 DEF Click, agentVars, ReaderStep, Start, Build, BuildFails,
                  Guard, TrayInSession, Stop, TrayOnline, ReaderEnds,
                  ReadStart, ReadStop, VideoEnds
    <2> QED BY <2>1, RunInvStill
  <1> QED BY <1>1, <1>2, <1>3, <1>4, <1>5 DEF AgentNext

LEMMA ReaderInvStill ==
    ReaderInv /\ UNCHANGED <<sPc, inner, rdPc, sid, live, stopSent>>
        => ReaderInv'
  BY DEF ReaderInv, ReadsWhenOnline, EndedIsDone, LiveIsNamed,
         NoneWhileBuilding, StopWasSent

\* The reader and the Manager of a connection stay in step.
LEMMA ReaderInvKeeps ==
    AgentTypeOK /\ FrameInHand /\ ReaderInv /\ [AgentNext]_agentVars
        => ReaderInv'
  <1> SUFFICES ASSUME AgentTypeOK, FrameInHand, ReaderInv,
                      [AgentNext]_agentVars
               PROVE  ReaderInv'
    OBVIOUS
  <1> USE AgentAssumption
      DEF AgentTypeOK, ReaderInv, ReadsWhenOnline, EndedIsDone, LiveIsNamed,
          NoneWhileBuilding, StopWasSent, Over, RStep, SStep, RdStep,
          StopLocked, connVars, runVars, mgrVars, readVars, sentVars
  <1>1. ASSUME NEW r \in Runs, NEW c \in Conns, Dial(r, c) PROVE ReaderInv'
    BY <1>1 DEF Dial
  <1>2. ASSUME NEW c \in Conns, SessionStep(c) \/ LeaveSession(c)
        PROVE  ReaderInv'
    <2>1. CASE Welcomed(c) BY <2>1 DEF Welcomed
    <2>2. CASE NotWelcomed(c) BY <2>2 DEF NotWelcomed
    <2>3. CASE Online(c) BY <2>3 DEF Online
    <2>4. CASE LeaveSession(c) BY <2>4 DEF LeaveSession
    <2>5. CASE Offline(c) BY <2>5 DEF Offline
    <2>6. CASE StopAll(c) BY <2>6 DEF StopAll
    <2>7. CASE EndSession(c) BY <2>7 DEF EndSession
    <2> QED
      BY <1>2, <2>1, <2>2, <2>3, <2>4, <2>5, <2>6, <2>7 DEF SessionStep
  <1>3. ASSUME NEW c \in Conns, ReaderStep(c) \/ ReaderEnds(c)
        PROVE  ReaderInv'
    <2>1. CASE Start(c) BY <2>1 DEF Start
    <2>2. CASE Build(c) BY <2>2 DEF Build
    <2>3. CASE BuildFails(c) BY <2>3 DEF BuildFails
    <2>4. CASE Guard(c) BY <2>4 DEF Guard
    <2>5. CASE TrayInSession(c) BY <2>5 DEF TrayInSession
    <2>6. CASE Stop(c) BY <2>6 DEF Stop
    <2>7. CASE TrayOnline(c) BY <2>7 DEF TrayOnline
    <2>8. CASE ReaderEnds(c) BY <2>8 DEF ReaderEnds
    <2> QED
      BY <1>3, <2>1, <2>2, <2>3, <2>4, <2>5, <2>6, <2>7, <2>8 DEF ReaderStep
  <1>4. ASSUME NEW c \in Conns, NEW s \in Sessions,
               ReadStart(c, s) \/ ReadStop(c, s)
        PROVE  ReaderInv'
    BY <1>4 DEF ReadStart, ReadStop
  <1>5. CASE \/ Click \/ UNCHANGED agentVars
             \/ \E r \in Runs : \/ StartConnection(r) \/ StartRun(r)
                                \/ BackoffElapses(r) \/ BackoffClicked(r)
                                \/ RunStops(r) \/ ShowFatal(r)
                                \/ \E c \in Conns : SessionOver(r, c)
             \/ \E c \in Conns : WatchClicked(c)
             \/ \E s \in Sessions : VideoEnds(s)
    <2>1. UNCHANGED <<sPc, inner, rdPc, sid, live, stopSent>>
      BY <1>5 DEF Click, agentVars, StartConnection, StartRun,
                  BackoffElapses, BackoffClicked, RunStops, ShowFatal,
                  SessionOver, WatchClicked, VideoEnds
    <2> QED BY <2>1, ReaderInvStill
  <1> QED BY <1>1, <1>2, <1>3, <1>4, <1>5 DEF AgentNext, RunStep

LEMMA VideoInvStill ==
    VideoInv /\ UNCHANGED <<video, vConn, rdPc, rdMsg, live, vCancel>>
        => VideoInv'
  BY DEF VideoInv

\* No video session is lost sight of while it runs.
LEMMA VideoInvKeeps ==
    /\ AgentTypeOK /\ FrameInHand /\ ReaderInv /\ VideoInv
    /\ [AgentNext]_agentVars
    => VideoInv'
  <1> SUFFICES ASSUME AgentTypeOK, FrameInHand, ReaderInv, VideoInv,
                      [AgentNext]_agentVars
               PROVE  VideoInv'
    OBVIOUS
  <1> USE AgentAssumption
      DEF AgentTypeOK, FrameInHand, ReaderInv, LiveIsNamed,
          NoneWhileBuilding, VideoInv, RStep, SStep, RdStep, StopLocked,
          connVars, runVars, mgrVars, readVars, videoVars, sentVars
  <1>1. ASSUME NEW c \in Conns, SessionStep(c) \/ LeaveSession(c)
        PROVE  VideoInv'
    <2>1. CASE StopAll(c) BY <2>1 DEF StopAll
    <2>2. CASE Online(c) BY <2>2 DEF Online, ReadsWhenOnline
    <2>3. CASE ~StopAll(c) /\ ~Online(c)
      <3>1. UNCHANGED <<video, vConn, rdPc, rdMsg, live, vCancel>>
        BY <1>1, <2>3 DEF SessionStep, Welcomed, NotWelcomed, LeaveSession,
                          Offline, EndSession
      <3> QED BY <3>1, VideoInvStill
    <2> QED BY <2>1, <2>2, <2>3
  <1>2. ASSUME NEW c \in Conns, ReaderStep(c) \/ ReaderEnds(c)
        PROVE  VideoInv'
    <2>1. CASE Start(c) BY <2>1 DEF Start
    <2>2. CASE Build(c) BY <2>2 DEF Build
    <2>3. CASE BuildFails(c) BY <2>3 DEF BuildFails
    <2>4. CASE Guard(c) BY <2>4 DEF Guard
    <2>5. CASE TrayInSession(c) BY <2>5 DEF TrayInSession
    <2>6. CASE Stop(c) BY <2>6 DEF Stop
    <2>7. CASE TrayOnline(c) BY <2>7 DEF TrayOnline
    <2>8. CASE ReaderEnds(c) BY <2>8 DEF ReaderEnds
    <2> QED
      BY <1>2, <2>1, <2>2, <2>3, <2>4, <2>5, <2>6, <2>7, <2>8 DEF ReaderStep
  <1>3. ASSUME NEW c \in Conns, NEW s \in Sessions,
               ReadStart(c, s) \/ ReadStop(c, s)
        PROVE  VideoInv'
    BY <1>3 DEF ReadStart, ReadStop
  <1>4. ASSUME NEW s \in Sessions, VideoEnds(s) PROVE VideoInv'
    BY <1>4 DEF VideoEnds
  <1>5. CASE \/ Click \/ UNCHANGED agentVars
             \/ \E r \in Runs : StartConnection(r) \/ RunStep(r)
             \/ \E c \in Conns : WatchClicked(c)
    <2>1. UNCHANGED <<video, vConn, rdPc, rdMsg, live, vCancel>>
      BY <1>5 DEF Click, agentVars, StartConnection, RunStep, StartRun,
                  BackoffElapses, BackoffClicked, RunStops, ShowFatal, Dial,
                  SessionOver, WatchClicked
    <2> QED BY <2>1, VideoInvStill
  <1> QED BY <1>1, <1>2, <1>3, <1>4, <1>5 DEF AgentNext

----------------------------------------------------------------------------
(* The properties the runs check.                                          *)

\* screen.go: two video sessions that no context ends are of the one run
\* that lives, on the one connection it is in, and known to one Manager.
LEMMA OneVideo == AgentInv => OneVideoAtATime
  <1> SUFFICES ASSUME AgentInv, NEW s \in Sessions, NEW t \in Sessions,
                      video[s] = "running", video[t] = "running",
                      ~VideoDone(s), ~VideoDone(t)
               PROVE  s = t
    BY DEF OneVideoAtATime
  <1> USE AgentAssumption DEF AgentInv, AgentTypeOK
  <1> DEFINE c == vConn[s]
             d == vConn[t]
  <1>1. c \in Conns /\ d \in Conns /\ sPc[c] # "new" /\ sPc[d] # "new"
    BY DEF VideoInv, ReaderInv, ReadsWhenOnline
  <1>2. own[c] \in Runs \ runCtx /\ own[d] \in Runs \ runCtx
    BY <1>1 DEF VideoDone, InnerDone, OuterDone, RunInv, Owned
  <1>3. own[c] = own[d]
    BY <1>1, <1>2 DEF RunInv, OneRunLives, Owned
  <1>4. rConn[own[c]] = c /\ rConn[own[d]] = d
    BY <1>1 DEF VideoDone, InnerDone, RunInv, InOneSession
  <1>5. live[c] = s \/ (rdPc[c] = "guard" /\ rdMsg[c] = s)
    BY DEF VideoInv, VideoDone
  <1>6. live[d] = t \/ (rdPc[d] = "guard" /\ rdMsg[d] = t)
    BY DEF VideoInv, VideoDone
  <1> QED
    BY <1>1, <1>3, <1>4, <1>5, <1>6 DEF ReaderInv, NoneWhileBuilding

\* session(): what its reader starts once it has returned is cancelled.
LEMMA NoVideo == AgentInv => NoVideoWithoutConnection
  BY AgentAssumption
  DEF AgentInv, AgentTypeOK, ReaderInv, EndedIsDone, Over, VideoInv,
      NoVideoWithoutConnection, VideoDone, InnerDone

\* A step that leaves the icon alone, and makes nothing newly viewed.
LEMMA ViewedStill ==
    ASSUME AgentTypeOK', ViewedIsShown, UNCHANGED <<vConn, own, tray>>,
           \A s \in Sessions : video'[s] = "running" =>
               video[s] = "running" /\ vConn[s] \in Conns,
           \A c \in Conns : /\ rdPc'[c] = "read" => rdPc[c] = "read"
                            /\ sPc'[c] = "loop" => sPc[c] = "loop",
           \A r \in Runs : rPc'[r] = "idle" => rPc[r] = "idle",
           vCancel \subseteq vCancel', inner \subseteq inner',
           outer \subseteq outer', runCtx \subseteq runCtx',
           stopSent \subseteq stopSent'
    PROVE  ViewedIsShown'
  BY DEF ViewedIsShown, VideoDone, InnerDone, OuterDone

\* The icon stays red: only a stop, a change of server or the end of the
\* connection that is watched turns it.
LEMMA ViewedKeeps ==
    AgentInv /\ AgentTypeOK' /\ [AgentNext]_agentVars => ViewedIsShown'
  <1> SUFFICES ASSUME AgentInv, AgentTypeOK', [AgentNext]_agentVars
               PROVE  ViewedIsShown'
    OBVIOUS
  <1> USE AgentAssumption
  <1>1. /\ AgentTypeOK /\ ViewedIsShown
        /\ \A s \in Sessions : video[s] = "running" =>
               /\ vConn[s] \in Conns /\ rdPc[vConn[s]] # "none"
               /\ sPc[vConn[s]] \notin {"new", "dialing", "online"}
               /\ own[vConn[s]] \in Runs
    BY DEF AgentInv, AgentTypeOK, VideoInv, ReaderInv, ReadsWhenOnline,
           RunInv, Owned
  <1> DEFINE Viewed(s) == /\ video[s] = "running" /\ sPc[vConn[s]] = "loop"
                          /\ \A r \in Runs \ {own[vConn[s]]} : rPc[r] = "idle"
  <1>2. ASSUME NEW s \in Sessions, NEW c \in Conns, Viewed(s),
               sPc[c] \notin {"new", "returned", "fatal"}
        PROVE  c = vConn[s]
    <2>1. own[c] \in Runs /\ rPc[own[c]] # "idle"
      BY <1>2 DEF AgentInv, AgentTypeOK, RunInv, Owned
    <2>2. own[c] = own[vConn[s]] BY <1>2, <2>1
    <2>3. rConn[own[c]] = c /\ rConn[own[vConn[s]]] = vConn[s]
      BY <1>1, <1>2 DEF AgentInv, RunInv, InOneSession, Over
    <2> QED BY <2>2, <2>3
  <1>3. ASSUME NEW r \in Runs, StartConnection(r) PROVE ViewedIsShown'
    BY <1>1, <1>3, ViewedStill
    DEF StartConnection, RStep, connVars, readVars, mgrVars, videoVars,
        sentVars, AgentInv, RunInv, OneRunLives, AgentTypeOK
  <1>4. ASSUME NEW r \in Runs,
               \/ BackoffElapses(r) \/ BackoffClicked(r) \/ RunStops(r)
               \/ \E c \in Conns : SessionOver(r, c)
        PROVE  ViewedIsShown'
    BY <1>1, <1>4, ViewedStill
    DEF BackoffElapses, BackoffClicked, RunStops, SessionOver, RStep,
        connVars, readVars, mgrVars, videoVars, sentVars, AgentTypeOK
  <1>5. ASSUME NEW r \in Runs, StartRun(r) \/ ShowFatal(r)
        PROVE  ViewedIsShown'
    <2> SUFFICES ASSUME NEW s \in Sessions, Viewed(s)' PROVE FALSE
      BY DEF ViewedIsShown
    <2>1. Viewed(s) /\ rPc[r] \in {"tray", "fatal"} /\ rPc'[r] # "idle"
      BY <1>5 DEF StartRun, ShowFatal, RStep, connVars, videoVars, AgentTypeOK
    <2>2. r = own[vConn[s]]
      BY <1>5, <2>1 DEF StartRun, ShowFatal, connVars, videoVars
    <2>3. rPc[r] = "session"
      BY <1>1, <2>1, <2>2
      DEF AgentInv, AgentTypeOK, RunInv, InOneSession, Over
    <2> QED BY <2>1, <2>3
  <1>6. ASSUME NEW r \in Runs, NEW c \in Conns, Dial(r, c)
        PROVE  ViewedIsShown'
    BY <1>1, <1>6
    DEF Dial, RStep, readVars, mgrVars, videoVars, sentVars, AgentTypeOK,
        ViewedIsShown, VideoDone, InnerDone, OuterDone
  <1>7. ASSUME NEW c \in Conns, Online(c) \/ Offline(c) PROVE ViewedIsShown'
    <2> SUFFICES ASSUME NEW s \in Sessions, Viewed(s)' PROVE FALSE
      BY DEF ViewedIsShown
    <2>1. vConn[s] # c
      BY <1>1, <1>7
      DEF Online, Offline, SStep, AgentTypeOK, videoVars
    <2>2. Viewed(s)
      BY <1>1, <1>7, <2>1
      DEF Online, Offline, SStep, AgentTypeOK, videoVars, runVars
    <2> QED BY <1>2, <1>7, <2>1, <2>2 DEF Online, Offline, SStep
  <1>8. ASSUME NEW c \in Conns, Build(c) PROVE ViewedIsShown'
    BY <1>1, <1>8
    DEF Build, RdStep, runVars, connVars, mgrVars, sentVars, AgentTypeOK,
        ViewedIsShown, VideoDone, InnerDone, OuterDone
  <1>9. ASSUME NEW c \in Conns, TrayInSession(c) \/ TrayOnline(c)
        PROVE  ViewedIsShown'
    BY <1>9
    DEF TrayInSession, TrayOnline, RdStep, sentVars, ViewedIsShown, AgentInv,
        ReaderInv, StopWasSent
  <1>10. ASSUME NEW c \in Conns,
                \/ WatchClicked(c) \/ Welcomed(c) \/ NotWelcomed(c)
                \/ LeaveSession(c) \/ StopAll(c) \/ EndSession(c)
         PROVE  ViewedIsShown'
    BY <1>1, <1>10, ViewedStill
    DEF WatchClicked, Welcomed, NotWelcomed, LeaveSession, StopAll,
        EndSession, SStep, StopLocked, runVars, readVars, mgrVars, videoVars,
        sentVars, AgentTypeOK
  <1>11. ASSUME NEW c \in Conns,
                \/ Start(c) \/ BuildFails(c) \/ Guard(c) \/ Stop(c)
                \/ ReaderEnds(c)
                \/ \E s \in Sessions : ReadStart(c, s) \/ ReadStop(c, s)
         PROVE  ViewedIsShown'
    BY <1>1, <1>11, ViewedStill
    DEF Start, BuildFails, Guard, Stop, ReaderEnds, ReadStart, ReadStop,
        RdStep, StopLocked, runVars, connVars, mgrVars, videoVars, sentVars,
        AgentTypeOK
  <1>12. CASE Click \/ UNCHANGED agentVars
    BY <1>1, <1>12, ViewedStill
    DEF Click, agentVars, runVars, connVars, readVars, mgrVars, videoVars,
        sentVars
  <1>13. ASSUME NEW s \in Sessions, VideoEnds(s) PROVE ViewedIsShown'
    BY <1>1, <1>13, ViewedStill
    DEF VideoEnds, runVars, connVars, readVars, sentVars, AgentTypeOK
  <1> QED
    BY <1>3, <1>4, <1>5, <1>6, <1>7, <1>8, <1>9, <1>10, <1>11, <1>12, <1>13
    DEF AgentNext, RunStep, SessionStep, ReaderStep

\* The inductive invariant holds of every behaviour.
THEOREM AgentInvariant == AgentSpec => []AgentInv
  <1>1. AgentInv /\ [AgentNext]_agentVars => AgentInv'
    BY AgentTypeKeeps, RunInvKeeps, ReaderInvKeeps, VideoInvKeeps, ViewedKeeps
    DEF AgentInv
  <1> QED BY AgentInitial, <1>1, PTL DEF AgentSpec

\* Each variable keeps its type, for any runs, connections and sessions.
THEOREM AgentTypeCorrect == AgentSpec => []AgentTypeOK
  <1>1. AgentInv => AgentTypeOK BY DEF AgentInv
  <1> QED BY AgentInvariant, <1>1, PTL

\* screen.go, startConnection, Run: of two captures one is being cancelled,
\* however many servers were chosen and reconnects asked for.
THEOREM OneVideoAtATimeHolds == AgentSpec => []OneVideoAtATime
  <1> QED BY AgentInvariant, OneVideo, PTL

\* session() and reader: no capture outlives the connection it is for.
THEOREM NoVideoWithoutConnectionHolds ==
    AgentSpec => []NoVideoWithoutConnection
  <1> QED BY AgentInvariant, NoVideo, PTL

\* Start, Stop and Guard: the Manager's two fields name one session.
THEOREM LiveIsNamedHolds == AgentSpec => []LiveIsNamed
  <1>1. AgentInv => LiveIsNamed BY DEF AgentInv, ReaderInv
  <1> QED BY AgentInvariant, <1>1, PTL

\* main.go's tray callbacks: whoever is watched sees the red icon, as long
\* as no stop came and the server was not changed.
THEOREM ViewedIsShownHolds == AgentSpec => []ViewedIsShown
  <1>1. AgentInv => ViewedIsShown BY DEF AgentInv
  <1> QED BY AgentInvariant, <1>1, PTL

=============================================================================
