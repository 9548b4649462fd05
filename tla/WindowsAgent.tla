---------------------------- MODULE WindowsAgent ----------------------------
(***************************************************************************)
(* The connection of the Windows agent: conn.Run, session and reader       *)
(* (internal/conn), the screen.Manager of each connection (internal/       *)
(* screen/screen.go, with the contexts of webrtc.go), startConnection and  *)
(* the tray callbacks of cmd/agent/main.go, and what the tray icon shows.  *)
(*                                                                         *)
(* A Run is one call of conn.Run, made by startConnection.  It dials one   *)
(* connection after the other; a connection's reader and its video session *)
(* are goroutines that can outlive the call of session() that made them.   *)
(* A video session is named by the session it streams for.                 *)
(*                                                                         *)
(* The backend sends one start_session and one stop_session for a session, *)
(* in any order and on any connection, as the module Relay shows; it sends *)
(* a fatal error only in the place of a welcome.  Abstracted: heartbeats   *)
(* but for a write that fails, signaling, the terminal, and the length of  *)
(* the backoff.                                                            *)
(***************************************************************************)
EXTENDS Naturals

CONSTANTS Runs, Conns, Sessions, None,
          Budgets     \* bounds: how often the server is set and Reconnect is used

ASSUME AgentAssumption ==
    /\ None \notin Runs \cup Conns \cup Sessions
    /\ Budgets \subseteq [starts : Nat, clicks : Nat]

VARIABLES
    rPc,        \* startConnection and Run, per run
    rConn,      \* the connection whose session() a Run is in
    runCtx,     \* runs whose context is cancelled
    clicked,    \* the reconnect channel holds a token
    budget,     \* what is left of the chosen budget
    \* per connection
    own,        \* the Run that dialled it
    sPc,        \* session()
    outer,      \* connections whose cancelSess has been called
    inner,      \* connections whose endSession has been called
    watching,   \* connections whose reconnect goroutine took no token yet
    rdPc, rdMsg,    \* reader: its place, and the session its frame is about
    sid, live,  \* Manager.sessionID and Manager.live
    \* per session
    video,      \* the capture and encode goroutines of a video session
    vConn,      \* the connection they were started on
    vCancel,    \* the sessions whose own context is cancelled
    startSent, stopSent,    \* what the backend has sent
    tray        \* the icon

runVars   == <<rPc, rConn, runCtx, clicked, budget>>
connVars  == <<own, sPc, outer, inner, watching>>
readVars  == <<rdPc, rdMsg>>
mgrVars   == <<sid, live, vCancel>>
videoVars == <<video, vConn>>
sentVars  == <<startSent, stopSent>>
agentVars == <<runVars, connVars, readVars, mgrVars, videoVars, sentVars, tray>>

AgentInit ==
    /\ rPc = [r \in Runs |-> "idle"] /\ rConn = [r \in Runs |-> None]
    /\ runCtx = {} /\ clicked = FALSE /\ budget \in Budgets
    /\ own = [c \in Conns |-> None] /\ sPc = [c \in Conns |-> "new"]
    /\ outer = {} /\ inner = {} /\ watching = {}
    /\ rdPc = [c \in Conns |-> "none"] /\ rdMsg = [c \in Conns |-> None]
    /\ sid = [c \in Conns |-> None] /\ live = [c \in Conns |-> None]
    /\ video = [s \in Sessions |-> "none"]
    /\ vConn = [s \in Sessions |-> None]
    /\ vCancel = {} /\ startSent = {} /\ stopSent = {}
    /\ tray = "offline"

\* A context is done with the one it was derived from.
OuterDone(c) == c \in outer \/ own[c] \in runCtx
InnerDone(c) == c \in inner \/ OuterDone(c)

VideoDone(s) == s \in vCancel \/ InnerDone(vConn[s])

----------------------------------------------------------------------------
(* startConnection and Run.                                                *)

RStep(r, from, to) == rPc[r] = from /\ rPc' = [rPc EXCEPT ![r] = to]

\* The first start, or Change Server: whatever runs is cancelled.
StartConnection(r) ==
    /\ budget.starts > 0 /\ RStep(r, "idle", "tray")
    /\ budget' = [budget EXCEPT !.starts = @ - 1]
    /\ runCtx' = {q \in Runs : rPc[q] # "idle"}
    /\ UNCHANGED <<rConn, clicked, connVars, readVars, mgrVars,
                   videoVars, sentVars, tray>>

StartRun(r) ==
    /\ RStep(r, "tray", "top")
    /\ tray' = "offline"
    /\ UNCHANGED <<rConn, runCtx, clicked, budget, connVars, readVars, mgrVars,
                   videoVars, sentVars>>

\* The next connection, with the goroutine that waits for a Reconnect.
Dial(r, c) ==
    /\ RStep(r, "top", "session")
    /\ r \notin runCtx /\ sPc[c] = "new"
    /\ rConn' = [rConn EXCEPT ![r] = c]
    /\ own' = [own EXCEPT ![c] = r]
    /\ sPc' = [sPc EXCEPT ![c] = "dialing"]
    /\ watching' = watching \cup {c}
    /\ UNCHANGED <<runCtx, clicked, budget, outer, inner, readVars, mgrVars,
                   videoVars, sentVars, tray>>

\* session() has returned: cancelSess, and either way out of the loop.
SessionOver(r, c) ==
    /\ rConn[r] = c /\ sPc[c] \in {"returned", "fatal"}
    /\ RStep(r, "session", IF sPc[c] = "fatal" THEN "fatal" ELSE "backoff")
    /\ rConn' = [rConn EXCEPT ![r] = None]
    /\ outer' = outer \cup {c}
    /\ UNCHANGED <<runCtx, clicked, budget, own, sPc, inner, watching, readVars,
                   mgrVars, videoVars, sentVars, tray>>

BackoffElapses(r) ==
    /\ RStep(r, "backoff", "top")
    /\ UNCHANGED <<rConn, runCtx, clicked, budget, connVars, readVars, mgrVars,
                   videoVars, sentVars, tray>>

BackoffClicked(r) ==
    /\ RStep(r, "backoff", "top")
    /\ clicked
    /\ clicked' = FALSE
    /\ UNCHANGED <<rConn, runCtx, budget, connVars, readVars, mgrVars, videoVars,
                   sentVars, tray>>

RunStops(r) ==
    /\ rPc[r] \in {"top", "backoff"} /\ r \in runCtx
    /\ rPc' = [rPc EXCEPT ![r] = "stopped"]
    /\ UNCHANGED <<rConn, runCtx, clicked, budget, connVars, readVars, mgrVars,
                   videoVars, sentVars, tray>>

\* SetFatal, after a fatal error has ended the loop for good.
ShowFatal(r) ==
    /\ RStep(r, "fatal", "stopped")
    /\ tray' = "offline"
    /\ UNCHANGED <<rConn, runCtx, clicked, budget, connVars, readVars, mgrVars,
                   videoVars, sentVars>>

\* The Reconnect item of the menu; a click with a token waiting is dropped.
Click ==
    /\ budget.clicks > 0 /\ ~clicked
    /\ clicked' = TRUE
    /\ budget' = [budget EXCEPT !.clicks = @ - 1]
    /\ UNCHANGED <<rPc, rConn, runCtx, connVars, readVars, mgrVars, videoVars,
                   sentVars, tray>>

\* The reconnect goroutine.  When its context is done it ends or, if there is a
\* token, takes that: its select picks either.  Ending leaves no trace, so a
\* goroutine that may have ended is one that may still take a token.
WatchClicked(c) ==
    /\ c \in watching /\ clicked
    /\ clicked' = FALSE
    /\ watching' = watching \ {c}
    /\ outer' = outer \cup {c}
    /\ UNCHANGED <<rPc, rConn, runCtx, budget, own, sPc, inner, readVars, mgrVars,
                   videoVars, sentVars, tray>>

----------------------------------------------------------------------------
(* session().                                                              *)

SStep(c, from, to) == sPc[c] = from /\ sPc' = [sPc EXCEPT ![c] = to]

\* dial, hello, welcome.
Welcomed(c) ==
    /\ SStep(c, "dialing", "online")
    /\ ~OuterDone(c)
    /\ UNCHANGED <<runVars, own, outer, inner, watching, readVars, mgrVars,
                   videoVars, sentVars, tray>>

NotWelcomed(c) ==
    /\ \E how \in {"returned", "fatal"} : SStep(c, "dialing", how)
    /\ inner' = inner \cup {c}
    /\ UNCHANGED <<runVars, own, outer, watching, readVars, mgrVars, videoVars,
                   sentVars, tray>>

Online(c) ==
    /\ SStep(c, "online", "loop")
    /\ tray' = "online"
    /\ rdPc' = [rdPc EXCEPT ![c] = "read"]
    /\ UNCHANGED <<runVars, own, outer, inner, watching, rdMsg, mgrVars,
                   videoVars, sentVars>>

\* The context is done, or a heartbeat cannot be written.
LeaveSession(c) ==
    /\ SStep(c, "loop", "offline")
    /\ UNCHANGED <<runVars, own, outer, inner, watching, readVars, mgrVars,
                   videoVars, sentVars, tray>>

\* The deferred calls, last one first.
Offline(c) ==
    /\ SStep(c, "offline", "stopall")
    /\ tray' = "offline"
    /\ UNCHANGED <<runVars, own, outer, inner, watching, readVars, mgrVars,
                   videoVars, sentVars>>

\* stopLocked on the Manager of a connection.
StopLocked(c) ==
    /\ vCancel' = IF sid[c] # None THEN vCancel \cup {sid[c]} ELSE vCancel
    /\ live' = [live EXCEPT ![c] = None]

StopAll(c) ==
    /\ SStep(c, "stopall", "end")
    /\ StopLocked(c)
    /\ sid' = [sid EXCEPT ![c] = None]
    /\ UNCHANGED <<runVars, own, outer, inner, watching, readVars, videoVars,
                   sentVars, tray>>

\* Mutant: the session's context is not cancelled.
EndSession_Skipped(c) ==
    /\ SStep(c, "end", "returned")
    /\ UNCHANGED <<runVars, own, outer, inner, watching, readVars, mgrVars,
                   videoVars, sentVars, tray>>

\* endSession, and CloseNow, which makes no reader wait.
EndSession(c) ==
    /\ SStep(c, "end", "returned")
    /\ inner' = inner \cup {c}
    /\ UNCHANGED <<runVars, own, outer, watching, readVars, mgrVars, videoVars,
                   sentVars, tray>>

----------------------------------------------------------------------------
(* reader, and the Manager it calls.                                       *)

RdStep(c, from, to) == rdPc[c] = from /\ rdPc' = [rdPc EXCEPT ![c] = to]

\* start_session or stop_session; a read with a context that is done fails.
ReadStart(c, s) ==
    /\ RdStep(c, "read", "start")
    /\ ~InnerDone(c) /\ s \notin startSent
    /\ rdMsg' = [rdMsg EXCEPT ![c] = s]
    /\ startSent' = startSent \cup {s}
    /\ UNCHANGED <<runVars, connVars, mgrVars, videoVars, stopSent, tray>>

ReadStop(c, s) ==
    /\ RdStep(c, "read", "stop")
    /\ ~InnerDone(c) /\ s \notin stopSent
    /\ rdMsg' = [rdMsg EXCEPT ![c] = s]
    /\ stopSent' = stopSent \cup {s}
    /\ UNCHANGED <<runVars, connVars, mgrVars, videoVars, startSent, tray>>

\* Mutant: the session that runs is not stopped.
Start_Beside(c) ==
    /\ RdStep(c, "start", "build")
    /\ sid' = [sid EXCEPT ![c] = rdMsg[c]]
    /\ UNCHANGED <<runVars, connVars, rdMsg, live, vCancel, videoVars, sentVars,
                   tray>>

\* Manager.Start up to the unlock: the session that runs is replaced.
Start(c) ==
    /\ RdStep(c, "start", "build")
    /\ StopLocked(c)
    /\ sid' = [sid EXCEPT ![c] = rdMsg[c]]
    /\ UNCHANGED <<runVars, connVars, rdMsg, videoVars, sentVars, tray>>

\* newVP8Session: it starts the goroutines, whatever the context says.
Build(c) ==
    /\ RdStep(c, "build", "guard")
    /\ video' = [video EXCEPT ![rdMsg[c]] = "running"]
    /\ vConn' = [vConn EXCEPT ![rdMsg[c]] = c]
    /\ UNCHANGED <<runVars, connVars, rdMsg, mgrVars, sentVars, tray>>

\* The error is reported and the context cancelled; sessionID stays.
BuildFails(c) ==
    /\ RdStep(c, "build", "red")
    /\ vCancel' = vCancel \cup {rdMsg[c]}
    /\ rdMsg' = [rdMsg EXCEPT ![c] = None]
    /\ UNCHANGED <<runVars, connVars, sid, live, videoVars, sentVars,
                   tray>>

\* A stop that came meanwhile closes the new session.
Guard(c) ==
    /\ RdStep(c, "guard", "red")
    /\ IF sid[c] = rdMsg[c]
       THEN live' = [live EXCEPT ![c] = rdMsg[c]] /\ UNCHANGED vCancel
       ELSE vCancel' = vCancel \cup {rdMsg[c]} /\ UNCHANGED live
    /\ rdMsg' = [rdMsg EXCEPT ![c] = None]
    /\ UNCHANGED <<runVars, connVars, sid, videoVars, sentVars, tray>>

\* Mutant: the icon is not told.
TrayInSession_Skipped(c) ==
    /\ RdStep(c, "red", "read")
    /\ UNCHANGED <<runVars, connVars, rdMsg, mgrVars, videoVars, sentVars, tray>>

TrayInSession(c) ==
    /\ RdStep(c, "red", "read")
    /\ tray' = "in_session"
    /\ UNCHANGED <<runVars, connVars, rdMsg, mgrVars, videoVars, sentVars>>

\* Manager.Stop: a stop for a session that was replaced is ignored.
Stop(c) ==
    /\ RdStep(c, "stop", "green")
    /\ IF sid[c] = rdMsg[c]
       THEN StopLocked(c) /\ sid' = [sid EXCEPT ![c] = None]
       ELSE UNCHANGED <<sid, live, vCancel>>
    /\ rdMsg' = [rdMsg EXCEPT ![c] = None]
    /\ UNCHANGED <<runVars, connVars, videoVars, sentVars, tray>>

\* The icon, though, is told whatever the Manager did.
TrayOnline(c) ==
    /\ RdStep(c, "green", "read")
    /\ tray' = "online"
    /\ UNCHANGED <<runVars, connVars, rdMsg, mgrVars, videoVars, sentVars>>

\* The read fails: the socket is gone or the context is done.
ReaderEnds(c) ==
    /\ RdStep(c, "read", "gone")
    /\ inner' = inner \cup {c}
    /\ UNCHANGED <<runVars, own, sPc, outer, watching, rdMsg, mgrVars,
                   videoVars, sentVars, tray>>

\* The context is done, or the peer connection, the capture or the encoder
\* failed: the goroutines end, and the Manager is not told.
VideoEnds(s) ==
    /\ video[s] = "running"
    /\ video' = [video EXCEPT ![s] = "ended"]
    /\ vCancel' = vCancel \cup {s}
    /\ UNCHANGED <<runVars, connVars, readVars, sid, live, vConn, sentVars, tray>>

----------------------------------------------------------------------------
RunStep(r) ==
    \/ StartRun(r) \/ BackoffElapses(r) \/ BackoffClicked(r) \/ RunStops(r)
    \/ ShowFatal(r)
    \/ \E c \in Conns : Dial(r, c) \/ SessionOver(r, c)

SessionStep(c) ==
    \/ Welcomed(c) \/ NotWelcomed(c) \/ Online(c) \/ Offline(c) \/ StopAll(c)
    \/ EndSession(c)

ReaderStep(c) ==
    \/ Start(c) \/ Build(c) \/ BuildFails(c) \/ Guard(c) \/ TrayInSession(c)
    \/ Stop(c) \/ TrayOnline(c)

AgentNext ==
    \/ \E r \in Runs : StartConnection(r) \/ RunStep(r)
    \/ Click
    \/ \E c \in Conns :
           \/ WatchClicked(c)
           \/ SessionStep(c) \/ LeaveSession(c) \/ ReaderStep(c) \/ ReaderEnds(c)
           \/ \E s \in Sessions : ReadStart(c, s) \/ ReadStop(c, s)
    \/ \E s \in Sessions : VideoEnds(s)

AgentSpec == AgentInit /\ [][AgentNext]_agentVars

\* The goroutines run; dialling, capturing a first frame and closing have
\* deadlines or return.  A session is left when its context is done, and a
\* video session ends when its context is: nothing else has to happen.
FairAgentSpec ==
    /\ AgentSpec
    /\ \A r \in Runs : WF_agentVars(RunStep(r))
    /\ \A c \in Conns :
           /\ WF_agentVars(SessionStep(c)) /\ WF_agentVars(ReaderStep(c))
           /\ WF_agentVars(InnerDone(c) /\ LeaveSession(c))
           /\ WF_agentVars(InnerDone(c) /\ ReaderEnds(c))
    /\ \A s \in Sessions : WF_agentVars(VideoEnds(s) /\ VideoDone(s))

----------------------------------------------------------------------------
AgentTypeOK ==
    /\ rPc \in [Runs -> {"idle", "tray", "top", "session", "backoff", "fatal",
                         "stopped"}]
    /\ rConn \in [Runs -> Conns \cup {None}]
    /\ runCtx \subseteq Runs /\ clicked \in BOOLEAN
    /\ budget \in [starts : Nat, clicks : Nat]
    /\ own \in [Conns -> Runs \cup {None}]
    /\ sPc \in [Conns -> {"new", "dialing", "online", "loop", "offline",
                          "stopall", "end", "returned", "fatal"}]
    /\ outer \subseteq Conns /\ inner \subseteq Conns /\ watching \subseteq Conns
    /\ rdPc \in [Conns -> {"none", "read", "start", "build", "guard", "red",
                           "stop", "green", "gone"}]
    /\ rdMsg \in [Conns -> Sessions \cup {None}]
    /\ sid \in [Conns -> Sessions \cup {None}]
    /\ live \in [Conns -> Sessions \cup {None}]
    /\ video \in [Sessions -> {"none", "running", "ended"}]
    /\ vConn \in [Sessions -> Conns \cup {None}]
    /\ vCancel \subseteq Sessions
    /\ startSent \subseteq Sessions /\ stopSent \subseteq Sessions
    /\ tray \in {"offline", "online", "in_session"}

\* At most one session runs at a time (screen.go:3): of two video sessions, of
\* any connection and any Run, one at least is being cancelled.
OneVideoAtATime ==
    \A s, t \in Sessions :
        s # t /\ video[s] = "running" /\ video[t] = "running"
            => VideoDone(s) \/ VideoDone(t)

\* No capture outlives the socket that authorised it (conn.go:135): once
\* session() has returned, whatever its reader still starts is cancelled.
NoVideoWithoutConnection ==
    \A s \in Sessions :
        video[s] = "running" /\ sPc[vConn[s]] = "returned" => VideoDone(s)

\* Signaling reaches the session it names: the Manager never pairs its
\* sessionID with another session's peer connection (screen.go:92).
LiveIsNamed == \A c \in Conns : live[c] # None => sid[c] = live[c]

\* While no stop has come and the server was not changed, an idle agent whose
\* screen is being streamed shows it.
ViewedIsShown ==
    \A s \in Sessions :
        /\ video[s] = "running" /\ ~VideoDone(s) /\ stopSent = {}
        /\ rdPc[vConn[s]] = "read" /\ sPc[vConn[s]] = "loop"
        /\ \A r \in Runs \ {own[vConn[s]]} : rPc[r] = "idle"
        => tray = "in_session"

\* Every capture a connection started ends with it, for good.
CaptureEndsWithConnection ==
    \A c \in Conns :
        <>(sPc[c] = "returned")
            => <>[](\A s \in Sessions : vConn[s] = c => video[s] # "running")

\* A stop_session ends the session it names, when that one is running here.
StopEndsVideo ==
    \A s \in Sessions, c \in Conns :
        rdPc[c] = "stop" /\ rdMsg[c] = s /\ vConn[s] = c ~> video[s] = "ended"

----------------------------------------------------------------------------
(* What documents of the agent say and the code does not keep.             *)

\* tray.go:6, "The icon turns red for the entire duration of a session."
\* Stated for an agent whose goroutines have nothing left to do.
RedWhileViewed ==
    \A s \in Sessions :
        /\ video[s] = "running" /\ ~VideoDone(s)
        /\ sPc[vConn[s]] = "loop"
        /\ \A c \in Conns : rdPc[c] \in {"none", "read", "gone"}
        => tray = "in_session"

\* AGENT_WINDOWS.md:158, "Grey: Reconnecting / offline / unenrolled."
GreyWhileReconnecting ==
    (/\ \E r \in Runs : rPc[r] = "backoff"
     /\ \A r \in Runs : rPc[r] \in {"idle", "backoff", "stopped"}
     /\ \A c \in Conns : rdPc[c] \in {"none", "gone"})
        => tray = "offline"

\* AGENT_WINDOWS.md:165, "Reconnect: immediately interrupts backoff and dials
\* the server".  Stated for the only Run: a click it is in backoff for and
\* that is taken ends the backoff.
ClickEndsBackoff ==
    [][\A r \in Runs :
           rPc[r] = "backoff" /\ clicked /\ ~clicked' => rPc'[r] = "top"]_agentVars
=============================================================================
