------------------------- MODULE AndroidConnection -------------------------
(***************************************************************************)
(* The Android agent's control channel: class Connection (src/net/         *)
(* connection.ts), the life of its VP8Session up to the offer              *)
(* (src/webrtc/session.ts) and gatedAcquire (src/runtime.ts), which asks   *)
(* the phone's owner to open the app before the screen is captured.        *)
(*                                                                         *)
(* JavaScript runs one callback at a time; a step here is a callback up to *)
(* its next await.  pc is the place of a session's start().  A socket      *)
(* that close() was called on reports nothing but its close event.         *)
(*                                                                         *)
(* The backend sends one start_session for a session and stop_session for  *)
(* any session at any time after the welcome, as the module Relay shows;   *)
(* its only error before the welcome that matters here is a fatal one, and *)
(* it sends none later.  Abstracted: the content of heartbeats, the length *)
(* of the backoff, the negotiation after the offer (module Viewer).        *)
(***************************************************************************)
CONSTANTS Sockets, Sessions, None

ASSUME ConnectionAssumption == None \notin Sockets \cup Sessions

VARIABLES
    sock,       \* readyState of each WebSocket; "new" is not made yet
    ws,         \* this.ws
    welcomed, stopped,
    helloTimer, reconnectTimer,     \* whether the timer is armed
    sysInfo,    \* whether it has been built
    welcoming,  \* welcomes that await buildSysInfo
    beating,    \* the JS interval or the native ticks
    session,    \* this.session
    pc,         \* start() of each VP8Session
    closed, stream, peer,   \* sessions closed; with a live capture; with a pc
    answered,   \* sessions whose offer or error was put on an open socket
    approval,   \* the notification that asks the owner
    foreground, \* an activity of the app is on screen
    status      \* the last onStatus

netVars   == <<sock, ws, welcomed, stopped, helloTimer, reconnectTimer>>
beatVars  == <<sysInfo, welcoming, beating>>
mediaVars == <<closed, stream, peer>>
ownerVars == <<approval, foreground>>
connVars  == <<netVars, beatVars, session, pc, mediaVars, answered, ownerVars,
               status>>

SocketStates == {"new", "connecting", "open", "closing", "closed"}
Places == {"none", "asking", "posting", "waiting", "approved", "refused",
           "dialog", "quality", "offering", "describing", "done"}
Statuses == {"connecting", "online", "in_session", "reconnecting", "fatal",
             "stopped"}

\* A new Connection on which start() has been called.
ConnInit ==
    /\ \E c \in Sockets :
          /\ ws = c
          /\ sock = [d \in Sockets |-> IF d = c THEN "connecting" ELSE "new"]
    /\ welcomed = FALSE /\ stopped = FALSE
    /\ helloTimer = FALSE /\ reconnectTimer = FALSE
    /\ sysInfo = FALSE /\ welcoming = {} /\ beating = FALSE
    /\ session = None /\ pc = [s \in Sessions |-> "none"]
    /\ closed = {} /\ stream = {} /\ peer = {} /\ answered = {}
    /\ approval = FALSE /\ foreground = TRUE
    /\ status = "connecting"

SocketOpen == ws # None /\ sock[ws] = "open"

\* sendRaw: what is sent while the socket is not open is dropped.
SendRaw(s) == answered' = IF SocketOpen THEN answered \cup {s} ELSE answered

\* VP8Session.close, for a set of sessions.
Close(S) ==
    /\ closed' = closed \cup S
    /\ stream' = stream \ S
    /\ peer' = peer \ S

TeardownSession == Close({session} \ {None}) /\ session' = None

CloseSocket ==
    /\ sock' = IF ws = None THEN sock ELSE [sock EXCEPT ![ws] = "closing"]
    /\ ws' = None

----------------------------------------------------------------------------
(* The socket and its timers.                                              *)

Connect(c) ==
    /\ reconnectTimer /\ sock[c] = "new"
    /\ reconnectTimer' = FALSE
    /\ welcomed' = FALSE
    /\ ws' = c /\ sock' = [sock EXCEPT ![c] = "connecting"]
    /\ status' = "connecting"
    /\ UNCHANGED <<stopped, helloTimer, beatVars, session, pc, mediaVars,
                   answered, ownerVars>>

\* The WebSocket constructor throws: the timer is armed again.
DialFails ==
    /\ reconnectTimer
    /\ welcomed' = FALSE
    /\ status' = "reconnecting"
    /\ UNCHANGED <<sock, ws, stopped, helloTimer, reconnectTimer, beatVars,
                   session, pc, mediaVars, answered, ownerVars>>

OnOpen(c) ==
    /\ sock[c] = "connecting"
    /\ sock' = [sock EXCEPT ![c] = "open"]
    /\ helloTimer' = TRUE
    /\ UNCHANGED <<ws, welcomed, stopped, reconnectTimer, beatVars, session,
                   pc, mediaVars, answered, ownerVars, status>>

\* Mutant: the deadline reconnects at once, and so does the close event.
HelloTimeout_Reconnects ==
    /\ helloTimer /\ helloTimer' = FALSE
    /\ CloseSocket
    /\ reconnectTimer' = TRUE
    /\ UNCHANGED <<welcomed, stopped, beatVars, session, pc, mediaVars,
                   answered, ownerVars, status>>

\* No welcome within the deadline.
HelloTimeout ==
    /\ helloTimer /\ helloTimer' = FALSE
    /\ IF welcomed THEN UNCHANGED <<sock, ws>> ELSE CloseSocket
    /\ UNCHANGED <<welcomed, stopped, reconnectTimer, beatVars, session, pc,
                   mediaVars, answered, ownerVars, status>>

OnClose(c) ==
    /\ sock[c] \in {"connecting", "open", "closing"}
    /\ sock' = [sock EXCEPT ![c] = "closed"]
    /\ helloTimer' = FALSE /\ beating' = FALSE
    /\ TeardownSession
    /\ ws' = None
    /\ reconnectTimer' = (reconnectTimer \/ ~stopped)
    /\ status' = IF reconnectTimer' /\ ~reconnectTimer THEN "reconnecting"
                 ELSE status
    /\ UNCHANGED <<welcomed, stopped, sysInfo, welcoming, pc, answered,
                   ownerVars>>

\* Nothing is left but the closing socket and what awaits.
ShutDown(last) ==
    /\ ~stopped /\ stopped' = TRUE
    /\ helloTimer' = FALSE /\ beating' = FALSE /\ reconnectTimer' = FALSE
    /\ TeardownSession
    /\ CloseSocket
    /\ status' = last
    /\ UNCHANGED <<welcomed, sysInfo, welcoming, pc, answered, ownerVars>>

Stop == ShutDown("stopped")

----------------------------------------------------------------------------
(* Frames.                                                                 *)

\* Where onWelcome ends: at once, or when buildSysInfo resolves.
GoOnline == status' = "online" /\ beating' = TRUE

OnWelcome ==
    /\ welcomed' = TRUE
    /\ helloTimer' = FALSE
    /\ IF sysInfo
       THEN GoOnline /\ UNCHANGED welcoming
       ELSE welcoming' = welcoming \cup {ws} /\ UNCHANGED <<status, beating>>
    /\ UNCHANGED <<sock, ws, stopped, reconnectTimer, sysInfo, session, pc,
                   mediaVars, answered, ownerVars>>

OnError == ShutDown("fatal")

OnStartSession(s) ==
    /\ pc[s] = "none"
    /\ pc' = [pc EXCEPT ![s] = "asking"]
    /\ Close({session} \ {None})
    /\ session' = s
    /\ status' = "in_session"
    /\ UNCHANGED <<netVars, beatVars, answered, ownerVars>>

\* The running session ends, whichever session the frame names.
OnStopSession ==
    /\ TeardownSession
    /\ status' = "online"
    /\ UNCHANGED <<netVars, beatVars, pc, answered, ownerVars>>

OnMessage ==
    /\ SocketOpen
    /\ IF welcomed
       THEN OnStopSession \/ \E s \in Sessions : OnStartSession(s)
       ELSE OnWelcome \/ OnError

SysInfoBuilt(c) ==
    /\ c \in welcoming /\ welcoming' = welcoming \ {c}
    /\ sysInfo' = TRUE
    /\ GoOnline
    /\ UNCHANGED <<netVars, session, pc, mediaVars, answered, ownerVars>>

----------------------------------------------------------------------------
(* gatedAcquire: the owner's consent.                                      *)

At(s, from, to) == pc[s] = from /\ pc' = [pc EXCEPT ![s] = to]

AppForeground(s) ==
    /\ At(s, "asking", IF foreground THEN "dialog" ELSE "posting")
    /\ UNCHANGED <<netVars, beatVars, session, mediaVars, answered, ownerVars,
                   status>>

PostApproval(s) ==
    /\ At(s, "posting", IF foreground THEN "approved" ELSE "waiting")
    /\ approval' = TRUE
    /\ UNCHANGED <<netVars, beatVars, session, mediaVars, answered, foreground,
                   status>>

\* The app comes to the front; all who wait are told.
Foregrounded ==
    /\ ~foreground /\ foreground' = TRUE
    /\ pc' = [s \in Sessions |-> IF pc[s] = "waiting" THEN "approved"
                                 ELSE pc[s]]
    /\ UNCHANGED <<netVars, beatVars, session, mediaVars, answered, approval,
                   status>>

Backgrounded ==
    /\ foreground /\ foreground' = FALSE
    /\ UNCHANGED <<netVars, beatVars, session, pc, mediaVars, answered,
                   approval, status>>

ApprovalTimeout(s) ==
    /\ At(s, "waiting", "refused")
    /\ UNCHANGED <<netVars, beatVars, session, mediaVars, answered, ownerVars,
                   status>>

\* The catch of session.start().
StartFails(s) ==
    /\ pc' = [pc EXCEPT ![s] = "done"]
    /\ SendRaw(s)
    /\ IF session = s
       THEN /\ TeardownSession
            /\ status' = IF welcomed THEN "online" ELSE status
       ELSE UNCHANGED <<session, mediaVars, status>>

\* The finally of gatedAcquire.
CancelApproval(s) ==
    /\ approval' = FALSE
    /\ \/ /\ At(s, "approved", "dialog")
          /\ UNCHANGED <<session, mediaVars, answered, status>>
       \/ pc[s] = "refused" /\ StartFails(s)
    /\ UNCHANGED <<netVars, beatVars, foreground>>

----------------------------------------------------------------------------
(* VP8Session.start.                                                       *)

\* Mutant: no look at closed after the await.
StreamArrives_Unchecked(s) ==
    /\ At(s, "dialog", "quality")
    /\ stream' = stream \cup {s} /\ peer' = peer \cup {s}
    /\ UNCHANGED <<netVars, beatVars, session, closed, answered, ownerVars,
                   status>>

\* getDisplayMedia resolves; a session closed meanwhile stops the stream.
StreamArrives(s) ==
    /\ At(s, "dialog", IF s \in closed THEN "done" ELSE "quality")
    /\ IF s \in closed THEN UNCHANGED <<stream, peer>>
       ELSE stream' = stream \cup {s} /\ peer' = peer \cup {s}
    /\ UNCHANGED <<netVars, beatVars, session, closed, answered, ownerVars,
                   status>>

\* applyQuality never rejects: session_ready, then createOffer.
QualityApplied(s) ==
    /\ At(s, "quality", "offering")
    /\ UNCHANGED <<netVars, beatVars, session, mediaVars, answered, ownerVars,
                   status>>

OfferCreated(s) ==
    /\ At(s, "offering", IF s \in closed THEN "done" ELSE "describing")
    /\ UNCHANGED <<netVars, beatVars, session, mediaVars, answered, ownerVars,
                   status>>

OfferSent(s) ==
    /\ At(s, "describing", "done")
    /\ SendRaw(s)
    /\ UNCHANGED <<netVars, beatVars, session, mediaVars, ownerVars, status>>

\* Mutant: a start that failed is only logged.
StartRejects_Silently(s) ==
    /\ pc[s] \in {"dialog", "offering", "describing"}
    /\ pc' = [pc EXCEPT ![s] = "done"]
    /\ UNCHANGED <<netVars, beatVars, session, mediaVars, answered, ownerVars,
                   status>>

\* The owner refuses, or the platform does; on a closed session too.
StartRejects(s) ==
    /\ pc[s] \in {"dialog", "offering", "describing"}
    /\ StartFails(s)
    /\ UNCHANGED <<netVars, beatVars, ownerVars>>

\* ICE or the peer connection fails: the session closes itself, and stays in
\* this.session until the server's stop_session.
PeerFails(s) ==
    /\ s \in peer /\ pc[s] = "done"
    /\ Close({s})
    /\ UNCHANGED <<netVars, beatVars, session, pc, answered, ownerVars, status>>

----------------------------------------------------------------------------

\* What the platform and the owner settle; the timers and frames are Net's.
SessionStep(s) ==
    \/ AppForeground(s) \/ PostApproval(s) \/ ApprovalTimeout(s)
    \/ CancelApproval(s) \/ StreamArrives(s) \/ QualityApplied(s)
    \/ OfferCreated(s) \/ OfferSent(s) \/ StartRejects(s)

ConnNext ==
    \/ \E c \in Sockets :
          Connect(c) \/ OnOpen(c) \/ OnClose(c) \/ SysInfoBuilt(c)
    \/ DialFails \/ HelloTimeout \/ OnMessage \/ Stop
    \/ Foregrounded \/ Backgrounded
    \/ \E s \in Sessions : SessionStep(s) \/ PeerFails(s)

ConnSpec == ConnInit /\ [][ConnNext]_connVars

\* What is awaited settles: native calls, the 60 s timer, and the consent
\* dialog, which the owner answers or dismisses.  The network is not fair.
FairConnSpec ==
    /\ ConnSpec
    /\ \A s \in Sessions : WF_connVars(SessionStep(s))

----------------------------------------------------------------------------

ConnTypeOK ==
    /\ sock \in [Sockets -> SocketStates]
    /\ ws \in Sockets \cup {None}
    /\ welcomed \in BOOLEAN /\ stopped \in BOOLEAN
    /\ helloTimer \in BOOLEAN /\ reconnectTimer \in BOOLEAN
    /\ sysInfo \in BOOLEAN /\ beating \in BOOLEAN
    /\ approval \in BOOLEAN /\ foreground \in BOOLEAN
    /\ welcoming \subseteq Sockets
    /\ session \in Sessions \cup {None}
    /\ pc \in [Sessions -> Places]
    /\ closed \subseteq Sessions /\ stream \subseteq Sessions
    /\ peer \subseteq Sessions /\ answered \subseteq Sessions
    /\ status \in Statuses

\* The screen is captured for the one current session only, and only over a
\* socket that is open and welcomed, by an agent that was not stopped: no
\* capture outlives a stop, a close event or a replacement, whenever the
\* consent that starts it arrives (VP8Session.start and close, Connection's
\* teardownSession and its callers).
CaptureNeedsConnection ==
    stream # {} =>
        /\ stream = {session} /\ session \notin closed
        /\ SocketOpen /\ welcomed /\ ~stopped

\* Until it is stopped, the agent has exactly one way to reach the server: a
\* socket whose close event is still to come, or the reconnect timer; once
\* stopped it has no timer (connect, closeSocket, onclose, scheduleReconnect).
OneWayBack ==
    LET live == {c \in Sockets : sock[c] \notin {"new", "closed"}}
    IN  /\ \A c, d \in live : c = d
        /\ reconnectTimer => live = {} /\ ~stopped
        /\ ~stopped => reconnectTimer \/ live # {}

\* Every start_session is answered with an offer or a session_error, unless
\* the session was closed meanwhile (onStartSession's catch, start).
StartIsAnswered ==
    \A s \in Sessions :
        pc[s] \notin {"none", "done"} ~> s \in answered \cup closed

\* Refuted.  runtime.ts, onStatus: the notification "carries who is watching
\* during a session": while the screen is captured the status is in_session.
ViewerIsShown == stream # {} => status = "in_session"

\* Refuted.  connection.ts, stop: "Stop for good": no heartbeat goes on.
StopIsForGood == stopped => ~beating

\* Refuted.  runtime.ts, waitForForeground: "two overlapping requests cannot
\* cancel each other's wait": whoever waits for the owner has asked.
WaitingIsAsked ==
    \A s \in Sessions : pc[s] = "waiting" /\ s \notin closed => approval
=============================================================================
