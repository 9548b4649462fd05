------------------------------- MODULE Relay -------------------------------
(***************************************************************************)
(* The signaling relay: backend/internal/ws/hub.go and session.go, on top  *)
(* of the presence store (Presence) and the sessions and devices tables.   *)
(*                                                                         *)
(* Every agent socket and every operator socket is served by a goroutine   *)
(* of its own, and a session can be ended by either.  Each stretch of such *)
(* a goroutine between two points where another can interfere (a lock      *)
(* section of the hub, a call of the store, a statement of the database, a *)
(* frame written) is an action; the goroutine's place is its pc.           *)
(*                                                                         *)
(* A connection and a session are identities used once: a device that      *)
(* reconnects does so on another connection.  Abstracted: the handshake's  *)
(* rejections and the RBAC answer (a refused request leaves no trace), the *)
(* frames that only pass through (offers, answers, candidates, terminal    *)
(* traffic), audit entries, and failing database statements, which the     *)
(* code logs and steps over.                                               *)
(***************************************************************************)
EXTENDS Presence, Sequences

CONSTANTS Conns,       \* agent connections, one per dial
          AllowScreen  \* the values devices.allow_screen may have

ASSUME RelayAssumption == None \notin Conns /\ AllowScreen \subseteq BOOLEAN

VARIABLES
    agents,     \* Hub.agents: deviceID -> the live agent connection
    viewers,    \* Hub.viewers: deviceID -> the session watching it
    \* ServeAgent, per connection
    aPc, aDev, aMeta,
    aPrev,      \* registerAgent's local `previous`
    aViewer,    \* unregisterAgent's local `viewer`
    aOpen,      \* the server has not closed its end of the socket
    \* ServeSession, per session
    vPc, vDev,
    vScreen,    \* allowScreen: the device shares its screen
    vPrev,      \* registerViewer's local `previous`
    vOpen,      \* the server has not closed the operator's socket
    \* endSession, per session: the body of the sync.Once and its argument
    endPc, endStatus,
    \* database
    dbStatus,   \* devices.status
    dbRow,      \* sessions.status of the session's row, None before INSERT
    \* the device's end of each connection
    link,       \* the device still uses the connection
    inbox,      \* frames written by the relay, not yet read by the device
    capturing   \* screen.Manager.sessionID: the session being captured for

hubVars    == <<agents, viewers>>
agentVars  == <<aPc, aDev, aMeta, aPrev, aViewer, aOpen>>
viewerVars == <<vPc, vDev, vScreen, vPrev, vOpen>>
endVars    == <<endPc, endStatus>>
dbVars     == <<dbStatus, dbRow>>
deviceVars == <<link, inbox, capturing>>
vars == <<storeVars, hubVars, agentVars, viewerVars, endVars, dbVars, deviceVars>>

Start(s) == [type |-> "start_session", session |-> s]
Stop(s)  == [type |-> "stop_session", session |-> s]
Welcome  == [type |-> "welcome", session |-> None]
Frames   == [type : {"start_session", "stop_session"}, session : Sessions]
                \cup {Welcome}

RelayInit ==
    /\ StoreInit
    /\ agents = [d \in Devices |-> None]
    /\ viewers = [d \in Devices |-> None]
    /\ aPc = [c \in Conns |-> "new"]
    /\ aDev = [c \in Conns |-> None]
    /\ aMeta = [c \in Conns |-> None]
    /\ aPrev = [c \in Conns |-> None]
    /\ aViewer = [c \in Conns |-> None]
    /\ aOpen = [c \in Conns |-> FALSE]
    /\ vPc = [s \in Sessions |-> "new"]
    /\ vDev = [s \in Sessions |-> None]
    /\ vScreen = [s \in Sessions |-> FALSE]
    /\ vPrev = [s \in Sessions |-> None]
    /\ vOpen = [s \in Sessions |-> FALSE]
    /\ endPc = [s \in Sessions |-> "idle"]
    /\ endStatus = [s \in Sessions |-> None]
    /\ dbStatus = [d \in Devices |-> "offline"]
    /\ dbRow = [s \in Sessions |-> None]
    /\ link = [c \in Conns |-> FALSE]
    /\ inbox = [c \in Conns |-> <<>>]
    /\ capturing = [c \in Conns |-> None]

----------------------------------------------------------------------------
(* Writing to the device: sendToAgent takes whatever connection the hub    *)
(* has for the device at that moment.  A write to a socket the server has  *)
(* closed fails; one to a connection the device has abandoned may succeed  *)
(* or fail, and is never read.                                             *)

CanSend(d) == agents[d] # None /\ aOpen[agents[d]]

SendMayFail(d) == CanSend(d) => ~link[agents[d]]

Sent(d, frame) ==
    IF CanSend(d) /\ link[agents[d]]
    THEN [inbox EXCEPT ![agents[d]] = Append(@, frame)]
    ELSE inbox

----------------------------------------------------------------------------
(* endSession.  The first caller runs the body of endOnce; a later caller  *)
(* waits for it and does nothing.                                          *)

\* Entering the Once and the lock section that takes the viewer off the hub.
BeginEnd(s, status) ==
    /\ endPc[s] = "idle"
    /\ viewers' = IF viewers[vDev[s]] = s
                  THEN [viewers EXCEPT ![vDev[s]] = None]
                  ELSE viewers
    /\ endPc' = [endPc EXCEPT ![s] = "stop"]
    /\ endStatus' = [endStatus EXCEPT ![s] = status]

\* Mutants: no stop_session, and one that waits for a device to take it.
EndStop_Skipped(s) ==
    /\ endPc[s] = "stop"
    /\ endPc' = [endPc EXCEPT ![s] = "registry"]
    /\ UNCHANGED <<storeVars, hubVars, agentVars, viewerVars, endStatus,
                   dbVars, deviceVars>>

EndStop_Waits(s) ==
    /\ endPc[s] = "stop" /\ CanSend(vDev[s])
    /\ inbox' = Sent(vDev[s], Stop(s))
    /\ endPc' = [endPc EXCEPT ![s] = "registry"]
    /\ UNCHANGED <<storeVars, hubVars, agentVars, viewerVars, endStatus,
                   dbVars, link, capturing>>

\* stop_session, best effort.
EndStop(s) ==
    /\ endPc[s] = "stop"
    /\ inbox' = Sent(vDev[s], Stop(s))
    /\ endPc' = [endPc EXCEPT ![s] = "registry"]
    /\ UNCHANGED <<storeVars, hubVars, agentVars, viewerVars, endStatus,
                   dbVars, link, capturing>>

\* Mutant: the device is not given back to the registry.
EndRegistry_Skipped(s) ==
    /\ endPc[s] = "registry"
    /\ endPc' = [endPc EXCEPT ![s] = "row"]
    /\ UNCHANGED <<storeVars, hubVars, agentVars, viewerVars, endStatus, dbVars,
                   deviceVars>>

EndRegistry(s) ==
    /\ endPc[s] = "registry"
    /\ EndSession(s)
    /\ endPc' = [endPc EXCEPT ![s] = "row"]
    /\ UNCHANGED <<hubVars, agentVars, viewerVars, endStatus, dbVars,
                   deviceVars>>

\* UPDATE ... WHERE ended_at IS NULL; without a row it updates nothing.
CloseRow(s, status) ==
    dbRow' = [dbRow EXCEPT ![s] = IF @ = "active" THEN status ELSE @]

EndRow(s) ==
    /\ endPc[s] = "row"
    /\ CloseRow(s, endStatus[s])
    /\ vOpen' = [vOpen EXCEPT ![s] = FALSE]
    /\ endPc' = [endPc EXCEPT ![s] = "done"]
    /\ UNCHANGED <<storeVars, hubVars, agentVars, vPc, vDev, vScreen, vPrev,
                   endStatus, dbStatus, deviceVars>>

----------------------------------------------------------------------------
(* The device's end: it dials when it has no connection in use, reads the  *)
(* frames of the one it uses in order, and stops every capture when it     *)
(* lets go of it.                                                          *)

\* Mutant: the connection is on the hub's map before its Welcome is written.
Dial_Registers(c, d, o) ==
    /\ aPc[c] = "new"
    /\ \A k \in Conns : aDev[k] = d => ~link[k]
    /\ agents' = [agents EXCEPT ![d] = c]
    /\ aPc' = [aPc EXCEPT ![c] = "welcome"]
    /\ aDev' = [aDev EXCEPT ![c] = d]
    /\ aMeta' = [aMeta EXCEPT ![c] = o]
    /\ aOpen' = [aOpen EXCEPT ![c] = TRUE]
    /\ link' = [link EXCEPT ![c] = TRUE]
    /\ UNCHANGED <<storeVars, viewers, aPrev, aViewer, viewerVars, endVars,
                   dbVars, inbox, capturing>>

\* Dial, hello and authenticateAgent; o is the assignment in the device row.
Dial(c, d, o) ==
    /\ aPc[c] = "new"
    /\ \A k \in Conns : aDev[k] = d => ~link[k]
    /\ aPc' = [aPc EXCEPT ![c] = "welcome"]
    /\ aDev' = [aDev EXCEPT ![c] = d]
    /\ aMeta' = [aMeta EXCEPT ![c] = o]
    /\ aOpen' = [aOpen EXCEPT ![c] = TRUE]
    /\ link' = [link EXCEPT ![c] = TRUE]
    /\ UNCHANGED <<storeVars, hubVars, aPrev, aViewer, viewerVars, endVars,
                   dbVars, inbox, capturing>>

\* The device lets go of the connection: it lost the network or the power,
\* quit, or read the server's close.  StopAll runs, unread frames are gone.
Abandon(c) ==
    /\ link[c]
    /\ link' = [link EXCEPT ![c] = FALSE]
    /\ inbox' = [inbox EXCEPT ![c] = <<>>]
    /\ capturing' = [capturing EXCEPT ![c] = None]
    /\ UNCHANGED <<storeVars, hubVars, agentVars, viewerVars, endVars, dbVars>>

\* reader's dispatch to Manager.Start, which replaces whatever was running,
\* and Manager.Stop, which ignores a stop for another session.
Receive(c) ==
    /\ inbox[c] # <<>>
    /\ LET m == Head(inbox[c])
       IN  capturing' = [capturing EXCEPT ![c] =
               CASE m.type = "start_session" -> m.session
                 [] m.type = "stop_session" /\ @ = m.session -> None
                 [] OTHER -> @]
    /\ inbox' = [inbox EXCEPT ![c] = Tail(@)]
    /\ UNCHANGED <<storeVars, hubVars, agentVars, viewerVars, endVars, dbVars,
                   link>>

----------------------------------------------------------------------------
(* ServeAgent: Welcome, registerAgent, readAgent, unregisterAgent.         *)

AStep(c, from, to) == aPc[c] = from /\ aPc' = [aPc EXCEPT ![c] = to]

SendWelcome(c) ==
    /\ AStep(c, "welcome", "register")
    /\ inbox' = IF link[c] THEN [inbox EXCEPT ![c] = Append(@, Welcome)]
                           ELSE inbox
    /\ UNCHANGED <<storeVars, hubVars, aDev, aMeta, aPrev, aViewer, aOpen,
                   viewerVars, endVars, dbVars, link, capturing>>

\* The Welcome cannot be written: the connection was never registered.
WelcomeFails(c) ==
    /\ AStep(c, "welcome", "done")
    /\ ~link[c]
    /\ aOpen' = [aOpen EXCEPT ![c] = FALSE]
    /\ UNCHANGED <<storeVars, hubVars, aDev, aMeta, aPrev, aViewer,
                   viewerVars, endVars, dbVars, deviceVars>>

RegisterAgent(c) ==
    /\ AStep(c, "register", "evict")
    /\ aPrev' = [aPrev EXCEPT ![c] = agents[aDev[c]]]
    /\ agents' = [agents EXCEPT ![aDev[c]] = c]
    /\ UNCHANGED <<storeVars, viewers, aDev, aMeta, aViewer, aOpen,
                   viewerVars, endVars, dbVars, deviceVars>>

\* Mutant: the map entry is overwritten and the previous connection left open.
EvictPrevious_LeavesOpen(c) ==
    /\ AStep(c, "evict", "online")
    /\ aPrev' = [aPrev EXCEPT ![c] = None]
    /\ UNCHANGED <<storeVars, hubVars, aDev, aMeta, aViewer, aOpen,
                   viewerVars, endVars, dbVars, deviceVars>>

EvictPrevious(c) ==
    /\ AStep(c, "evict", "online")
    /\ aOpen' = [k \in Conns |-> aOpen[k] /\ k # aPrev[c]]
    /\ aPrev' = [aPrev EXCEPT ![c] = None]
    /\ UNCHANGED <<storeVars, hubVars, aDev, aMeta, aViewer,
                   viewerVars, endVars, dbVars, deviceVars>>

AgentOnline(c) ==
    /\ AStep(c, "online", "statusOnline")
    /\ SetDeviceOnline(aDev[c], aMeta[c])
    /\ UNCHANGED <<hubVars, aDev, aMeta, aPrev, aViewer, aOpen, viewerVars,
                   endVars, dbVars, deviceVars>>

StatusOnline(c) ==
    /\ AStep(c, "statusOnline", "reading")
    /\ dbStatus' = [dbStatus EXCEPT ![aDev[c]] = "online"]
    /\ UNCHANGED <<storeVars, hubVars, aDev, aMeta, aPrev, aViewer, aOpen,
                   viewerVars, endVars, dbRow, deviceVars>>

\* ReadMessage fails: the socket was closed by either side, or the device
\* missed its heartbeats.
ReadAgentEnds(c) ==
    /\ AStep(c, "reading", "unregister")
    /\ UNCHANGED <<storeVars, hubVars, aDev, aMeta, aPrev, aViewer, aOpen,
                   viewerVars, endVars, dbVars, deviceVars>>

\* Mutant: the viewer of the connection that is gone is not looked for.
UnregisterAgent_LeavesViewer(c) ==
    /\ AStep(c, "unregister", "offline")
    /\ agents' = IF agents[aDev[c]] = c
                 THEN [agents EXCEPT ![aDev[c]] = None]
                 ELSE agents
    /\ UNCHANGED <<storeVars, viewers, aDev, aMeta, aPrev, aViewer, aOpen,
                   viewerVars, endVars, dbVars, deviceVars>>

\* The lock section of unregisterAgent: the viewer is read whether or not
\* the connection is still the device's current one.
UnregisterAgent(c) ==
    /\ aPc[c] = "unregister"
    /\ agents' = IF agents[aDev[c]] = c
                 THEN [agents EXCEPT ![aDev[c]] = None]
                 ELSE agents
    /\ aViewer' = [aViewer EXCEPT ![c] = viewers[aDev[c]]]
    /\ aPc' = [aPc EXCEPT ![c] =
                   IF viewers[aDev[c]] # None THEN "endViewer" ELSE "offline"]
    /\ UNCHANGED <<storeVars, viewers, aDev, aMeta, aPrev, aOpen, viewerVars,
                   endVars, dbVars, deviceVars>>

\* viewer.endSession("terminated"): runs the Once, or waits for whoever does.
TerminateViewer(c) ==
    /\ aPc[c] = "endViewer"
    /\ BeginEnd(aViewer[c], "terminated")
    /\ UNCHANGED <<storeVars, agents, agentVars, viewerVars, dbVars, deviceVars>>

ViewerTerminated(c) ==
    /\ AStep(c, "endViewer", "offline")
    /\ endPc[aViewer[c]] = "done"
    /\ aViewer' = [aViewer EXCEPT ![c] = None]
    /\ UNCHANGED <<storeVars, hubVars, aDev, aMeta, aPrev, aOpen,
                   viewerVars, endVars, dbVars, deviceVars>>

\* Mutant: the presence record is left to the next connection.
AgentOffline_Skipped(c) ==
    /\ AStep(c, "offline", "statusOffline")
    /\ UNCHANGED <<storeVars, hubVars, aDev, aMeta, aPrev, aViewer, aOpen,
                   viewerVars, endVars, dbVars, deviceVars>>

AgentOffline(c) ==
    /\ AStep(c, "offline", "statusOffline")
    /\ SetDeviceOffline(aDev[c])
    /\ UNCHANGED <<hubVars, aDev, aMeta, aPrev, aViewer, aOpen, viewerVars,
                   endVars, dbVars, deviceVars>>

\* Mutant: the status is not stored.
StatusOffline_Skipped(c) ==
    /\ AStep(c, "statusOffline", "done")
    /\ aOpen' = [aOpen EXCEPT ![c] = FALSE]
    /\ UNCHANGED <<storeVars, hubVars, aDev, aMeta, aPrev, aViewer,
                   viewerVars, endVars, dbVars, deviceVars>>

StatusOffline(c) ==
    /\ AStep(c, "statusOffline", "done")
    /\ dbStatus' = [dbStatus EXCEPT ![aDev[c]] = "offline"]
    /\ aOpen' = [aOpen EXCEPT ![c] = FALSE]
    /\ UNCHANGED <<storeVars, hubVars, aDev, aMeta, aPrev, aViewer,
                   viewerVars, endVars, dbRow, deviceVars>>

----------------------------------------------------------------------------
(* ServeSession: checks, claim, registerViewer, row, start_session,        *)
(* readViewer, and the deferred endSession.                                *)

VStep(s, from, to) == vPc[s] = from /\ vPc' = [vPc EXCEPT ![s] = to]

\* The checks before the upgrade, the last of which is agentOnline.
OpenSession(s, d, screen) ==
    /\ agents[d] # None
    /\ VStep(s, "new", "claim")
    /\ vDev' = [vDev EXCEPT ![s] = d]
    /\ vScreen' = [vScreen EXCEPT ![s] = screen]
    /\ vOpen' = [vOpen EXCEPT ![s] = TRUE]
    /\ UNCHANGED <<storeVars, hubVars, agentVars, vPrev, endVars, dbVars,
                   deviceVars>>

ClaimDevice(s) ==
    /\ VStep(s, "claim", "register")
    /\ RegisterSession(s, vDev[s])
    /\ UNCHANGED <<hubVars, agentVars, vDev, vScreen, vPrev, vOpen, endVars,
                   dbVars, deviceVars>>

ClaimRefused(s) ==
    /\ VStep(s, "claim", "refused")
    /\ AlreadyInSession(vDev[s])
    /\ vOpen' = [vOpen EXCEPT ![s] = FALSE]
    /\ UNCHANGED <<storeVars, hubVars, agentVars, vDev, vScreen, vPrev,
                   endVars, dbVars, deviceVars>>

RegisterViewer(s) ==
    /\ VStep(s, "register", "evict")
    /\ vPrev' = [vPrev EXCEPT ![s] = viewers[vDev[s]]]
    /\ viewers' = [viewers EXCEPT ![vDev[s]] = s]
    /\ UNCHANGED <<storeVars, agents, agentVars, vDev, vScreen, vOpen,
                   endVars, dbVars, deviceVars>>

\* Mutant: the previous operator's socket is left open.
EvictViewer_LeavesOpen(s) ==
    /\ VStep(s, "evict", "row")
    /\ vPrev' = [vPrev EXCEPT ![s] = None]
    /\ UNCHANGED <<storeVars, hubVars, agentVars, vDev, vScreen, vOpen, endVars,
                   dbVars, deviceVars>>

EvictViewer(s) ==
    /\ VStep(s, "evict", "row")
    /\ vOpen' = [t \in Sessions |-> vOpen[t] /\ t # vPrev[s]]
    /\ vPrev' = [vPrev EXCEPT ![s] = None]
    /\ UNCHANGED <<storeVars, hubVars, agentVars, vDev, vScreen, endVars,
                   dbVars, deviceVars>>

\* INSERT of the session's row, and the capabilities frame to the operator.
OpenRow(s) ==
    /\ VStep(s, "row", IF vScreen[s] THEN "start" ELSE "watching")
    /\ dbRow' = [dbRow EXCEPT ![s] = "active"]
    /\ UNCHANGED <<storeVars, hubVars, agentVars, vDev, vScreen, vPrev,
                   vOpen, endVars, dbStatus, deviceVars>>

StartSession(s) ==
    /\ VStep(s, "start", "watching")
    /\ CanSend(vDev[s])
    /\ inbox' = Sent(vDev[s], Start(s))
    /\ UNCHANGED <<storeVars, hubVars, agentVars, vDev, vScreen, vPrev,
                   vOpen, endVars, dbVars, link, capturing>>

\* "device went offline": the operator is told and the session ends.
StartFails(s) ==
    /\ VStep(s, "start", "ending")
    /\ SendMayFail(vDev[s])
    /\ UNCHANGED <<storeVars, hubVars, agentVars, vDev, vScreen, vPrev,
                   vOpen, endVars, dbVars, deviceVars>>

\* The operator leaves or is silent for ten minutes, the relay closed the
\* socket, or an answer or a candidate cannot be written to the device.
ReadViewerEnds(s) ==
    /\ VStep(s, "watching", "ending")
    /\ UNCHANGED <<storeVars, hubVars, agentVars, vDev, vScreen, vPrev,
                   vOpen, endVars, dbVars, deviceVars>>

CompleteSession(s) ==
    /\ vPc[s] = "ending"
    /\ BeginEnd(s, "completed")
    /\ UNCHANGED <<storeVars, agents, agentVars, viewerVars, dbVars, deviceVars>>

SessionServed(s) ==
    /\ VStep(s, "ending", "done")
    /\ endPc[s] = "done"
    /\ UNCHANGED <<storeVars, hubVars, agentVars, vDev, vScreen, vPrev,
                   vOpen, endVars, dbVars, deviceVars>>

----------------------------------------------------------------------------
AgentStep(c) ==
    \/ SendWelcome(c) \/ WelcomeFails(c) \/ RegisterAgent(c)
    \/ EvictPrevious(c) \/ AgentOnline(c) \/ StatusOnline(c)
    \/ UnregisterAgent(c) \/ TerminateViewer(c) \/ ViewerTerminated(c)
    \/ AgentOffline(c) \/ StatusOffline(c)

ViewerStep(s) ==
    \/ ClaimDevice(s) \/ ClaimRefused(s) \/ RegisterViewer(s)
    \/ EvictViewer(s) \/ OpenRow(s) \/ StartSession(s) \/ StartFails(s)
    \/ CompleteSession(s) \/ SessionServed(s)

EndStep(s) == EndStop(s) \/ EndRegistry(s) \/ EndRow(s)

\* Every goroutine has returned; without this step TLC would report the end
\* of a finite run as a deadlock, with it a deadlock is a stuck goroutine.
Quiet ==
    /\ \A c \in Conns : aPc[c] = "done" /\ ~link[c]
    /\ \A s \in Sessions : vPc[s] \in {"new", "refused", "done"}
    /\ UNCHANGED vars

RelayNext ==
    \/ \E c \in Conns :
           \/ \E d \in Devices, o \in Owners : Dial(c, d, o)
           \/ Abandon(c) \/ Receive(c) \/ AgentStep(c) \/ ReadAgentEnds(c)
    \/ \E s \in Sessions :
           \/ \E d \in Devices, screen \in AllowScreen : OpenSession(s, d, screen)
           \/ ViewerStep(s) \/ ReadViewerEnds(s) \/ EndStep(s)
    \/ Quiet

RelaySpec == RelayInit /\ [][RelayNext]_vars

\* Go runs every goroutine that can run, a write is bounded by a deadline and
\* a read by the heartbeat deadline, so what a goroutine can do it eventually
\* does.  Nobody makes a device dial or leave, or an operator come or go.
Fairness ==
    /\ \A c \in Conns :
           /\ WF_vars(AgentStep(c))
           /\ WF_vars(ReadAgentEnds(c) /\ ~(aOpen[c] /\ link[c]))
           /\ WF_vars(Receive(c))
           /\ WF_vars(Abandon(c) /\ ~aOpen[c])
    /\ \A s \in Sessions :
           /\ WF_vars(ViewerStep(s))
           /\ WF_vars(ReadViewerEnds(s) /\ ~vOpen[s])
           /\ WF_vars(EndStep(s))

FairRelaySpec == RelaySpec /\ Fairness

----------------------------------------------------------------------------
RelayTypeOK ==
    /\ StoreTypeOK
    /\ agents \in [Devices -> Conns \cup {None}]
    /\ viewers \in [Devices -> Sessions \cup {None}]
    /\ aPc \in [Conns -> {"new", "welcome", "register", "evict", "online",
                          "statusOnline", "reading", "unregister",
                          "endViewer", "offline", "statusOffline", "done"}]
    /\ aDev \in [Conns -> Devices \cup {None}]
    /\ aMeta \in [Conns -> Owners \cup {None}]
    /\ aPrev \in [Conns -> Conns \cup {None}]
    /\ aViewer \in [Conns -> Sessions \cup {None}]
    /\ aOpen \in [Conns -> BOOLEAN]
    /\ vPc \in [Sessions -> {"new", "claim", "refused", "register", "evict",
                             "row", "start", "watching", "ending", "done"}]
    /\ vDev \in [Sessions -> Devices \cup {None}]
    /\ vScreen \in [Sessions -> BOOLEAN]
    /\ vPrev \in [Sessions -> Sessions \cup {None}]
    /\ vOpen \in [Sessions -> BOOLEAN]
    /\ endPc \in [Sessions -> {"idle", "stop", "registry", "row", "done"}]
    /\ endStatus \in [Sessions -> {None, "completed", "terminated"}]
    /\ dbStatus \in [Devices -> {"offline", "online"}]
    /\ dbRow \in [Sessions -> {None, "active", "completed", "terminated"}]
    /\ link \in [Conns -> BOOLEAN]
    /\ inbox \in [Conns -> Seq(Frames)]
    /\ capturing \in [Conns -> Sessions \cup {None}]

\* The hub routes a device's frames to a connection of that device which its
\* goroutine still serves and nobody has closed: a newer connection never
\* leaves the map pointing at a dead one, nor does a stale one's cleanup.
AgentEntryIsLive ==
    \A d \in Devices : agents[d] # None =>
        LET c == agents[d]
        IN  /\ aDev[c] = d
            /\ aPc[c] \in {"evict", "online", "statusOnline", "reading",
                           "unregister"}
            /\ aOpen[c]

\* The first frame a device reads on a connection is the Welcome: until it is
\* written, no session of another goroutine can reach the connection.
WelcomeIsFirst ==
    \A c \in Conns : aPc[c] = "welcome" => inbox[c] = <<>>

\* A connection being read that is not the hub's entry was replaced, and its
\* socket is closed or about to be by the connection that replaced it: no
\* device keeps a second socket the hub does not know of.
ReplacedIsClosed ==
    \A c \in Conns :
        aPc[c] = "reading" /\ aOpen[c] /\ agents[aDev[c]] # c =>
            \E k \in Conns : aPc[k] = "evict" /\ aPrev[k] = c

\* An agent's frames are forwarded to a session of that device that nobody
\* has begun to end.
ViewerEntryIsLive ==
    \A d \in Devices : viewers[d] # None =>
        LET s == viewers[d]
        IN  /\ vDev[s] = d
            /\ vPc[s] \in {"evict", "row", "start", "watching", "ending"}
            /\ endPc[s] = "idle"

\* Presence does not outlive the sockets it is about: a device is present
\* only while a goroutine still serves one of its connections and will take
\* that back, whatever order overlapping connections come and go in.
PresenceHasSocket ==
    \A d \in Devices : Present(d) =>
        \E c \in Conns :
            /\ aDev[c] = d
            /\ aPc[c] \in {"statusOnline", "reading", "unregister",
                           "endViewer", "offline"}

\* The same for the status in the devices table.
StatusHasSocket ==
    \A d \in Devices : dbStatus[d] = "online" =>
        \E c \in Conns :
            /\ aDev[c] = d
            /\ aPc[c] \in {"reading", "unregister", "endViewer", "offline",
                           "statusOffline"}

\* A device's slot is held only by a session whose endSession has still to
\* release it: no slot leaks, on any exit path of ServeSession.
SlotHasOperator ==
    \A d \in Devices : deviceSess[d] # None =>
        LET s == deviceSess[d]
        IN  /\ vDev[s] = d
            /\ vPc[s] \in {"register", "evict", "row", "start", "watching",
                           "ending"}
            /\ endPc[s] \in {"idle", "stop", "registry"}

\* A device of the relay is the slot of DeviceSlot.  The endSession of a session
\* may come late, when an agent's cleanup has freed its slot and the device has a
\* new holder; an agent's cleanup may come late, when the device is back on
\* another connection.  Neither frees more than DeviceSlot lets it, and a session
\* that somebody ended never claims.
Slot == INSTANCE DeviceSlot WITH
            holder <- deviceSess, spent <- issued,
            over <- {s \in Sessions : endPc[s] \in {"row", "done"}},
            here <- {d \in Devices : Present(d)}

RelayImplementsSlot == Slot!SlotSpec

\* A session served on an open socket that nobody is ending is the one its
\* device's frames go to, or the session that took its place is about to close
\* it: two operators never stay on one device (FR-5.3), even when the registry
\* let the second one in.
OneOperatorPerDevice ==
    \A s \in Sessions :
        /\ vPc[s] \in {"evict", "row", "start", "watching"}
        /\ vOpen[s] /\ endPc[s] = "idle" /\ viewers[vDev[s]] # s
        => \E t \in Sessions : vPc[t] = "evict" /\ vPrev[t] = s

\* A session that its own operator ended leaves no capture behind on the
\* device's current connection: the stop is on its way there, whatever
\* reconnections happened in between.
CompletedCaptureHasStop ==
    \A c \in Conns, s \in Sessions :
        /\ capturing[c] = s
        /\ endPc[s] \in {"registry", "row", "done"}
        /\ endStatus[s] = "completed"
        /\ agents[vDev[s]] = c
        => \E i \in DOMAIN inbox[c] : inbox[c][i] = Stop(s)

\* A teardown that has begun runs to its end: a goroutine that waits for the
\* other one's endOnce is not left waiting.
TeardownCompletes ==
    /\ \A c \in Conns : aPc[c] = "unregister" ~> aPc[c] = "done"
    /\ \A s \in Sessions : vPc[s] = "ending" ~> vPc[s] = "done"

\* A device that is gone without a word stops reading as online, in memory
\* and in the database, unless it dials again (SDS: miss three heartbeats).
GoneDeviceGoesOffline ==
    LET Gone(d) == \A c \in Conns : aDev[c] = d => ~link[c]
    IN  \A d \in Devices :
            Gone(d) ~> ~Gone(d) \/ (~Present(d) /\ dbStatus[d] = "offline")

\* An operator who shares the device's screen is not left on a frozen frame:
\* once the hub has no connection for the device, the session gets ended,
\* also when the operator was still opening it as the device went.
ScreenSessionEndsWithDevice ==
    \A s \in Sessions :
        vPc[s] = "watching" /\ vScreen[s] /\ agents[vDev[s]] = None
            ~> vPc[s] = "done"

\* The device stops capturing for a session its operator has ended.
CompletedCaptureStops ==
    \A c \in Conns, s \in Sessions :
        capturing[c] = s /\ vPc[s] = "done" /\ endStatus[s] = "completed"
            ~> capturing[c] # s

\* The relay calls the store as Presence says it may be called, so what holds
\* of every caller's store holds of the relay's.
UsesStore == StoreSpec
============================================================================
