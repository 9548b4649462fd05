---------------------------- MODULE Relay_proofs ----------------------------
(***************************************************************************)
(* Proofs about Relay for every set of devices, connections, sessions and  *)
(* owners.  They come in layers: each layer's invariant is proved from the *)
(* layers before it, and a step that touches none of a layer's variables   *)
(* is dealt with once.                                                     *)
(***************************************************************************)
EXTENDS Naturals, Relay, Presence_proofs

\* A connection past its handshake and a session past its checks know their
\* device, and a session id reaches the store once.
PlacesInv ==
    /\ \A c \in Conns : aPc[c] # "new" => aDev[c] \in Devices
    /\ \A s \in Sessions : vPc[s] # "new" => vDev[s] \in Devices
    /\ \A s \in Sessions : vPc[s] \in {"new", "claim"} => s \notin issued

TypeInv == StoreInv /\ RelayTypeOK /\ PlacesInv

\* The steps of ServeAgent with the device's own, of ServeSession, and of
\* endSession, each as one action.
AgentSide(c) ==
    \/ \E d \in Devices, o \in Owners : Dial(c, d, o)
    \/ Abandon(c) \/ Receive(c) \/ AgentStep(c) \/ ReadAgentEnds(c)

ViewerSide(s) ==
    \/ \E d \in Devices, screen \in AllowScreen : OpenSession(s, d, screen)
    \/ ViewerStep(s) \/ ReadViewerEnds(s)

\* Initially everything is idle.
LEMMA TypeInit == RelayInit => TypeInv
<1> SUFFICES ASSUME RelayInit PROVE TypeInv
  OBVIOUS
<1>1. StoreInv /\ StoreTypeOK
  BY StoreInitInv DEF RelayInit, StoreInv
<1>2. RelayTypeOK
  BY <1>1 DEF RelayInit, RelayTypeOK
<1>3. PlacesInv
  BY DEF RelayInit, StoreInit, PlacesInv
<1> QED
  BY <1>1, <1>2, <1>3 DEF TypeInv

\* What is written to a device is a frame.
LEMMA SentType ==
  ASSUME RelayTypeOK, NEW d, NEW f \in Frames
  PROVE  Sent(d, f) \in [Conns -> Seq(Frames)]
<1>1. CASE CanSend(d) /\ link[agents[d]]
  <2> DEFINE c == agents[d]
  <2>1. \A k \in Conns : Append(inbox[k], f) \in Seq(Frames)
    BY DEF RelayTypeOK
  <2> QED
    BY <1>1, <2>1 DEF Sent, RelayTypeOK
<1>2. CASE ~(CanSend(d) /\ link[agents[d]])
  BY <1>2 DEF Sent, RelayTypeOK
<1> QED
  BY <1>1, <1>2

\* Every step of the relay calls the store as Presence says it may be called,
\* or not at all: devices and owners are known, session ids are new.
LEMMA RelayStepIsStoreStep ==
  ASSUME TypeInv, [RelayNext]_vars
  PROVE  [StoreNext]_storeVars
<1> USE DEF TypeInv, RelayTypeOK, PlacesInv
<1>1. ASSUME NEW c \in Conns, AgentSide(c) PROVE [StoreNext]_storeVars
  <2>1. CASE AgentOnline(c)
    <3>1. aDev[c] \in Devices /\ aMeta[c] \in Owners \cup {None}
      BY <2>1 DEF AgentOnline, AStep
    <3>2. SetDeviceOnline(aDev[c], aMeta[c])
      BY <2>1 DEF AgentOnline
    <3> QED
      BY <3>1, <3>2 DEF StoreNext
  <2>2. CASE AgentOffline(c)
    <3>1. aDev[c] \in Devices /\ SetDeviceOffline(aDev[c])
      BY <2>2 DEF AgentOffline, AStep
    <3> QED
      BY <3>1 DEF StoreNext
  <2>3. CASE ~AgentOnline(c) /\ ~AgentOffline(c)
    BY <1>1, <2>3
    DEF AgentSide, AgentStep, Dial, Abandon, Receive, SendWelcome,
        WelcomeFails, RegisterAgent, EvictPrevious, StatusOnline,
        ReadAgentEnds, UnregisterAgent, TerminateViewer, ViewerTerminated,
        StatusOffline
  <2> QED
    BY <2>1, <2>2, <2>3
<1>2. ASSUME NEW s \in Sessions, ViewerSide(s) PROVE [StoreNext]_storeVars
  <2>1. CASE ClaimDevice(s)
    <3>1. s \in Sessions \ issued /\ vDev[s] \in Devices
      BY <2>1 DEF ClaimDevice, VStep
    <3>2. RegisterSession(s, vDev[s])
      BY <2>1 DEF ClaimDevice
    <3> QED
      BY <3>1, <3>2 DEF StoreNext
  <2>2. CASE ~ClaimDevice(s)
    BY <1>2, <2>2
    DEF ViewerSide, ViewerStep, OpenSession, ClaimRefused, RegisterViewer,
        EvictViewer, OpenRow, StartSession, StartFails, ReadViewerEnds,
        CompleteSession, SessionServed
  <2> QED
    BY <2>1, <2>2
<1>3. ASSUME NEW s \in Sessions, EndStep(s) PROVE [StoreNext]_storeVars
  BY <1>3 DEF EndStep, EndStop, EndRegistry, EndRow, StoreNext
<1>4. CASE UNCHANGED vars
  BY <1>4 DEF vars, storeVars
<1> QED
  BY <1>1, <1>2, <1>3, <1>4
  DEF RelayNext, AgentSide, ViewerSide, Quiet

\* Every step of a connection keeps the types.
LEMMA AgentSideType ==
  ASSUME TypeInv, NEW c \in Conns, AgentSide(c), StoreInv'
  PROVE  TypeInv'
<1>0. StoreTypeOK'
  BY DEF StoreInv
<1> USE <1>0 DEF TypeInv, RelayTypeOK, PlacesInv, storeVars, hubVars,
        agentVars, viewerVars, endVars, dbVars, deviceVars
<1>1. ASSUME NEW d \in Devices, NEW o \in Owners, Dial(c, d, o)
      PROVE  TypeInv'
  BY <1>1 DEF Dial
<1>2. CASE Abandon(c)
  BY <1>2 DEF Abandon
<1>3. CASE Receive(c)
  BY <1>3 DEF Receive, Frames, Start, Stop, Welcome
<1>4. CASE SendWelcome(c)
  BY <1>4 DEF SendWelcome, AStep, Frames
<1>5. CASE WelcomeFails(c)
  BY <1>5 DEF WelcomeFails, AStep
<1>6. CASE RegisterAgent(c)
  BY <1>6 DEF RegisterAgent, AStep
<1>7. CASE EvictPrevious(c)
  BY <1>7 DEF EvictPrevious, AStep
<1>8. CASE AgentOnline(c)
  BY <1>8 DEF AgentOnline, AStep, SetDeviceOnline
<1>9. CASE StatusOnline(c)
  BY <1>9 DEF StatusOnline, AStep
<1>10. CASE ReadAgentEnds(c)
  BY <1>10 DEF ReadAgentEnds, AStep
<1>11. CASE UnregisterAgent(c)
  BY <1>11 DEF UnregisterAgent
<1>12. CASE TerminateViewer(c)
  BY <1>12 DEF TerminateViewer, BeginEnd
<1>13. CASE ViewerTerminated(c)
  BY <1>13 DEF ViewerTerminated, AStep
<1>14. CASE AgentOffline(c)
  BY <1>14 DEF AgentOffline, AStep, SetDeviceOffline
<1>15. CASE StatusOffline(c)
  BY <1>15 DEF StatusOffline, AStep
<1> QED
  BY <1>1, <1>2, <1>3, <1>4, <1>5, <1>6, <1>7, <1>8, <1>9, <1>10, <1>11, <1>12, <1>13, <1>14, <1>15 DEF AgentSide, AgentStep

\* Every step of an operator's goroutine keeps the types.
LEMMA ViewerSideType ==
  ASSUME TypeInv, NEW s \in Sessions, ViewerSide(s), StoreInv'
  PROVE  TypeInv'
<1>0. StoreTypeOK'
  BY DEF StoreInv
<1> USE <1>0 DEF TypeInv, RelayTypeOK, PlacesInv, storeVars, hubVars,
        agentVars, viewerVars, endVars, dbVars, deviceVars
<1>1. ASSUME NEW d \in Devices, NEW screen \in AllowScreen,
             OpenSession(s, d, screen)
      PROVE  TypeInv'
  BY <1>1, RelayAssumption DEF OpenSession, VStep
<1>2. CASE ClaimDevice(s)
  BY <1>2 DEF ClaimDevice, VStep, RegisterSession
<1>3. CASE ClaimRefused(s)
  BY <1>3 DEF ClaimRefused, VStep
<1>4. CASE RegisterViewer(s)
  BY <1>4 DEF RegisterViewer, VStep
<1>5. CASE EvictViewer(s)
  BY <1>5 DEF EvictViewer, VStep
<1>6. CASE OpenRow(s)
  BY <1>6 DEF OpenRow, VStep
<1>7. CASE StartSession(s)
  BY <1>7, SentType DEF StartSession, VStep, Start, Frames
<1>8. CASE StartFails(s)
  BY <1>8 DEF StartFails, VStep
<1>9. CASE ReadViewerEnds(s)
  BY <1>9 DEF ReadViewerEnds, VStep
<1>10. CASE CompleteSession(s)
  BY <1>10 DEF CompleteSession, BeginEnd
<1>11. CASE SessionServed(s)
  BY <1>11 DEF SessionServed, VStep
<1> QED
  BY <1>1, <1>2, <1>3, <1>4, <1>5, <1>6, <1>7, <1>8, <1>9, <1>10, <1>11 DEF ViewerSide, ViewerStep

\* Every step of endSession keeps the types.
LEMMA EndSideType ==
  ASSUME TypeInv, NEW s \in Sessions, EndStep(s), StoreInv'
  PROVE  TypeInv'
<1>0. StoreTypeOK'
  BY DEF StoreInv
<1> USE <1>0 DEF TypeInv, RelayTypeOK, PlacesInv, storeVars, hubVars,
        agentVars, viewerVars, endVars, dbVars, deviceVars
<1>1. CASE EndStop(s)
  BY <1>1, SentType DEF EndStop, Stop, Frames
<1>2. CASE EndRegistry(s)
  BY <1>2 DEF EndRegistry, EndSession
<1>3. CASE EndRow(s)
  BY <1>3 DEF EndRow, CloseRow
<1> QED
  BY <1>1, <1>2, <1>3 DEF EndStep

\* Every step of the relay keeps the types.
LEMMA TypeNext == TypeInv /\ [RelayNext]_vars => TypeInv'
<1> SUFFICES ASSUME TypeInv, [RelayNext]_vars PROVE TypeInv'
  OBVIOUS
<1>1. StoreInv'
  BY RelayStepIsStoreStep, StoreNextInv DEF TypeInv
<1>2. CASE UNCHANGED vars
  BY <1>1, <1>2
  DEF TypeInv, StoreInv, RelayTypeOK, PlacesInv, vars, storeVars, hubVars,
      agentVars, viewerVars, endVars, dbVars, deviceVars
<1> QED
  BY <1>1, <1>2, AgentSideType, ViewerSideType, EndSideType
  DEF RelayNext, AgentSide, ViewerSide, Quiet

\* The relay's state keeps its types, and the store under it its invariant.
THEOREM RelayTypes == RelaySpec => []TypeInv
  BY TypeInit, TypeNext, PTL DEF RelaySpec

\* RelayTypeOK in every state of every execution.
THEOREM RelayTypeCorrect == RelaySpec => []RelayTypeOK
<1>1. TypeInv => RelayTypeOK
  BY DEF TypeInv
<1> QED
  BY <1>1, RelayTypes, PTL

\* The relay uses the store as Presence lets any caller use it.
THEOREM RelayUsesStore == RelaySpec => UsesStore
<1>1. RelayInit => StoreInit
  BY DEF RelayInit
<1>2. TypeInv /\ [RelayNext]_vars => [StoreNext]_storeVars
  BY RelayStepIsStoreStep
<1> QED
  BY <1>1, <1>2, RelayTypes, PTL DEF RelaySpec, UsesStore, StoreSpec

----------------------------------------------------------------------------
(* The hub's map of agents.  The entry of a device is a live connection    *)
(* because a connection still in its handshake is open, and because the    *)
(* one registerAgent displaced, which it is about to close, is no entry.   *)

Serving == {"evict", "online", "statusOnline", "reading", "unregister"}

HandshakeIsOpen ==
    \A c \in Conns : aPc[c] \in {"welcome", "register"} => aOpen[c]

DisplacedIsNoEntry ==
    \A k \in Conns : aPrev[k] # None =>
        /\ aPc[aPrev[k]] \notin {"new", "welcome", "register"}
        /\ \A d \in Devices : agents[d] # aPrev[k]

ServedIsEntry ==
    \A c \in Conns :
        aPc[c] \in Serving /\ aOpen[c] /\ agents[aDev[c]] # c =>
            \E k \in Conns : aPc[k] = "evict" /\ aPrev[k] = c

AgentsInv ==
    AgentEntryIsLive /\ HandshakeIsOpen /\ DisplacedIsNoEntry /\ ServedIsEntry

\* With no connection there is no entry.
LEMMA AgentsInit == RelayInit => AgentsInv
  BY RelayAssumption DEF RelayInit, AgentsInv, AgentEntryIsLive,
      HandshakeIsOpen, DisplacedIsNoEntry, ServedIsEntry, Serving

\* A step of an operator's goroutine or of endSession leaves the connections
\* alone.
LEMMA OthersKeepAgents ==
  ASSUME AgentsInv,
         \/ \E s \in Sessions : ViewerSide(s) \/ EndStep(s)
         \/ \E c \in Conns : Abandon(c) \/ Receive(c)
         \/ UNCHANGED vars
  PROVE  AgentsInv'
<1>1. UNCHANGED <<agents, aPc, aDev, aPrev, aOpen>>
  BY DEF ViewerSide, ViewerStep, EndStep, OpenSession, ClaimDevice,
         ClaimRefused, RegisterViewer, EvictViewer, OpenRow, StartSession,
         StartFails, ReadViewerEnds, CompleteSession, SessionServed, EndStop,
         EndRegistry, EndRow, Abandon, Receive, vars, hubVars, agentVars
<1> QED
  BY <1>1
  DEF AgentsInv, AgentEntryIsLive, HandshakeIsOpen, DisplacedIsNoEntry,
      ServedIsEntry

\* The entry of a device, when there is one, is a connection being served.
LEMMA EntryIsServed ==
  ASSUME TypeInv, AgentEntryIsLive, NEW d \in Devices, agents[d] # None
  PROVE  agents[d] \in Conns /\ aPc[agents[d]] \in Serving
  BY DEF TypeInv, RelayTypeOK, AgentEntryIsLive, Serving

\* Every step of a connection keeps the hub's map of agents right.
LEMMA ConnectionKeepsAgents ==
  ASSUME TypeInv, AgentsInv, NEW c \in Conns,
         (\E d \in Devices, o \in Owners : Dial(c, d, o))
             \/ AgentStep(c) \/ ReadAgentEnds(c)
  PROVE  AgentsInv'
<1> USE RelayAssumption
    DEF AgentsInv, AgentEntryIsLive, HandshakeIsOpen, DisplacedIsNoEntry,
        ServedIsEntry, Serving, TypeInv, RelayTypeOK, PlacesInv, hubVars,
        agentVars, AStep
<1>1. ASSUME NEW d \in Devices, NEW o \in Owners, Dial(c, d, o)
      PROVE  AgentsInv'
  BY <1>1 DEF Dial
<1>2. CASE SendWelcome(c)
  BY <1>2 DEF SendWelcome
<1>3. CASE WelcomeFails(c)
  BY <1>3 DEF WelcomeFails
<1>4. CASE RegisterAgent(c)
  <2>1. AgentEntryIsLive'
    BY <1>4 DEF RegisterAgent
  <2>2. HandshakeIsOpen'
    BY <1>4 DEF RegisterAgent
  <2>3. DisplacedIsNoEntry'
    <3> SUFFICES ASSUME NEW k \in Conns, aPrev'[k] # None
                 PROVE  /\ aPc'[aPrev'[k]] \notin {"new", "welcome", "register"}
                        /\ \A d \in Devices : agents'[d] # aPrev'[k]
      OBVIOUS
    <3> DEFINE p == aPrev'[k]
    <3>1. p \in Conns /\ aPc[p] \notin {"new", "welcome", "register"}
      <4>1. CASE k = c
        <5>1. p = agents[aDev[c]] /\ aDev[c] \in Devices
          BY <1>4, <4>1 DEF RegisterAgent
        <5>2. p \in Conns /\ aPc[p] \in Serving
          BY <5>1, EntryIsServed
        <5> QED
          BY <5>2
      <4>2. CASE k # c
        <5>1. p = aPrev[k]
          BY <1>4, <4>2 DEF RegisterAgent
        <5> QED
          BY <5>1
      <4> QED
        BY <4>1, <4>2
    <3>2. p # c /\ aPc'[p] = aPc[p]
      BY <1>4, <3>1 DEF RegisterAgent
    <3>3. \A d \in Devices : agents'[d] # p
      <4>1. CASE k = c
        <5>1. p = agents[aDev[c]] /\ aDev[p] = aDev[c]
          BY <1>4, <4>1, <3>1 DEF RegisterAgent
        <5> QED
          BY <1>4, <5>1, <3>1, <3>2 DEF RegisterAgent
      <4>2. CASE k # c
        BY <1>4, <4>2, <3>2 DEF RegisterAgent
      <4> QED
        BY <4>1, <4>2
    <3> QED
      BY <3>1, <3>2, <3>3
  <2>4. ServedIsEntry'
    BY <1>4 DEF RegisterAgent
  <2> QED
    BY <2>1, <2>2, <2>3, <2>4
<1>5. CASE EvictPrevious(c)
  <2>1. AgentEntryIsLive'
    BY <1>5 DEF EvictPrevious
  <2>2. HandshakeIsOpen'
    BY <1>5 DEF EvictPrevious
  <2>3. DisplacedIsNoEntry'
    BY <1>5 DEF EvictPrevious
  <2>4. ServedIsEntry'
    <3> SUFFICES ASSUME NEW x \in Conns, aPc'[x] \in Serving, aOpen'[x],
                        agents'[aDev'[x]] # x
                 PROVE  \E k \in Conns : aPc'[k] = "evict" /\ aPrev'[k] = x
      OBVIOUS
    <3>0. /\ aPc[c] = "evict" /\ aPc' = [aPc EXCEPT ![c] = "online"]
          /\ UNCHANGED <<agents, aDev>>
          /\ aOpen' = [k \in Conns |-> aOpen[k] /\ k # aPrev[c]]
      BY <1>5 DEF EvictPrevious
    <3>1. /\ aPc[x] \in Serving /\ agents[aDev[x]] # x
          /\ aOpen[x] /\ x # aPrev[c]
      <4>1. aPc[x] \in Serving /\ agents[aDev[x]] # x
        BY <3>0
      <4>2. aOpen[x] /\ x # aPrev[c]
        BY <3>0, Zenon
      <4> QED
        BY <4>1, <4>2
    <3>2. PICK k \in Conns : aPc[k] = "evict" /\ aPrev[k] = x
      BY <3>1
    <3>3. k # c
      BY <3>1, <3>2
    <3> QED
      BY <1>5, <3>2, <3>3 DEF EvictPrevious
  <2> QED
    BY <2>1, <2>2, <2>3, <2>4
<1>6. CASE AgentOnline(c)
  BY <1>6 DEF AgentOnline
<1>7. CASE StatusOnline(c)
  BY <1>7 DEF StatusOnline
<1>8. CASE ReadAgentEnds(c)
  BY <1>8 DEF ReadAgentEnds
<1>9. CASE UnregisterAgent(c)
  BY <1>9 DEF UnregisterAgent
<1>10. CASE TerminateViewer(c)
  BY <1>10 DEF TerminateViewer
<1>11. CASE ViewerTerminated(c)
  BY <1>11 DEF ViewerTerminated
<1>12. CASE AgentOffline(c)
  BY <1>12 DEF AgentOffline
<1>13. CASE StatusOffline(c)
  BY <1>13 DEF StatusOffline
<1> QED
  BY <1>1, <1>2, <1>3, <1>4, <1>5, <1>6, <1>7, <1>8, <1>9, <1>10, <1>11,
     <1>12, <1>13
  DEF AgentStep

LEMMA AgentsNext == TypeInv /\ AgentsInv /\ [RelayNext]_vars => AgentsInv'
  BY OthersKeepAgents, ConnectionKeepsAgents
  DEF RelayNext, ViewerSide, Quiet

\* The hub's map of agents is right in every state of every execution.
THEOREM AgentsInvariant == RelaySpec => []AgentsInv
  BY AgentsInit, AgentsNext, RelayTypes, PTL DEF RelaySpec

\* Frames to a device go to an open connection of it that is being served.
THEOREM AgentEntryIsLiveAlways == RelaySpec => []AgentEntryIsLive
<1>1. AgentsInv => AgentEntryIsLive
  BY DEF AgentsInv
<1> QED
  BY <1>1, AgentsInvariant, PTL

\* No device keeps a second open socket that the hub does not know of.
THEOREM ReplacedIsClosedAlways == RelaySpec => []ReplacedIsClosed
<1>1. AgentsInv => ReplacedIsClosed
  BY DEF AgentsInv, ServedIsEntry, Serving, ReplacedIsClosed
<1> QED
  BY <1>1, AgentsInvariant, PTL

----------------------------------------------------------------------------
(* The hub's map of viewers.  endSession runs for registered sessions      *)
(* only, and its first act is to take the session off the map.             *)

Registered == {"evict", "row", "start", "watching", "ending", "done"}

OnlyRegisteredEnd ==
    /\ \A s \in Sessions : endPc[s] # "idle" => vPc[s] \in Registered
    /\ \A c \in Conns : aPc[c] = "endViewer" => aViewer[c] # None
    /\ \A c \in Conns :
           aViewer[c] # None => vPc[aViewer[c]] \in Registered

ViewersInv == ViewerEntryIsLive /\ OneOperatorPerDevice /\ OnlyRegisteredEnd

LEMMA ViewersInit == RelayInit => ViewersInv
  BY PresenceAssumption
  DEF RelayInit, ViewersInv, ViewerEntryIsLive, OneOperatorPerDevice,
      OnlyRegisteredEnd

\* Ending a session takes it, and nobody else, off the map.
LEMMA BeginEndKeepsViewers ==
  ASSUME TypeInv, ViewersInv, NEW s \in Sessions, NEW status,
         vPc[s] \in Registered, BeginEnd(s, status),
         UNCHANGED <<vPc, vDev, vPrev, vOpen, aPc, aViewer>>
  PROVE  ViewersInv'
<1> USE DEF TypeInv, RelayTypeOK, PlacesInv, ViewersInv, BeginEnd, Registered
<1>1. ViewerEntryIsLive'
  BY PresenceAssumption DEF ViewerEntryIsLive
<1>2. OneOperatorPerDevice'
  BY DEF OneOperatorPerDevice
<1>3. OnlyRegisteredEnd'
  BY DEF OnlyRegisteredEnd
<1> QED
  BY <1>1, <1>2, <1>3

\* A connection's steps reach the viewers only through unregisterAgent.
LEMMA AgentSideKeepsViewers ==
  ASSUME TypeInv, ViewersInv, NEW c \in Conns, AgentSide(c)
  PROVE  ViewersInv'
<1> USE DEF TypeInv, RelayTypeOK, PlacesInv, hubVars, viewerVars, endVars
<1>1. CASE UnregisterAgent(c)
  BY <1>1
  DEF UnregisterAgent, ViewersInv, ViewerEntryIsLive, OneOperatorPerDevice,
      OnlyRegisteredEnd, Registered
<1>2. CASE TerminateViewer(c)
  <2>1. aViewer[c] \in Sessions /\ vPc[aViewer[c]] \in Registered
    BY <1>2 DEF TerminateViewer, ViewersInv, OnlyRegisteredEnd
  <2> QED
    BY <1>2, <2>1, BeginEndKeepsViewers DEF TerminateViewer, agentVars
<1>3. CASE ViewerTerminated(c)
  BY <1>3
  DEF ViewerTerminated, AStep, ViewersInv, ViewerEntryIsLive,
      OneOperatorPerDevice, OnlyRegisteredEnd
<1>4. CASE ~UnregisterAgent(c) /\ ~TerminateViewer(c) /\ ~ViewerTerminated(c)
  <2>1. /\ UNCHANGED <<viewers, vPc, vDev, vPrev, vOpen, endPc, aViewer>>
        /\ \A k \in Conns : aPc'[k] = "endViewer" => aPc[k] = "endViewer"
    BY <1>4
    DEF AgentSide, AgentStep, Dial, Abandon, Receive, SendWelcome,
        WelcomeFails, RegisterAgent, EvictPrevious, AgentOnline, StatusOnline,
        ReadAgentEnds, AgentOffline, StatusOffline, AStep, agentVars
  <2> QED
    BY <2>1 DEF ViewersInv, ViewerEntryIsLive, OneOperatorPerDevice,
                OnlyRegisteredEnd
<1> QED
  BY <1>1, <1>2, <1>3, <1>4

\* The steps of an operator's goroutine keep the map of viewers right.
LEMMA ViewerSideKeepsViewers ==
  ASSUME TypeInv, ViewersInv, NEW s \in Sessions, ViewerSide(s)
  PROVE  ViewersInv'
<1> USE PresenceAssumption
    DEF TypeInv, RelayTypeOK, PlacesInv, ViewersInv, ViewerEntryIsLive,
        OneOperatorPerDevice, OnlyRegisteredEnd, Registered, VStep,
        hubVars, agentVars, viewerVars, endVars
<1>1. ASSUME NEW d \in Devices, NEW screen \in AllowScreen,
             OpenSession(s, d, screen)
      PROVE  ViewersInv'
  BY <1>1 DEF OpenSession
<1>2. CASE CompleteSession(s)
  BY <1>2, BeginEndKeepsViewers DEF CompleteSession
<1>3. CASE ClaimDevice(s)
  BY <1>3 DEF ClaimDevice
<1>4. CASE ClaimRefused(s)
  BY <1>4 DEF ClaimRefused
<1>5. CASE RegisterViewer(s)
  <2>0. /\ vPc[s] = "register" /\ vPc' = [vPc EXCEPT ![s] = "evict"]
        /\ vPrev' = [vPrev EXCEPT ![s] = viewers[vDev[s]]]
        /\ viewers' = [viewers EXCEPT ![vDev[s]] = s]
        /\ UNCHANGED <<vDev, vOpen, endPc, aPc, aViewer>>
    BY <1>5 DEF RegisterViewer
  <2>1. ViewerEntryIsLive'
    <3> SUFFICES ASSUME NEW d \in Devices, viewers'[d] # None
                 PROVE  LET t == viewers'[d]
                        IN  /\ vDev'[t] = d
                            /\ vPc'[t] \in {"evict", "row", "start",
                                           "watching", "ending"}
                            /\ endPc'[t] = "idle"
      OBVIOUS
    <3>1. CASE d = vDev[s]
      <4>1. viewers'[d] = s /\ vPc'[s] = "evict"
        BY <2>0, <3>1
      <4>2. endPc'[s] = "idle"
        BY <2>0
      <4> QED
        BY <4>1, <4>2, <2>0, <3>1
    <3>2. CASE d # vDev[s]
      <4>1. viewers'[d] = viewers[d] /\ viewers[d] \in Sessions \ {s}
        BY <2>0, <3>2
      <4> QED
        BY <4>1, <2>0
    <3> QED
      BY <3>1, <3>2
  <2>2. OneOperatorPerDevice'
    BY <2>0
  <2>3. OnlyRegisteredEnd'
    BY <2>0
  <2> QED
    BY <2>1, <2>2, <2>3
<1>6. CASE EvictViewer(s)
  <2>0. /\ vPc[s] = "evict" /\ vPc' = [vPc EXCEPT ![s] = "row"]
        /\ vPrev' = [vPrev EXCEPT ![s] = None]
        /\ vOpen' = [t \in Sessions |-> vOpen[t] /\ t # vPrev[s]]
        /\ UNCHANGED <<viewers, vDev, endPc, aPc, aViewer>>
    BY <1>6 DEF EvictViewer
  <2>1. ViewerEntryIsLive'
    BY <2>0
  <2>2. OneOperatorPerDevice'
    <3> SUFFICES ASSUME NEW x \in Sessions,
                        vPc'[x] \in {"evict", "row", "start", "watching"},
                        vOpen'[x], endPc'[x] = "idle", viewers'[vDev'[x]] # x
                 PROVE  \E t \in Sessions : vPc'[t] = "evict" /\ vPrev'[t] = x
      OBVIOUS
    <3>1. /\ vPc[x] \in {"evict", "row", "start", "watching"}
          /\ endPc[x] = "idle" /\ viewers[vDev[x]] # x
      BY <2>0
    <3>2. vOpen[x] /\ x # vPrev[s]
      BY <2>0, Zenon
    <3>3. PICK t \in Sessions : vPc[t] = "evict" /\ vPrev[t] = x
      BY <3>1, <3>2
    <3>4. t # s
      BY <3>2, <3>3
    <3> QED
      BY <2>0, <3>3, <3>4
  <2>3. OnlyRegisteredEnd'
    BY <2>0
  <2> QED
    BY <2>1, <2>2, <2>3
<1>7. CASE OpenRow(s)
  BY <1>7 DEF OpenRow
<1>8. CASE StartSession(s)
  BY <1>8 DEF StartSession
<1>9. CASE StartFails(s)
  BY <1>9 DEF StartFails
<1>10. CASE ReadViewerEnds(s)
  BY <1>10 DEF ReadViewerEnds
<1>11. CASE SessionServed(s)
  BY <1>11 DEF SessionServed
<1> QED
  BY <1>1, <1>2, <1>3, <1>4, <1>5, <1>6, <1>7, <1>8, <1>9, <1>10, <1>11
  DEF ViewerSide, ViewerStep

\* The later steps of endSession find the session off the map already.
LEMMA EndStepKeepsViewers ==
  ASSUME TypeInv, ViewersInv, NEW s \in Sessions, EndStep(s)
  PROVE  ViewersInv'
<1> USE DEF TypeInv, RelayTypeOK, PlacesInv, ViewersInv, ViewerEntryIsLive,
        OneOperatorPerDevice, OnlyRegisteredEnd, Registered, hubVars,
        agentVars, viewerVars, endVars
<1>1. CASE EndStop(s)
  BY <1>1 DEF EndStop
<1>2. CASE EndRegistry(s)
  BY <1>2 DEF EndRegistry
<1>3. CASE EndRow(s)
  BY <1>3 DEF EndRow
<1> QED
  BY <1>1, <1>2, <1>3 DEF EndStep

LEMMA ViewersNext == TypeInv /\ ViewersInv /\ [RelayNext]_vars => ViewersInv'
<1> SUFFICES ASSUME TypeInv, ViewersInv, [RelayNext]_vars
             PROVE  ViewersInv'
  OBVIOUS
<1>1. CASE UNCHANGED vars
  BY <1>1
  DEF ViewersInv, ViewerEntryIsLive, OneOperatorPerDevice, OnlyRegisteredEnd,
      vars, hubVars, agentVars, viewerVars, endVars
<1> QED
  BY <1>1, AgentSideKeepsViewers, ViewerSideKeepsViewers, EndStepKeepsViewers
  DEF RelayNext, AgentSide, ViewerSide, Quiet

\* The hub's map of viewers is right in every state of every execution.
THEOREM ViewersInvariant == RelaySpec => []ViewersInv
  BY ViewersInit, ViewersNext, RelayTypes, PTL DEF RelaySpec

\* A device's frames go to a session of it that nobody has begun to end.
THEOREM ViewerEntryIsLiveAlways == RelaySpec => []ViewerEntryIsLive
<1>1. ViewersInv => ViewerEntryIsLive
  BY DEF ViewersInv
<1> QED
  BY <1>1, ViewersInvariant, PTL

\* Two operators never stay on one device, for any number of devices,
\* reconnections and operators.
THEOREM OneOperatorPerDeviceAlways == RelaySpec => []OneOperatorPerDevice
<1>1. ViewersInv => OneOperatorPerDevice
  BY DEF ViewersInv
<1> QED
  BY <1>1, ViewersInvariant, PTL

----------------------------------------------------------------------------
(* The slot.  A claim is made before the session can be ended, and only    *)
(* the endSession of the holder, or an agent's cleanup, takes it back.     *)

LEMMA SlotInitial == RelayInit => SlotHasOperator
  BY DEF RelayInit, StoreInit, SlotHasOperator

\* What a store call does to the slots.
LEMMA SlotChange ==
  ASSUME TypeInv, [RelayNext]_vars, NEW d \in Devices, deviceSess'[d] # None
  PROVE  \/ deviceSess'[d] = deviceSess[d]
         \/ \E s \in Sessions :
               ClaimDevice(s) /\ vDev[s] = d /\ deviceSess'[d] = s
<1> USE DEF TypeInv, RelayTypeOK, StoreTypeOK, storeVars, vars
<1>1. ASSUME NEW c \in Conns, AgentSide(c)
      PROVE  deviceSess'[d] = deviceSess[d]
  BY <1>1
  DEF AgentSide, AgentStep, Dial, Abandon, Receive, SendWelcome, WelcomeFails,
      RegisterAgent, EvictPrevious, AgentOnline, StatusOnline, ReadAgentEnds,
      UnregisterAgent, TerminateViewer, ViewerTerminated, AgentOffline,
      StatusOffline, SetDeviceOnline, SetDeviceOffline
<1>2. ASSUME NEW s \in Sessions, ViewerSide(s), ~ClaimDevice(s)
      PROVE  deviceSess'[d] = deviceSess[d]
  BY <1>2
  DEF ViewerSide, ViewerStep, OpenSession, ClaimRefused, RegisterViewer,
      EvictViewer, OpenRow, StartSession, StartFails, ReadViewerEnds,
      CompleteSession, SessionServed
<1>3. ASSUME NEW s \in Sessions, ClaimDevice(s)
      PROVE  \/ deviceSess'[d] = deviceSess[d]
             \/ vDev[s] = d /\ deviceSess'[d] = s
  BY <1>3 DEF ClaimDevice, RegisterSession
<1>4. ASSUME NEW s \in Sessions, EndStep(s)
      PROVE  deviceSess'[d] = deviceSess[d]
  BY <1>4 DEF EndStep, EndStop, EndRegistry, EndRow, EndSession
<1> QED
  BY <1>1, <1>2, <1>3, <1>4 DEF RelayNext, AgentSide, ViewerSide, Quiet

Holding == {"register", "evict", "row", "start", "watching", "ending"}

\* A session that holds a slot keeps its place until its endSession has
\* released the slot.
LEMMA HolderKeepsPlace ==
  ASSUME TypeInv, [RelayNext]_vars, NEW s \in Sessions,
         vPc[s] \in Holding, endPc[s] \in {"idle", "stop", "registry"},
         ~EndRegistry(s)
  PROVE  /\ vDev'[s] = vDev[s] /\ vPc'[s] \in Holding
         /\ endPc'[s] \in {"idle", "stop", "registry"}
<1> USE DEF TypeInv, RelayTypeOK, Holding, viewerVars, endVars, vars
<1>1. ASSUME NEW c \in Conns, AgentSide(c)
      PROVE  /\ vDev'[s] = vDev[s] /\ vPc'[s] \in Holding
             /\ endPc'[s] \in {"idle", "stop", "registry"}
  BY <1>1
  DEF AgentSide, AgentStep, Dial, Abandon, Receive, SendWelcome, WelcomeFails,
      RegisterAgent, EvictPrevious, AgentOnline, StatusOnline, ReadAgentEnds,
      UnregisterAgent, TerminateViewer, ViewerTerminated, AgentOffline,
      StatusOffline, BeginEnd
<1>2. ASSUME NEW t \in Sessions, ViewerSide(t)
      PROVE  /\ vDev'[s] = vDev[s] /\ vPc'[s] \in Holding
             /\ endPc'[s] \in {"idle", "stop", "registry"}
  <2>1. CASE t = s
    BY <1>2, <2>1
    DEF ViewerSide, ViewerStep, OpenSession, ClaimDevice, ClaimRefused,
        RegisterViewer, EvictViewer, OpenRow, StartSession, StartFails,
        ReadViewerEnds, CompleteSession, SessionServed, VStep, BeginEnd
  <2>2. CASE t # s
    BY <1>2, <2>2
    DEF ViewerSide, ViewerStep, OpenSession, ClaimDevice, ClaimRefused,
        RegisterViewer, EvictViewer, OpenRow, StartSession, StartFails,
        ReadViewerEnds, CompleteSession, SessionServed, VStep, BeginEnd
  <2> QED
    BY <2>1, <2>2
<1>3. ASSUME NEW t \in Sessions, EndStep(t)
      PROVE  /\ vDev'[s] = vDev[s] /\ vPc'[s] \in Holding
             /\ endPc'[s] \in {"idle", "stop", "registry"}
  BY <1>3 DEF EndStep, EndStop, EndRegistry, EndRow
<1> QED
  BY <1>1, <1>2, <1>3 DEF RelayNext, AgentSide, ViewerSide, Quiet

LEMMA SlotNextStep ==
  TypeInv /\ ViewersInv /\ SlotHasOperator /\ [RelayNext]_vars
      => SlotHasOperator'
<1> SUFFICES ASSUME TypeInv, ViewersInv, SlotHasOperator, [RelayNext]_vars,
                    NEW d \in Devices, deviceSess'[d] # None
             PROVE  LET s == deviceSess'[d]
                    IN  /\ vDev'[s] = d /\ vPc'[s] \in Holding
                        /\ endPc'[s] \in {"idle", "stop", "registry"}
  BY DEF SlotHasOperator, Holding
<1>1. CASE deviceSess'[d] = deviceSess[d]
  <2> DEFINE s == deviceSess[d]
  <2>1. /\ s \in Sessions /\ vDev[s] = d /\ vPc[s] \in Holding
        /\ endPc[s] \in {"idle", "stop", "registry"}
    BY <1>1 DEF SlotHasOperator, Holding, TypeInv, RelayTypeOK, StoreTypeOK
  <2>2. ~EndRegistry(s)
    <3>1. sessions[s] = d
      BY <2>1 DEF TypeInv, StoreInv, SessionMapsAgree
    <3>2. EndSession(s) => deviceSess'[d] = None
      BY <3>1, PresenceAssumption
      DEF EndSession, TypeInv, RelayTypeOK, StoreTypeOK
    <3> QED
      BY <3>2 DEF EndRegistry
  <2> QED
    BY <1>1, <2>1, <2>2, HolderKeepsPlace
<1>2. ASSUME NEW s \in Sessions, ClaimDevice(s), vDev[s] = d,
             deviceSess'[d] = s
      PROVE  /\ vDev'[s] = d /\ vPc'[s] \in Holding
             /\ endPc'[s] \in {"idle", "stop", "registry"}
  <2>1. endPc[s] = "idle"
    BY <1>2 DEF ClaimDevice, VStep, ViewersInv, OnlyRegisteredEnd, Registered
  <2> QED
    BY <1>2, <2>1
    DEF ClaimDevice, VStep, endVars, Holding, TypeInv, RelayTypeOK
<1> QED
  BY <1>1, <1>2, SlotChange

\* No slot leaks: whoever holds a device has an endSession to come that
\* releases it, whichever way the session and the device's connections go.
THEOREM SlotHasOperatorAlways == RelaySpec => []SlotHasOperator
  BY SlotInitial, SlotNextStep, RelayTypes, ViewersInvariant, PTL
  DEF RelaySpec

----------------------------------------------------------------------------
(* The relay implements DeviceSlot.  Only the claim, the registry step of  *)
(* endSession, and an agent's two store calls change what DeviceSlot sees. *)

Over == {s \in Sessions : endPc[s] \in {"row", "done"}}

Here == {d \in Devices : Present(d)}

LEMMA SameSlots ==
  ASSUME UNCHANGED <<deviceSess, issued, devices>>, Over' = Over
  PROVE  UNCHANGED Slot!slotVars
  BY DEF Slot!slotVars, Over, Present

\* Beginning to end a session does not end it.
LEMMA BeginningIsNotOver ==
  ASSUME TypeInv, NEW s \in Sessions, NEW status, BeginEnd(s, status)
  PROVE  Over' = Over
  BY DEF BeginEnd, Over, TypeInv, RelayTypeOK

LEMMA AgentSideSlot ==
  ASSUME TypeInv, ViewersInv, NEW c \in Conns, AgentSide(c)
  PROVE  [Slot!SlotNext]_(Slot!slotVars)
<1> USE DEF TypeInv, RelayTypeOK, StoreTypeOK
<1>1. CASE AgentOnline(c)
  <2> DEFINE d == aDev[c]
  <2>1. /\ d \in Devices /\ SetDeviceOnline(d, aMeta[c])
        /\ UNCHANGED <<deviceSess, issued, endPc>>
    BY <1>1 DEF AgentOnline, AStep, PlacesInv, SetDeviceOnline, endVars
  <2>2. Here' = Here \cup {d}
    BY <2>1 DEF SetDeviceOnline, Here, Present
  <2>3. CASE Present(d)
    BY <2>1, <2>2, <2>3 DEF Slot!slotVars, Here
  <2>4. CASE ~Present(d)
    <3>1. Slot!Arrive(d)
      BY <2>1, <2>2, <2>4 DEF Slot!Arrive, Here
    <3> QED
      BY <2>1, <3>1 DEF Slot!SlotNext
  <2> QED
    BY <2>3, <2>4
<1>2. CASE AgentOffline(c)
  <2> DEFINE d == aDev[c]
  <2>1. /\ d \in Devices /\ SetDeviceOffline(d) /\ UNCHANGED <<issued, endPc>>
    BY <1>2 DEF AgentOffline, AStep, PlacesInv, SetDeviceOffline, endVars
  <2>2. CASE Present(d)
    <3>1. /\ devices' = [devices EXCEPT ![d] = Absent]
          /\ deviceSess' = [deviceSess EXCEPT ![d] = None]
      BY <2>1, <2>2 DEF SetDeviceOffline
    <3>2. Here' = Here \ {d}
      BY <2>1, <3>1 DEF Here, Present, Absent
    <3>3. Slot!Leave(d)
      BY <2>1, <2>2, <3>1, <3>2 DEF Slot!Leave, Here
    <3> QED
      BY <2>1, <3>3 DEF Slot!SlotNext
  <2>3. CASE ~Present(d)
    BY <2>1, <2>3, SameSlots DEF SetDeviceOffline, Over
  <2> QED
    BY <2>2, <2>3
<1>3. CASE TerminateViewer(c)
  <2>1. aViewer[c] \in Sessions /\ BeginEnd(aViewer[c], "terminated")
    BY <1>3 DEF TerminateViewer, ViewersInv, OnlyRegisteredEnd
  <2> QED
    BY <1>3, <2>1, BeginningIsNotOver, SameSlots DEF TerminateViewer, storeVars
<1>4. CASE ~AgentOnline(c) /\ ~AgentOffline(c) /\ ~TerminateViewer(c)
  <2>1. UNCHANGED <<storeVars, endVars>>
    BY <1>4
    DEF AgentSide, AgentStep, Dial, Abandon, Receive, SendWelcome,
        WelcomeFails, RegisterAgent, EvictPrevious, StatusOnline,
        ReadAgentEnds, UnregisterAgent, ViewerTerminated, StatusOffline
  <2> QED
    BY <2>1, SameSlots DEF storeVars, endVars, Over
<1> QED
  BY <1>1, <1>2, <1>3, <1>4

LEMMA ViewerSideSlot ==
  ASSUME TypeInv, ViewersInv, NEW s \in Sessions, ViewerSide(s)
  PROVE  [Slot!SlotNext]_(Slot!slotVars)
<1> USE DEF TypeInv, RelayTypeOK, StoreTypeOK
<1>1. CASE ClaimDevice(s)
  <2> DEFINE d == vDev[s]
  <2>1. /\ d \in Devices /\ s \notin issued /\ RegisterSession(s, d)
        /\ UNCHANGED endPc
    BY <1>1 DEF ClaimDevice, VStep, PlacesInv, endVars
  <2>2. endPc[s] = "idle"
    BY <1>1 DEF ClaimDevice, VStep, ViewersInv, OnlyRegisteredEnd, Registered
  <2>3. Here' = Here
    BY <2>1 DEF RegisterSession, Here, Present
  <2>4. Slot!Claim(s, d)
    BY <2>1, <2>2, <2>3 DEF RegisterSession, Slot!Claim, Here
  <2> QED
    BY <2>1, <2>4 DEF Slot!SlotNext
<1>2. CASE CompleteSession(s)
  BY <1>2, BeginningIsNotOver, SameSlots DEF CompleteSession, storeVars
<1>3. CASE ~ClaimDevice(s) /\ ~CompleteSession(s)
  <2>1. UNCHANGED <<storeVars, endVars>>
    BY <1>3
    DEF ViewerSide, ViewerStep, OpenSession, ClaimRefused, RegisterViewer,
        EvictViewer, OpenRow, StartSession, StartFails, ReadViewerEnds,
        SessionServed
  <2> QED
    BY <2>1, SameSlots DEF storeVars, endVars, Over
<1> QED
  BY <1>1, <1>2, <1>3

\* The maps of the store agree, so the slot an endSession frees is the one its
\* session holds.
LEMMA EndStepSlot ==
  ASSUME TypeInv, NEW s \in Sessions, EndStep(s)
  PROVE  [Slot!SlotNext]_(Slot!slotVars)
<1>0. /\ endPc \in [Sessions -> {"idle", "stop", "registry", "row", "done"}]
      /\ deviceSess \in [Devices -> Sessions \cup {None}]
      /\ devices \in [Devices -> DevicePresence]
      /\ sessions[s] \in Devices \cup {None}
      /\ \A d \in Devices : sessions[s] = d <=> deviceSess[d] = s
  BY DEF TypeInv, RelayTypeOK, StoreInv, StoreTypeOK, SessionMapsAgree
<1>1. CASE EndRegistry(s)
  <2>1. EndSession(s) /\ endPc[s] = "registry"
        /\ endPc' = [endPc EXCEPT ![s] = "row"] /\ UNCHANGED issued
    BY <1>1 DEF EndRegistry, EndSession
  <2>2. s \notin Over /\ Over' = Over \cup {s}
    BY <1>0, <2>1 DEF Over
  <2>3. Here' = Here
    <3>1. \A d \in Devices : Present(d)' <=> Present(d)
      <4>1. CASE devices' = devices
        BY <4>1 DEF Present
      <4>2. CASE devices' # devices
        <5> DEFINE e == sessions[s]
        <5>1. /\ e \in Devices /\ Present(e)
              /\ devices' = [devices EXCEPT ![e].status = "online",
                                           ![e].active = None]
          BY <1>0, <2>1, <4>2 DEF EndSession
        <5>2. devices'[e].status = "online"
          BY <1>0, <5>1 DEF DevicePresence
        <5>3. \A d \in Devices \ {e} : devices'[d] = devices[d]
          BY <1>0, <5>1
        <5> QED
          BY <5>1, <5>2, <5>3 DEF Present
      <4> QED
        BY <4>1, <4>2
    <3> QED
      BY <3>1 DEF Here
  <2>4. deviceSess' = [d \in Devices |-> IF deviceSess[d] = s THEN None
                                                          ELSE deviceSess[d]]
    <3>1. CASE sessions[s] = None
      <4>1. \A d \in Devices : deviceSess[d] # s
        BY <1>0, <3>1, PresenceAssumption
      <4> QED
        BY <1>0, <2>1, <3>1, <4>1 DEF EndSession
    <3>2. CASE sessions[s] # None
      <4>1. \A d \in Devices : deviceSess[d] = s <=> d = sessions[s]
        BY <1>0, <3>2
      <4>2. deviceSess' = [deviceSess EXCEPT ![sessions[s]] = None]
        BY <2>1, <3>2 DEF EndSession
      <4> QED
        BY <1>0, <4>1, <4>2
    <3> QED
      BY <3>1, <3>2
  <2>5. Slot!End(s)
    BY <2>1, <2>2, <2>3, <2>4 DEF Slot!End, Over, Here
  <2> QED
    BY <2>5 DEF Slot!SlotNext
<1>2. CASE EndStop(s) \/ EndRow(s)
  <2>1. UNCHANGED storeVars /\ Over' = Over
    BY <1>0, <1>2 DEF EndStop, EndRow, Over
  <2> QED
    BY <2>1, SameSlots DEF storeVars
<1> QED
  BY <1>1, <1>2 DEF EndStep

\* The relay implements the slot of DeviceSlot (FR-5.3), for any devices,
\* connections and sessions: no endSession and no agent's cleanup frees the
\* slot of another, however late it comes and whoever has claimed the device
\* since.
THEOREM RelayIsASlot == RelaySpec => RelayImplementsSlot
<1>1. RelayInit => Slot!SlotInit
  BY DEF RelayInit, StoreInit, Slot!SlotInit, Present, Absent
<1>2. TypeInv /\ ViewersInv /\ [RelayNext]_vars
          => [Slot!SlotNext]_(Slot!slotVars)
  <2> SUFFICES ASSUME TypeInv, ViewersInv, [RelayNext]_vars
               PROVE  [Slot!SlotNext]_(Slot!slotVars)
    OBVIOUS
  <2>1. CASE UNCHANGED vars
    BY <2>1, SameSlots DEF vars, storeVars, endVars, Over
  <2> QED
    BY <2>1, AgentSideSlot, ViewerSideSlot, EndStepSlot
    DEF RelayNext, AgentSide, ViewerSide, Quiet
<1> QED
  BY <1>1, <1>2, RelayTypes, ViewersInvariant, PTL
  DEF RelaySpec, RelayImplementsSlot, Slot!SlotSpec

----------------------------------------------------------------------------
(* Presence and the stored status.  A device reads as online only as long  *)
(* as some goroutine that will take it back is still to do so.             *)

Vouching == {"statusOnline", "reading", "unregister", "endViewer", "offline"}

StatusVouching == {"reading", "unregister", "endViewer", "offline", "statusOffline"}

\* A connection that vouches for its device goes on doing so until it has
\* taken the device's presence, or its status, back.
LEMMA VoucherStays ==
  ASSUME TypeInv, [RelayNext]_vars, NEW k \in Conns, aPc[k] # "new"
  PROVE  /\ aDev'[k] = aDev[k]
         /\ aPc[k] \in Vouching /\ ~AgentOffline(k) => aPc'[k] \in Vouching
         /\ aPc[k] \in StatusVouching /\ ~StatusOffline(k)
                => aPc'[k] \in StatusVouching
<1> USE DEF TypeInv, RelayTypeOK, Vouching, StatusVouching, agentVars, vars
<1>1. ASSUME NEW c \in Conns, AgentSide(c), c # k
      PROVE  aDev'[k] = aDev[k] /\ aPc'[k] = aPc[k]
  BY <1>1
  DEF AgentSide, AgentStep, Dial, Abandon, Receive, SendWelcome, WelcomeFails,
      RegisterAgent, EvictPrevious, AgentOnline, StatusOnline, ReadAgentEnds,
      UnregisterAgent, TerminateViewer, ViewerTerminated, AgentOffline,
      StatusOffline, AStep
<1>2. CASE AgentSide(k)
  BY <1>2
  DEF AgentSide, AgentStep, Dial, Abandon, Receive, SendWelcome, WelcomeFails,
      RegisterAgent, EvictPrevious, AgentOnline, StatusOnline, ReadAgentEnds,
      UnregisterAgent, TerminateViewer, ViewerTerminated, AgentOffline,
      StatusOffline, AStep
<1>3. ASSUME NEW s \in Sessions, ViewerSide(s) \/ EndStep(s)
      PROVE  aDev' = aDev /\ aPc' = aPc
  BY <1>3
  DEF ViewerSide, ViewerStep, OpenSession, ClaimDevice, ClaimRefused,
      RegisterViewer, EvictViewer, OpenRow, StartSession, StartFails,
      ReadViewerEnds, CompleteSession, SessionServed, EndStep, EndStop,
      EndRegistry, EndRow
<1>4. CASE UNCHANGED vars
  BY <1>4
<1> QED
  BY <1>1, <1>2, <1>3, <1>4 DEF RelayNext, AgentSide, ViewerSide, Quiet

\* A step that makes a device present, or keeps it so, is not the one that
\* takes its presence back.
LEMMA PresenceChange ==
  ASSUME TypeInv, [RelayNext]_vars, NEW d \in Devices, Present(d)'
  PROVE  \/ /\ Present(d)
            /\ \A c \in Conns : aDev[c] = d => ~AgentOffline(c)
         \/ \E c \in Conns : AgentOnline(c) /\ aDev[c] = d
<1> USE DEF TypeInv, RelayTypeOK, StoreTypeOK, Present, storeVars, vars
<1>1. ASSUME NEW c \in Conns, AgentOffline(c)
      PROVE  Present(d) /\ aDev[c] # d
  <2>1. SetDeviceOffline(aDev[c]) /\ aDev[c] \in Devices
    BY <1>1 DEF AgentOffline, AStep, PlacesInv
  <2>2. CASE Present(aDev[c])
    <3>1. devices' = [devices EXCEPT ![aDev[c]] = Absent]
      BY <2>1, <2>2 DEF SetDeviceOffline
    <3> QED
      BY <2>1, <3>1 DEF Absent
  <2>3. CASE ~Present(aDev[c])
    <3>1. devices' = devices
      BY <2>1, <2>3 DEF SetDeviceOffline
    <3> QED
      BY <2>3, <3>1
  <2> QED
    BY <2>2, <2>3
<1>2. ASSUME NEW c \in Conns, AgentSide(c), ~AgentOnline(c), ~AgentOffline(c)
      PROVE  Present(d)
  BY <1>2
  DEF AgentSide, AgentStep, Dial, Abandon, Receive, SendWelcome, WelcomeFails,
      RegisterAgent, EvictPrevious, AgentOnline, StatusOnline, ReadAgentEnds,
      UnregisterAgent, TerminateViewer, ViewerTerminated, AgentOffline,
      StatusOffline
<1>3. ASSUME NEW c \in Conns, AgentOnline(c), aDev[c] # d
      PROVE  Present(d)
  BY <1>3 DEF AgentOnline, SetDeviceOnline
<1>4. ASSUME NEW s \in Sessions, ViewerSide(s), ~ClaimDevice(s)
      PROVE  Present(d)
  BY <1>4
  DEF ViewerSide, ViewerStep, OpenSession, ClaimRefused, RegisterViewer,
      EvictViewer, OpenRow, StartSession, StartFails, ReadViewerEnds,
      CompleteSession, SessionServed
<1>5. ASSUME NEW s \in Sessions, ClaimDevice(s)
      PROVE  Present(d)
  BY <1>5 DEF ClaimDevice, RegisterSession
<1>6. ASSUME NEW s \in Sessions, EndStep(s)
      PROVE  Present(d)
  BY <1>6 DEF EndStep, EndStop, EndRegistry, EndRow, EndSession
<1>7. \/ Present(d)
      \/ \E c \in Conns : AgentOnline(c) /\ aDev[c] = d
  BY <1>1, <1>2, <1>3, <1>4, <1>5, <1>6
  DEF RelayNext, AgentSide, ViewerSide, Quiet
<1> QED
  BY <1>1, <1>7

LEMMA PresenceStep ==
  TypeInv /\ PresenceHasSocket /\ [RelayNext]_vars => PresenceHasSocket'
<1> SUFFICES ASSUME TypeInv, PresenceHasSocket, [RelayNext]_vars,
                    NEW d \in Devices, Present(d)'
             PROVE  \E c \in Conns : aDev'[c] = d /\ aPc'[c] \in Vouching
  BY DEF PresenceHasSocket, Vouching
<1>1. ASSUME Present(d), \A c \in Conns : aDev[c] = d => ~AgentOffline(c)
      PROVE  \E c \in Conns : aDev'[c] = d /\ aPc'[c] \in Vouching
  <2>1. PICK c \in Conns : aDev[c] = d /\ aPc[c] \in Vouching
    BY <1>1 DEF PresenceHasSocket, Vouching
  <2>2. aPc[c] # "new"
    BY <2>1 DEF Vouching
  <2> QED
    BY <1>1, <2>1, <2>2, VoucherStays
<1>2. ASSUME NEW c \in Conns, AgentOnline(c), aDev[c] = d
      PROVE  aDev'[c] = d /\ aPc'[c] \in Vouching
  BY <1>2 DEF AgentOnline, AStep, Vouching, TypeInv, RelayTypeOK
<1> QED
  BY <1>1, <1>2, PresenceChange

\* Presence never outlives the goroutines that will take it back, for any
\* number of overlapping connections of a device.
THEOREM PresenceHasSocketAlways == RelaySpec => []PresenceHasSocket
<1>1. RelayInit => PresenceHasSocket
  BY DEF RelayInit, StoreInit, PresenceHasSocket, Present, Absent
<1> QED
  BY <1>1, PresenceStep, RelayTypes, PTL DEF RelaySpec

LEMMA StatusStep ==
  TypeInv /\ StatusHasSocket /\ [RelayNext]_vars => StatusHasSocket'
<1> SUFFICES ASSUME TypeInv, StatusHasSocket, [RelayNext]_vars,
                    NEW d \in Devices, dbStatus'[d] = "online"
             PROVE  \E c \in Conns : aDev'[c] = d /\ aPc'[c] \in StatusVouching
  BY DEF StatusHasSocket, StatusVouching
<1> USE DEF TypeInv, RelayTypeOK, PlacesInv
<1>1. ASSUME NEW c \in Conns, StatusOnline(c), aDev[c] = d
      PROVE  aDev'[c] = d /\ aPc'[c] \in StatusVouching
  BY <1>1 DEF StatusOnline, AStep, StatusVouching
<1>2. \/ /\ dbStatus[d] = "online"
         /\ \A c \in Conns : aDev[c] = d => ~StatusOffline(c)
      \/ \E c \in Conns : StatusOnline(c) /\ aDev[c] = d
  <2>1. ASSUME NEW c \in Conns, StatusOffline(c)
        PROVE  dbStatus[d] = "online" /\ aDev[c] # d
    BY <2>1 DEF StatusOffline, AStep
  <2>2. ASSUME NEW c \in Conns, StatusOnline(c), aDev[c] # d
        PROVE  dbStatus[d] = "online"
    BY <2>2 DEF StatusOnline, AStep
  <2>3. ASSUME NEW c \in Conns, AgentSide(c), ~StatusOnline(c),
               ~StatusOffline(c)
        PROVE  dbStatus[d] = "online"
    BY <2>3
    DEF AgentSide, AgentStep, Dial, Abandon, Receive, SendWelcome,
        WelcomeFails, RegisterAgent, EvictPrevious, AgentOnline,
        ReadAgentEnds, UnregisterAgent, TerminateViewer, ViewerTerminated,
        AgentOffline, dbVars
  <2>4. ASSUME NEW s \in Sessions, ViewerSide(s) \/ EndStep(s)
        PROVE  dbStatus[d] = "online"
    BY <2>4
    DEF ViewerSide, ViewerStep, OpenSession, ClaimDevice, ClaimRefused,
        RegisterViewer, EvictViewer, OpenRow, StartSession, StartFails,
        ReadViewerEnds, CompleteSession, SessionServed, EndStep, EndStop,
        EndRegistry, EndRow, dbVars
  <2>5. ASSUME UNCHANGED vars PROVE dbStatus[d] = "online"
    BY <2>5 DEF vars, dbVars
  <2>6. \/ dbStatus[d] = "online"
        \/ \E c \in Conns : StatusOnline(c) /\ aDev[c] = d
    BY <2>1, <2>2, <2>3, <2>4, <2>5
    DEF RelayNext, AgentSide, ViewerSide, Quiet
  <2> QED
    BY <2>1, <2>6
<1>3. ASSUME dbStatus[d] = "online",
             \A c \in Conns : aDev[c] = d => ~StatusOffline(c)
      PROVE  \E c \in Conns : aDev'[c] = d /\ aPc'[c] \in StatusVouching
  <2>1. PICK c \in Conns : aDev[c] = d /\ aPc[c] \in StatusVouching
    BY <1>3 DEF StatusHasSocket, StatusVouching
  <2>2. aPc[c] # "new"
    BY <2>1 DEF StatusVouching
  <2> QED
    BY <1>3, <2>1, <2>2, VoucherStays
<1> QED
  BY <1>1, <1>2, <1>3

\* Nor does the status in the devices table.
THEOREM StatusHasSocketAlways == RelaySpec => []StatusHasSocket
<1>1. RelayInit => StatusHasSocket
  BY DEF RelayInit, StatusHasSocket
<1> QED
  BY <1>1, StatusStep, RelayTypes, PTL DEF RelaySpec

----------------------------------------------------------------------------
(* The Welcome.  Only a connection that is the hub's entry is sent frames  *)
(* by other goroutines, and one still in its handshake is not.             *)

HandshakeIsSilent ==
    \A c \in Conns : aPc[c] \in {"new", "welcome"} => inbox[c] = <<>>

\* What is sent to a device leaves the connections in handshake alone.
LEMMA SentSparesHandshakes ==
  ASSUME TypeInv, AgentsInv, NEW d \in Devices, NEW f,
         NEW c \in Conns, aPc[c] \in {"new", "welcome", "register"}
  PROVE  Sent(d, f)[c] = inbox[c]
<1>1. CASE CanSend(d)
  <2>1. agents[d] # c
    BY <1>1 DEF CanSend, AgentsInv, AgentEntryIsLive
  <2> QED
    BY <2>1 DEF Sent, TypeInv, RelayTypeOK
<1>2. CASE ~CanSend(d)
  BY <1>2 DEF Sent
<1> QED
  BY <1>1, <1>2

LEMMA SilenceStep ==
  TypeInv /\ AgentsInv /\ ViewersInv /\ HandshakeIsSilent /\ [RelayNext]_vars
      => HandshakeIsSilent'
<1> SUFFICES ASSUME TypeInv, AgentsInv, ViewersInv, HandshakeIsSilent,
                    [RelayNext]_vars,
                    NEW k \in Conns, aPc'[k] \in {"new", "welcome"}
             PROVE  inbox'[k] = <<>>
  BY DEF HandshakeIsSilent
<1> USE DEF TypeInv, RelayTypeOK, PlacesInv, HandshakeIsSilent, agentVars,
        deviceVars, vars
<1>1. ASSUME NEW c \in Conns, AgentSide(c) PROVE inbox'[k] = <<>>
  BY <1>1
  DEF AgentSide, AgentStep, Dial, Abandon, Receive, SendWelcome, WelcomeFails,
      RegisterAgent, EvictPrevious, AgentOnline, StatusOnline, ReadAgentEnds,
      UnregisterAgent, TerminateViewer, ViewerTerminated, AgentOffline,
      StatusOffline, AStep
<1>2. ASSUME NEW s \in Sessions, ViewerSide(s) PROVE inbox'[k] = <<>>
  <2>1. aPc[k] \in {"new", "welcome"}
    BY <1>2
    DEF ViewerSide, ViewerStep, OpenSession, ClaimDevice, ClaimRefused,
        RegisterViewer, EvictViewer, OpenRow, StartSession, StartFails,
        ReadViewerEnds, CompleteSession, SessionServed
  <2>2. CASE StartSession(s)
    <3>1. vDev[s] \in Devices /\ inbox' = Sent(vDev[s], Start(s))
      BY <2>2 DEF StartSession, VStep
    <3> QED
      BY <2>1, <3>1, SentSparesHandshakes
  <2>3. CASE ~StartSession(s)
    BY <1>2, <2>1, <2>3
    DEF ViewerSide, ViewerStep, OpenSession, ClaimDevice, ClaimRefused,
        RegisterViewer, EvictViewer, OpenRow, StartFails,
        ReadViewerEnds, CompleteSession, SessionServed
  <2> QED
    BY <2>2, <2>3
<1>3. ASSUME NEW s \in Sessions, EndStep(s)
      PROVE  inbox'[k] = <<>>
  <2>1. aPc[k] \in {"new", "welcome"}
    BY <1>3 DEF EndStep, EndStop, EndRegistry, EndRow
  <2>2. CASE EndStop(s)
    <3>1. inbox' = Sent(vDev[s], Stop(s)) /\ vDev[s] \in Devices
      BY <1>3, <2>2 DEF EndStop, ViewersInv, OnlyRegisteredEnd, Registered
    <3> QED
      BY <2>1, <3>1, SentSparesHandshakes
  <2>3. CASE ~EndStop(s)
    BY <1>3, <2>1, <2>3 DEF EndStep, EndRegistry, EndRow
  <2> QED
    BY <2>2, <2>3
<1>4. CASE UNCHANGED vars
  BY <1>4
<1> QED
  BY <1>1, <1>2, <1>3, <1>4 DEF RelayNext, AgentSide, ViewerSide, Quiet

\* The Welcome is the first frame a device reads on any connection.
THEOREM WelcomeIsFirstAlways == RelaySpec => []WelcomeIsFirst
<1>1. RelayInit => HandshakeIsSilent
  BY DEF RelayInit, HandshakeIsSilent
<1>2. HandshakeIsSilent => WelcomeIsFirst
  BY DEF HandshakeIsSilent, WelcomeIsFirst
<1> QED
  BY <1>1, <1>2, SilenceStep, RelayTypes, AgentsInvariant, ViewersInvariant,
     PTL
  DEF RelaySpec
----------------------------------------------------------------------------
(* A stop follows.  Where a session its operator ended could still be      *)
(* captured for, or be started, on the device's entry, its stop comes      *)
(* after: no start is written once the operator is gone, and a connection  *)
(* that becomes the entry has been sent none.                              *)

\* The session's own operator ended it, and the attempt to send the stop is made.
Completed(s) == endPc[s] \in {"registry", "row", "done"} /\ endStatus[s] = "completed"

\* The stop of s comes after place i of what the device has still to read.
StopAfter(c, s, i) == \E j \in DOMAIN inbox[c] : j > i /\ inbox[c][j] = Stop(s)

LetGoIsEmpty == \A c \in Conns : ~link[c] => inbox[c] = <<>> /\ capturing[c] = None

UnregisteredIsIdle ==
    \A c \in Conns : aPc[c] \in {"new", "welcome", "register"} =>
        /\ capturing[c] = None
        /\ \A i \in DOMAIN inbox[c] : inbox[c][i].type # "start_session"

CompletedIsOver ==
    \A s \in Sessions : endPc[s] # "idle" /\ endStatus[s] = "completed" =>
        vPc[s] \in {"ending", "done"}

Follows(c, s) ==
    /\ capturing[c] = s => StopAfter(c, s, 0)
    /\ \A i \in DOMAIN inbox[c] : inbox[c][i] = Start(s) => StopAfter(c, s, i)

StopFollows ==
    \A c \in Conns, s \in Sessions :
        Completed(s) /\ agents[vDev[s]] = c => Follows(c, s)

StopInv == LetGoIsEmpty /\ UnregisteredIsIdle /\ CompletedIsOver /\ StopFollows

\* Before anything is sent.
LEMMA StopInitial == RelayInit => StopInv
  BY DEF RelayInit, StopInv, LetGoIsEmpty, UnregisteredIsIdle, CompletedIsOver,
         StopFollows, Completed

\* A connection the device let go of gets no frames and captures nothing.
LEMMA LetGoStep ==
  TypeInv /\ StopInv /\ [RelayNext]_vars => LetGoIsEmpty'
<1> SUFFICES ASSUME TypeInv, StopInv, [RelayNext]_vars, NEW k \in Conns, ~link'[k]
             PROVE  inbox'[k] = <<>> /\ capturing'[k] = None
  BY DEF LetGoIsEmpty
<1> USE DEF TypeInv, RelayTypeOK, StopInv, LetGoIsEmpty, deviceVars, vars
<1>1. ASSUME NEW c \in Conns, AgentSide(c)
      PROVE  inbox'[k] = <<>> /\ capturing'[k] = None
  BY <1>1
  DEF AgentSide, AgentStep, Dial, Abandon, Receive, SendWelcome, WelcomeFails,
      RegisterAgent, EvictPrevious, AgentOnline, StatusOnline, ReadAgentEnds,
      UnregisterAgent, TerminateViewer, ViewerTerminated, AgentOffline,
      StatusOffline, AStep
<1>2. ASSUME NEW s \in Sessions, ViewerSide(s) \/ EndStep(s)
      PROVE  inbox'[k] = <<>> /\ capturing'[k] = None
  <2>1. link' = link /\ capturing' = capturing
        /\ (inbox' = inbox \/ inbox' = Sent(vDev[s], Start(s))
                \/ inbox' = Sent(vDev[s], Stop(s)))
    BY <1>2
    DEF ViewerSide, ViewerStep, OpenSession, ClaimDevice, ClaimRefused,
        RegisterViewer, EvictViewer, OpenRow, StartSession, StartFails,
        ReadViewerEnds, CompleteSession, SessionServed, EndStep, EndStop,
        EndRegistry, EndRow
  <2> QED
    BY <2>1 DEF Sent
<1>3. CASE UNCHANGED vars
  BY <1>3
<1> QED
  BY <1>1, <1>2, <1>3 DEF RelayNext, AgentSide, ViewerSide, Quiet

\* A connection that is not yet the entry is sent nothing but its Welcome.
LEMMA UnregisteredStep ==
  TypeInv /\ AgentsInv /\ ViewersInv /\ StopInv /\ [RelayNext]_vars
      => UnregisteredIsIdle'
<1> SUFFICES ASSUME TypeInv, AgentsInv, ViewersInv, StopInv, [RelayNext]_vars,
                    NEW k \in Conns, aPc'[k] \in {"new", "welcome", "register"}
             PROVE  /\ capturing'[k] = None
                    /\ \A i \in DOMAIN inbox'[k] :
                           inbox'[k][i].type # "start_session"
  BY DEF UnregisteredIsIdle
<1> DEFINE Idle == /\ capturing'[k] = None
                   /\ \A i \in DOMAIN inbox'[k] :
                          inbox'[k][i].type # "start_session"
<1> USE DEF TypeInv, RelayTypeOK, PlacesInv, StopInv, UnregisteredIsIdle,
        agentVars, deviceVars, vars
<1>1. ASSUME NEW c \in Conns, AgentSide(c) PROVE Idle
  <2>1. aPc[k] \in {"new", "welcome", "register"}
    BY <1>1
    DEF AgentSide, AgentStep, Dial, Abandon, Receive, SendWelcome, WelcomeFails,
        RegisterAgent, EvictPrevious, AgentOnline, StatusOnline, ReadAgentEnds,
        UnregisterAgent, TerminateViewer, ViewerTerminated, AgentOffline,
        StatusOffline, AStep
  <2>2. CASE SendWelcome(c)
    <3>1. inbox'[k] = inbox[k] \/ inbox'[k] = Append(inbox[k], Welcome)
      BY <2>2 DEF SendWelcome
    <3>2. Welcome.type # "start_session" /\ inbox[k] \in Seq(Frames)
          /\ capturing' = capturing
      BY <2>2 DEF SendWelcome, Welcome
    <3>3. \A i \in DOMAIN Append(inbox[k], Welcome) :
             \/ Append(inbox[k], Welcome)[i] = Welcome
             \/ i \in DOMAIN inbox[k] /\ Append(inbox[k], Welcome)[i] = inbox[k][i]
      BY <3>2
    <3>4. CASE inbox'[k] = inbox[k]
      BY <2>1, <3>2, <3>4
    <3>5. CASE inbox'[k] = Append(inbox[k], Welcome)
      <4>1. ASSUME NEW i \in DOMAIN inbox'[k]
            PROVE  inbox'[k][i].type # "start_session"
        BY <2>1, <3>2, <3>3, <3>5
      <4> QED
        BY <2>1, <3>2, <4>1
    <3> QED
      BY <3>1, <3>4, <3>5
  <2>3. CASE Receive(c) /\ c = k
    <3>1. inbox[k] # <<>> /\ inbox[k] \in Seq(Frames) /\ inbox'[k] = Tail(inbox[k])
      BY <2>3 DEF Receive
    <3>2. 1 \in DOMAIN inbox[k] /\ Head(inbox[k]) = inbox[k][1]
      BY <3>1
    <3>3. Head(inbox[k]).type # "start_session" /\ capturing[k] = None
      BY <2>1, <3>2
    <3>4. capturing'[k] = None
      BY <2>3, <3>3 DEF Receive
    <3>5. \A i \in DOMAIN Tail(inbox[k]) :
             i + 1 \in DOMAIN inbox[k] /\ Tail(inbox[k])[i] = inbox[k][i + 1]
      BY <3>1
    <3> QED
      BY <2>1, <3>1, <3>4, <3>5
  <2>4. CASE Abandon(c) /\ c = k
    BY <2>4 DEF Abandon
  <2>5. CASE ~SendWelcome(c) /\ ~(Receive(c) /\ c = k) /\ ~(Abandon(c) /\ c = k)
    <3>1. inbox'[k] = inbox[k] /\ capturing'[k] = capturing[k]
      BY <1>1, <2>5
      DEF AgentSide, AgentStep, Dial, Abandon, Receive, WelcomeFails,
          RegisterAgent, EvictPrevious, AgentOnline, StatusOnline, ReadAgentEnds,
          UnregisterAgent, TerminateViewer, ViewerTerminated, AgentOffline,
          StatusOffline
    <3> QED
      BY <2>1, <3>1
  <2> QED
    BY <2>2, <2>3, <2>4, <2>5
<1>2. ASSUME NEW s \in Sessions, ViewerSide(s) \/ EndStep(s) PROVE Idle
  <2>1. /\ aPc' = aPc /\ capturing' = capturing
        /\ \/ inbox' = inbox
           \/ /\ vDev[s] \in Devices
              /\ inbox' \in {Sent(vDev[s], Start(s)), Sent(vDev[s], Stop(s))}
    <3>1. CASE StartSession(s)
      BY <3>1 DEF StartSession, VStep
    <3>2. CASE EndStop(s)
      BY <3>2 DEF EndStop, ViewersInv, OnlyRegisteredEnd, Registered
    <3>3. CASE ~StartSession(s) /\ ~EndStop(s)
      BY <1>2, <3>3
      DEF ViewerSide, ViewerStep, OpenSession, ClaimDevice, ClaimRefused,
          RegisterViewer, EvictViewer, OpenRow, StartFails, ReadViewerEnds,
          CompleteSession, SessionServed, EndStep, EndRegistry, EndRow
    <3> QED
      BY <3>1, <3>2, <3>3
  <2>2. inbox'[k] = inbox[k]
    BY <2>1, SentSparesHandshakes
  <2> QED
    BY <2>1, <2>2
<1>3. CASE UNCHANGED vars
  BY <1>3
<1> QED
  BY <1>1, <1>2, <1>3 DEF RelayNext, AgentSide, ViewerSide, Quiet

\* Only a session whose operator is gone is ended as completed.
LEMMA CompletedStep ==
  TypeInv /\ StopInv /\ [RelayNext]_vars => CompletedIsOver'
<1> SUFFICES ASSUME TypeInv, StopInv, [RelayNext]_vars,
                    NEW t \in Sessions, endPc'[t] # "idle", endStatus'[t] = "completed"
             PROVE  vPc'[t] \in {"ending", "done"}
  BY DEF CompletedIsOver
<1> USE DEF TypeInv, RelayTypeOK, StopInv, CompletedIsOver, viewerVars, endVars, vars
<1>1. ASSUME NEW c \in Conns, AgentSide(c) PROVE vPc'[t] \in {"ending", "done"}
  <2>1. /\ vPc' = vPc
        /\ \/ endStatus' = endStatus /\ endPc' = endPc
           \/ /\ endStatus' = [endStatus EXCEPT ![aViewer[c]] = "terminated"]
              /\ endPc' = [endPc EXCEPT ![aViewer[c]] = "stop"]
    BY <1>1
    DEF AgentSide, AgentStep, Dial, Abandon, Receive, SendWelcome, WelcomeFails,
        RegisterAgent, EvictPrevious, AgentOnline, StatusOnline, ReadAgentEnds,
        UnregisterAgent, TerminateViewer, ViewerTerminated, AgentOffline,
        StatusOffline, BeginEnd
  <2> QED
    BY <2>1
<1>2. ASSUME NEW s \in Sessions, ViewerSide(s) PROVE vPc'[t] \in {"ending", "done"}
  BY <1>2
  DEF ViewerSide, ViewerStep, OpenSession, ClaimDevice, ClaimRefused,
      RegisterViewer, EvictViewer, OpenRow, StartSession, StartFails,
      ReadViewerEnds, CompleteSession, SessionServed, BeginEnd, VStep
<1>3. ASSUME NEW s \in Sessions, EndStep(s) PROVE vPc'[t] \in {"ending", "done"}
  BY <1>3 DEF EndStep, EndStop, EndRegistry, EndRow
<1>4. CASE UNCHANGED vars
  BY <1>4
<1> QED
  BY <1>1, <1>2, <1>3, <1>4 DEF RelayNext, AgentSide, ViewerSide, Quiet

\* Sequences: what is after the first frame, and what Append leaves in place.
LEMMA TailShifts ==
  ASSUME NEW q \in Seq(Frames), q # <<>>
  PROVE  /\ 1 \in DOMAIN q /\ Head(q) = q[1] /\ Head(q) \in Frames
         /\ \A i \in DOMAIN Tail(q) : i + 1 \in DOMAIN q /\ Tail(q)[i] = q[i + 1]
         /\ \A j \in DOMAIN q : j > 1 => j - 1 \in DOMAIN Tail(q) /\ Tail(q)[j - 1] = q[j]
         /\ DOMAIN q \subseteq Nat
  OBVIOUS

LEMMA AppendKeeps ==
  ASSUME NEW q \in Seq(Frames), NEW f \in Frames
  PROVE  /\ \A i \in DOMAIN Append(q, f) :
                \/ i \in DOMAIN q /\ Append(q, f)[i] = q[i]
                \/ i = Len(q) + 1 /\ Append(q, f)[i] = f
         /\ \A i \in DOMAIN q : i \in DOMAIN Append(q, f) /\ Append(q, f)[i] = q[i]
         /\ Len(q) + 1 \in DOMAIN Append(q, f) /\ Append(q, f)[Len(q) + 1] = f
         /\ \A i \in DOMAIN q : Len(q) + 1 > i
         /\ Len(q) + 1 > 0
  OBVIOUS

\* Frames for other sessions change nothing.
LEMMA AppendFollows ==
  ASSUME RelayTypeOK, NEW c \in Conns, NEW s \in Sessions, NEW f \in Frames, f # Start(s),
         Follows(c, s), capturing'[c] = capturing[c], inbox'[c] = Append(inbox[c], f)
  PROVE  Follows(c, s)'
<1>1. inbox[c] \in Seq(Frames)
  BY DEF RelayTypeOK
<1>2. \A i : StopAfter(c, s, i) => StopAfter(c, s, i)'
  BY <1>1, AppendKeeps DEF StopAfter
<1>3. \A i \in DOMAIN inbox'[c] : inbox'[c][i] = Start(s) =>
          i \in DOMAIN inbox[c] /\ inbox[c][i] = Start(s)
  BY <1>1, AppendKeeps
<1> QED
  BY <1>2, <1>3 DEF Follows, StopAfter

\* After a stop for s everything is followed by it.
LEMMA StopAppended ==
  ASSUME RelayTypeOK, NEW c \in Conns, NEW s \in Sessions,
         inbox'[c] = Append(inbox[c], Stop(s))
  PROVE  Follows(c, s)'
<1>1. inbox[c] \in Seq(Frames) /\ Stop(s) \in Frames /\ Stop(s) # Start(s)
  <2>1. Stop(s).type # Start(s).type
    BY DEF Stop, Start
  <2> QED
    BY <2>1 DEF RelayTypeOK, Stop, Frames
<1>2. \A i \in DOMAIN inbox[c] : StopAfter(c, s, i)'
  BY <1>1, AppendKeeps DEF StopAfter
<1>3. StopAfter(c, s, 0)'
  BY <1>1, AppendKeeps DEF StopAfter
<1>4. \A i \in DOMAIN inbox'[c] : inbox'[c][i] = Start(s) => i \in DOMAIN inbox[c]
  BY <1>1, AppendKeeps
<1> QED
  BY <1>2, <1>3, <1>4 DEF Follows, StopAfter

\* What the device reads next is the start of s, its stop, or neither.
LEMMA ReceiveFollows ==
  ASSUME RelayTypeOK, NEW c \in Conns, NEW s \in Sessions, Receive(c), Follows(c, s)
  PROVE  Follows(c, s)'
<1> DEFINE q == inbox[c]
           m == Head(q)
<1>1. q \in Seq(Frames) /\ q # <<>> /\ inbox'[c] = Tail(q) /\ m \in Frames
  BY TailShifts DEF Receive, RelayTypeOK
<1>2. \A i \in Nat : i > 0 /\ StopAfter(c, s, i) => StopAfter(c, s, i - 1)'
  <2>1. SUFFICES ASSUME NEW i \in Nat, i > 0, NEW j \in DOMAIN q, j > i, q[j] = Stop(s)
                 PROVE  StopAfter(c, s, i - 1)'
    BY DEF StopAfter
  <2>2. j \in Nat /\ j > 1 /\ j - 1 > i - 1
    BY <1>1, <2>1, TailShifts
  <2>3. j - 1 \in DOMAIN Tail(q) /\ Tail(q)[j - 1] = Stop(s)
    BY <1>1, <2>1, <2>2, TailShifts
  <2> QED
    BY <1>1, <2>2, <2>3 DEF StopAfter
<1>3. ASSUME NEW i \in DOMAIN inbox'[c], inbox'[c][i] = Start(s)
      PROVE  StopAfter(c, s, i)'
  <2>1. i + 1 \in DOMAIN q /\ q[i + 1] = Start(s) /\ i + 1 \in Nat /\ i \in Nat
    BY <1>1, <1>3, TailShifts
  <2>2. StopAfter(c, s, i + 1)
    BY <2>1 DEF Follows
  <2>3. StopAfter(c, s, (i + 1) - 1)'
    BY <1>2, <2>1, <2>2
  <2>4. (i + 1) - 1 = i
    BY <2>1
  <2> QED
    BY <2>3, <2>4
<1>4. ASSUME capturing'[c] = s
      PROVE  StopAfter(c, s, 0)'
  <2>1. s # None
    BY PresenceAssumption
  <2>2. capturing'[c] = IF m.type = "start_session" THEN m.session
                        ELSE IF m.type = "stop_session" /\ capturing[c] = m.session THEN None
                        ELSE capturing[c]
    BY DEF Receive, RelayTypeOK
  <2>3. CASE m = Start(s)
    <3>1. 1 \in DOMAIN q /\ q[1] = Start(s)
      BY <1>1, <2>3, TailShifts
    <3>2. StopAfter(c, s, 1)
      BY <3>1 DEF Follows
    <3> QED
      BY <1>2, <3>2
  <2>4. CASE m # Start(s)
    <3>1. m.type # "start_session"
      <4>1. SUFFICES ASSUME m.type = "start_session" PROVE m = Start(s)
        BY <2>4
      <4>2. m.session = s
        BY <1>4, <2>2, <4>1
      <4>3. m \in [type : {"start_session", "stop_session"}, session : Sessions]
        BY <1>1, <4>1 DEF Frames, Welcome
      <4> QED
        BY <4>1, <4>2, <4>3 DEF Start
    <3>2. capturing[c] = s /\ m # Stop(s)
      BY <1>4, <2>1, <2>2, <3>1 DEF Stop
    <3>3. PICK j \in DOMAIN q : j > 0 /\ q[j] = Stop(s)
      BY <3>2 DEF Follows, StopAfter
    <3>4. j \in Nat /\ j # 1
      BY <1>1, <3>2, <3>3, TailShifts
    <3>5. j > 1
      BY <3>3, <3>4
    <3>6. j - 1 \in DOMAIN Tail(q) /\ Tail(q)[j - 1] = Stop(s) /\ j - 1 > 0
      BY <1>1, <3>3, <3>4, <3>5, TailShifts
    <3> QED
      BY <1>1, <3>6 DEF StopAfter
  <2> QED
    BY <2>3, <2>4
<1> QED
  BY <1>3, <1>4 DEF Follows

\* A step of a connection makes no session completed and, where the entry is the
\* one before, leaves its frames alone, lets go of it, or is a read.
LEMMA ConnectionStopFollows ==
  ASSUME TypeInv, AgentsInv, StopInv, NEW c \in Conns, AgentSide(c)
  PROVE  StopFollows'
<1> SUFFICES ASSUME NEW k \in Conns, NEW s \in Sessions, Completed(s)', agents'[vDev'[s]] = k
             PROVE  Follows(k, s)'
  BY DEF StopFollows
<1> USE DEF TypeInv, RelayTypeOK, viewerVars, endVars, hubVars, deviceVars, vars
<1>1. vDev' = vDev
  BY DEF AgentSide, AgentStep, Dial, Abandon, Receive, SendWelcome, WelcomeFails,
         RegisterAgent, EvictPrevious, AgentOnline, StatusOnline, ReadAgentEnds,
         UnregisterAgent, TerminateViewer, ViewerTerminated, AgentOffline,
         StatusOffline
<1>2. Completed(s)
  BY DEF AgentSide, AgentStep, Dial, Abandon, Receive, SendWelcome, WelcomeFails,
         RegisterAgent, EvictPrevious, AgentOnline, StatusOnline, ReadAgentEnds,
         UnregisterAgent, TerminateViewer, ViewerTerminated, AgentOffline,
         StatusOffline, BeginEnd, Completed
<1>3. vDev[s] \in Devices
  BY <1>2 DEF Completed, StopInv, CompletedIsOver, PlacesInv
<1>4. CASE RegisterAgent(c) /\ k = c
  <2>1. capturing[c] = None /\ \A i \in DOMAIN inbox[c] : inbox[c][i].type # "start_session"
    BY <1>4 DEF RegisterAgent, AStep, StopInv, UnregisteredIsIdle
  <2>2. capturing' = capturing /\ inbox' = inbox
    BY <1>4 DEF RegisterAgent
  <2>3. Start(s).type = "start_session"
    BY DEF Start
  <2>4. s # None
    BY PresenceAssumption
  <2> QED
    BY <1>4, <2>1, <2>2, <2>3, <2>4 DEF Follows
<1>5. CASE ~(RegisterAgent(c) /\ k = c)
  <2>1. agents[vDev[s]] = k
    <3>1. CASE RegisterAgent(c)
      BY <1>1, <1>3, <1>5, <3>1 DEF RegisterAgent, AStep
    <3>2. CASE UnregisterAgent(c)
      BY <1>1, <1>3, <3>2, RelayAssumption DEF UnregisterAgent
    <3>3. CASE ~RegisterAgent(c) /\ ~UnregisterAgent(c)
      BY <1>1, <3>3
      DEF AgentSide, AgentStep, Dial, Abandon, Receive, SendWelcome, WelcomeFails,
          EvictPrevious, AgentOnline, StatusOnline, ReadAgentEnds,
          TerminateViewer, ViewerTerminated, AgentOffline, StatusOffline
    <3> QED
      BY <3>1, <3>2, <3>3
  <2>2. Follows(k, s)
    BY <1>2, <2>1 DEF StopInv, StopFollows
  <2>3. CASE Receive(c) /\ k = c
    BY <2>2, <2>3, ReceiveFollows
  <2>4. CASE Abandon(c) /\ k = c
    <3>1. inbox'[k] = <<>> /\ capturing'[k] = None
      BY <2>4 DEF Abandon
    <3> QED
      BY <3>1, PresenceAssumption DEF Follows
  <2>5. CASE SendWelcome(c) /\ k = c /\ link[c]
    <3>1. inbox'[k] = Append(inbox[k], Welcome) /\ capturing'[k] = capturing[k]
      BY <2>5 DEF SendWelcome
    <3>2. Welcome \in Frames /\ Welcome # Start(s)
      <4>1. Welcome.type # Start(s).type
        BY DEF Welcome, Start
      <4> QED
        BY <4>1 DEF Frames
    <3> QED
      BY <2>2, <3>1, <3>2, AppendFollows
  <2>6. CASE /\ ~(Receive(c) /\ k = c) /\ ~(Abandon(c) /\ k = c)
             /\ ~(SendWelcome(c) /\ k = c /\ link[c])
    <3>1. inbox'[k] = inbox[k] /\ capturing'[k] = capturing[k]
      BY <2>6
      DEF AgentSide, AgentStep, Dial, Abandon, Receive, SendWelcome, WelcomeFails,
          RegisterAgent, EvictPrevious, AgentOnline, StatusOnline, ReadAgentEnds,
          UnregisterAgent, TerminateViewer, ViewerTerminated, AgentOffline,
          StatusOffline
    <3> QED
      BY <2>2, <3>1 DEF Follows, StopAfter
  <2> QED
    BY <2>3, <2>4, <2>5, <2>6
<1> QED
  BY <1>4, <1>5

\* A step of an operator's goroutine or of endSession sends a start for a session
\* that is not over, or a stop.
LEMMA SessionStopFollows ==
  ASSUME TypeInv, AgentsInv, ViewersInv, StopInv, NEW t \in Sessions,
         ViewerSide(t) \/ EndStep(t)
  PROVE  StopFollows'
<1> SUFFICES ASSUME NEW k \in Conns, NEW s \in Sessions, Completed(s)', agents'[vDev'[s]] = k
             PROVE  Follows(k, s)'
  BY DEF StopFollows
<1> USE DEF TypeInv, RelayTypeOK, viewerVars, endVars, hubVars, deviceVars, vars
<1>1. agents' = agents /\ capturing' = capturing /\ link' = link
  BY DEF ViewerSide, ViewerStep, OpenSession, ClaimDevice, ClaimRefused,
         RegisterViewer, EvictViewer, OpenRow, StartSession, StartFails,
         ReadViewerEnds, CompleteSession, SessionServed, EndStep, EndStop,
         EndRegistry, EndRow
<1>2. CASE EndStop(t)
  <2> DEFINE d == vDev[t]
  <2>1. /\ d \in Devices /\ inbox' = Sent(d, Stop(t)) /\ vDev' = vDev
        /\ s # t => Completed(s)
    BY <1>2 DEF EndStop, ViewersInv, OnlyRegisteredEnd, Registered, PlacesInv, Completed
  <2>2. agents[vDev[s]] = k
    BY <1>1, <2>1
  <2>3. CASE CanSend(d) /\ link[agents[d]] /\ agents[d] = k
    <3>1. inbox'[k] = Append(inbox[k], Stop(t))
      BY <2>1, <2>3 DEF Sent
    <3>2. CASE s = t
      BY <3>1, <3>2, StopAppended
    <3>3. CASE s # t
      <4>1. Follows(k, s)
        BY <2>1, <2>2, <3>3 DEF StopInv, StopFollows
      <4>2. Stop(t) \in Frames /\ Stop(t) # Start(s)
        <5>1. Stop(t).type # Start(s).type
          BY DEF Stop, Start
        <5> QED
          BY <5>1 DEF Frames, Stop
      <4> QED
        BY <1>1, <3>1, <4>1, <4>2, AppendFollows
    <3> QED
      BY <3>2, <3>3
  <2>4. CASE ~(CanSend(d) /\ link[agents[d]] /\ agents[d] = k)
    <3>1. inbox'[k] = inbox[k]
      BY <2>1, <2>4 DEF Sent
    <3>2. CASE s = t
      <4>1. CanSend(d)
        BY <2>1, <2>2, <3>2, RelayAssumption DEF CanSend, AgentsInv, AgentEntryIsLive
      <4>2. ~link[k]
        BY <2>2, <2>4, <3>2, <4>1
      <4>3. inbox[k] = <<>> /\ capturing[k] = None
        BY <4>2 DEF StopInv, LetGoIsEmpty
      <4> QED
        BY <1>1, <3>1, <4>3, PresenceAssumption DEF Follows
    <3>3. CASE s # t
      <4>1. Follows(k, s)
        BY <2>1, <2>2, <3>3 DEF StopInv, StopFollows
      <4> QED
        BY <1>1, <3>1, <4>1 DEF Follows, StopAfter
    <3> QED
      BY <3>2, <3>3
  <2> QED
    BY <2>3, <2>4
<1>3. CASE ~EndStop(t)
  <2>1. Completed(s)
    BY <1>3
    DEF ViewerSide, ViewerStep, OpenSession, ClaimDevice, ClaimRefused,
        RegisterViewer, EvictViewer, OpenRow, StartSession, StartFails,
        ReadViewerEnds, CompleteSession, SessionServed, BeginEnd, EndStep,
        EndRegistry, EndRow, Completed
  <2>2. vPc[s] \in {"ending", "done"}
    BY <2>1 DEF Completed, StopInv, CompletedIsOver
  <2>3. vDev'[s] = vDev[s]
    BY <1>3, <2>2
    DEF ViewerSide, ViewerStep, OpenSession, ClaimDevice, ClaimRefused,
        RegisterViewer, EvictViewer, OpenRow, StartSession, StartFails,
        ReadViewerEnds, CompleteSession, SessionServed, EndStep,
        EndRegistry, EndRow, VStep
  <2>4. Follows(k, s)
    BY <1>1, <2>1, <2>3 DEF StopInv, StopFollows
  <2>5. CASE StartSession(t)
    <3>1. s # t /\ inbox' = Sent(vDev[t], Start(t)) /\ vDev[t] \in Devices
      BY <2>2, <2>5 DEF StartSession, VStep, PlacesInv
    <3>2. CASE inbox'[k] = inbox[k]
      BY <1>1, <2>4, <3>2 DEF Follows, StopAfter
    <3>3. CASE inbox'[k] # inbox[k]
      <4>1. inbox'[k] = Append(inbox[k], Start(t))
        BY <3>1, <3>3 DEF Sent
      <4>2. Start(t) \in Frames /\ Start(t) # Start(s)
        <5>1. Start(t).session # Start(s).session
          BY <3>1 DEF Start
        <5> QED
          BY <5>1 DEF Frames, Start
      <4> QED
        BY <1>1, <2>4, <4>1, <4>2, AppendFollows
    <3> QED
      BY <3>2, <3>3
  <2>6. CASE ~StartSession(t)
    <3>1. inbox' = inbox
      BY <1>3, <2>6
      DEF ViewerSide, ViewerStep, OpenSession, ClaimDevice, ClaimRefused,
          RegisterViewer, EvictViewer, OpenRow, StartFails,
          ReadViewerEnds, CompleteSession, SessionServed, EndStep,
          EndRegistry, EndRow
    <3> QED
      BY <1>1, <2>4, <3>1 DEF Follows, StopAfter
  <2> QED
    BY <2>5, <2>6
<1> QED
  BY <1>2, <1>3

\* The four parts together.
LEMMA StopStep ==
  TypeInv /\ AgentsInv /\ ViewersInv /\ StopInv /\ [RelayNext]_vars => StopInv'
<1> SUFFICES ASSUME TypeInv, AgentsInv, ViewersInv, StopInv, [RelayNext]_vars
             PROVE  StopFollows'
  BY LetGoStep, UnregisteredStep, CompletedStep DEF StopInv
<1>1. CASE UNCHANGED vars
  BY <1>1
  DEF StopInv, StopFollows, Completed, Follows, StopAfter, vars, hubVars, viewerVars,
      endVars, deviceVars
<1> QED
  BY <1>1, ConnectionStopFollows, SessionStopFollows
  DEF RelayNext, AgentSide, ViewerSide, Quiet

\* A capture that outlives the session its operator ended has the stop on its
\* way, whatever the device's connections do (session.go:380-396).
THEOREM CompletedCaptureHasStopAlways == RelaySpec => []CompletedCaptureHasStop
<1>1. StopInv => CompletedCaptureHasStop
  BY DEF StopInv, StopFollows, Completed, Follows, StopAfter, CompletedCaptureHasStop
<1> QED
  BY <1>1, StopInitial, StopStep, RelayTypes, AgentsInvariant, ViewersInvariant, PTL
  DEF RelaySpec
============================================================================
