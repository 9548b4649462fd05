------------------------------- MODULE Viewer -------------------------------
(***************************************************************************)
(* One operator watching one device: the page's ScreenViewer with its      *)
(* attempts, the SessionConnection of each (frontend api/session.ts, the   *)
(* answerer), and the device's VP8Session (Android webrtc/session.ts, the  *)
(* offerer), negotiating through the backend.                              *)
(*                                                                         *)
(* An attempt is one run of ScreenViewer's effect; Retry starts the next.  *)
(* The backend is the path between them (module Relay has its detail): the *)
(* device's single slot, one stop_session per session before the slot is   *)
(* free, and routing by device alone, so that what a session sends late    *)
(* reaches the next viewer.  A session is named by the attempt it serves.  *)
(*                                                                         *)
(* A promise of a closed RTCPeerConnection never settles in the browser;   *)
(* in react-native it may.  Frames on a socket that was closed are not     *)
(* delivered.  Abstracted: the terminal, statistics, screenshots, and what *)
(* the SDP and the candidates say.                                         *)
(***************************************************************************)
EXTENDS Naturals, Sequences

CONSTANTS LastAttempt,      \* bound: attempts made
          MaxCands,         \* bound: candidates gathered, on both sides
          MaxFaults         \* bound: what goes wrong of itself

ASSUME ViewerAssumption ==
    LastAttempt \in Nat \ {0} /\ MaxCands \in Nat /\ MaxFaults \in Nat

Attempts == 1..LastAttempt

VARIABLES
    cur,        \* the mounted attempt, 0 when the page was left
    ui,         \* what ScreenViewer shows
    conn,       \* SessionConnection of each attempt
    agent,      \* VP8Session of each attempt
    session,    \* the device's current session, or 0
    slot,       \* the attempt that holds the device, or 0
    online,     \* the backend has a connection of the device
    down, up,   \* frames on each attempt's socket, from and to the backend
    toAgent, fromAgent,     \* frames on the device's socket
    cands, faults           \* how many there were so far

vars == <<cur, ui, conn, agent, session, slot, online, down, up, toAgent,
          fromAgent, cands, faults>>

FreshUI == [state |-> "connecting", error |-> FALSE, playing |-> FALSE]

\* offer[s]: how far onOffer is with the offer of session s.
FreshConn ==
    [ws |-> "none", closed |-> FALSE, named |-> FALSE, peer |-> FALSE,
     remote |-> FALSE, pending |-> {}, applied |-> {},
     offer |-> [s \in Attempts |-> "none"]]

\* answer[r]: how far handleAnswer is with the answer to session r's offer.
FreshAgent ==
    [at |-> "none", closed |-> FALSE, capturing |-> FALSE, remote |-> FALSE,
     pending |-> {}, flush |-> {}, applied |-> {},
     answer |-> [r \in Attempts |-> "none"]]

Init ==
    /\ cur = 1 /\ ui = FreshUI
    /\ conn = [k \in Attempts |->
                  [FreshConn EXCEPT !.ws = IF k = 1 THEN "fetching" ELSE "none"]]
    /\ agent = [s \in Attempts |-> FreshAgent]
    /\ session = 0 /\ slot = 0 /\ online = TRUE
    /\ down = [k \in Attempts |-> <<>>] /\ up = [k \in Attempts |-> <<>>]
    /\ toAgent = <<>> /\ fromAgent = <<>> /\ cands = 0 /\ faults = 0

\* A frame: its type, the session that sent it or it is for, a number.
Frame(t, s) == [type |-> t, of |-> s, n |-> 0]
Cand(s, i)  == [type |-> "candidate", of |-> s, n |-> i]

\* The handlers of an attempt reach the page until it is closed.
Show(k, new) == ui' = IF conn[k].closed THEN ui ELSE new

browserVars == <<cur, ui, conn>>
agentVars   == <<agent, session>>
serverVars  == <<slot, online, down, up, toAgent, fromAgent>>

----------------------------------------------------------------------------
(* The page.                                                               *)

\* SessionConnection.close.
Closed(k) ==
    [conn[k] EXCEPT !.closed = TRUE, !.peer = FALSE,
        !.ws = IF @ \in {"opening", "open"} THEN "closing" ELSE @]

\* A socket that was open says so to the backend.
Goodbye(k) ==
    up' = IF conn[k].ws = "open"
          THEN [up EXCEPT ![k] = Append(@, Frame("bye", k))] ELSE up

Leave ==
    /\ cur # 0
    /\ conn' = [conn EXCEPT ![cur] = Closed(cur)]
    /\ Goodbye(cur)
    /\ cur' = 0
    /\ UNCHANGED <<ui, agentVars, slot, online, down, toAgent, fromAgent>>

\* The effect's cleanup, then the effect again.
Retry ==
    /\ cur \in 1..(LastAttempt - 1) /\ ui.error
    /\ conn' = [conn EXCEPT ![cur] = Closed(cur), ![cur + 1].ws = "fetching"]
    /\ Goodbye(cur)
    /\ cur' = cur + 1
    /\ ui' = FreshUI
    /\ UNCHANGED <<agentVars, slot, online, down, toAgent, fromAgent>>

\* getIceConfig has settled.
Dial(k) ==
    /\ conn[k].ws = "fetching"
    /\ conn' = [conn EXCEPT ![k].ws = IF conn[k].closed THEN "closed"
                                      ELSE "opening"]
    /\ UNCHANGED <<cur, ui, agentVars, serverVars>>

\* The last frame of a socket: onclose.
OnClose(k, why) ==
    /\ conn' = [conn EXCEPT ![k].ws = "closed"]
    /\ Show(k, [ui EXCEPT !.state = "closed",
                          !.error = @ \/ why = "busy" \/ ~conn[k].named])

EnsurePeer(k) == [conn[k] EXCEPT !.peer = TRUE, !.named = TRUE]

OnSessionReady(k) ==
    /\ conn' = [conn EXCEPT ![k] = EnsurePeer(k)]
    /\ Show(k, [ui EXCEPT !.state = "negotiating"])

OnOffer(k, s) ==
    /\ conn' = [conn EXCEPT ![k] = [EnsurePeer(k) EXCEPT !.offer[s] = "setting"]]
    /\ UNCHANGED ui

OnCandidate(k, c) ==
    /\ conn' = IF conn[k].remote THEN [conn EXCEPT ![k].applied = @ \cup {c}]
               ELSE [conn EXCEPT ![k].pending = @ \cup {c}]
    /\ UNCHANGED ui

OnError(k) == Show(k, [ui EXCEPT !.error = TRUE]) /\ UNCHANGED conn

BrowserReceives(k) ==
    /\ down[k] # <<>>
    /\ down' = [down EXCEPT ![k] = Tail(@)]
    /\ LET f == Head(down[k]) IN
       IF f.type \in {"busy", "end"} THEN OnClose(k, f.type)
       ELSE IF conn[k].ws # "open" THEN UNCHANGED <<ui, conn>>
       ELSE CASE f.type = "ready"     -> OnSessionReady(k)
              [] f.type = "offer"     -> OnOffer(k, f.of)
              [] f.type = "candidate" -> OnCandidate(k, f)
              [] f.type = "error"     -> OnError(k)
    /\ UNCHANGED <<cur, agentVars, slot, online, up, toAgent, fromAgent>>

----------------------------------------------------------------------------
(* onOffer, await by await.                                                *)

\* send: dropped unless the socket is open.
Send(k, f) ==
    up' = IF conn[k].ws = "open" THEN [up EXCEPT ![k] = Append(@, f)] ELSE up

Awaits(k, s, place) == conn[k].peer /\ conn[k].offer[s] = place

\* The pc takes one description at a time.
Idle(k) == \A s \in Attempts : conn[k].offer[s] \notin {"flushing", "answering"}

SetOffer(k, s) ==
    /\ Awaits(k, s, "setting") /\ Idle(k)
    /\ conn' = [conn EXCEPT ![k].offer[s] = "flushing", ![k].remote = TRUE]
    /\ UNCHANGED <<cur, ui, agentVars, serverVars>>

FlushOne(k, s) ==
    /\ Awaits(k, s, "flushing")
    /\ \E c \in conn[k].pending \ conn[k].applied :
          conn' = [conn EXCEPT ![k].applied = @ \cup {c}]
    /\ UNCHANGED <<cur, ui, agentVars, serverVars>>

Flushed(k, s) ==
    /\ Awaits(k, s, "flushing") /\ conn[k].pending \subseteq conn[k].applied
    /\ conn' = [conn EXCEPT ![k].pending = {}, ![k].offer[s] = "answering"]
    /\ UNCHANGED <<cur, ui, agentVars, serverVars>>

\* createAnswer and setLocalDescription.
SendAnswer(k, s) ==
    /\ Awaits(k, s, "answering")
    /\ conn' = [conn EXCEPT ![k].offer[s] = "done"]
    /\ Send(k, [Frame("answer", k) EXCEPT !.n = s])
    /\ UNCHANGED <<cur, ui, agentVars, slot, online, down, toAgent, fromAgent>>

\* Mutant: a failed negotiation is only logged.
NegotiationFails_Silently(k, s) ==
    /\ conn[k].peer /\ conn[k].offer[s] \in {"setting", "answering"}
    /\ conn' = [conn EXCEPT ![k].offer[s] = "failed"]
    /\ UNCHANGED <<cur, ui, agentVars, serverVars>>

NegotiationFails(k, s) ==
    /\ conn[k].peer /\ conn[k].offer[s] \in {"setting", "answering"}
    /\ conn' = [conn EXCEPT ![k].offer[s] = "failed"]
    /\ Show(k, [ui EXCEPT !.error = TRUE])
    /\ UNCHANGED <<cur, agentVars, serverVars>>

\* Gathering begins while the answer is being described.
BrowserGathers(k) ==
    /\ conn[k].peer
    /\ \E s \in Attempts : conn[k].offer[s] \in {"answering", "done"}
    /\ Send(k, Cand(k, cands + 1))
    /\ UNCHANGED <<browserVars, agentVars, slot, online, down, toAgent, fromAgent>>

\* Both ends hold each other's description and a candidate to try.
Paired(k) ==
    /\ conn[k].offer[k] = "done" /\ ~agent[k].closed
    /\ agent[k].answer[k] \in {"flushing", "done"}
    /\ conn[k].applied # {} \/ agent[k].applied # {}

Connected(k) ==
    /\ conn[k].peer /\ Paired(k)
    /\ Show(k, [ui EXCEPT !.state = "live"])
    /\ UNCHANGED <<cur, conn, agentVars, serverVars>>

\* The video element renders, or the peer connection gives up.
Playing(k) ==
    /\ cur = k /\ conn[k].peer /\ Paired(k) /\ ui.state = "live"
    /\ ui' = [ui EXCEPT !.playing = TRUE]
    /\ UNCHANGED <<cur, conn, agentVars, serverVars>>

Disconnects(k) ==
    /\ conn[k].peer /\ ui.state = "live"
    /\ Show(k, [ui EXCEPT !.state = "negotiating"])
    /\ UNCHANGED <<cur, conn, agentVars, serverVars>>

PeerFails(k) ==
    /\ conn[k].peer /\ \E s \in Attempts : conn[k].offer[s] = "done"
    /\ Show(k, [ui EXCEPT !.state = "failed", !.error = TRUE])
    /\ UNCHANGED <<cur, conn, agentVars, serverVars>>

----------------------------------------------------------------------------
(* The backend.                                                            *)

ToViewer(q) == down' = IF slot = 0 THEN down ELSE [down EXCEPT ![slot] = @ \o q]

\* ServeSession: refused, or the slot is taken and the device told.
Serve(k) ==
    /\ conn[k].ws = "opening"
    /\ conn' = [conn EXCEPT ![k].ws = "open"]
    /\ IF slot = 0 /\ online
       THEN /\ slot' = k
            /\ toAgent' = Append(toAgent, Frame("start", k))
            /\ UNCHANGED down
       ELSE /\ down' = [down EXCEPT ![k] = @ \o IF online
                          THEN <<Frame("error", k), Frame("busy", k)>>
                          ELSE <<Frame("end", k)>>]
            /\ UNCHANGED <<slot, toAgent>>
    /\ UNCHANGED <<cur, ui, agentVars, online, up, fromAgent>>

\* endSession, with what the viewer is told first.
EndSession(k, told) ==
    /\ toAgent' = IF online THEN Append(toAgent, Frame("stop", k)) ELSE toAgent
    /\ down' = [down EXCEPT ![k] = @ \o told \o <<Frame("end", k)>>]
    /\ slot' = 0

\* Mutant: the end of a session does not reach the device.
ServerReads_NoStop(k) ==
    /\ slot = k /\ up[k] # <<>>
    /\ up' = [up EXCEPT ![k] = Tail(@)]
    /\ IF Head(up[k]).type = "bye"
       THEN /\ down' = [down EXCEPT ![k] = Append(@, Frame("end", k))]
            /\ slot' = 0 /\ UNCHANGED toAgent
       ELSE toAgent' = Append(toAgent, Head(up[k])) /\ UNCHANGED <<slot, down>>
    /\ UNCHANGED <<browserVars, agentVars, online, fromAgent>>

\* readViewer: forwarded by device, whatever session the frame names.
ServerReads(k) ==
    /\ slot = k /\ up[k] # <<>>
    /\ up' = [up EXCEPT ![k] = Tail(@)]
    /\ IF Head(up[k]).type = "bye" \/ ~online
       THEN EndSession(k, <<>>)
       ELSE toAgent' = Append(toAgent, Head(up[k])) /\ UNCHANGED <<slot, down>>
    /\ UNCHANGED <<browserVars, agentVars, online, fromAgent>>

\* Ten minutes without a frame from the viewer.
ReadDeadline(k) ==
    /\ slot = k /\ up[k] = <<>>
    /\ EndSession(k, <<>>)
    /\ UNCHANGED <<browserVars, agentVars, online, up, fromAgent>>

Forward ==
    /\ online /\ fromAgent # <<>>
    /\ ToViewer(<<Head(fromAgent)>>)
    /\ fromAgent' = Tail(fromAgent)
    /\ UNCHANGED <<browserVars, agentVars, slot, online, up, toAgent>>

\* The device's connection is lost: its session ends with it, and
\* unregisterAgent removes it before it looks for a viewer.
DeviceLost ==
    /\ online /\ online' = FALSE
    /\ toAgent' = <<>> /\ fromAgent' = <<>>
    /\ session' = 0
    /\ agent' = [s \in Attempts |-> IF s = session
                   THEN [agent[s] EXCEPT !.closed = TRUE, !.capturing = FALSE]
                   ELSE agent[s]]
    /\ UNCHANGED <<browserVars, slot, down, up>>

TellViewer ==
    /\ ~online /\ slot # 0
    /\ EndSession(slot, <<Frame("error", slot)>>)
    /\ UNCHANGED <<browserVars, agentVars, online, up, fromAgent>>

----------------------------------------------------------------------------
(* The device.                                                             *)

AgentSends(q) == fromAgent' = IF online THEN fromAgent \o q ELSE fromAgent

CloseAgent(s) ==
    agent' = IF s = 0 THEN agent
             ELSE [agent EXCEPT ![s].closed = TRUE, ![s].capturing = FALSE]

AgentStart(s) ==
    /\ agent' = [r \in Attempts |->
          IF r = s THEN [agent[r] EXCEPT !.at = "acquiring"]
          ELSE IF r = session
          THEN [agent[r] EXCEPT !.closed = TRUE, !.capturing = FALSE]
          ELSE agent[r]]
    /\ session' = s

\* handleAnswer and handleICECandidate of the current session.
Takes(s) == s # 0 /\ agent[s].at \notin {"none", "acquiring"} /\ ~agent[s].closed

AgentAnswer(s, r) ==
    agent' = IF Takes(s) THEN [agent EXCEPT ![s].answer[r] = "setting"] ELSE agent

AgentCandidate(s, c) ==
    agent' = IF ~Takes(s) THEN agent
             ELSE IF agent[s].remote
             THEN [agent EXCEPT ![s].applied = @ \cup {c}]
             ELSE [agent EXCEPT ![s].pending = @ \cup {c}]

AgentReceives ==
    /\ online /\ toAgent # <<>>
    /\ toAgent' = Tail(toAgent)
    /\ LET f == Head(toAgent) IN
       CASE f.type = "start"     -> AgentStart(f.of)
         [] f.type = "stop"      -> CloseAgent(session) /\ session' = 0
         [] f.type = "answer"    -> AgentAnswer(session, f.n) /\ UNCHANGED session
         [] f.type = "candidate" -> AgentCandidate(session, f) /\ UNCHANGED session
    /\ UNCHANGED <<browserVars, slot, online, down, up, fromAgent>>

At(s, from, to) == agent[s].at = from /\ agent' = [agent EXCEPT ![s].at = to]

\* Consent given: a closed session stops the stream; else session_ready.
Acquired(s) ==
    /\ agent[s].at = "acquiring"
    /\ agent' = IF agent[s].closed THEN [agent EXCEPT ![s].at = "done"]
                ELSE [agent EXCEPT ![s].at = "quality", ![s].capturing = TRUE]
    /\ UNCHANGED <<browserVars, session, serverVars>>

\* session_ready goes out even if the session was closed meanwhile.
Ready(s) ==
    /\ At(s, "quality", "offering")
    /\ AgentSends(<<Frame("ready", s)>>)
    /\ UNCHANGED <<browserVars, session, slot, online, down, up, toAgent>>

OfferCreated(s) ==
    /\ At(s, "offering", IF agent[s].closed THEN "done" ELSE "describing")
    /\ UNCHANGED <<browserVars, session, serverVars>>

SendOffer(s) ==
    /\ At(s, "describing", "done")
    /\ AgentSends(<<Frame("offer", s)>>)
    /\ UNCHANGED <<browserVars, session, slot, online, down, up, toAgent>>

\* The catch of session.start(): refused, or a closed peer connection.
StartFails(s) ==
    /\ agent[s].at \in {"acquiring", "offering", "describing"}
    /\ agent' = [agent EXCEPT ![s].at = "done", ![s].closed = TRUE,
                              ![s].capturing = FALSE]
    /\ session' = IF session = s THEN 0 ELSE session
    /\ AgentSends(<<Frame("error", s)>>)
    /\ UNCHANGED <<browserVars, slot, online, down, up, toAgent>>

AgentGathers(s) ==
    /\ agent[s].at \in {"describing", "done"} /\ ~agent[s].closed
    /\ agent[s].capturing
    /\ AgentSends(<<Cand(s, cands + 1)>>)
    /\ UNCHANGED <<browserVars, agentVars, slot, online, down, up, toAgent>>

\* Mutant: remoteSet is set after the flush, so that what arrives during it
\* is buffered for good.
SetAnswer_LateFlag(s, r) ==
    /\ agent[s].answer[r] = "setting" /\ ~agent[s].closed /\ ~agent[s].remote
    /\ agent' = [agent EXCEPT ![s].answer[r] = "flushing",
                    ![s].flush = agent[s].pending, ![s].pending = {}]
    /\ UNCHANGED <<browserVars, session, serverVars>>

\* setRemoteDescription resolves; the buffer is taken over at once.
SetAnswer(s, r) ==
    /\ agent[s].answer[r] = "setting" /\ ~agent[s].closed /\ ~agent[s].remote
    /\ agent' = [agent EXCEPT ![s].answer[r] = "flushing", ![s].remote = TRUE,
                    ![s].flush = agent[s].pending, ![s].pending = {}]
    /\ UNCHANGED <<browserVars, session, serverVars>>

\* It rejects: the answer is not for this offer, or came second.
AnswerFails(s, r) ==
    /\ agent[s].answer[r] = "setting" /\ ~agent[s].closed
    /\ agent' = [agent EXCEPT ![s].answer[r] = "failed"]
    /\ AgentSends(<<Frame("error", s)>>)
    /\ UNCHANGED <<browserVars, session, slot, online, down, up, toAgent>>

AgentFlushes(s, r) ==
    /\ agent[s].answer[r] = "flushing" /\ ~agent[s].closed
    /\ agent' = IF agent[s].flush = {}
                THEN [agent EXCEPT ![s].answer[r] = "done", ![s].remote = TRUE]
                ELSE LET c == CHOOSE c \in agent[s].flush : TRUE IN
                     [agent EXCEPT ![s].flush = @ \ {c},
                                   ![s].applied = @ \cup {c}]
    /\ UNCHANGED <<browserVars, session, serverVars>>

\* ICE fails on the device's side: told, and closed; it stays the current one.
AgentPeerFails(s) ==
    /\ agent[s].at = "done" /\ agent[s].capturing /\ agent[s].remote
    /\ CloseAgent(s)
    /\ AgentSends(<<Frame("error", s)>>)
    /\ UNCHANGED <<browserVars, session, slot, online, down, up, toAgent>>

----------------------------------------------------------------------------

\* What settles of itself.  ICE fails where there is no pair to try; the
\* second answer a device gets always fails.
BrowserStep(k) ==
    \/ Dial(k) \/ BrowserReceives(k)
    \/ \E s \in Attempts :
          SetOffer(k, s) \/ FlushOne(k, s) \/ Flushed(k, s) \/ SendAnswer(k, s)
IceStep(k) ==
    \/ ui.state # "live" /\ Connected(k)
    \/ ~Paired(k) /\ PeerFails(k)
AgentStep(s) ==
    \/ Acquired(s) \/ Ready(s) \/ OfferCreated(s) \/ SendOffer(s)
    \/ \E r \in Attempts :
          \/ SetAnswer(s, r) \/ AgentFlushes(s, r)
          \/ agent[s].remote /\ AnswerFails(s, r)
ServerStep(k) == Serve(k) \/ ServerReads(k)

Step ==
    \/ Leave \/ Retry
    \/ \E k \in Attempts :
          \/ BrowserStep(k) \/ IceStep(k) \/ AgentStep(k) \/ ServerStep(k)
          \/ Playing(k)
    \/ Forward \/ AgentReceives \/ TellViewer

Gather(k) == BrowserGathers(k) \/ AgentGathers(k)

\* What may go wrong at any time.
Fault ==
    \/ \E k \in Attempts :
          \/ Disconnects(k) \/ PeerFails(k) \/ ReadDeadline(k)
          \/ StartFails(k) \/ AgentPeerFails(k)
          \/ \E s \in Attempts : NegotiationFails(k, s) \/ AnswerFails(s, k)
    \/ DeviceLost

Next ==
    \/ Step /\ UNCHANGED <<cands, faults>>
    \/ /\ cands < MaxCands /\ cands' = cands + 1
       /\ \E k \in Attempts : Gather(k)
       /\ UNCHANGED faults
    \/ faults < MaxFaults /\ Fault /\ faults' = faults + 1 /\ UNCHANGED cands

Spec == Init /\ [][Next]_vars

\* Frames arrive, what is awaited settles, ICE reaches a verdict, and a
\* connection that stays up shows a picture.  The operator owes nothing.
Alone == UNCHANGED <<cands, faults>>
FairSpec ==
    /\ Spec
    /\ \A k \in Attempts :
          /\ WF_vars(BrowserStep(k) /\ Alone) /\ WF_vars(IceStep(k) /\ Alone)
          /\ WF_vars(AgentStep(k) /\ Alone) /\ WF_vars(ServerStep(k) /\ Alone)
          /\ WF_vars(Playing(k) /\ Alone)
    /\ WF_vars(Forward /\ Alone) /\ WF_vars(AgentReceives /\ Alone)
    /\ WF_vars(TellViewer /\ Alone)

----------------------------------------------------------------------------

\* No candidate reaches a peer connection that has no remote description, and
\* none stays in a buffer once there is one: what trickles in before, during
\* or after the description is applied (onRemoteCandidate and onOffer;
\* handleICECandidate and handleAnswer).
NoCandidateStranded ==
    \A k \in Attempts :
        LET settled == \A s \in Attempts : conn[k].offer[s] # "flushing"
            b == conn[k]
            a == agent[k]
        IN  /\ ~b.remote => b.applied = {}
            /\ b.remote /\ settled => b.pending = {}
            /\ ~a.remote => a.applied = {}
            /\ a.remote => a.pending = {}

\* An operator who waits sees the picture, is told of an error, or at least
\* finds the session closed: no attempt waits for ever, whatever fails on the
\* way (ScreenViewer, SessionConnection, VP8Session).
AttemptSettles ==
    \A k \in Attempts :
        cur = k ~> cur # k \/ ui.playing \/ ui.error \/ ui.state = "closed"

\* When the operator has left, the device captures no more and can be viewed
\* again (close, endSession, onStopSession).
LeavingFreesDevice ==
    cur = 0 ~> slot = 0 /\ \A s \in Attempts : ~agent[s].capturing

\* Refuted.  hub.go, unregisterAgent: "Tell the operator rather than leaving
\* them watching a frozen last frame": a session that ended is shown as ended.
OperatorIsTold == cur # 0 /\ ui.state = "closed" => ui.error

\* Refuted.  SYSTEM_DESIGN.md: a session must not be refused as "already
\* being viewed" by itself.
RetryIsAdmitted ==
    \A k \in Attempts :
        down[k] # <<>> /\ Head(down[k]).type = "busy" => k = 1 \/ slot # k - 1

\* Refuted.  SYSTEM_DESIGN.md: a session applies the answer to its own offer.
AnswersAreOwn ==
    \A s, r \in Attempts :
        agent[s].answer[r] \in {"flushing", "done"} => s = r
=============================================================================
