--------------------------- MODULE MonitoringWall ---------------------------
(***************************************************************************)
(* The monitoring wall (GroupMonitorPage, MonitorTile, useDeviceSession):  *)
(* many devices watched by one page, each through a session that claims    *)
(* its device, and one of them enlarged.                                   *)
(*                                                                         *)
(* A pane is a mounted useDeviceSession: the grid tile of a device or the  *)
(* focus tile of the enlarged one.  A change of what the page shows is one *)
(* React commit: the effects that went are all cleaned up before the new   *)
(* ones run, and a promise that is resolved already costs no more than a   *)
(* microtask.  closeGates outlives the page.                               *)
(*                                                                         *)
(* A session that is admitted is "open" without an error to show and       *)
(* "faulty" with one; when its socket has gone it is "lost" or "refused".  *)
(* The peer connection is the errors it reports; one that was closed       *)
(* reports none.                                                           *)
(*                                                                         *)
(* The backend is reduced to the single slot of each device.  Abstracted:  *)
(* layout and full screen, statistics, the token, StrictMode's double run  *)
(* (a production build has none), and a socket closed while it opens that  *)
(* the backend accepts only afterwards.                                    *)
(***************************************************************************)
EXTENDS Naturals, FiniteSets

CONSTANTS NumDevices,       \* devices, numbered in the order of their names
          MaxLiveTiles,     \* MAX_LIVE_TILES
          MaxSessions,      \* bound: sessions created
          LateClose         \* a backend may take longer than 3 s to let go

ASSUME WallAssumption ==
    /\ NumDevices \in Nat \ {0} /\ MaxSessions \in Nat
    /\ MaxLiveTiles \in Nat /\ LateClose \in BOOLEAN

Devices  == 1..NumDevices
Sessions == 1..MaxSessions

\* The grid tiles, then the focus tiles.
Panes == 1..(2 * NumDevices)
DeviceOf(p) == IF p \in Devices THEN p ELSE p - NumDevices

VARIABLES
    page,       \* "away", "wall", or "notfound": the team resolves to nothing
    scoped,     \* devices of the wall
    offline,    \* those of them that are offline
    liveSlots,  \* devices that connect by themselves
    started,    \* devices the operator started past the cap
    focused,    \* the enlarged device, or 0
    pane,       \* the session of each mounted pane, or 0
    session,    \* phase, device and gate of each session
    next,       \* the next session's number
    closeGates, \* the session whose close is still settling, or 0
    slot        \* the session of this page that holds each device, or 0

pageVars == <<page, scoped, offline, liveSlots, started, focused>>
hookVars == <<pane, next>>
vars == <<pageVars, hookVars, session, closeGates, slot>>

\* The first devices in order, as many as there is room for, join those that
\* are live and still reachable.
\* Mutant: the slots are dealt anew whenever the list changes.
AutoLive_Dealt(reachable, live) ==
    {d \in reachable :
        Cardinality({e \in reachable : e < d}) < MaxLiveTiles}

AutoLive(reachable, live) ==
    LET keep == live \cap reachable
        free == reachable \ keep
    IN  keep \cup {d \in free :
            Cardinality(keep) + Cardinality({e \in free : e < d}) < MaxLiveTiles}

\* Mutant: the enlarged device's tile stays connected.
Wanted_BothTiles ==
    IF page # "wall" THEN {}
    ELSE {d \in scoped \ offline : d \in liveSlots \cup started}
         \cup {NumDevices + d : d \in ({focused} \cap scoped) \ offline}

\* The panes whose effect holds a session.
Wanted ==
    IF page # "wall" THEN {}
    ELSE {d \in scoped \ offline : d \in liveSlots \cup started /\ d # focused}
         \cup {NumDevices + d : d \in ({focused} \cap scoped) \ offline}

NoSession == [phase |-> "none", device |-> 0, gate |-> 0]
Gone == [NoSession EXCEPT !.phase = "gone"]

Init ==
    /\ page = "away" /\ scoped = Devices /\ offline = {}
    /\ liveSlots = {} /\ started = {} /\ focused = 0
    /\ pane = [p \in Panes |-> 0] /\ next = 1
    /\ session = [i \in Sessions |-> NoSession]
    /\ closeGates = [d \in Devices |-> 0]
    /\ slot = [d \in Devices |-> 0]

----------------------------------------------------------------------------
(* useDeviceSession                                                        *)

\* SessionConnection.close: with no socket, or a closed one, it is done.
HasSocket(i) == session[i].phase \in {"opening", "open", "faulty"}
Closed(i) ==
    CASE HasSocket(i) -> [session[i] EXCEPT !.phase = "closing"]
      [] session[i].phase = "fetching" -> [session[i] EXCEPT !.phase = "dropped"]
      [] OTHER -> Gone

\* The commit after the page's state has changed; the panes in `again` have
\* a new attempt.
Commit(again) ==
    LET left == {p \in Panes : pane[p] # 0 /\ (p \notin Wanted' \/ p \in again)}
        come == {p \in Panes : p \in Wanted' /\ (pane[p] = 0 \/ p \in again)}
        id(p) == next + Cardinality({q \in come : q < p})
        closing == {pane[p] : p \in left}
    IN  /\ next + Cardinality(come) <= MaxSessions + 1
        /\ next' = next + Cardinality(come)
        /\ pane' = [p \in Panes |-> IF p \in come THEN id(p)
                                    ELSE IF p \in left THEN 0 ELSE pane[p]]
        /\ closeGates' = [d \in Devices |->
              IF \E i \in closing : session[i].device = d
              THEN IF \E i \in closing : session[i].device = d /\ HasSocket(i)
                   THEN CHOOSE i \in closing : session[i].device = d ELSE 0
              ELSE closeGates[d]]
        /\ session' = [i \in Sessions |->
              IF i \in closing THEN Closed(i)
              ELSE IF \E p \in come : id(p) = i
              THEN LET d == DeviceOf(CHOOSE p \in come : id(p) = i) IN
                   [phase |-> IF closeGates'[d] = 0 THEN "fetching" ELSE "gated",
                    device |-> d, gate |-> closeGates'[d]]
              ELSE session[i]]
        /\ UNCHANGED slot

\* The close of session i is settled: what waited for it begins.
Settled(i) ==
    /\ closeGates' = [d \in Devices |->
          IF closeGates[d] = i THEN 0 ELSE closeGates[d]]
    /\ session' = [j \in Sessions |->
          CASE session[j].phase = "gated" /\ session[j].gate = i ->
                  [session[j] EXCEPT !.phase = "fetching", !.gate = 0]
            [] j = i /\ slot[session[i].device] # i -> Gone
            [] OTHER -> session[j]]
    /\ UNCHANGED <<pageVars, hookVars, slot>>

\* The socket's close event, once the backend has let go of it.
CloseEvent(i) ==
    /\ session[i].phase = "closing" /\ slot[session[i].device] # i
    /\ Settled(i)

Unsettled(i) ==
    session[i].phase = "closing" /\ \/ closeGates[session[i].device] = i
                                    \/ \E j \in Sessions :
                                          /\ session[j].phase = "gated"
                                          /\ session[j].gate = i

\* Mutant: the close waits for its event only.
CloseCeiling_None(i) == FALSE /\ Unsettled(i)

\* Three seconds without the event.
CloseCeiling(i) ==
    /\ Unsettled(i)
    /\ slot[session[i].device] = i => LateClose
    /\ Settled(i)

\* Mutant: start does not look at closed after the fetch.
Fetched_Unchecked(i) ==
    /\ session[i].phase \in {"fetching", "dropped"}
    /\ session' = [session EXCEPT ![i].phase = "opening"]
    /\ UNCHANGED <<pageVars, hookVars, closeGates, slot>>

\* start, after getIceConfig.
Fetched(i) ==
    /\ session[i].phase \in {"fetching", "dropped"}
    /\ session' = [session EXCEPT ![i] =
                      IF @.phase = "dropped" THEN Gone
                      ELSE [@ EXCEPT !.phase = "opening"]]
    /\ UNCHANGED <<pageVars, hookVars, closeGates, slot>>

\* session_error, an error frame, ICE or the negotiation failed: onError, and
\* the session stays as it is.  Without its socket only the last two are left.
ReportError(i) ==
    /\ session[i].phase \in {"open", "lost"}
    /\ session' = [session EXCEPT ![i].phase =
                      IF @ = "open" THEN "faulty" ELSE "refused"]
    /\ UNCHANGED <<pageVars, hookVars, closeGates, slot>>

----------------------------------------------------------------------------
(* The page                                                                *)

\* The list of the wall has become s, with o offline; the focus pane follows.
Show(s, o) ==
    /\ scoped' = s /\ offline' = o
    /\ liveSlots' = AutoLive(s \ o, liveSlots)
    /\ focused' = IF focused \in s THEN focused ELSE 0

StatusChanges(d) ==
    /\ d \in scoped
    /\ Show(scoped, IF d \in offline THEN offline \ {d} ELSE offline \cup {d})
    /\ UNCHANGED <<page, started>> /\ Commit({})

\* setDevices replaces the list: whatever was assigned, unassigned, deleted,
\* came or went meanwhile.
ListChanges ==
    /\ \E s \in SUBSET Devices : \E o \in SUBSET s : Show(s, o)
    /\ UNCHANGED <<page, started>> /\ Commit({})

\* The page comes with new state, and goes with it.
EnterPage ==
    /\ page = "away" /\ page' = "wall"
    /\ liveSlots' = AutoLive(scoped \ offline, {})
    /\ started' = {} /\ focused' = 0
    /\ UNCHANGED <<scoped, offline>> /\ Commit({})

LeavePage ==
    /\ page # "away" /\ page' = "away"
    /\ liveSlots' = {} /\ started' = {} /\ focused' = 0
    /\ UNCHANGED <<scoped, offline>> /\ Commit({})

\* The team is gone from the list of groups, or is back.
TeamResolves ==
    /\ page # "away" /\ page' = IF page = "wall" THEN "notfound" ELSE "wall"
    /\ UNCHANGED <<scoped, offline, liveSlots, started, focused>> /\ Commit({})

\* A click on a tile enlarges it; on the enlarged one, Close or Escape.
Focus(d) ==
    /\ page = "wall" /\ d \in scoped
    /\ focused' = IF focused = d THEN 0 ELSE d
    /\ UNCHANGED <<page, scoped, offline, liveSlots, started>> /\ Commit({})

StartTile(d) ==
    /\ page = "wall" /\ d \in scoped \ (offline \cup liveSlots \cup started)
    /\ d # focused
    /\ started' = started \cup {d}
    /\ UNCHANGED <<page, scoped, offline, liveSlots, focused>> /\ Commit({})

\* Offered on a pane that shows an error, whether its socket is open or not.
Retry(p) ==
    /\ pane[p] # 0 /\ session[pane[p]].phase \in {"refused", "busy", "faulty"}
    /\ UNCHANGED pageVars /\ Commit({p})

----------------------------------------------------------------------------
(* The backend                                                             *)

\* RegisterSession: the slot, or "already being viewed".
Admit(i) ==
    /\ session[i].phase = "opening"
    /\ LET d == session[i].device IN
       IF slot[d] = 0
       THEN slot' = [slot EXCEPT ![d] = i]
            /\ session' = [session EXCEPT ![i].phase = "open"]
       ELSE session' = [session EXCEPT ![i].phase = "busy"] /\ UNCHANGED slot
    /\ UNCHANGED <<pageVars, hookVars, closeGates>>

\* Refused for another reason: the device is offline, hidden, or another
\* operator's.
TurnAway(i) ==
    /\ session[i].phase = "opening"
    /\ session' = [session EXCEPT ![i].phase = "refused"]
    /\ UNCHANGED <<pageVars, hookVars, closeGates, slot>>

\* endSession: the browser's close is seen, or the session ends by itself; one
\* that ends before session_ready shows that it was refused.
EndSession(i) ==
    /\ session[i].device # 0 /\ slot[session[i].device] = i
    /\ slot' = [slot EXCEPT ![session[i].device] = 0]
    /\ \E over \in {"lost", "refused"} :
          session' = [session EXCEPT ![i].phase = CASE @ = "open"   -> over
                                                    [] @ = "faulty" -> "refused"
                                                    [] OTHER        -> @]
    /\ UNCHANGED <<pageVars, hookVars, closeGates>>
SeesClose(i) == session[i].phase = "closing" /\ EndSession(i)

----------------------------------------------------------------------------

Next ==
    \/ EnterPage \/ LeavePage \/ TeamResolves \/ ListChanges
    \/ \E d \in Devices : StatusChanges(d) \/ Focus(d) \/ StartTile(d)
    \/ \E p \in Panes : Retry(p)
    \/ \E i \in Sessions : \/ CloseEvent(i) \/ CloseCeiling(i) \/ Fetched(i)
                           \/ Admit(i) \/ TurnAway(i) \/ EndSession(i)
                           \/ ReportError(i)

Spec == Init /\ [][Next]_vars

\* Requests are answered, the timer fires, and the backend sees a close, at
\* its read deadline at the latest.  The close event may stay away.
FairSpec ==
    /\ Spec
    /\ \A i \in Sessions :
          /\ WF_vars(Fetched(i)) /\ WF_vars(Admit(i) \/ TurnAway(i))
          /\ WF_vars(CloseCeiling(i)) /\ WF_vars(SeesClose(i))

----------------------------------------------------------------------------

Asking(i) ==
    session[i].phase \in {"gated", "fetching", "opening", "open", "faulty"}

\* The wall never competes with itself: of a device's sessions that have not
\* been closed there is one, and it is a mounted pane's, so the pane that is
\* enlarged has the device to itself (MonitorTile, useDeviceSession).
OnePaneAsks ==
    \A i, j \in Sessions :
        Asking(i) => /\ \E p \in Panes : pane[p] = i
                     /\ Asking(j) /\ session[i].device = session[j].device
                        => i = j

\* A tile is not torn down for another device's sake: its session, running, on
\* its way or over, is closed only when its device left or went offline, or when
\* the operator left the page, enlarged the device, or retried a tile that showed
\* an error (liveSlots, started).
RunningTileStays ==
    [][\A d \in Devices :
          /\ pane[d] # 0 /\ pane'[d] # pane[d]
          /\ page' = "wall" /\ focused' # d
          => d \notin scoped' \ offline' \/ Retry(d)]_vars

\* A pane's session does not wait for ever for its predecessor to go
\* (closeGates, close's ceiling).
PaneIsServed ==
    \A i \in Sessions :
        session[i].phase \in {"gated", "fetching", "opening"}
        ~> session[i].phase \notin {"gated", "fetching", "opening"}

\* A device the wall no longer shows is given back (the effect's cleanup).
LeftDeviceIsFreed ==
    \A d \in Devices :
        {d, NumDevices + d} \cap Wanted = {}
        ~> slot[d] = 0 \/ {d, NumDevices + d} \cap Wanted # {}

\* Refuted.  TESTING.md: "The enlarge/collapse cycle must never show 'already
\* being viewed by someone else'": no pane is refused for the sake of a session
\* of this page.
NeverRefusesItself == \A i \in Sessions : session[i].phase # "busy"
=============================================================================
