---------------------------- MODULE PresenceFeed ----------------------------
(***************************************************************************)
(* How a change of the presence store reaches a dashboard: the events of   *)
(* presence.go (publish, Subscribe, Unsubscribe), ServePresence of         *)
(* session.go, and the device list the browser keeps from it               *)
(* (PresenceSocket, DeviceContext.tsx).                                    *)
(*                                                                         *)
(* A caller of the store changes it under the mutex and publishes after    *)
(* the unlock, to the channels that were subscribed then.  One dashboard   *)
(* is modelled, a super admin's, to whom every event is visible; its       *)
(* successive sockets are the feeds.  A frame written to a socket the      *)
(* browser still has is applied at once.  The stored status of a device    *)
(* without a presence record is taken to be offline.                       *)
(***************************************************************************)
EXTENDS Presence, Sequences, Naturals

CONSTANTS Callers,   \* goroutines that call the store
          Feeds,     \* presence sockets
          ChanCap    \* capacity of a subscriber's channel, 16 in the code

ASSUME FeedAssumption == None \notin Feeds /\ ChanCap \in Nat \ {0}

VARIABLES
    subs,        \* MemoryStore.subscribers
    closed,      \* the channels Unsubscribe has closed
    chan,        \* the events in each subscriber's channel
    pubEvent, pubTo,   \* publish, per caller: the event, and whom to send it yet
    panicked,    \* callers that sent on a closed channel
    fPc, fSnap,  \* ServePresence, per feed: its place, and what is left to send
    current,     \* the browser's PresenceSocket.ws
    list,        \* the browser's device list, None before it is loaded
    answer,      \* a GET /api/devices answer on its way, None without one
    \* history
    missed,      \* devices whose last event this socket's dashboard lost
    crossed      \* devices whose last event was sent beside another caller's

feedVars == <<storeVars, subs, closed, chan, pubEvent, pubTo, panicked, fPc,
              fSnap, current, list, answer, missed, crossed>>
history == <<missed, crossed>>

Status == {"offline", "online", "in_session"}

FeedInit ==
    /\ StoreInit
    /\ subs = {} /\ closed = {} /\ panicked = {}
    /\ chan = [f \in Feeds |-> <<>>]
    /\ pubEvent = [k \in Callers |-> None]
    /\ pubTo = [k \in Callers |-> {}]
    /\ fPc = [f \in Feeds |-> "new"]
    /\ fSnap = [f \in Feeds |-> {}]
    /\ current = None /\ list = None /\ answer = None
    /\ missed = {} /\ crossed = {}

----------------------------------------------------------------------------
(* The callers.                                                            *)

\* A caller still has an event of d for the browser's socket.
Telling(k, d) == current \in pubTo[k] /\ pubEvent[k].device = d

\* The event, and the snapshot of the subscribers, both taken under the lock.
\* Two events of one device that are on their way at once may come in either
\* order; the next one that is on its way alone comes after both.
Publishes(k, d, status) ==
    /\ k \notin panicked /\ pubTo[k] = {}
    /\ pubEvent' = [pubEvent EXCEPT ![k] = [device |-> d, status |-> status]]
    /\ pubTo' = [pubTo EXCEPT ![k] = subs]
    /\ missed' = missed \ {d}
    /\ crossed' = IF \E j \in Callers : Telling(j, d) THEN crossed \cup {d}
                                                      ELSE crossed \ {d}
    /\ UNCHANGED <<subs, closed, chan, panicked, fPc, fSnap, current, list,
                   answer>>

CallOnline(k, d, o) ==
    /\ SetDeviceOnline(d, o)
    /\ Publishes(k, d, devices'[d].status)

CallOffline(k, d) ==
    /\ Present(d)
    /\ SetDeviceOffline(d)
    /\ Publishes(k, d, "offline")

CallRegister(k, s, d) ==
    /\ s \notin issued
    /\ RegisterSession(s, d)
    /\ Publishes(k, d, "in_session")

\* The event says online whether or not the device is in the map.
CallEnd(k, s) ==
    /\ sessions[s] # None
    /\ EndSession(s)
    /\ Publishes(k, sessions[s], "online")

\* Some feeds do not get the event of a caller.
Lost(k, feeds) ==
    missed' = IF current \in feeds THEN missed \cup {pubEvent[k].device}
              ELSE missed

\* One send of publish: dropped when the channel is full, and a panic of the
\* caller when it has been closed meanwhile.
Publish(k, f) ==
    /\ f \in pubTo[k]
    /\ IF f \in closed
       THEN /\ panicked' = panicked \cup {k}
            /\ pubTo' = [pubTo EXCEPT ![k] = {}]
            /\ Lost(k, pubTo[k])
            /\ UNCHANGED chan
       ELSE /\ pubTo' = [pubTo EXCEPT ![k] = @ \ {f}]
            /\ UNCHANGED panicked
            /\ IF Len(chan[f]) < ChanCap
               THEN /\ chan' = [chan EXCEPT ![f] = Append(@, pubEvent[k])]
                    /\ UNCHANGED missed
               ELSE /\ Lost(k, {f})
                    /\ UNCHANGED chan
    /\ UNCHANGED <<storeVars, subs, closed, pubEvent, fPc, fSnap, current, list,
                   answer, crossed>>

----------------------------------------------------------------------------
(* The browser.                                                            *)

\* onmessage and the listener of DeviceContext: an update of a device that is
\* not in the list yet changes nothing.
Applied(f, update) ==
    IF current # f
    THEN UNCHANGED <<list, missed>>
    ELSE IF list = None
    THEN missed' = missed \cup {update.device} /\ UNCHANGED list
    ELSE /\ list' = [list EXCEPT ![update.device] = update.status]
         /\ UNCHANGED missed

Connect(f) ==
    /\ current = None /\ fPc[f] = "new"
    /\ current' = f
    /\ fPc' = [fPc EXCEPT ![f] = "subscribe"]
    /\ missed' = {} /\ crossed' = {}
    /\ UNCHANGED <<storeVars, subs, closed, chan, pubEvent, pubTo, panicked,
                   fSnap, list, answer>>

\* The tab goes away, or the network does.
Disconnect ==
    /\ current # None
    /\ current' = None
    /\ missed' = {} /\ crossed' = {}
    /\ UNCHANGED <<storeVars, subs, closed, chan, pubEvent, pubTo, panicked,
                   fPc, fSnap, list, answer>>

\* ListDevices answers with the live status of what is connected.
ReadDevices ==
    /\ answer = None
    /\ answer' = [d \in Devices |-> devices[d].status]
    /\ UNCHANGED <<storeVars, subs, closed, chan, pubEvent, pubTo, panicked,
                   fPc, fSnap, current, list, history>>

\* An update of the device is still to come to the browser's socket.
Coming(d) ==
    /\ current # None
    /\ \/ fPc[current] \in {"subscribe", "snapshot"} /\ Present(d)
       \/ \E update \in fSnap[current] : update.device = d
       \/ \E i \in DOMAIN chan[current] : chan[current][i].device = d
       \/ \E k \in Callers : Telling(k, d)

\* setDevices replaces the list, whatever the feed has said meanwhile.
RefreshDevices ==
    /\ answer # None
    /\ list' = answer
    /\ answer' = None
    /\ missed' = {d \in Devices : IF Coming(d) THEN d \in missed
                                  ELSE answer[d] # devices[d].status}
    /\ crossed' = {d \in crossed : Coming(d)}
    /\ UNCHANGED <<storeVars, subs, closed, chan, pubEvent, pubTo, panicked,
                   fPc, fSnap, current>>

----------------------------------------------------------------------------
(* ServePresence.                                                          *)

FStep(f, from, to) == fPc[f] = from /\ fPc' = [fPc EXCEPT ![f] = to]

\* Mutant: the feed subscribes after it has sent the current state.
Subscribe_Late(f) ==
    /\ \/ FStep(f, "subscribe", "snapshot") /\ UNCHANGED subs
       \/ /\ fPc[f] = "loop" /\ f \notin subs
          /\ subs' = subs \cup {f}
          /\ UNCHANGED fPc
    /\ UNCHANGED <<storeVars, closed, chan, pubEvent, pubTo, panicked, fSnap,
                   current, list, answer, history>>

Subscribe(f) ==
    /\ FStep(f, "subscribe", "snapshot")
    /\ subs' = subs \cup {f}
    /\ UNCHANGED <<storeVars, closed, chan, pubEvent, pubTo, panicked, fSnap,
                   current, list, answer, history>>

\* GetAllOnlineDevices: a copy, so what is sent can be older than the store.
Snapshot(f) ==
    /\ FStep(f, "snapshot", "send")
    /\ fSnap' = [fSnap EXCEPT ![f] =
           {[device |-> d, status |-> devices[d].status] :
                d \in {e \in Devices : Present(e)}}]
    /\ UNCHANGED <<storeVars, subs, closed, chan, pubEvent, pubTo, panicked,
                   current, list, answer, history>>

SendSnapshot(f) ==
    /\ fPc[f] = "send"
    /\ \E update \in fSnap[f] :
           /\ fSnap' = [fSnap EXCEPT ![f] = @ \ {update}]
           /\ Applied(f, update)
    /\ UNCHANGED <<storeVars, subs, closed, chan, pubEvent, pubTo, panicked,
                   fPc, current, answer, crossed>>

SnapshotSent(f) ==
    /\ fSnap[f] = {}
    /\ FStep(f, "send", "loop")
    /\ UNCHANGED <<storeVars, subs, closed, chan, pubEvent, pubTo, panicked,
                   fSnap, current, list, answer, history>>

SendEvent(f) ==
    /\ fPc[f] = "loop" /\ chan[f] # <<>>
    /\ chan' = [chan EXCEPT ![f] = Tail(@)]
    /\ Applied(f, Head(chan[f]))
    /\ UNCHANGED <<storeVars, subs, closed, pubEvent, pubTo, panicked, fPc,
                   fSnap, current, answer, crossed>>

\* Mutant: a closed tab is noticed only when there is an event to write.
LeaveFeed_OnEvent(f) ==
    /\ FStep(f, "loop", "unsubscribe")
    /\ current # f /\ chan[f] # <<>>
    /\ UNCHANGED <<storeVars, subs, closed, chan, pubEvent, pubTo, panicked,
                   fSnap, current, list, answer, history>>

\* The reader goroutine, or the write of an event, notices the browser left.
LeaveFeed(f) ==
    /\ FStep(f, "loop", "unsubscribe")
    /\ current # f
    /\ UNCHANGED <<storeVars, subs, closed, chan, pubEvent, pubTo, panicked,
                   fSnap, current, list, answer, history>>

\* The channel is closed, and what it still holds is read by nobody.
Unsubscribe(f) ==
    /\ FStep(f, "unsubscribe", "done")
    /\ subs' = subs \ {f}
    /\ closed' = closed \cup {f}
    /\ chan' = [chan EXCEPT ![f] = <<>>]
    /\ UNCHANGED <<storeVars, pubEvent, pubTo, panicked, fSnap, current,
                   list, answer, history>>

----------------------------------------------------------------------------
CallerStep(k) ==
    \/ \E d \in Devices :
           \/ \E o \in Owners : CallOnline(k, d, o)
           \/ CallOffline(k, d)
           \/ \E s \in Sessions : CallRegister(k, s, d)
    \/ \E s \in Sessions : CallEnd(k, s)

FeedStep(f) ==
    \/ Subscribe(f) \/ Snapshot(f) \/ SendSnapshot(f) \/ SnapshotSent(f)
    \/ SendEvent(f) \/ LeaveFeed(f) \/ Unsubscribe(f)

FeedNext ==
    \/ \E k \in Callers : CallerStep(k) \/ \E f \in Feeds : Publish(k, f)
    \/ \E f \in Feeds : Connect(f) \/ FeedStep(f)
    \/ Disconnect \/ ReadDevices \/ RefreshDevices

FeedSpec == FeedInit /\ [][FeedNext]_feedVars

\* A goroutine that can run does, and one that leaves its loop is not held up
\* by events that keep coming: Go's select takes either case.
FairFeedSpec ==
    /\ FeedSpec
    /\ \A f \in Feeds : WF_feedVars(FeedStep(f)) /\ WF_feedVars(LeaveFeed(f))

----------------------------------------------------------------------------
Updates == [device : Devices, status : Status]

FeedTypeOK ==
    /\ StoreTypeOK
    /\ subs \subseteq Feeds /\ closed \subseteq Feeds
    /\ panicked \subseteq Callers
    /\ chan \in [Feeds -> Seq(Updates)]
    /\ \A f \in Feeds : Len(chan[f]) <= ChanCap
    /\ pubEvent \in [Callers -> Updates \cup {None}]
    /\ pubTo \in [Callers -> SUBSET Feeds]
    /\ fPc \in [Feeds -> {"new", "subscribe", "snapshot", "send", "loop",
                          "unsubscribe", "done"}]
    /\ fSnap \in [Feeds -> SUBSET Updates]
    /\ current \in Feeds \cup {None}
    /\ list \in [Devices -> Status] \cup {None}
    /\ answer \in [Devices -> Status] \cup {None}
    /\ missed \subseteq Devices /\ crossed \subseteq Devices

\* Everything published to the dashboard's socket has been applied.
CaughtUp ==
    /\ current # None /\ list # None /\ answer = None
    /\ fPc[current] = "loop" /\ chan[current] = <<>>
    /\ \A k \in Callers : current \notin pubTo[k]

\* A dashboard that has caught up shows the status every connected device has,
\* except where the device's last event was lost to it (the channel was full,
\* its caller panicked, the list was not loaded), was overwritten by an older
\* answer, or was sent beside another caller's event of the same device; the
\* next event that comes alone, or the next answer, sets it right.  Changes
\* that fall between the subscription and the copy of the state, or while the
\* copy is being sent, come to the right end, whoever makes them.
CaughtUpIsRight ==
    CaughtUp => \A d \in Devices \ (missed \cup crossed) :
                    Present(d) => list[d] = devices[d].status

\* A subscriber whose browser left ends, at whatever place of ServePresence the
\* browser leaves it and with or without events to send it (session.go:465-467).
GoneFeedLeaves ==
    \A f \in Feeds : f \in subs /\ current # f ~> fPc[f] = "done"

----------------------------------------------------------------------------
(* What the code says of the feed and does not keep.                       *)

\* presence.go:157: publishing from the caller's goroutine is there so that a
\* device cannot "latch as offline after coming back online".
NeverLatchesOffline ==
    CaughtUp => \A d \in Devices \ missed : Present(d) => list[d] # "offline"

\* presence.go:419: "a subscriber too slow to keep up loses events rather than
\* stalling the hub"; a caller of the store, a goroutine of the hub, goes on.
PublishNeverFails == panicked = {}

\* presence.go:420: "presence is refreshed on reconnect".  Stated for a
\* dashboard that has caught up on a later socket and missed nothing on it.
ReconnectRefreshes ==
    CaughtUp /\ closed # {} => \A d \in Devices \ missed : list[d] = devices[d].status
============================================================================
