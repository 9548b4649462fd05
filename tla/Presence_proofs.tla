-------------------------- MODULE Presence_proofs --------------------------
(***************************************************************************)
(* Proofs about Presence for every set of devices, sessions and owners,    *)
(* and about PresenceFeed for any number of callers and sockets.           *)
(*                                                                         *)
(* The store: SessionMapsAgree is inductive only together with the typing  *)
(* of the maps; StatusTellsSession and ActiveSessionIsHolder need it,      *)
(* because EndSession finds the device record through one map and clears   *)
(* the holder in the other.                                                *)
(*                                                                         *)
(* The feed: CaughtUpIsRight speaks of a dashboard with nothing on its     *)
(* way.  AllComesRight says of every state what the dashboard will have    *)
(* shown once all that is on its way has come in, in the order it comes:   *)
(* the copy of the state, the channel, the event a caller still holds.     *)
(* OneTells makes that event the only one of its device, where no two      *)
(* events crossed.                                                         *)
(***************************************************************************)
EXTENDS PresenceFeed, TLAPS

(* The store.                                                              *)

\* The inductive invariant of the store.
StoreInv ==
    /\ StoreTypeOK
    /\ \A s \in Sessions : sessions[s] # None => s \in issued
    /\ \A d \in Devices : ~Present(d) => devices[d] = Absent
    /\ SessionMapsAgree
    /\ StatusTellsSession
    /\ ActiveSessionIsHolder

\* An empty store satisfies the invariant.
LEMMA StoreInitInv == StoreInit => StoreInv
  BY PresenceAssumption
  DEF StoreInit, StoreInv, StoreTypeOK, SessionMapsAgree, StatusTellsSession,
      ActiveSessionIsHolder, DevicePresence, Absent, Present

\* SetDeviceOnline, of a new or of a known device, keeps it.
LEMMA OnlineInv ==
  ASSUME StoreInv, NEW d \in Devices, NEW o \in Owners \cup {None},
         SetDeviceOnline(d, o)
  PROVE  StoreInv'
  BY PresenceAssumption
  DEF StoreInv, StoreTypeOK, SessionMapsAgree, StatusTellsSession,
      ActiveSessionIsHolder, DevicePresence, Present, Absent, SetDeviceOnline

\* UpdateDeviceAssignment touches no field the invariant reads but the type.
LEMMA AssignmentInv ==
  ASSUME StoreInv, NEW d \in Devices, NEW o \in Owners \cup {None},
         UpdateDeviceAssignment(d, o)
  PROVE  StoreInv'
  BY PresenceAssumption
  DEF StoreInv, StoreTypeOK, SessionMapsAgree, StatusTellsSession,
      ActiveSessionIsHolder, DevicePresence, Present, Absent,
      UpdateDeviceAssignment

\* SetDeviceOffline drops the device and its session from all three maps.
LEMMA OfflineInv ==
  ASSUME StoreInv, NEW d \in Devices, SetDeviceOffline(d)
  PROVE  StoreInv'
  BY PresenceAssumption
  DEF StoreInv, StoreTypeOK, SessionMapsAgree, StatusTellsSession,
      ActiveSessionIsHolder, DevicePresence, Present, Absent, SetDeviceOffline

\* RegisterSession of a session id never used before.
LEMMA RegisterInv ==
  ASSUME StoreInv, NEW s \in Sessions \ issued, NEW d \in Devices,
         RegisterSession(s, d)
  PROVE  StoreInv'
  BY PresenceAssumption
  DEF StoreInv, StoreTypeOK, SessionMapsAgree, StatusTellsSession,
      ActiveSessionIsHolder, DevicePresence, Present, Absent, RegisterSession

\* EndSession of a live, a torn down or an unknown session.
LEMMA EndInv ==
  ASSUME StoreInv, NEW s \in Sessions, EndSession(s)
  PROVE  StoreInv'
<1>1. CASE sessions[s] = None
  <2>1. UNCHANGED storeVars
    BY <1>1 DEF EndSession, storeVars
  <2> QED
    BY <2>1
    DEF storeVars, StoreInv, StoreTypeOK, SessionMapsAgree, StatusTellsSession,
        ActiveSessionIsHolder, Present
<1>2. CASE sessions[s] # None
  <2> DEFINE d == sessions[s]
  <2>1. d \in Devices /\ deviceSess[d] = s
    BY <1>2, PresenceAssumption DEF StoreInv, StoreTypeOK, SessionMapsAgree
  <2>2. /\ sessions' = [sessions EXCEPT ![s] = None]
        /\ deviceSess' = [deviceSess EXCEPT ![d] = None]
        /\ issued' = issued
        /\ devices' = IF Present(d)
                      THEN [devices EXCEPT ![d].status = "online",
                                           ![d].active = None]
                      ELSE devices
    BY <1>2 DEF EndSession
  <2>3. StoreTypeOK'
    BY <2>1, <2>2, PresenceAssumption
    DEF StoreInv, StoreTypeOK, DevicePresence, Present
  <2>4. (\A t \in Sessions : sessions[t] # None => t \in issued)'
    BY <2>2 DEF StoreInv, StoreTypeOK
  <2>5. (\A e \in Devices : ~Present(e) => devices[e] = Absent)'
    BY <2>1, <2>2 DEF StoreInv, StoreTypeOK, DevicePresence, Present, Absent
  <2>6. SessionMapsAgree'
    BY <2>1, <2>2, PresenceAssumption
    DEF StoreInv, StoreTypeOK, SessionMapsAgree
  <2>7. StatusTellsSession'
    BY <2>1, <2>2
    DEF StoreInv, StoreTypeOK, DevicePresence, Present, StatusTellsSession
  <2>8. ActiveSessionIsHolder'
    BY <2>1, <2>2
    DEF StoreInv, StoreTypeOK, DevicePresence, Present, Absent,
        ActiveSessionIsHolder
  <2> QED
    BY <2>3, <2>4, <2>5, <2>6, <2>7, <2>8 DEF StoreInv
<1> QED
  BY <1>1, <1>2

\* Every step of the store, whoever makes it, keeps the invariant.
LEMMA StoreNextInv == StoreInv /\ [StoreNext]_storeVars => StoreInv'
<1> SUFFICES ASSUME StoreInv, [StoreNext]_storeVars
             PROVE  StoreInv'
  OBVIOUS
<1>1. ASSUME NEW d \in Devices, NEW o \in Owners \cup {None},
             SetDeviceOnline(d, o)
      PROVE  StoreInv'
  BY <1>1, OnlineInv
<1>2. ASSUME NEW d \in Devices, NEW o \in Owners \cup {None},
             UpdateDeviceAssignment(d, o)
      PROVE  StoreInv'
  BY <1>2, AssignmentInv
<1>3. ASSUME NEW d \in Devices, SetDeviceOffline(d)
      PROVE  StoreInv'
  BY <1>3, OfflineInv
<1>4. ASSUME NEW s \in Sessions \ issued, NEW d \in Devices,
             RegisterSession(s, d)
      PROVE  StoreInv'
  BY <1>4, RegisterInv
<1>5. ASSUME NEW s \in Sessions, EndSession(s)
      PROVE  StoreInv'
  BY <1>5, EndInv
<1>6. CASE UNCHANGED storeVars
  BY <1>6
  DEF storeVars, StoreInv, StoreTypeOK, SessionMapsAgree, StatusTellsSession,
      ActiveSessionIsHolder, Present
<1> QED
  BY <1>1, <1>2, <1>3, <1>4, <1>5, <1>6 DEF StoreNext

\* The store's maps agree with each other and with the status the dashboard
\* shows, in every state of every execution.
THEOREM StoreInvariant == StoreSpec => []StoreInv
  BY StoreInitInv, StoreNextInv, PTL DEF StoreSpec

\* FR-5.3 as the registry keeps it: a device is held by one live session, and
\* a live session is the one its device is held by.
THEOREM SessionMapsAgreeAlways == StoreSpec => []SessionMapsAgree
<1>1. StoreInv => SessionMapsAgree
  BY DEF StoreInv
<1> QED
  BY <1>1, StoreInvariant, PTL

\* The store's maps keep their types whatever order its callers come in.
THEOREM StoreTypeCorrect == StoreSpec => []StoreTypeOK
<1>1. StoreInv => StoreTypeOK
  BY DEF StoreInv
<1> QED
  BY <1>1, StoreInvariant, PTL

\* The status of a connected device is in_session exactly while it is held.
THEOREM StatusTellsSessionAlways == StoreSpec => []StatusTellsSession
<1>1. StoreInv => StatusTellsSession
  BY DEF StoreInv
<1> QED
  BY <1>1, StoreInvariant, PTL

----------------------------------------------------------------------------
(* The feed.                                                               *)

\* Which feeds are subscribed, who may still hold something for them, and where
\* the browser's own one is.
FeedPlaces ==
    /\ subs = {f \in Feeds : fPc[f] \in {"snapshot", "send", "loop", "unsubscribe"}}
    /\ \A f \in Feeds :
          /\ fPc[f] \in {"new", "subscribe"} =>
                chan[f] = <<>> /\ \A k \in Callers : f \notin pubTo[k]
          /\ fSnap[f] # {} => fPc[f] = "send"
    /\ current # None => fPc[current] \in {"subscribe", "snapshot", "send", "loop"}
    /\ \A k \in Callers : pubTo[k] # {} => pubEvent[k] \in Updates

\* A copy of the state says one thing of a device.
SnapshotsAreMaps ==
    \A f \in Feeds : \A u, v \in fSnap[f] : u.device = v.device => u = v

\* What the dashboard will have shown of d once all that is on its way came in:
\* the event a caller still has to send, or else the last one in the channel,
\* or else the copy, or else the list as it is.
Pending(d) == \E k \in Callers : Telling(k, d)
InChan(d)  == \E i \in 1 .. Len(chan[current]) : chan[current][i].device = d
InCopy(d)  == \E u \in fSnap[current] : u.device = d
Copied     == fPc[current] \notin {"subscribe", "snapshot"}

PendingIsRight(d) ==
    \A k \in Callers : Telling(k, d) => pubEvent[k].status = devices[d].status

LastEventIsRight(d) ==
    \A i \in 1 .. Len(chan[current]) :
        /\ chan[current][i].device = d
        /\ \A j \in 1 .. Len(chan[current]) : j > i => chan[current][j].device # d
        => chan[current][i].status = devices[d].status

CopyIsRight(d) ==
    \A u \in fSnap[current] : u.device = d => u.status = devices[d].status

ComesRight(d) ==
    /\ PendingIsRight(d)
    /\ ~Pending(d) => LastEventIsRight(d)
    /\ ~Pending(d) /\ ~InChan(d) /\ Copied => CopyIsRight(d)
    /\ ~Pending(d) /\ ~InChan(d) /\ Copied /\ ~InCopy(d) /\ list # None =>
           list[d] = devices[d].status

AllComesRight ==
    current # None =>
        \A d \in Devices \ (missed \cup crossed) : Present(d) => ComesRight(d)

\* Where no two events crossed, one caller at most has one to send.
OneTells ==
    current # None =>
        \A d \in Devices \ crossed : \A j, k \in Callers :
            Telling(j, d) /\ Telling(k, d) => j = k

FeedInv ==
    /\ StoreInv
    /\ FeedTypeOK /\ FeedPlaces /\ SnapshotsAreMaps /\ OneTells /\ AllComesRight

----------------------------------------------------------------------------

LEMMA FeedInitial == FeedInit => FeedInv
  <1> SUFFICES ASSUME FeedInit PROVE FeedInv
    OBVIOUS
  <1> USE FeedAssumption, PresenceAssumption DEF FeedInit
  <1>1. StoreInv BY StoreInitInv
  <1>2. FeedTypeOK
    <2>1. StoreTypeOK BY <1>1 DEF StoreInv
    <2>2. chan \in [Feeds -> Seq(Updates)] OBVIOUS
    <2>3. \A f \in Feeds : Len(chan[f]) <= ChanCap OBVIOUS
    <2> QED BY <2>1, <2>2, <2>3 DEF FeedTypeOK
  <1>3. FeedPlaces BY DEF FeedPlaces
  <1>4. SnapshotsAreMaps /\ OneTells /\ AllComesRight
    BY DEF SnapshotsAreMaps, OneTells, AllComesRight
  <1> QED BY <1>1, <1>2, <1>3, <1>4 DEF FeedInv

\* A caller takes one step of the store, and tells of the one device whose
\* status it may have changed what that status is now.
LEMMA CallerTells ==
    ASSUME StoreInv, NEW k \in Callers, CallerStep(k)
    PROVE  /\ StoreNext
           /\ \E d \in Devices, status \in Status :
                 /\ Publishes(k, d, status)
                 /\ Present(d)' => status = devices'[d].status
                 /\ \A e \in Devices \ {d} : devices'[e] = devices[e]
  <1> USE PresenceAssumption
      DEF Status, StoreInv, StoreTypeOK, DevicePresence, Present, Absent
  <1>1. ASSUME NEW d \in Devices, NEW o \in Owners, CallOnline(k, d, o)
        PROVE  /\ StoreNext
               /\ devices'[d].status \in Status
               /\ Publishes(k, d, devices'[d].status)
               /\ \A e \in Devices \ {d} : devices'[e] = devices[e]
    <2>1. StoreNext BY <1>1 DEF CallOnline, StoreNext
    <2>2. \A e \in Devices \ {d} : devices'[e] = devices[e]
      BY <1>1 DEF CallOnline, SetDeviceOnline
    <2>3. devices'[d].status \in Status
      BY <1>1 DEF CallOnline, SetDeviceOnline
    <2> QED BY <1>1, <2>1, <2>2, <2>3 DEF CallOnline
  <1>2. ASSUME NEW d \in Devices, CallOffline(k, d)
        PROVE  /\ StoreNext
               /\ Publishes(k, d, "offline") /\ ~Present(d)'
               /\ \A e \in Devices \ {d} : devices'[e] = devices[e]
    BY <1>2 DEF CallOffline, SetDeviceOffline, StoreNext
  <1>3. ASSUME NEW s \in Sessions, NEW d \in Devices, CallRegister(k, s, d)
        PROVE  /\ StoreNext
               /\ Publishes(k, d, "in_session")
               /\ Present(d)' => devices'[d].status = "in_session"
               /\ \A e \in Devices \ {d} : devices'[e] = devices[e]
    BY <1>3 DEF CallRegister, RegisterSession, StoreNext
  <1>4. ASSUME NEW s \in Sessions, CallEnd(k, s)
        PROVE  /\ StoreNext
               /\ \E d \in Devices :
                     /\ Publishes(k, d, "online")
                     /\ Present(d)' => devices'[d].status = "online"
                     /\ \A e \in Devices \ {d} : devices'[e] = devices[e]
    <2> USE <1>4 DEF CallEnd
    <2>1. StoreNext BY DEF StoreNext
    <2>2. PICK d \in Devices : d = sessions[s] OBVIOUS
    <2>3. devices' = IF Present(d)
                     THEN [devices EXCEPT ![d].status = "online",
                                          ![d].active = None]
                     ELSE devices
      BY <2>2 DEF EndSession
    <2>4. Present(d)' => devices'[d].status = "online" BY <2>3
    <2>5. \A e \in Devices \ {d} : devices'[e] = devices[e] BY <2>3
    <2> QED BY <2>1, <2>2, <2>4, <2>5
  <1> HIDE DEF StoreInv, StoreTypeOK, DevicePresence, Present, Absent
  <1>5. ASSUME NEW d \in Devices, NEW o \in Owners, CallOnline(k, d, o)
        PROVE  \E e \in Devices, status \in Status :
                  /\ Publishes(k, e, status)
                  /\ Present(e)' => status = devices'[e].status
                  /\ \A c \in Devices \ {e} : devices'[c] = devices[c]
    BY <1>1, <1>5
  <1>6. "offline" \in Status /\ "in_session" \in Status /\ "online" \in Status
    OBVIOUS
  <1> HIDE DEF Status
  <1>7. CASE \E d \in Devices : \E o \in Owners : CallOnline(k, d, o)
    BY <1>1, <1>5, <1>7
  <1>8. CASE \E d \in Devices : CallOffline(k, d) BY <1>2, <1>6, <1>8
  <1>9. CASE \E d \in Devices, s \in Sessions : CallRegister(k, s, d)
    BY <1>3, <1>6, <1>9
  <1>10. CASE \E s \in Sessions : CallEnd(k, s)
    BY <1>4, <1>6, <1>10
  <1> QED BY <1>7, <1>8, <1>9, <1>10 DEF CallerStep

\* Every step of the feed is a step of the store, or leaves it alone.
LEMMA FeedStepsStore ==
    ASSUME StoreInv, [FeedNext]_feedVars
    PROVE  [StoreNext]_storeVars
  <1>1. ASSUME NEW k \in Callers, CallerStep(k) PROVE StoreNext
    BY <1>1, CallerTells
  <1>2. ASSUME NEW k \in Callers, NEW f \in Feeds, Publish(k, f)
        PROVE  UNCHANGED storeVars
    BY <1>2 DEF Publish
  <1>3. ASSUME NEW f \in Feeds, Connect(f) \/ FeedStep(f)
        PROVE  UNCHANGED storeVars
    BY <1>3 DEF Connect, FeedStep, Subscribe, Snapshot, SendSnapshot,
                SnapshotSent, SendEvent, LeaveFeed, Unsubscribe
  <1>4. CASE Disconnect \/ ReadDevices \/ RefreshDevices
    BY <1>4 DEF Disconnect, ReadDevices, RefreshDevices
  <1>5. CASE UNCHANGED feedVars BY <1>5 DEF feedVars
  <1> QED BY <1>1, <1>2, <1>3, <1>4, <1>5 DEF FeedNext

----------------------------------------------------------------------------

\* A change of the store: its event is still to be sent to whoever subscribed.
LEMMA CallKeeps ==
    ASSUME FeedInv, StoreInv', NEW k \in Callers, CallerStep(k)
    PROVE  FeedInv'
  <1> USE FeedAssumption, PresenceAssumption
  <1>0. FeedTypeOK /\ FeedPlaces BY DEF FeedInv
  <1>1. PICK d \in Devices, status \in Status :
           /\ Publishes(k, d, status)
           /\ Present(d)' => status = devices'[d].status
           /\ \A e \in Devices \ {d} : devices'[e] = devices[e]
    BY CallerTells DEF FeedInv
  <1>2. /\ pubEvent'[k] = [device |-> d, status |-> status]
        /\ pubTo'[k] = subs /\ pubTo[k] = {}
        /\ UNCHANGED <<subs, closed, chan, panicked, fPc, fSnap, current, list,
                       answer>>
    BY <1>0, <1>1 DEF Publishes, FeedTypeOK
  <1>a. \A j \in Callers : j # k =>
           pubTo'[j] = pubTo[j] /\ pubEvent'[j] = pubEvent[j]
    BY <1>0, <1>1 DEF Publishes, FeedTypeOK
  <1>b. /\ missed' = missed \ {d}
        /\ crossed' \subseteq crossed \cup {d} /\ crossed \subseteq crossed' \cup {d}
        /\ d \notin crossed' => \A j \in Callers : ~Telling(j, d)
    BY <1>1 DEF Publishes
  <1>c. \A e \in Devices, j \in Callers : e # d => (Telling(j, e)' <=> Telling(j, e))
    BY <1>2, <1>a DEF Telling
  <1>d. d \notin crossed' => \A j \in Callers : Telling(j, d)' => j = k
    BY <1>2, <1>a, <1>b DEF Telling
  <1>3. FeedTypeOK'
    <2>1. pubEvent' \in [Callers -> Updates \cup {None}]
      BY <1>0, <1>1 DEF Publishes, FeedTypeOK, Updates
    <2>2. pubTo' \in [Callers -> SUBSET Feeds]
      BY <1>0, <1>1 DEF Publishes, FeedTypeOK
    <2> QED BY <1>0, <1>2, <1>b, <2>1, <2>2 DEF FeedTypeOK, StoreInv
  <1>4. FeedPlaces'
    <2>1. pubEvent'[k] \in Updates BY <1>2 DEF Updates
    <2> QED BY <1>0, <1>2, <1>a, <2>1 DEF FeedPlaces
  <1>5. SnapshotsAreMaps' BY <1>2 DEF FeedInv, SnapshotsAreMaps
  <1>e. OneTells'
    BY <1>2, <1>b, <1>c, <1>d DEF FeedInv, OneTells
  <1>6. AllComesRight'
    <2> SUFFICES ASSUME current # None,
                        NEW e \in Devices \ (missed' \cup crossed'), Present(e)'
                 PROVE  ComesRight(e)'
      BY <1>2 DEF AllComesRight
    <2>1. current \in Feeds BY <1>0 DEF FeedTypeOK
    <2>2. CASE e = d
      <3>1. PendingIsRight(d)' BY <1>1, <1>2, <1>d, <2>2 DEF PendingIsRight
      <3>2. CASE current \in subs
        <4>1. Pending(d)' BY <1>2, <3>2 DEF Pending, Telling
        <4> QED BY <2>2, <3>1, <4>1 DEF ComesRight
      <3>3. CASE current \notin subs
        <4>1. fPc[current] = "subscribe"
          BY <1>0, <2>1, <3>3 DEF FeedPlaces
        <4>2. chan[current] = <<>> BY <1>0, <2>1, <4>1 DEF FeedPlaces
        <4>3. LastEventIsRight(d)' /\ ~Copied'
          BY <1>2, <4>1, <4>2 DEF LastEventIsRight, Copied
        <4> QED BY <2>2, <3>1, <4>3 DEF ComesRight
      <3> QED BY <3>2, <3>3
    <2>3. CASE e # d
      <3>1. devices'[e] = devices[e] /\ Present(e)
        BY <1>1, <2>3 DEF Present
      <3>2. ComesRight(e) BY <1>b, <2>3, <3>1 DEF FeedInv, AllComesRight
      <3>3. Pending(e)' <=> Pending(e) BY <1>c, <2>3 DEF Pending
      <3>4. PendingIsRight(e)'
        <4> SUFFICES ASSUME NEW j \in Callers, Telling(j, e)'
                     PROVE  pubEvent'[j].status = devices'[e].status
          BY DEF PendingIsRight
        <4>1. Telling(j, e) BY <1>c, <2>3
        <4>2. j # k BY <1>2, <4>1 DEF Telling
        <4> QED BY <1>a, <3>1, <3>2, <4>1, <4>2 DEF ComesRight, PendingIsRight
      <3>5. LastEventIsRight(e)' <=> LastEventIsRight(e)
        BY <1>2, <3>1 DEF LastEventIsRight
      <3>7. /\ InChan(e)' <=> InChan(e)
            /\ InCopy(e)' <=> InCopy(e)
            /\ Copied' <=> Copied
            /\ CopyIsRight(e)' <=> CopyIsRight(e)
        BY <1>2, <3>1 DEF InChan, InCopy, Copied, CopyIsRight
      <3> QED BY <1>2, <3>1, <3>2, <3>3, <3>4, <3>5, <3>7 DEF ComesRight
    <2> QED BY <2>2, <2>3
  <1> QED BY <1>3, <1>4, <1>5, <1>6, <1>e DEF FeedInv

\* A step that leaves alone what is on its way to the browser.
LEMMA StaysRight ==
    ASSUME NEW e \in Devices, ComesRight(e), PendingIsRight(e)',
           Pending(e)' <=> Pending(e), Copied' <=> Copied,
           UNCHANGED <<current, list, devices>>,
           chan'[current] = chan[current], fSnap'[current] = fSnap[current]
    PROVE  ComesRight(e)'
  BY DEF ComesRight, LastEventIsRight, InChan, InCopy, CopyIsRight

\* A step that changes no caller.
LEMMA PendingStays ==
    ASSUME NEW e \in Devices, UNCHANGED <<current, pubTo, pubEvent, devices>>
    PROVE  /\ Pending(e)' <=> Pending(e)
           /\ PendingIsRight(e)' <=> PendingIsRight(e)
  BY DEF Pending, PendingIsRight, Telling

\* Nobody comes to have more to tell of a device that stays out of crossed.
LEMMA OneStillTells ==
    ASSUME OneTells, current' = current,
           \A k \in Callers : pubTo'[k] \subseteq pubTo[k], pubEvent' = pubEvent,
           \A d \in Devices : d \in crossed \ crossed' =>
                              \A k \in Callers : ~Telling(k, d)
    PROVE  OneTells'
  <1>1. \A k \in Callers, d \in Devices : Telling(k, d)' => Telling(k, d)
    BY DEF Telling
  <1> QED BY <1>1 DEF OneTells

\* One send of publish: the event goes to the end of the channel, or is lost
\* and its device marked as missed.
LEMMA PublishKeeps ==
    ASSUME FeedInv, NEW k \in Callers, NEW f \in Feeds, Publish(k, f)
    PROVE  FeedInv'
  <1> USE FeedAssumption, PresenceAssumption
  <1>0. FeedTypeOK /\ FeedPlaces BY DEF FeedInv
  <1>1. /\ f \in pubTo[k] /\ pubEvent[k] \in Updates
        /\ chan \in [Feeds -> Seq(Updates)] /\ pubTo \in [Callers -> SUBSET Feeds]
    BY <1>0 DEF Publish, FeedPlaces, FeedTypeOK
  <1>2. UNCHANGED <<storeVars, subs, closed, pubEvent, fPc, fSnap, current, list,
                    answer, crossed>>
    BY DEF Publish
  <1> DEFINE d == pubEvent[k].device
  <1>3. StoreInv'
    BY <1>2 DEF FeedInv, storeVars, StoreInv, StoreTypeOK, SessionMapsAgree,
                StatusTellsSession, ActiveSessionIsHolder, Present
  <1>4. missed' \subseteq Devices
    <2>1. d \in Devices BY <1>1 DEF Updates
    <2> QED BY <1>0, <2>1 DEF Publish, Lost, FeedTypeOK
  <1>5. /\ pubTo' \in [Callers -> SUBSET Feeds]
        /\ \A j \in Callers : pubTo'[j] \subseteq pubTo[j]
        /\ \A j \in Callers \ {k} : pubTo'[j] = pubTo[j]
    BY <1>1 DEF Publish
  <1>a. OneTells' BY <1>2, <1>5, OneStillTells DEF FeedInv
  <1>6. FeedTypeOK' /\ FeedPlaces'
    <2>1. CASE f \in closed
      <3>1. FeedTypeOK'
        BY <1>0, <1>1, <1>2, <1>3, <1>4, <2>1
        DEF Publish, FeedTypeOK, StoreInv
      <3>2. FeedPlaces'
        BY <1>0, <1>1, <1>2, <2>1 DEF Publish, FeedPlaces
      <3> QED BY <3>1, <3>2
    <2>2. CASE f \notin closed
      <3>1. CASE Len(chan[f]) < ChanCap
        <4>1. chan' = [chan EXCEPT ![f] = Append(chan[f], pubEvent[k])]
          BY <2>2, <3>1 DEF Publish
        <4>2. /\ chan' \in [Feeds -> Seq(Updates)]
              /\ Len(chan'[f]) = Len(chan[f]) + 1
          BY <1>1, <4>1
        <4>3. \A g \in Feeds : Len(chan'[g]) <= ChanCap
          BY <1>0, <1>1, <3>1, <4>1, <4>2 DEF FeedTypeOK
        <4>4. FeedTypeOK'
          BY <1>0, <1>2, <1>3, <1>4, <1>5, <2>2, <4>2, <4>3
          DEF Publish, FeedTypeOK, StoreInv
        <4>5. FeedPlaces'
          BY <1>0, <1>1, <1>2, <1>5, <4>1 DEF FeedPlaces
        <4> QED BY <4>4, <4>5
      <3>2. CASE ~(Len(chan[f]) < ChanCap)
        <4>0. chan' = chan /\ panicked' = panicked
          BY <2>2, <3>2 DEF Publish
        <4>1. FeedTypeOK'
          BY <1>0, <1>2, <1>3, <1>4, <1>5, <4>0 DEF FeedTypeOK, StoreInv
        <4>2. FeedPlaces'
          BY <1>0, <1>2, <1>5, <2>2, <3>2 DEF Publish, FeedPlaces
        <4> QED BY <4>1, <4>2
      <3> QED BY <3>1, <3>2
    <2> QED BY <2>1, <2>2
  <1>7. SnapshotsAreMaps' BY <1>2 DEF FeedInv, SnapshotsAreMaps
  <1>8. AllComesRight'
    <2> SUFFICES ASSUME current # None,
                        NEW e \in Devices \ (missed' \cup crossed'), Present(e)'
                 PROVE  ComesRight(e)'
      BY <1>2 DEF AllComesRight
    <2>1. current \in Feeds BY <1>0 DEF FeedTypeOK
    <2>2. e \notin missed BY DEF Publish, Lost
    <2>3. ComesRight(e) /\ PendingIsRight(e)
      BY <1>2, <2>2 DEF FeedInv, AllComesRight, ComesRight, Present, storeVars
    <2>a. \A j \in Callers : Telling(j, e)' => Telling(j, e)
      BY <1>2, <1>5 DEF Telling
    <2>b. \A j \in Callers : j # k => (Telling(j, e)' <=> Telling(j, e))
      BY <1>2, <1>5 DEF Telling
    <2>c. \A j, l \in Callers : Telling(j, e) /\ Telling(l, e) => j = l
      BY <1>2 DEF FeedInv, OneTells
    <2>4. PendingIsRight(e)'
      BY <1>2, <2>3, <2>a DEF PendingIsRight, storeVars
    <2>5. Copied' <=> Copied BY <1>2 DEF Copied
    <2>6. CASE f \in closed
      <3>1. ~Telling(k, e) /\ ~Telling(k, e)'
        BY <1>1, <1>2, <2>6 DEF Publish, Lost, Telling
      <3>2. Pending(e) <=> Pending(e)' BY <2>b, <3>1 DEF Pending
      <3> QED BY <1>2, <2>3, <2>4, <2>5, <2>6, <3>2, StaysRight
        DEF Publish, storeVars
    <2>7. CASE f \notin closed /\ ~(Len(chan[f]) < ChanCap)
      <3>1. Telling(k, e) <=> Telling(k, e)'
        BY <1>1, <1>2, <2>7 DEF Publish, Lost, Telling
      <3>2. Pending(e) <=> Pending(e)' BY <2>b, <3>1 DEF Pending
      <3> QED BY <1>2, <2>3, <2>4, <2>5, <2>7, <3>2, StaysRight
        DEF Publish, storeVars
    <2>8. CASE f \notin closed /\ Len(chan[f]) < ChanCap /\ f # current
      <3>1. Telling(k, e) <=> Telling(k, e)'
        BY <1>1, <1>2, <2>8 DEF Publish, Telling
      <3>3. Pending(e) <=> Pending(e)' BY <2>b, <3>1 DEF Pending
      <3>2. chan'[current] = chan[current] BY <1>1, <2>1, <2>8 DEF Publish
      <3> QED BY <1>2, <2>3, <2>4, <2>5, <3>2, <3>3, StaysRight DEF storeVars
    <2>9. CASE f \notin closed /\ Len(chan[f]) < ChanCap /\ f = current
      <3> DEFINE q == chan[f]
                 r == chan'[f]
      <3>1. /\ r = Append(q, pubEvent[k]) /\ q \in Seq(Updates)
            /\ pubTo' = [pubTo EXCEPT ![k] = @ \ {f}]
        BY <1>1, <2>1, <2>9 DEF Publish
      <3>2. /\ Len(r) = Len(q) + 1 /\ r[Len(r)] = pubEvent[k]
            /\ \A i \in 1 .. Len(r) :
                  i = Len(r) \/ (i \in 1 .. Len(q) /\ r[i] = q[i])
            /\ \A i \in 1 .. Len(q) : i \in 1 .. Len(r) /\ r[i] = q[i]
            /\ Len(q) \in Nat
        BY <1>1, <3>1
      <3> HIDE DEF q, r
      <3>3. ~Telling(k, e)' BY <1>1, <1>2, <2>9, <3>1 DEF Telling
      <3>4. /\ InChan(e)' <=> \E i \in 1 .. Len(r) : r[i].device = e
            /\ InChan(e) <=> \E i \in 1 .. Len(q) : q[i].device = e
        BY <1>2, <2>9 DEF InChan, q, r
      <3>5. LastEventIsRight(e)' <=>
               \A i \in 1 .. Len(r) :
                  /\ r[i].device = e
                  /\ \A j \in 1 .. Len(r) : j > i => r[j].device # e
                  => r[i].status = devices[e].status
        BY <1>2, <2>9 DEF LastEventIsRight, r, storeVars
      <3>6. Len(r) \in 1 .. Len(r) /\ \A i \in 1 .. Len(q) : Len(r) > i
        BY <3>2
      <3>7. CASE e = d
        <4>0. Telling(k, e) BY <1>1, <2>9, <3>7 DEF Telling
        <4>1. pubEvent[k].status = devices[e].status
          BY <2>3, <4>0 DEF PendingIsRight
        <4>2. InChan(e)' BY <3>2, <3>4, <3>6, <3>7
        <4>3. LastEventIsRight(e)'
          <5>1. r[Len(r)].device = e BY <3>2, <3>7
          <5>2. \A i \in 1 .. Len(r) :
                   (\A j \in 1 .. Len(r) : j > i => r[j].device # e)
                      => i = Len(r)
            BY <3>2, <3>6, <5>1
          <5> QED BY <3>2, <3>5, <4>1, <5>2
        <4>4. ~Pending(e)' BY <2>a, <2>c, <3>3, <4>0 DEF Pending
        <4> QED BY <2>4, <4>2, <4>3, <4>4 DEF ComesRight
      <3>8. CASE e # d
        <4>0. ~Telling(k, e) BY <3>8 DEF Telling
        <4>1. Pending(e) <=> Pending(e)' BY <2>b, <3>3, <4>0 DEF Pending
        <4>2. InChan(e)' <=> InChan(e) BY <3>2, <3>4, <3>8
        <4>4. LastEventIsRight(e) => LastEventIsRight(e)'
          <5> SUFFICES ASSUME LastEventIsRight(e), NEW i \in 1 .. Len(r), r[i].device = e,
                              \A j \in 1 .. Len(r) : j > i => r[j].device # e
                       PROVE  r[i].status = devices[e].status
            BY <3>5
          <5>1. i \in 1 .. Len(q) /\ r[i] = q[i] BY <3>2, <3>8
          <5>2. \A j \in 1 .. Len(q) : j > i => q[j].device # e BY <3>2
          <5> QED BY <2>9, <5>1, <5>2 DEF LastEventIsRight, q
        <4>5. InCopy(e)' <=> InCopy(e) BY <1>2 DEF InCopy
        <4>6. CopyIsRight(e)' <=> CopyIsRight(e)
          BY <1>2 DEF CopyIsRight, storeVars
        <4> QED BY <1>2, <2>3, <2>4, <2>5, <4>1, <4>2, <4>4, <4>5, <4>6
          DEF ComesRight, storeVars
      <3> QED BY <3>7, <3>8
    <2> QED BY <2>6, <2>7, <2>8, <2>9
  <1> QED BY <1>3, <1>6, <1>7, <1>8, <1>a DEF FeedInv

\* A step of the browser or of one feed's goroutine, seen from the callers.
CallersRest == UNCHANGED <<storeVars, closed, pubEvent, pubTo, panicked>>

LEMMA RestingTellers ==
    ASSUME FeedInv, CallersRest, current' = current,
           \A d \in Devices : d \in crossed \ crossed' =>
                              \A k \in Callers : ~Telling(k, d)
    PROVE  OneTells'
  BY OneStillTells DEF CallersRest, FeedInv

LEMMA RestingStore == FeedInv /\ CallersRest => StoreInv'
  BY DEF CallersRest, FeedInv, storeVars, StoreInv, StoreTypeOK, SessionMapsAgree,
         StatusTellsSession, ActiveSessionIsHolder, Present

\* A socket opens, and closes; the device list is asked for and answered.
LEMMA BrowserKeeps ==
    ASSUME FeedInv,
           \/ \E f \in Feeds : Connect(f)
           \/ Disconnect \/ ReadDevices \/ RefreshDevices
    PROVE  FeedInv'
  <1> USE FeedAssumption, PresenceAssumption
  <1>0. FeedTypeOK /\ FeedPlaces BY DEF FeedInv
  <1>1. CallersRest /\ UNCHANGED <<subs, chan, fSnap>>
    BY DEF CallersRest, Connect, Disconnect, ReadDevices, RefreshDevices
  <1>2. StoreInv' BY <1>1, RestingStore
  <1>3. SnapshotsAreMaps' BY <1>1 DEF FeedInv, SnapshotsAreMaps
  <1>4. ASSUME NEW f \in Feeds, Connect(f) PROVE FeedInv'
    <2> USE <1>4 DEF Connect
    <2>0. \A d \in Devices, k \in Callers : ~Telling(k, d)'
      BY <1>0 DEF FeedPlaces, Telling
    <2>1. FeedTypeOK' BY <1>0, <1>2 DEF FeedTypeOK, StoreInv
    <2>2. FeedPlaces' BY <1>0 DEF FeedPlaces, FeedTypeOK
    <2>3. AllComesRight'
      <3> SUFFICES ASSUME NEW e \in Devices PROVE ComesRight(e)'
        BY DEF AllComesRight
      <3>1. chan[f] = <<>> /\ \A k \in Callers : f \notin pubTo[k]
        BY <1>0 DEF FeedPlaces
      <3>2. ~Copied' BY <1>0 DEF Copied, FeedTypeOK
      <3>3. PendingIsRight(e)' BY <2>0 DEF PendingIsRight
      <3>4. LastEventIsRight(e)' BY <3>1 DEF LastEventIsRight
      <3> QED BY <3>2, <3>3, <3>4 DEF ComesRight
    <2>4. OneTells' BY <2>0 DEF OneTells
    <2> QED BY <1>2, <1>3, <2>1, <2>2, <2>3, <2>4 DEF FeedInv
  <1>5. CASE Disconnect
    <2> USE <1>5 DEF Disconnect, history
    <2>1. FeedTypeOK' BY <1>0, <1>2 DEF FeedTypeOK, StoreInv
    <2>2. FeedPlaces' BY <1>0 DEF FeedPlaces
    <2>3. OneTells' /\ AllComesRight' BY DEF OneTells, AllComesRight
    <2> QED BY <1>2, <1>3, <2>1, <2>2, <2>3 DEF FeedInv
  <1>6. CASE ReadDevices
    <2> USE <1>6 DEF ReadDevices, history
    <2>1. answer' \in [Devices -> Status]
      BY DEF FeedInv, StoreInv, StoreTypeOK, DevicePresence, Status
    <2>2. FeedTypeOK' BY <1>0, <1>2, <2>1 DEF FeedTypeOK, StoreInv
    <2>3. FeedPlaces' BY <1>0 DEF FeedPlaces
    <2>4. AllComesRight'
      <3> SUFFICES ASSUME current # None,
                          NEW e \in Devices \ (missed \cup crossed), Present(e)
                   PROVE  ComesRight(e)'
        BY DEF AllComesRight, Present, storeVars
      <3>1. ComesRight(e) BY DEF FeedInv, AllComesRight
      <3>2. Copied' <=> Copied BY DEF Copied
      <3> QED BY <3>1, <3>2, StaysRight, PendingStays DEF ComesRight, storeVars
    <2>5. OneTells' BY <1>1, RestingTellers
    <2> QED BY <1>2, <1>3, <2>2, <2>3, <2>4, <2>5 DEF FeedInv
  <1>7. CASE RefreshDevices
    <2> USE <1>7 DEF RefreshDevices
    <2>1. FeedTypeOK' BY <1>0, <1>2 DEF FeedTypeOK, StoreInv
    <2>2. FeedPlaces' BY <1>0 DEF FeedPlaces
    <2>3. AllComesRight'
      <3> SUFFICES ASSUME current # None,
                          NEW e \in Devices \ (missed' \cup crossed'), Present(e)
                   PROVE  ComesRight(e)'
        BY DEF AllComesRight, Present, storeVars
      <3>1. Coming(e) => ComesRight(e)
        BY DEF FeedInv, AllComesRight
      <3>2. ~Coming(e) => answer[e] = devices[e].status OBVIOUS
      <3>3. /\ Pending(e)' <=> Pending(e)
            /\ PendingIsRight(e)' <=> PendingIsRight(e)
        BY PendingStays DEF storeVars
      <3>4. /\ Copied' <=> Copied
            /\ InChan(e)' <=> InChan(e)
            /\ InCopy(e)' <=> InCopy(e)
            /\ LastEventIsRight(e)' <=> LastEventIsRight(e)
            /\ CopyIsRight(e)' <=> CopyIsRight(e)
        BY DEF Copied, InChan, InCopy, LastEventIsRight, CopyIsRight, storeVars
      <3>5. Coming(e) <=> Pending(e) \/ InChan(e) \/ InCopy(e) \/ ~Copied
        <4>1. current \in Feeds /\ chan[current] \in Seq(Updates)
          BY <1>0 DEF FeedTypeOK
        <4>2. DOMAIN chan[current] = 1 .. Len(chan[current]) BY <4>1
        <4> QED BY <4>2 DEF Coming, Pending, InChan, InCopy, Copied
      <3>6. devices'[e].status = devices[e].status BY DEF storeVars
      <3>7. ~Coming(e) => PendingIsRight(e) /\ LastEventIsRight(e) /\ CopyIsRight(e)
        BY <3>5 DEF Pending, PendingIsRight, InChan, LastEventIsRight, InCopy,
                    CopyIsRight
      <3>8. CASE Coming(e)
        BY <3>1, <3>3, <3>4, <3>5, <3>8 DEF ComesRight
      <3>9. CASE ~Coming(e)
        BY <3>2, <3>3, <3>4, <3>6, <3>7, <3>9 DEF ComesRight
      <3> QED BY <3>8, <3>9
    <2>4. OneTells'
      <3>1. \A d \in Devices : ~Coming(d) => \A k \in Callers : ~Telling(k, d)
        BY DEF Coming, Telling, FeedInv, FeedTypeOK
      <3> QED BY <1>1, <3>1, RestingTellers
    <2> QED BY <1>2, <1>3, <2>1, <2>2, <2>3, <2>4 DEF FeedInv
  <1> QED BY <1>4, <1>5, <1>6, <1>7

\* Subscribing, and leaving: a goroutine that leaves is not the browser's.
LEMMA SubscriptionKeeps ==
    ASSUME FeedInv, NEW f \in Feeds,
           \/ Subscribe(f) \/ SnapshotSent(f) \/ LeaveFeed(f) \/ Unsubscribe(f)
    PROVE  FeedInv'
  <1> USE FeedAssumption, PresenceAssumption DEF FStep
  <1>0. FeedTypeOK /\ FeedPlaces BY DEF FeedInv
  <1>1. UNCHANGED <<storeVars, pubEvent, pubTo, panicked, fSnap, current, list,
                    answer, missed, crossed>>
    BY DEF Subscribe, SnapshotSent, LeaveFeed, Unsubscribe, history
  <1>a. /\ chan' \in [Feeds -> Seq(Updates)]
        /\ \A g \in Feeds : chan'[g] = chan[g] \/ (g = f /\ chan'[g] = <<>>)
        /\ current # None => chan'[current] = chan[current]
    <2>1. CASE Unsubscribe(f)
      <3>1. current # f BY <1>0, <2>1 DEF Unsubscribe, FeedPlaces
      <3>2. chan' = [chan EXCEPT ![f] = <<>>] BY <2>1 DEF Unsubscribe
      <3> QED BY <1>0, <3>1, <3>2 DEF FeedTypeOK
    <2>2. CASE ~Unsubscribe(f)
      BY <1>0, <2>2 DEF Subscribe, SnapshotSent, LeaveFeed, FeedTypeOK
    <2> QED BY <2>1, <2>2
  <1>2. StoreInv'
    BY <1>1 DEF FeedInv, storeVars, StoreInv, StoreTypeOK, SessionMapsAgree,
                StatusTellsSession, ActiveSessionIsHolder, Present
  <1>3. FeedTypeOK'
    <2>1. \A g \in Feeds : Len(chan'[g]) <= ChanCap
      BY <1>0, <1>a DEF FeedTypeOK
    <2> QED
      BY <1>0, <1>1, <1>2, <1>a, <2>1
      DEF Subscribe, SnapshotSent, LeaveFeed, Unsubscribe, FeedTypeOK, StoreInv
  <1>4. FeedPlaces'
    <2>1. CASE Subscribe(f)
      BY <1>0, <1>1, <2>1 DEF Subscribe, FeedPlaces, FeedTypeOK
    <2>2. CASE SnapshotSent(f)
      BY <1>0, <1>1, <2>2 DEF SnapshotSent, FeedPlaces, FeedTypeOK
    <2>3. CASE LeaveFeed(f)
      BY <1>0, <1>1, <2>3 DEF LeaveFeed, FeedPlaces, FeedTypeOK
    <2>4. CASE Unsubscribe(f)
      BY <1>0, <1>1, <2>4 DEF Unsubscribe, FeedPlaces, FeedTypeOK
    <2> QED BY <2>1, <2>2, <2>3, <2>4
  <1>5. SnapshotsAreMaps' BY <1>1 DEF FeedInv, SnapshotsAreMaps
  <1>6. AllComesRight'
    <2> SUFFICES ASSUME current # None,
                        NEW e \in Devices \ (missed \cup crossed), Present(e)
                 PROVE  ComesRight(e)'
      BY <1>1 DEF AllComesRight, Present, storeVars
    <2>1. ComesRight(e) BY DEF FeedInv, AllComesRight
    <2>2. Copied' <=> Copied
      BY <1>0 DEF Copied, Subscribe, SnapshotSent, LeaveFeed, Unsubscribe,
                  FeedPlaces, FeedTypeOK
    <2> QED BY <1>1, <1>a, <2>1, <2>2, StaysRight, PendingStays
      DEF ComesRight, storeVars
  <1>7. OneTells' BY <1>1, OneStillTells DEF FeedInv
  <1> QED BY <1>2, <1>3, <1>4, <1>5, <1>6, <1>7 DEF FeedInv

\* The copy is of this moment; what changes afterwards has an event behind it.
LEMMA SnapshotKeeps ==
    ASSUME FeedInv, NEW f \in Feeds, Snapshot(f) PROVE FeedInv'
  <1> USE FeedAssumption, PresenceAssumption DEF FStep, Snapshot, history
  <1>0. FeedTypeOK /\ FeedPlaces BY DEF FeedInv
  <1> DEFINE copy == {[device |-> d, status |-> devices[d].status] :
                         d \in {e \in Devices : Present(e)}}
  <1>1. /\ fSnap' = [fSnap EXCEPT ![f] = copy]
        /\ copy \subseteq Updates
        /\ \A u \in copy : u.status = devices[u.device].status
        /\ \A d \in Devices : Present(d) => \E u \in copy : u.device = d
    <2>1. \A d \in Devices : devices[d].status \in Status
      BY DEF Status, FeedInv, StoreInv, StoreTypeOK, DevicePresence
    <2>2. copy \subseteq Updates BY <2>1 DEF Updates
    <2>3. \A u \in copy : u.status = devices[u.device].status OBVIOUS
    <2>4. \A d \in Devices : Present(d) => \E u \in copy : u.device = d
      <3> SUFFICES ASSUME NEW d \in Devices, Present(d)
                   PROVE  \E u \in copy : u.device = d
        OBVIOUS
      <3>1. [device |-> d, status |-> devices[d].status] \in copy OBVIOUS
      <3> QED BY <3>1
    <2> QED BY <2>2, <2>3, <2>4
  <1>2. \A u, v \in copy : u.device = v.device => u = v OBVIOUS
  <1> HIDE DEF copy
  <1>3. StoreInv' BY RestingStore DEF CallersRest
  <1>4. FeedTypeOK' BY <1>0, <1>1, <1>3 DEF FeedTypeOK, StoreInv
  <1>5. FeedPlaces' BY <1>0, <1>1 DEF FeedPlaces, FeedTypeOK
  <1>6. SnapshotsAreMaps'
    BY <1>0, <1>1, <1>2 DEF FeedInv, SnapshotsAreMaps, FeedTypeOK
  <1>7. AllComesRight'
    <2> SUFFICES ASSUME current # None,
                        NEW e \in Devices \ (missed \cup crossed), Present(e)
                 PROVE  ComesRight(e)'
      BY DEF AllComesRight, Present, storeVars
    <2>1. ComesRight(e) BY DEF FeedInv, AllComesRight
    <2>2. CASE current # f
      <3>1. (Copied' <=> Copied) /\ fSnap'[current] = fSnap[current]
        BY <1>0, <2>2 DEF Copied, FeedTypeOK
      <3> QED BY <2>1, <3>1, StaysRight, PendingStays DEF ComesRight, storeVars
    <2>3. CASE current = f
      <3>1. fSnap'[current] = copy BY <1>0, <1>1, <2>3 DEF FeedTypeOK
      <3>2. CopyIsRight(e)' BY <1>1, <3>1 DEF CopyIsRight, storeVars
      <3>3. InCopy(e)' BY <1>1, <3>1 DEF InCopy
      <3>4. /\ Pending(e)' <=> Pending(e)
            /\ PendingIsRight(e)' <=> PendingIsRight(e)
        BY PendingStays DEF storeVars
      <3>5. LastEventIsRight(e)' <=> LastEventIsRight(e)
        BY DEF LastEventIsRight, storeVars
      <3> QED BY <2>1, <3>2, <3>3, <3>4, <3>5 DEF ComesRight
    <2> QED BY <2>2, <2>3
  <1>8. OneTells' BY RestingTellers DEF CallersRest
  <1> QED BY <1>3, <1>4, <1>5, <1>6, <1>7, <1>8 DEF FeedInv

\* What an update that came in leaves of the others.
LEMMA AppliedMisses ==
    ASSUME FeedTypeOK, NEW f \in Feeds, NEW u \in Updates, Applied(f, u)
    PROVE  /\ list' \in [Devices -> Status] \cup {None} /\ missed' \subseteq Devices
           /\ missed \subseteq missed'
           /\ current # f => list' = list
           /\ current = f /\ list = None => u.device \in missed' /\ list' = None
           /\ current = f /\ list # None =>
                 /\ list'[u.device] = u.status
                 /\ \A d \in Devices \ {u.device} : list'[d] = list[d]
  BY DEF Applied, FeedTypeOK, Updates

\* One update of the copy is sent.
LEMMA SendSnapshotKeeps ==
    ASSUME FeedInv, NEW f \in Feeds, SendSnapshot(f) PROVE FeedInv'
  <1> USE FeedAssumption, PresenceAssumption
  <1>0. FeedTypeOK /\ FeedPlaces BY DEF FeedInv
  <1>1. PICK u \in fSnap[f] :
           fSnap' = [fSnap EXCEPT ![f] = @ \ {u}] /\ Applied(f, u)
    BY DEF SendSnapshot
  <1>2. /\ fPc[f] = "send" /\ u \in Updates
        /\ UNCHANGED <<storeVars, subs, closed, chan, pubEvent, pubTo, panicked,
                       fPc, current, answer, crossed>>
    BY <1>0 DEF SendSnapshot, FeedTypeOK
  <1>3. StoreInv' BY <1>2, RestingStore DEF CallersRest
  <1>4. FeedTypeOK'
    BY <1>0, <1>1, <1>2, <1>3, AppliedMisses DEF FeedTypeOK, StoreInv
  <1>5. FeedPlaces' BY <1>0, <1>1, <1>2 DEF FeedPlaces, FeedTypeOK
  <1>6. SnapshotsAreMaps'
    BY <1>0, <1>1 DEF FeedInv, SnapshotsAreMaps, FeedTypeOK
  <1>7. AllComesRight'
    <2> SUFFICES ASSUME current # None,
                        NEW e \in Devices \ (missed' \cup crossed'), Present(e)
                 PROVE  ComesRight(e)'
      BY <1>2 DEF AllComesRight, Present, storeVars
    <2>1. ComesRight(e)
      BY <1>0, <1>1, <1>2, AppliedMisses DEF FeedInv, AllComesRight
    <2>2. Copied' <=> Copied BY <1>2 DEF Copied
    <2>3. CASE current # f
      <3>1. list' = list /\ fSnap'[current] = fSnap[current]
        BY <1>0, <1>1, <1>2, <2>3, AppliedMisses DEF FeedTypeOK
      <3> QED BY <1>2, <2>1, <2>2, <3>1, StaysRight, PendingStays
        DEF ComesRight, storeVars
    <2>4. CASE current = f
      <3>1. fSnap'[current] = fSnap[current] \ {u}
        BY <1>0, <1>1, <2>4 DEF FeedTypeOK
      <3>2. Copied BY <1>2, <2>4 DEF Copied
      <3>3. /\ Pending(e)' <=> Pending(e)
            /\ PendingIsRight(e)' <=> PendingIsRight(e)
        BY <1>2, PendingStays DEF storeVars
      <3>4. /\ LastEventIsRight(e)' <=> LastEventIsRight(e)
            /\ InChan(e)' <=> InChan(e)
        BY <1>2 DEF LastEventIsRight, InChan, storeVars
      <3>5. CopyIsRight(e) => CopyIsRight(e)'
        BY <1>2, <3>1 DEF CopyIsRight, storeVars
      <3>6. devices'[e].status = devices[e].status BY <1>2 DEF storeVars
      <3>7. CASE u.device = e
        <4>1. list # None /\ list'[e] = u.status
          BY <1>0, <1>1, <1>2, <2>4, <3>7, AppliedMisses
        <4>2. CopyIsRight(e) => u.status = devices[e].status
          BY <1>1, <2>4, <3>7 DEF CopyIsRight
        <4> QED BY <2>1, <2>2, <3>2, <3>3, <3>4, <3>5, <3>6, <4>1, <4>2
          DEF ComesRight
      <3>8. CASE u.device # e
        <4>1. InCopy(e)' <=> InCopy(e) BY <1>2, <3>1, <3>8 DEF InCopy
        <4>2. list' # None => list # None /\ list'[e] = list[e]
          BY <1>0, <1>1, <1>2, <2>4, <3>8, AppliedMisses
        <4> QED BY <2>1, <2>2, <3>2, <3>3, <3>4, <3>5, <3>6, <4>1, <4>2
          DEF ComesRight
      <3> QED BY <3>7, <3>8
    <2> QED BY <2>3, <2>4
  <1>8. OneTells' BY <1>2, RestingTellers DEF CallersRest
  <1> QED BY <1>3, <1>4, <1>5, <1>6, <1>7, <1>8 DEF FeedInv

\* The first event of the channel is sent.
LEMMA SendEventKeeps ==
    ASSUME FeedInv, NEW f \in Feeds, SendEvent(f) PROVE FeedInv'
  <1> USE FeedAssumption, PresenceAssumption
  <1>0. FeedTypeOK /\ FeedPlaces BY DEF FeedInv
  <1> DEFINE q == chan[f]
             r == chan'[f]
             u == Head(chan[f])
  <1>1. /\ fPc[f] = "loop" /\ q # <<>> /\ q \in Seq(Updates)
        /\ r = Tail(q) /\ Applied(f, u) /\ u \in Updates
        /\ UNCHANGED <<storeVars, subs, closed, pubEvent, pubTo, panicked, fPc,
                       fSnap, current, answer, crossed>>
    BY <1>0 DEF SendEvent, FeedTypeOK
  <1>2. /\ r \in Seq(Updates) /\ Len(r) = Len(q) - 1 /\ Len(q) \in Nat
        /\ 1 \in 1 .. Len(q) /\ u = q[1]
        /\ \A i \in 1 .. Len(r) : i + 1 \in 1 .. Len(q) /\ r[i] = q[i + 1]
        /\ \A i \in 1 .. Len(q) :
              i = 1 \/ (i - 1 \in 1 .. Len(r) /\ r[i - 1] = q[i])
    <2>1. Len(q) > 0 BY <1>1
    <2> QED BY <1>1, <2>1
  <1>3. StoreInv' BY <1>1, RestingStore DEF CallersRest
  <1>4. FeedTypeOK' /\ FeedPlaces'
    <2>1. chan' \in [Feeds -> Seq(Updates)]
      BY <1>0, <1>2 DEF SendEvent, FeedTypeOK
    <2>2. \A g \in Feeds : Len(chan'[g]) <= ChanCap
      BY <1>0, <1>2 DEF SendEvent, FeedTypeOK
    <2>3. FeedTypeOK'
      BY <1>0, <1>1, <1>3, <2>1, <2>2, AppliedMisses DEF FeedTypeOK, StoreInv
    <2>4. FeedPlaces' BY <1>0, <1>1 DEF SendEvent, FeedPlaces, FeedTypeOK
    <2> QED BY <2>3, <2>4
  <1>5. SnapshotsAreMaps' BY <1>1 DEF FeedInv, SnapshotsAreMaps
  <1>6. AllComesRight'
    <2> SUFFICES ASSUME current # None,
                        NEW e \in Devices \ (missed' \cup crossed'), Present(e)
                 PROVE  ComesRight(e)'
      BY <1>1 DEF AllComesRight, Present, storeVars
    <2>1. ComesRight(e)
      BY <1>0, <1>1, AppliedMisses DEF FeedInv, AllComesRight
    <2>2. Copied' <=> Copied BY <1>1 DEF Copied
    <2>3. CASE current # f
      <3>1. current \in Feeds BY <1>0 DEF FeedTypeOK
      <3>2. list' = list /\ chan'[current] = chan[current]
        BY <1>0, <1>1, <2>3, <3>1, AppliedMisses DEF SendEvent, FeedTypeOK
      <3> QED BY <1>1, <2>1, <2>2, <3>2, StaysRight, PendingStays
        DEF ComesRight, storeVars
    <2>4. CASE current = f
      <3> HIDE DEF q, r, u
      <3>1. /\ Pending(e)' <=> Pending(e)
            /\ PendingIsRight(e)' <=> PendingIsRight(e)
        BY <1>1, PendingStays DEF storeVars
      <3>2. /\ InCopy(e)' <=> InCopy(e)
            /\ CopyIsRight(e)' <=> CopyIsRight(e)
            /\ devices'[e].status = devices[e].status
        BY <1>1 DEF InCopy, CopyIsRight, storeVars
      <3>3. /\ InChan(e)' <=> \E i \in 1 .. Len(r) : r[i].device = e
            /\ InChan(e) <=> \E i \in 1 .. Len(q) : q[i].device = e
        BY <1>1, <2>4 DEF InChan, q, r
      <3>4. LastEventIsRight(e) => LastEventIsRight(e)'
        <4> SUFFICES ASSUME LastEventIsRight(e),
                            NEW i \in 1 .. Len(r), r[i].device = e,
                            \A j \in 1 .. Len(r) : j > i => r[j].device # e
                     PROVE  r[i].status = devices[e].status
          BY <1>1, <2>4, <3>2 DEF LastEventIsRight, r
        <4>1. \A j \in 1 .. Len(q) : j > i + 1 => q[j].device # e
          <5> SUFFICES ASSUME NEW j \in 1 .. Len(q), j > i + 1
                       PROVE  q[j].device # e
            OBVIOUS
          <5>1. j - 1 \in 1 .. Len(r) /\ r[j - 1] = q[j] /\ j - 1 > i BY <1>2
          <5> QED BY <5>1
        <4>2. i + 1 \in 1 .. Len(q) /\ q[i + 1] = r[i] BY <1>2
        <4> QED BY <2>4, <4>1, <4>2 DEF LastEventIsRight, q
      <3>5. CASE u.device = e
        <4>1. list # None /\ list'[e] = u.status
          BY <1>0, <1>1, <2>4, <3>5, AppliedMisses
        <4>2. InChan(e) BY <1>2, <3>3, <3>5
        <4>3. fSnap[f] = {} BY <1>0, <1>1 DEF FeedPlaces
        <4>4. ~InCopy(e)' /\ CopyIsRight(e)'
          BY <1>1, <2>4, <4>3 DEF InCopy, CopyIsRight
        <4>5. LastEventIsRight(e) /\ ~InChan(e)' =>
                 u.status = devices[e].status
          <5> SUFFICES ASSUME LastEventIsRight(e), ~InChan(e)'
                       PROVE  q[1].status = devices[e].status
            BY <1>2
          <5>1. \A j \in 1 .. Len(q) : j > 1 => q[j].device # e
            BY <1>2, <3>3
          <5>2. 1 \in 1 .. Len(q) /\ q[1].device = e BY <1>2, <3>5
          <5> QED BY <2>4, <5>1, <5>2 DEF LastEventIsRight, q
        <4> QED BY <2>1, <2>2, <3>1, <3>2, <3>4, <4>1, <4>2, <4>4, <4>5
          DEF ComesRight
      <3>6. CASE u.device # e
        <4>1. InChan(e)' <=> InChan(e) BY <1>2, <3>3, <3>6
        <4>2. list' # None => list # None /\ list'[e] = list[e]
          BY <1>0, <1>1, <2>4, <3>6, AppliedMisses
        <4> QED BY <2>1, <2>2, <3>1, <3>2, <3>4, <4>1, <4>2 DEF ComesRight
      <3> QED BY <3>5, <3>6
    <2> QED BY <2>3, <2>4
  <1>7. OneTells' BY <1>1, RestingTellers DEF CallersRest
  <1> QED BY <1>3, <1>4, <1>5, <1>6, <1>7 DEF FeedInv

----------------------------------------------------------------------------

\* The feed implements the store it watches: none of its steps does to the
\* store what a call of the store does not do.
THEOREM FeedUsesStore == FeedSpec => StoreSpec
  <1>1. FeedInit => StoreInit BY DEF FeedInit
  <1>2. StoreInv /\ [FeedNext]_feedVars => [StoreNext]_storeVars
    BY FeedStepsStore
  <1>3. StoreInv /\ [FeedNext]_feedVars => StoreInv'
    BY FeedStepsStore, StoreNextInv
  <1> QED BY <1>1, <1>2, <1>3, StoreInitInv, PTL DEF FeedSpec, StoreSpec

\* The inductive invariant of the feed.
THEOREM FeedInvariant == FeedSpec => []FeedInv
  <1>1. FeedInv /\ [FeedNext]_feedVars => FeedInv'
    <2> SUFFICES ASSUME FeedInv, [FeedNext]_feedVars PROVE FeedInv'
      OBVIOUS
    <2>1. StoreInv' BY FeedStepsStore, StoreNextInv DEF FeedInv
    <2>2. CASE UNCHANGED feedVars
      <3> USE <2>2 DEF feedVars, storeVars
      <3>1. FeedTypeOK' BY <2>1 DEF FeedInv, FeedTypeOK, StoreInv
      <3>2. FeedPlaces' /\ SnapshotsAreMaps'
        BY DEF FeedInv, FeedPlaces, SnapshotsAreMaps
      <3>3. AllComesRight'
        <4> SUFFICES ASSUME current # None,
                            NEW e \in Devices \ (missed \cup crossed),
                            Present(e)
                     PROVE  ComesRight(e)'
          BY DEF AllComesRight, Present
        <4>1. ComesRight(e) BY DEF FeedInv, AllComesRight
        <4>2. Copied' <=> Copied BY DEF Copied
        <4> QED BY <4>1, <4>2, StaysRight, PendingStays DEF ComesRight
      <3>4. OneTells' BY DEF FeedInv, OneTells, Telling
      <3> QED BY <2>1, <3>1, <3>2, <3>3, <3>4 DEF FeedInv
    <2>3. ASSUME NEW k \in Callers,
                 CallerStep(k) \/ \E f \in Feeds : Publish(k, f)
          PROVE  FeedInv'
      BY <2>1, <2>3, CallKeeps, PublishKeeps
    <2>4. ASSUME NEW f \in Feeds, Connect(f) \/ FeedStep(f) PROVE FeedInv'
      BY <2>4, BrowserKeeps, SubscriptionKeeps, SnapshotKeeps,
         SendSnapshotKeeps, SendEventKeeps
      DEF FeedStep
    <2>5. CASE Disconnect \/ ReadDevices \/ RefreshDevices
      BY <2>5, BrowserKeeps
    <2> QED BY <2>2, <2>3, <2>4, <2>5 DEF FeedNext
  <1> QED BY <1>1, FeedInitial, PTL DEF FeedSpec

\* Every state of the feed is well typed, and no channel is over its capacity.
THEOREM FeedTypeCorrect == FeedSpec => []FeedTypeOK
  BY FeedInvariant, PTL DEF FeedInv

\* A dashboard that has caught up shows every connected device as it is, where
\* it missed nothing and no two callers' events of the device crossed (publish,
\* Subscribe, ServePresence, DeviceContext), for any number of devices, sessions,
\* callers and sockets and any channel capacity.
THEOREM CaughtUpIsRightHolds == FeedSpec => []CaughtUpIsRight
  <1>1. FeedInv => CaughtUpIsRight
    <2> SUFFICES ASSUME FeedInv, CaughtUp,
                        NEW d \in Devices \ (missed \cup crossed), Present(d)
                 PROVE  list[d] = devices[d].status
      BY DEF CaughtUpIsRight
    <2>1. ComesRight(d) BY DEF FeedInv, AllComesRight, CaughtUp
    <2>2. current \in Feeds BY DEF FeedInv, FeedTypeOK, CaughtUp
    <2>3. ~Pending(d) BY DEF Pending, Telling, CaughtUp
    <2>4. ~InChan(d) BY DEF InChan, CaughtUp
    <2>5. Copied BY DEF Copied, CaughtUp
    <2>6. ~InCopy(d)
      BY <2>2 DEF InCopy, CaughtUp, FeedInv, FeedPlaces
    <2> QED BY <2>1, <2>3, <2>4, <2>5, <2>6 DEF ComesRight, CaughtUp
  <1> QED BY <1>1, FeedInvariant, PTL
============================================================================
