----------------------------- MODULE Presence -----------------------------
(***************************************************************************)
(* backend/internal/presence/presence.go, MemoryStore: which devices are   *)
(* connected and which session holds each of them.  Every exported method  *)
(* takes the store's one mutex for its whole effect, so each is one        *)
(* action.  Publishing the event, which happens after the unlock, does not *)
(* touch this state; PresenceFeed models it.                               *)
(*                                                                         *)
(* Abstracted: LastSeenAt and IPAddress (and so Touch, which writes only   *)
(* them), the constant OrgID and Type, and the admin id and mode of a      *)
(* session.  AssignedAdminID and GroupID always change together and are    *)
(* one value, the owner.                                                   *)
(***************************************************************************)
CONSTANTS Devices,    \* device ids
          Sessions,   \* session ids: ServeSession draws a new UUID for each
          Owners,     \* (AssignedAdminID, GroupID) pairs a device can have
          None        \* the absent map entry, the empty ActiveSessionID

ASSUME PresenceAssumption ==
    None \notin Devices /\ None \notin Sessions /\ None \notin Owners

VARIABLES devices,     \* deviceID -> DevicePresence
          sessions,    \* sessionID -> the DeviceID of its ActiveSession
          deviceSess,  \* deviceID -> sessionID
          issued       \* the session ids registered so far; a UUID is new

storeVars == <<devices, sessions, deviceSess, issued>>

\* A device the map has no entry for reads as offline everywhere.
Absent == [status |-> "offline", active |-> None, owner |-> None]

Present(d) == devices[d].status # "offline"

DevicePresence ==
    [status : {"offline", "online", "in_session"},
     active : Sessions \cup {None},
     owner  : Owners \cup {None}]

StoreInit ==
    /\ devices = [d \in Devices |-> Absent]
    /\ sessions = [s \in Sessions |-> None]
    /\ deviceSess = [d \in Devices |-> None]
    /\ issued = {}

\* An existing record keeps its ActiveSessionID; a new one starts without,
\* even when the device is already in a session.
SetDeviceOnline(d, meta) ==
    /\ devices' = [devices EXCEPT ![d] =
           [status |-> IF deviceSess[d] # None THEN "in_session" ELSE "online",
            active |-> devices[d].active,
            owner  |-> meta]]
    /\ UNCHANGED <<sessions, deviceSess, issued>>

UpdateDeviceAssignment(d, meta) ==
    /\ devices' = IF Present(d) THEN [devices EXCEPT ![d].owner = meta]
                                ELSE devices
    /\ UNCHANGED <<sessions, deviceSess, issued>>

\* Mutant: the session keeps its entry, and so ends again later.
SetDeviceOffline_KeepsSession(d) ==
    /\ IF Present(d)
       THEN /\ devices' = [devices EXCEPT ![d] = Absent]
            /\ deviceSess' = [deviceSess EXCEPT ![d] = None]
       ELSE UNCHANGED <<devices, deviceSess>>
    /\ UNCHANGED <<sessions, issued>>

\* Removes the device and any session it is in; a no-op for an absent device.
SetDeviceOffline(d) ==
    /\ IF Present(d)
       THEN /\ devices' = [devices EXCEPT ![d] = Absent]
            /\ deviceSess' = [deviceSess EXCEPT ![d] = None]
            /\ sessions' = [s \in Sessions |->
                                IF s = deviceSess[d] THEN None ELSE sessions[s]]
       ELSE UNCHANGED <<devices, deviceSess, sessions>>
    /\ UNCHANGED issued

\* Mutant: the device is not checked for a session.
RegisterSession_Unchecked(s, d) ==
    /\ sessions' = [sessions EXCEPT ![s] = d]
    /\ deviceSess' = [deviceSess EXCEPT ![d] = s]
    /\ issued' = issued \cup {s}
    /\ UNCHANGED devices

\* The claim of FR-5.3.  The device need not be in the map.
RegisterSession(s, d) ==
    /\ deviceSess[d] = None
    /\ sessions' = [sessions EXCEPT ![s] = d]
    /\ deviceSess' = [deviceSess EXCEPT ![d] = s]
    /\ devices' = IF Present(d)
                  THEN [devices EXCEPT ![d].status = "in_session",
                                       ![d].active = s]
                  ELSE devices
    /\ issued' = issued \cup {s}

\* ErrDeviceAlreadyInSession: the store is left alone.
AlreadyInSession(d) == deviceSess[d] # None

\* Frees the device the session holds; a no-op for an unknown session.
EndSession(s) ==
    LET d == sessions[s]
    IN  /\ IF d # None
           THEN /\ sessions' = [sessions EXCEPT ![s] = None]
                /\ deviceSess' = [deviceSess EXCEPT ![d] = None]
                /\ devices' = IF Present(d)
                              THEN [devices EXCEPT ![d].status = "online",
                                                   ![d].active = None]
                              ELSE devices
           ELSE UNCHANGED <<sessions, deviceSess, devices>>
        /\ UNCHANGED issued

\* Callers come in any order: sockets, REST handlers and session teardowns
\* are all goroutines of their own.  Only the session id is constrained.
StoreNext ==
    \/ \E d \in Devices, o \in Owners \cup {None} : SetDeviceOnline(d, o)
    \/ \E d \in Devices, o \in Owners \cup {None} : UpdateDeviceAssignment(d, o)
    \/ \E d \in Devices : SetDeviceOffline(d)
    \/ \E s \in Sessions \ issued, d \in Devices : RegisterSession(s, d)
    \/ \E s \in Sessions : EndSession(s)

StoreSpec == StoreInit /\ [][StoreNext]_storeVars

----------------------------------------------------------------------------
\* The maps hold values of their Go types, and a session in the map was
\* registered.
StoreTypeOK ==
    /\ devices \in [Devices -> DevicePresence]
    /\ sessions \in [Sessions -> Devices \cup {None}]
    /\ deviceSess \in [Devices -> Sessions \cup {None}]
    /\ issued \subseteq Sessions

\* The two session maps are inverse to each other, whatever order
\* RegisterSession, EndSession and SetDeviceOffline come in: no session is
\* live on a device that another one holds, and no device is held by a session
\* that is over (FR-5.3).
SessionMapsAgree ==
    \A s \in Sessions, d \in Devices : sessions[s] = d <=> deviceSess[d] = s

\* The dashboard's status of a connected device says in_session exactly while
\* the registry holds the device, across reconnects in mid-session as well.
StatusTellsSession ==
    \A d \in Devices :
        Present(d) => (devices[d].status = "in_session" <=> deviceSess[d] # None)

\* An ActiveSessionID, when set, names the session that holds the device: a
\* session that was ended or torn down by another path is never still named.
ActiveSessionIsHolder ==
    \A d \in Devices :
        devices[d].active # None => devices[d].active = deviceSess[d]
============================================================================
