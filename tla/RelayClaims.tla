---------------------------- MODULE RelayClaims ----------------------------
(***************************************************************************)
(* What comments and documents of the repository say of the relay and the  *)
(* code does not keep.  Each is checked by a run of its own that ends in a *)
(* counterexample; README.md tells the interleaving.                       *)
(***************************************************************************)
EXTENDS Relay

\* hub.go:330: evicting the previous connection explicitly keeps its cleanup
\* from "making a live device read as offline".  Stated for the moment when
\* every other connection of the device has been dealt with; GET /api/devices
\* shows the live record over the stored status (overlayPresence).
LiveDeviceReadsOnline ==
    \A c \in Conns :
        /\ aPc[c] = "reading" /\ aOpen[c] /\ link[c]
        /\ \A k \in Conns \ {c} : aDev[k] = aDev[c] => aPc[k] = "done"
        => Present(aDev[c]) \/ dbStatus[aDev[c]] = "online"

\* session.go:229: "Every exit path from here closes the session out".
\* Stated for the session's row, once ServeSession has returned.
ServedSessionRowIsClosed ==
    \A s \in Sessions : vPc[s] = "done" => dbRow[s] # "active"

\* SYSTEM_DESIGN.md:254: "Closing the socket is ending the session - the
\* backend then sends the agent stop_session unconditionally".  Stated for a
\* session that is over, once the device has read everything sent to it.
EndedSessionIsNotCaptured ==
    \A c \in Conns, s \in Sessions :
        /\ capturing[c] = s /\ inbox[c] = <<>>
        /\ aPc[c] = "reading" /\ aOpen[c] /\ agents[aDev[c]] = c
        => vPc[s] # "done"

\* session.go:217: claiming the device first "means a rejected second viewer
\* never disturbs the running session", and a second viewer is rejected while
\* a session runs.  Stated as: nobody closes a running session's socket.
RunningSessionUndisturbed ==
    \A s \in Sessions :
        vPc[s] = "watching" /\ endPc[s] = "idle" => vOpen[s]

\* hub.go:357: "The device is gone, so any session on it is over."
DeviceGoneSessionOver ==
    \A s \in Sessions :
        vPc[s] = "watching" /\ (\A c \in Conns : aPc[c] = "done")
            ~> vPc[s] = "done"
============================================================================
