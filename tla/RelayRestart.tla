--------------------------- MODULE RelayRestart ---------------------------
(***************************************************************************)
(* The relay when its process dies and is started again.  The hub and the  *)
(* presence store live in memory and come back empty; the tables keep what *)
(* was last written, and nothing at start-up corrects them (cmd/server and *)
(* database.go run migrations and seed defaults only).  The devices notice *)
(* by their sockets and dial again.                                        *)
(***************************************************************************)
EXTENDS Relay

VARIABLE crashed    \* the process died once, which is this model's bound

RestartInit == RelayInit /\ crashed = FALSE

\* Every goroutine is gone at whatever step it was.
Crash ==
    /\ ~crashed
    /\ crashed' = TRUE
    /\ devices' = [d \in Devices |-> Absent]
    /\ sessions' = [s \in Sessions |-> None]
    /\ deviceSess' = [d \in Devices |-> None]
    /\ agents' = [d \in Devices |-> None]
    /\ viewers' = [d \in Devices |-> None]
    /\ aPc' = [c \in Conns |-> IF aPc[c] = "new" THEN "new" ELSE "done"]
    /\ aPrev' = [c \in Conns |-> None]
    /\ aViewer' = [c \in Conns |-> None]
    /\ aOpen' = [c \in Conns |-> FALSE]
    /\ vPc' = [s \in Sessions |-> IF vPc[s] = "new" THEN "new" ELSE "done"]
    /\ vPrev' = [s \in Sessions |-> None]
    /\ vOpen' = [s \in Sessions |-> FALSE]
    /\ endPc' = [s \in Sessions |-> IF endPc[s] = "idle" THEN "idle" ELSE "done"]
    /\ UNCHANGED <<issued, aDev, aMeta, vDev, vScreen, endStatus, dbVars,
                   deviceVars>>

RestartNext == (RelayNext /\ UNCHANGED crashed) \/ Crash

RestartSpec == RestartInit /\ [][RestartNext]_<<vars, crashed>>

----------------------------------------------------------------------------
\* store.go:135: the status is stored "so the dashboard is right after a
\* backend restart even before any agent reconnects".  Stated for a restarted
\* server that serves no connection of the device: GET /api/devices then
\* shows the stored status.
RestartedDashboardIsRight ==
    \A d \in Devices :
        crashed /\ (\A c \in Conns : aDev[c] = d => aPc[c] = "done")
            => dbStatus[d] = "offline"
============================================================================
