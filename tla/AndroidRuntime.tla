--------------------------- MODULE AndroidRuntime ---------------------------
(***************************************************************************)
(* The Android agent's runtime (src/runtime.ts): the module that owns the  *)
(* connection, what it persists (src/config/storage.ts, src/telemetry.ts), *)
(* enrollment by form and by link (src/net/enroll.ts), and the buttons of  *)
(* App.tsx.                                                                *)
(*                                                                         *)
(* Everything is asynchronous and arrives from places that know nothing of *)
(* each other; only starts and stops are serialised, in queue, whose head  *)
(* runs.  A step is a callback up to its next await.  The process may die  *)
(* at any point; the stored identity and the enabled flag survive.         *)
(*                                                                         *)
(* An enrollment names the identity it obtains.  All enrollments of a      *)
(* phone carry its machine id, so that the server accepts the last one     *)
(* only (module Enrollment).  Storage calls are answered in order, and an  *)
(* enrollment reads its machine id behind boot's reads before it goes to   *)
(* the network: boot has published before an enrollment is answered.       *)
(* Abstracted: Connection (module AndroidConnection) but for its existence,*)
(* messages and labels, the notification permission.                       *)
(***************************************************************************)
EXTENDS Naturals, Sequences

CONSTANTS Enrolls,      \* enrollments, each made at most once
          Old,          \* the identity of an earlier enrollment
          NoId,
          MaxOps,       \* bound: starts and stops queued at a time
          MaxDeaths     \* bound: times the process dies

ASSUME RuntimeAssumption ==
    /\ NoId \notin Enrolls \cup {Old} /\ Old \notin Enrolls
    /\ MaxOps \in Nat \ {0} /\ MaxDeaths \in Nat

VARIABLES
    storedId, storedOn,     \* AsyncStorage; the native enabled flag
    accepted,   \* the identity whose secret the server accepts
    identity, enabled, loading,     \* RuntimeState
    conn,       \* the identity of the live Connection, or NoId
    service,    \* the foreground service that holds the process up
    queue, opPc, opId,      \* opChain; where its head is; doStart's identity
    boot, bootRead,         \* the boot path and what it has read
    flow,       \* each enrollment
    busy, enrolling, reset, \* App.tsx
    wish,       \* history: the last connect or disconnect
    deaths

stored   == <<storedId, storedOn>>
state    == <<identity, enabled, loading>>
opVars   == <<queue, opPc, opId>>
bootVars == <<boot, bootRead>>
uiVars   == <<busy, enrolling, reset>>
runtimeVars == <<stored, accepted, state, conn, service, opVars, bootVars,
                 flow, uiVars, wish, deaths>>

Identities == Enrolls \cup {Old}
Op(k, b) == [kind |-> k, by |-> b]

\* The bundle is loaded: bootRuntime has subscribed and asked the storage.
RuntimeInit ==
    /\ storedId \in {NoId, Old} /\ storedOn \in BOOLEAN
    /\ storedOn => storedId = Old
    /\ accepted = storedId
    /\ identity = NoId /\ enabled = FALSE /\ loading = TRUE
    /\ conn = NoId /\ service = FALSE
    /\ queue = <<>> /\ opPc = "idle" /\ opId = NoId
    /\ boot = "reading" /\ bootRead = [id |-> NoId, on |-> FALSE]
    /\ flow = [e \in Enrolls |-> "none"]
    /\ busy = FALSE /\ enrolling = NoId /\ reset = "none"
    /\ wish = "none" /\ deaths = 0

Serialise(k, b) ==
    /\ Len(queue) < MaxOps
    /\ queue' = Append(queue, Op(k, b))

\* The last request; "early" is a disconnect while boot may still resume.
Wish(w) == wish' = IF w = "off" /\ boot \in {"reading", "read"} THEN "early"
                   ELSE w

----------------------------------------------------------------------------
(* doStart and doStop, await by await.                                     *)

Running(k) == queue # <<>> /\ Head(queue).kind = k

\* The head of the chain settles, and whoever awaited it goes on.
Settle ==
    /\ queue' = Tail(queue) /\ opPc' = "idle" /\ opId' = NoId
    /\ LET by == Head(queue).by IN
       /\ busy' = (busy /\ by # "button")
       /\ enrolling' = IF by = enrolling THEN NoId ELSE enrolling
       /\ reset' = IF by = "reset" THEN "clearing" ELSE reset
       /\ flow' = IF by \in Enrolls THEN [flow EXCEPT ![by] = "done"] ELSE flow

Advance(from, to) == opPc = from /\ opPc' = to

BeginStart ==
    /\ Running("start")
    /\ Advance("idle", IF identity # NoId THEN "flag" ELSE "load")
    /\ opId' = identity
    /\ UNCHANGED <<stored, accepted, state, conn, service, queue, bootVars,
                   flow, uiVars, wish, deaths>>

StartLoads ==
    /\ opPc = "load"
    /\ IF storedId = NoId
       THEN /\ identity' = NoId /\ enabled' = FALSE
            /\ Settle
       ELSE /\ Advance("load", "flag") /\ opId' = storedId
            /\ UNCHANGED <<identity, enabled, queue, flow, uiVars>>
    /\ UNCHANGED <<stored, accepted, loading, conn, service, bootVars, wish,
                   deaths>>

\* Mutant: the flag is set for a new connection only, after it.
StartSetsFlag_Late ==
    /\ opPc = "flag"
    /\ identity' = opId /\ enabled' = TRUE
    /\ IF conn # NoId
       THEN Settle
       ELSE Advance("flag", "service") /\ UNCHANGED <<queue, opId, flow, uiVars>>
    /\ UNCHANGED <<stored, accepted, loading, conn, service, bootVars,
                   wish, deaths>>

StartSetsFlag ==
    /\ opPc = "flag"
    /\ storedOn' = TRUE
    /\ identity' = opId /\ enabled' = TRUE
    /\ IF conn # NoId
       THEN Settle
       ELSE Advance("flag", "service") /\ UNCHANGED <<queue, opId, flow, uiVars>>
    /\ UNCHANGED <<storedId, accepted, loading, conn, service, bootVars, wish,
                   deaths>>

StartConnects ==
    /\ opPc = "service"
    /\ service' = TRUE
    /\ conn' = opId
    /\ Settle
    /\ UNCHANGED <<stored, accepted, state, bootVars, wish, deaths>>

BeginStop ==
    /\ Running("stop") /\ Advance("idle", "unflag")
    /\ UNCHANGED <<stored, accepted, state, conn, service, queue, opId,
                   bootVars, flow, uiVars, wish, deaths>>

StopDisconnects ==
    /\ Advance("unflag", "unservice")
    /\ storedOn' = FALSE
    /\ conn' = NoId
    /\ UNCHANGED <<storedId, accepted, state, service, queue, opId, bootVars,
                   flow, uiVars, wish, deaths>>

\* Mutant: the next operation starts before this one has published.
StopPublishes_Early ==
    /\ opPc = "unservice"
    /\ service' = FALSE
    /\ identity' = IF Head(queue).by = "reset" THEN NoId ELSE identity
    /\ Settle
    /\ UNCHANGED <<stored, accepted, enabled, loading, conn, bootVars, wish,
                   deaths>>

\* resetRuntimeIdentity goes on before the next operation begins.
StopPublishes ==
    /\ opPc = "unservice"
    /\ service' = FALSE
    /\ enabled' = FALSE
    /\ identity' = IF Head(queue).by = "reset" THEN NoId ELSE identity
    /\ Settle
    /\ UNCHANGED <<stored, accepted, loading, conn, bootVars, wish, deaths>>

----------------------------------------------------------------------------
(* The boot path.                                                          *)

BootReads ==
    /\ boot = "reading" /\ boot' = "read"
    /\ bootRead' = [id |-> storedId, on |-> storedOn]
    /\ UNCHANGED <<stored, accepted, state, conn, service, opVars, flow,
                   uiVars, wish, deaths>>

BootPublishes ==
    /\ boot = "read"
    /\ identity' = bootRead.id /\ enabled' = bootRead.on /\ loading' = FALSE
    /\ IF bootRead.id # NoId /\ bootRead.on
       THEN Serialise("start", "boot") ELSE UNCHANGED queue
    /\ boot' = IF bootRead.id = NoId THEN "initial" ELSE "done"
    /\ UNCHANGED <<stored, accepted, conn, service, opPc, opId, bootRead, flow,
                   uiVars, wish, deaths>>

\* getInitialURL: nothing, or the link that launched the app.
NoInitialLink ==
    /\ boot = "initial" /\ boot' = "done"
    /\ UNCHANGED <<stored, accepted, state, conn, service, opVars, bootRead,
                   flow, uiVars, wish, deaths>>

----------------------------------------------------------------------------
(* Enrollment, by link or by form.                                         *)

\* handleEnrollLink: an identity in memory makes it ignore the link.
FollowLink(e) ==
    /\ flow[e] = "none"
    /\ flow' = [flow EXCEPT ![e] = IF identity = NoId THEN "asked" ELSE "done"]
    /\ UNCHANGED <<stored, accepted, state, conn, service, opVars, uiVars,
                   wish, deaths>>

LinkArrives(e) == FollowLink(e) /\ UNCHANGED bootVars

InitialLink(e) ==
    /\ boot = "initial" /\ boot' = "done"
    /\ FollowLink(e)
    /\ UNCHANGED bootRead

EnrollCard == ~loading /\ identity = NoId
DeviceCard == ~loading /\ identity # NoId

PressEnroll(e) ==
    /\ EnrollCard /\ enrolling = NoId
    /\ flow[e] = "none"
    /\ flow' = [flow EXCEPT ![e] = "asked"]
    /\ enrolling' = e
    /\ UNCHANGED <<stored, accepted, state, conn, service, opVars, bootVars,
                   busy, reset, wish, deaths>>

Enrolled(e) ==
    /\ flow[e] = "asked" /\ ~loading
    /\ flow' = [flow EXCEPT ![e] = "saving"]
    /\ accepted' = e
    /\ UNCHANGED <<stored, state, conn, service, opVars, bootVars, uiVars,
                   wish, deaths>>

\* The server refuses, or its answer is lost.
EnrollFails(e) ==
    /\ flow[e] = "asked" /\ ~loading
    /\ flow' = [flow EXCEPT ![e] = "done"]
    /\ accepted' \in {accepted, e}
    /\ enrolling' = IF enrolling = e THEN NoId ELSE enrolling
    /\ UNCHANGED <<stored, state, conn, service, opVars, bootVars, busy, reset,
                   wish, deaths>>

\* saveIdentity, then adoptIdentity.
Adopt(e) ==
    /\ flow[e] = "saving"
    /\ flow' = [flow EXCEPT ![e] = "adopting"]
    /\ storedId' = e /\ identity' = e
    /\ Serialise("start", e)
    /\ Wish("on")
    /\ UNCHANGED <<storedOn, accepted, enabled, loading, conn, service, opPc,
                   opId, bootVars, uiVars, deaths>>

----------------------------------------------------------------------------
(* Connect, Disconnect and Reset; the notification's Disconnect.           *)

PressConnect ==
    /\ DeviceCard /\ ~busy /\ ~enabled
    /\ busy' = TRUE
    /\ Serialise("start", "button")
    /\ Wish("on")
    /\ UNCHANGED <<stored, accepted, state, conn, service, opPc, opId,
                   bootVars, flow, enrolling, reset, deaths>>

PressDisconnect ==
    /\ DeviceCard /\ ~busy /\ enabled
    /\ busy' = TRUE
    /\ Serialise("stop", "button")
    /\ Wish("off")
    /\ UNCHANGED <<stored, accepted, state, conn, service, opPc, opId,
                   bootVars, flow, enrolling, reset, deaths>>

\* AgentCommandReceiver clears the flag before it tells the runtime.
NotificationStop ==
    /\ storedOn' = FALSE
    /\ Serialise("stop", "notification")
    /\ Wish("off")
    /\ UNCHANGED <<storedId, accepted, state, conn, service, opPc, opId,
                   bootVars, flow, uiVars, deaths>>

PressReset ==
    /\ DeviceCard /\ reset = "none"
    /\ reset' = "stopping"
    /\ Serialise("stop", "reset")
    /\ Wish("off")
    /\ UNCHANGED <<stored, accepted, state, conn, service, opPc, opId,
                   bootVars, flow, busy, enrolling, deaths>>

ClearIdentity ==
    /\ reset = "clearing" /\ reset' = "none"
    /\ storedId' = NoId
    /\ UNCHANGED <<storedOn, accepted, state, conn, service, opVars, bootVars,
                   flow, busy, enrolling, wish, deaths>>

\* The process dies and is started again; requests on their way are lost,
\* or served without their answer.  A Disconnect pressed while there is no
\* runtime clears the flag alone.
ProcessDies ==
    /\ deaths < MaxDeaths /\ deaths' = deaths + 1
    /\ identity' = NoId /\ enabled' = FALSE /\ loading' = TRUE
    /\ conn' = NoId /\ service' = FALSE
    /\ queue' = <<>> /\ opPc' = "idle" /\ opId' = NoId
    /\ boot' = "reading" /\ bootRead' = [id |-> NoId, on |-> FALSE]
    /\ busy' = FALSE /\ enrolling' = NoId /\ reset' = "none"
    /\ wish' = "none"
    /\ flow' = [e \in Enrolls |-> IF flow[e] = "none" THEN "none" ELSE "done"]
    /\ accepted' \in {accepted} \cup
           {e \in Enrolls : flow[e] = "asked" /\ ~loading}
    /\ storedOn' \in {storedOn, FALSE}
    /\ UNCHANGED storedId

----------------------------------------------------------------------------

OpStep ==
    \/ BeginStart \/ StartLoads \/ StartSetsFlag \/ StartConnects
    \/ BeginStop \/ StopDisconnects \/ StopPublishes

BootStep == BootReads \/ BootPublishes \/ NoInitialLink

RuntimeNext ==
    \/ OpStep \/ BootStep
    \/ \E e \in Enrolls :
          \/ LinkArrives(e) \/ InitialLink(e) \/ PressEnroll(e)
          \/ Enrolled(e) \/ EnrollFails(e) \/ Adopt(e)
    \/ PressConnect \/ PressDisconnect \/ PressReset \/ NotificationStop
    \/ ClearIdentity \/ ProcessDies

RuntimeSpec == RuntimeInit /\ [][RuntimeNext]_runtimeVars

\* Native calls and storage settle; the user and the server owe nothing.
FairRuntimeSpec ==
    RuntimeSpec /\ WF_runtimeVars(OpStep) /\ WF_runtimeVars(BootStep)

----------------------------------------------------------------------------

RuntimeTypeOK ==
    /\ {storedId, accepted, identity, conn, opId} \subseteq Identities \cup {NoId}
    /\ {storedOn, enabled, loading, service, busy} \subseteq BOOLEAN
    /\ opPc \in {"idle", "load", "flag", "service", "unflag", "unservice"}
    /\ boot \in {"reading", "read", "initial", "done"}
    /\ wish \in {"none", "on", "off", "early"}

Connected == conn # NoId /\ service /\ storedOn /\ enabled
Disconnected == conn = NoId /\ ~service /\ ~storedOn /\ ~enabled

\* Once every start and stop has settled, the socket, the foreground service,
\* the flag a restart reads and the screen all agree with the last request,
\* however starts, stops, enrollments and resets came in between
\* (runtime.ts: serialise, doStart, doStop).
LastRequestWins ==
    queue = <<>> =>
        /\ wish = "off" => Disconnected
        /\ wish = "on" => Connected \/ (conn = NoId /\ ~enabled /\ identity = NoId)

\* Whoever disconnects is disconnected in the end, unless a connect or an
\* enrollment comes after it (stopRuntime behind any queue of operations).
DisconnectCompletes == (wish = "off") ~> (wish # "off" \/ Disconnected)

\* Refuted.  index.js: "a deliberate Disconnect stays disconnected": one that
\* is given while boot reads the flag is undone by the resume that follows.
DisconnectStays == queue = <<>> /\ boot = "done" /\ wish = "early" => conn = NoId

\* Refuted.  runtime.ts, handleEnrollLink: "An already-enrolled device ignores
\* the link."
EnrolledIgnoresLinks ==
    [][\A e \in Enrolls : accepted' = e /\ accepted # e /\ enrolling # e =>
          storedId = NoId]_runtimeVars

\* Refuted.  runtime.ts, adoptIdentity: "connect with the identity just
\* saved".
ConnectsWithSaved ==
    queue = <<>> /\ conn # NoId /\ reset = "none" => conn = storedId
=============================================================================
