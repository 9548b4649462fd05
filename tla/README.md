# DRS: a verification project

TLA+ models of DRS, the remote support system in this repository, with the TLC
runs that check them and the TLAPS proofs about them. Paths are relative to the
repository's root. `PROJECT.json` names every run, the mutant that shows each
property can fail, the source lines behind each definition, the hazards of the
code and the theorems.

## 1. The system

Operators use a web dashboard to watch the screens of enrolled Windows and
Android devices, and to run commands on the Windows ones. One Go process, the
*backend*, authenticates everybody, keeps who is online, allots each device to
one operator at a time and relays signalling; video goes peer to peer by WebRTC.

| Part | Where | State it keeps | Operations |
|---|---|---|---|
| Presence store | `backend/internal/presence` | devices online, sessions, the session of each device, subscribers | SetDeviceOnline, SetDeviceOffline, UpdateDeviceAssignment, Touch, RegisterSession, EndSession, Subscribe, Unsubscribe |
| Relay | `backend/internal/ws/hub.go`, `session.go` | `agents` and `viewers` (device to connection), sockets, rows in `sessions`, `devices.status` | ServeAgent, ServeSession, ServePresence and their clean-ups |
| Enrollment | `backend/internal/handlers`, `agents/*/enroll` | `enrollment_tokens`, `devices`; the identity file and machine id of each machine | GenerateEnrollmentToken, RevokeEnrollmentToken, EnrollDevice, DeleteDevice |
| Assignment and visibility | `handlers.go`, `session.go` | assigned admin and team of a device, team members | AssignDevice, DeleteGroup, canViewDevice, visibleToAdmin, visibleDevicesClause |
| Audit | `backend/internal/audit` | a queue of 256 entries, `audit_logs` | Log, worker |
| Terminal | `ScreenViewer.tsx`, `session.go`, `agents/windows/internal/terminal` | the panel's entries, the command being relayed, one goroutine per command | runCommand, relayTerminalCommand, forwardToViewer, Runner.run |
| Windows agent | `agents/windows` | the connection's Run, its session and reader goroutines, the one video session, the tray icon | Run, session, reader, Manager.Start/Stop/StopAll, startConnection |
| Video pipeline | `agents/windows/internal/screen` | three I420 buffers, the channels `free`, `frames`, `errCh`, the gate | run, acquire, publish, read, encode loop |
| Android agent | `agents/android/src/net`, `webrtc` | the socket and its timers, the current VP8Session, captures, the approval notification | onMessage, onWelcome, onStartSession, onStopSession, onclose, scheduleReconnect, stop, gatedAcquire |
| Android runtime | `agents/android/src/runtime.ts`, `App.tsx` | the queue of starts and stops, the stored identity and flag, the screen | startRuntime, stopRuntime, bootRuntime, handleEnrollLink, adoptIdentity, reset |
| Browser session | `frontend/src/api/session.ts`, `ScreenViewer.tsx` | a SessionConnection per attempt: socket, peer connection, candidates; what is shown | start, onOffer, onRemoteCandidate, close, retry |
| Monitoring wall | `hooks/useDeviceSession.ts`, `GroupMonitorPage.tsx`, `MonitorTile.tsx` | live slots, tiles, the enlarged pane, `closeGates` | start, enlarge, collapse, cleanup |
| Dashboard | `AuthContext.tsx`, `DeviceContext.tsx`, `api/client.ts`, the pages | token and user, the device list, the presence socket, open forms | login, logout, refreshDevices, onPresence, assign, move, delete |
| Start-up | `backend/internal/database`, `config`, `cmd` | `schema_migrations` | migrate, seedDefaults |

**How they interact.** An agent dials `/ws/agent`, sends `hello` and waits for
`welcome`; the relay evicts the device's previous connection, registers the new
one, then records presence and the stored status. An operator opens
`/ws/session`: the relay claims the device's slot in the presence store, upgrades,
registers the viewer, inserts the session's row and sends the agent
`start_session`. Either side's going ends the session through `endSession`, once:
viewer entry, slot, row, `stop_session`. Every change of presence is published to
the subscribed feeds, which filter it and write it to a browser.

**What is hard.** Every connection and every session has goroutines of its own
that clean up after themselves; the two maps of the hub and the three of the
store are guarded by different locks, and most operations touch several of them
in turn, so clean-ups of an old connection meet the set-up of its replacement.
Events leave the store after its lock. The Windows agent reads a socket in one
goroutine and tears down in another. A frame passes between two goroutines over
channels whose closing races with their contents. An enrollment is a
transaction of four statements whose client gives up after 30 seconds and tries
again. In JavaScript one callback runs at a time, and everything that matters
happens at its awaits: a stop handled while a consent dialog is open, a candidate
while its description is being set, a sign-out before an answer, an unmount
before a close has settled. There is one process and its maps die with it, while the tables live on.

**What makes each part correct.** Section 6 says where the code falls short of it.

- *Store*: a device has at most one session, a session at most one device, and
  the status shown agrees, whatever order the callers come in.
- *Relay*: a map entry, presence record, stored status, slot or capture never
  outlives what it stands for; two operators never hold one device; every
  teardown ends; a crash leaves nothing wrong behind.
- *Feed*: a dashboard that has caught up shows the truth; no dashboard holds up
  the relay.
- *Windows agent*: one capture at a time, none without a connection, each ended
  by its stop or its connection, and the tray tells it.
- *Pipeline*: no capture during an encode, one owner per buffer, frames go
  forward, failure and cancellation end both goroutines.
- *Enrollment*: one machine, one row; a row is its own machine's; a dead token
  enrolls nothing; what a machine saved lets it in.
- *Assignment*: the list, the session and the feed agree on who sees a device.
- *Terminal and audit*: nothing runs that was not allowed and passed through the
  log; every command has an end the operator sees.
- *Android agent*: nothing is captured without a welcomed connection; there is
  always one way back to the server and never two; the last connect or
  disconnect wins, whatever was awaited when it came.
- *Browser session*: candidates are applied once and after their description; no
  operator waits for ever; whoever leaves frees the device.
- *Monitoring wall*: the page does not compete with itself for a device, no
  running tile is torn down for another, every pane is served.
- *Dashboard*: signed out shows nothing; a save changes what it says it changes;
  nothing stays busy.

## 2. The modules

| Module | Models | Composed with |
|---|---|---|
| `DeviceSlot` | what the relay promises: one session holds a device, and only its own end or the device's leaving frees it | implemented by `Relay` |
| `Presence` | the presence store, one action per operation | |
| `Relay` | agent connections and operator sessions | extends `Presence`: its steps *are* steps of the store |
| `RelayRestart` | `Relay` whose process dies once | extends `Relay` |
| `RelayClaims` | what comments say of the relay and it does not keep | extends `Relay` |
| `PresenceFeed` | subscriptions, feeds, the browser's list | extends `Presence` |
| `Pipeline` | one video session's two goroutines | |
| `WindowsAgent` | connection, reader, screen manager, tray | the pipeline is one value per session here |
| `Enrollment` | tokens, device rows, machines | |
| `AndroidConnection` | the Android agent's socket, sessions and capture approval, one action per callback up to its next await | the negotiation after the offer is in `Viewer` |
| `AndroidRuntime` | the queue of starts and stops, boot, enrollment, what is stored | `Connection` is one value here |
| `Viewer` | one operator's attempts, the browser's peer connection, the device's, and the frames between them | |
| `MonitoringWall` | many panes of one page and the gate between a close and the next session | |
| `Console` | sign-in, the device list, the forms that assign | |
| `Terminal` | commands: the panels, the relay, the audit queue, the device's runner | sessions and connections are a few steps each here; `Relay` has them in detail |
| `MCRelay`, `MCWindowsAgent`, `MCEnrollment` | symmetry sets and definitions for TLC | |
| `Presence_proofs` | the theorems of the store and of its feed | extends `PresenceFeed` |
| `Relay_proofs` | those of the relay | extends `Relay`, `Presence_proofs` |
| `Video_proofs` | those of the pipeline and of the negotiation | extends `Pipeline`, `Viewer` |
| `WindowsAgent_proofs`, `Terminal_proofs`, `Enrollment_proofs` | those of the module of that name | |
| `Android_proofs` | those of the Android agent | extends `AndroidConnection`, `AndroidRuntime` |
| `Dashboard_proofs` | those of the browser's pages | extends `MonitoringWall`, `Console` |

### Presence

`devices[d]` is `s.devices[d]` (`Absent` when there is no entry), `sessions[s]`
is `s.sessions[s]`, `deviceSess[d]` is `s.deviceSess[d]`. Each operation holds the
store's lock from its first read to its last write and is one action. `issued`
remembers which session ids were used, since they are fresh UUIDs. `Touch`
changes only the time of the last heartbeat and the address, which no property
tells apart.

### Relay

A connection `c` goes through `aPc`: Dial (hello, authentication), Welcome,
Register (the swap in `agents`), EvictPrevious, AgentOnline, StatusOnline,
"reading", then UnregisterAgent, AgentOffline, StatusOffline. A session `s` goes
through `vPc`: the checks of ServeSession, RegisterSession, the upgrade,
RegisterViewer, EvictViewer, the row, start, "reading". `endPc` is the place in
`endSession`, which whoever comes first runs (`closeOnce`). Sockets are two
flags and, towards the device, the frames on the way (`inbox`); `capturing[c]` is
the session the agent at the other end is capturing for. One action ends where a
lock is released, a socket is written, a table is written or a goroutine may be
overtaken.

Reductions, each because nobody else can see the difference: looking an agent up
and writing to it are one step (a write to a connection that was replaced in
between is a write to a closed socket, which fails either way); entering
`closeOnce` and deleting the viewer entry are one; a stored status and the close
that follows are one; a session row's close and the socket's are one; locals that
are dead are reset. Signalling, terminal and telemetry frames change nothing of
this state and are left out. A database error changes nothing but what is
stored, and is not modelled; a hazard says so. The panic of `publish` is
shown in `PresenceFeed` and assumed away here.

`DeviceSlot` is the abstract specification: sessions that claim and end, devices
that arrive and leave. `RelayImplementsSlot` maps the slot's holder to `deviceSess`, the
sessions that are over to those whose `endSession` has been to the registry, and the
devices that are here to those with a presence record. So the endSession of a session
whose slot an agent's clean-up freed before is a step that frees nothing, whoever
holds the device by then.

### PresenceFeed

Each of `Callers` changes the store through `Presence`'s actions and then
publishes to the channels it copied under the lock, one send at a time. A feed
subscribes, takes the snapshot, writes it, and then writes events until its
browser is gone; `Feeds` are the sockets of one dashboard, one after the other,
and an old one may still be in its loop, or be published to, when the next is
open. The browser's list is one status per device; REST answers carry the status
at the time they were made. Two history variables name what a caught-up list
need not have right: `missed`, the devices whose last event was lost in a way the
code accepts (a full channel, a list not loaded, an older answer), and `crossed`,
those whose last event was sent while another caller still had one of the device
to send, so that the two may have come in either order. The next event that comes
alone, or the next answer, takes a device off both.

### WindowsAgent

`rPc` is a `Run`, `sPc` the session of a connection, `rdPc` its reader, `own` the
Run of a connection. `video[s]` is a video session, `live` and `liveId` the
manager's two fields, `tray` the icon. Start builds the new session outside the
lock, as the code does. `budget` bounds how often the server is set and Reconnect
is clicked; a behaviour begins with one of the budgets in `Budgets`. `VideoDone` is the context of the connection reaching the
video. The backend sends a fatal error only before the welcome
(`hub.go:245-270`), so the reader's fatal branch is not reached. A backoff is a
wait of any length that a click may end. Quit ends the process.

### Pipeline

`cPc` is `run`, `ePc` the encode loop with `read`. `free` and `pending` are the
channels `free` and `frames`, `cBuf` and `eBuf` the buffers the goroutines own;
`gate` holds the token. Draining a frame and freeing its buffer are one step, as
nobody else frees.

### Enrollment

An attempt is one POST; the secret it mints, and the row it may insert, bear its
name since both are fresh. `redeemToken` is one action per statement, under
Postgres' Read Committed: a SELECT sees what is committed, a write waits for the
transaction that holds its row or its machine id in migration 6's partial unique
index and then fails if the id is taken (`MustWait`, `Taken`), and an UPDATE of a
deleted row changes nothing without error. `HostNames` are the names a machine may
report, out of `Names`, in any way: clones share names, and one of them may be, or
have been, an old agent, whose row has no id and is found by its name (`OldClone`).
The server reads a name only to find such a row. `ask[a].others` remembers which
rows other machines had claimed when an attempt was made. A machine sends its id unless its
agent is old (`OldAgents`, until `Upgrade`). The server does not notice that a
client gave up (`Abandon`). The admin, team and capabilities a token assigns are
not told apart.

### AndroidConnection

`sock[c]` is a WebSocket's readyState, `ws` the field; `helloTimer` and
`reconnectTimer` say whether the timer is armed. `pc[s]` is the place of session
`s`'s `start()` at its awaits: the foreground check, the owner's approval, the
consent dialog, the peer connection, the offer. `closed`, `stream` and `peer` are
what `VP8Session.close` looks at. A socket `close()` was called on still delivers
its close event. Heartbeats change nothing but `beating`. The agent may be put
in the background, and stopped, at any time.

### AndroidRuntime

`queue` is `opChain`, its head running; `opPc` is the place in `doStart` or
`doStop`. `storedId` and `storedOn` survive `ProcessDies`, the other variables do not.
Buttons are enabled as `App.tsx` draws them. `accepted` is the identity whose
secret the server takes: every enrollment of one phone carries its machine id,
so the last one counts (`Enrollment`). `wish` is a history variable, the last
request; a disconnect given while boot may still resume is "early", for the
divergence below.

### Viewer

An attempt is one run of ScreenViewer's effect; `conn[k]` is its SessionConnection,
`agent[s]` the device's VP8Session. `remote`, `pending` and `applied` are the
fields of the same meaning on both sides; `offer[s]` and `answer[r]` are how far a
handler that awaits has come, so that two of them can overlap. `down` and `up` are
the viewer's socket, `toAgent` and `fromAgent` the device's. The backend is what
`Relay` says it is, reduced to the slot, the one `stop_session` and routing by
device. `Fault` is anything that goes wrong of itself: a socket, a peer
connection, a negotiation, the device's consent, its connection.

### MonitoringWall

`pane[p]` is the session of a mounted `useDeviceSession`: panes 1 to N are tiles,
N+1 to 2N the enlarged ones. One React commit is one step: the panes that went
are cleaned up first, then the new ones start (`Commit`). A commit may follow any
change of the device list, since an answer replaces all of it (`ListChanges`), or
one event (`StatusChanges`). `closeGates[d]` is the session whose close has not
settled; it is settled by the close event or by the 3 s ceiling (`CloseCeiling`).
`slot[d]` is the backend's. A session whose socket is open and that has reported
an error is "faulty": the frame or the failed negotiation shows the error and
closes nothing (`ReportError`), and Retry, which is offered with any error, then
replaces a session that still has its socket.

### Console

`calls` are the requests whose handler has not ended, in no order that matters,
each with the place it has come to, the token it carried, what it writes and the
component it belongs to: handlers go on after their component unmounted, and
React drops what they set there. `tok` and `user` are AuthContext's; a 401 clears
the token, whichever request it answers, and reloads the page. `row` is the
device's row, which a second operator writes too.

### Terminal

`entry[m]` is command `m`'s entry in its operator's panel ("told" when an error
frame came while it was running), `typed[s]` the frames the relay has not read,
`relayed[s]` the command between `audit.Log` and `sendToAgent`, where the session
may end and the device may reconnect. `record[m]` is its audit entry: queued,
stored or lost. `job[m]` is the goroutine that runs it and the connection it came
by: "killed" when the connection's context ends, "held" while a grandchild keeps
the pipes that `c.Run` waits for. A result is its command and whether its frame
fits `agentReadLimit`; sizes are in units of 256 KiB, and a byte of output may take
six in the frame. `hub[c]` and `served[s]` are the places `Relay` names, with
nothing between the steps that matter here.

## 3. What the runs check

| Run | Instance | Shows |
|---|---|---|
| `Relay` | 1 device, 2 connections, 2 sessions; 1.3 M states modulo symmetry | map entries, presence, status and slot do not outlive their connection or session; two operators never stay on the device; a completed session's capture has its stop on the way; the relay implements `DeviceSlot`, so no late end or clean-up frees another's slot |
| `RelayLive` | 1 device, 2 connections, 1 session | teardowns end; a gone device reads offline; its screen session ends |
| `Pipeline` | 2 buffers, 6 frames | gate, ownership, frames forward; both goroutines end after cancellation and after a failed capture |
| `PresenceFeed` | 1 device, 1 session, 1 caller, 2 feeds, 1 place; 664 K states | a caught-up list is right, after a reconnect too, except where events were lost; a subscriber whose browser left ends |
| `WindowsAgent` | 2 Runs, 2 connections, 2 sessions; one change of the server or one click; 1.8 M states modulo symmetry | one video, none without its connection, the icon shows who is viewed |
| `Enrollment` | a machine, one that is renamed to its host name and to that of an old agent, and the old agent, 3 attempts, 1 token; 714 K states modulo symmetry | an id has one row, claimed rows are closed to newcomers with an id, dead tokens enroll nothing, patient clients are let in |
| `AndroidConnection` | 2 sockets, 2 sessions | no capture without a welcomed connection, one way back, every start answered |
| `AndroidRuntime` | 2 enrollments, 2 queued operations, 1 process death | the last request wins, every disconnect completes |
| `Viewer` | 2 attempts, 1 candidate, 1 fault | no candidate stranded, no attempt waits for ever, leaving frees the device |
| `MonitoringWall` | 2 devices, 1 live tile, 3 sessions, a backend slower than the ceiling; 102 K states | one pane asks, running tiles stay, panes are served, devices are given back |
| `Console` | 1 admin, 3 acts, 1 event, 3 requests; 650 K states | signed out shows nothing, nothing stays busy |
| `Terminal` | 1 command, 2 sessions, 2 connections, output of up to 3 MiB in a frame; 87 K states | what runs went through the audit log as an allowed command; no panel waits for ever |

The code has three buffers, with which the branch of `acquire` that takes back the
pending frame is never reached (`AlwaysAFreeBufferAlways` proves it); with two it
is, so the run covers every branch. `PipelineThree.cfg` repeats it with three, where
TLC confirms the same properties, and the safety ones are proved for any number.

Three more configurations are kept beside the runs, and TLC confirms them.
`PresenceFeedCallers.cfg` (module `PresenceFeed`) has two callers that connect and
disconnect the device, so that their events cross, and no sessions: `CaughtUpIsRight`
over 1.1 M states. `EnrollmentRetries.cfg` (module `MCEnrollment`) has two clones, one of
them an old agent, and four attempts, so that a retry overlaps the attempt it
replaces while the clone's transactions run: `MachinesKeepApart` and
`NewcomersStayOut` over 1.2 M states modulo symmetry. `WindowsAgentLive.cfg` (module
`MCWindowsAgent`) has one Run, one connection, two sessions and clicks: captures end with
their connection and with their stop (`CaptureEndsWithConnection`,
`StopEndsVideo`).

**Why these bounds.** The relay's interference is between the clean-up of one
connection or session and the set-up of the next, of the same device: different
devices share no key of any map, and the proofs are for any number of them. A third
connection meets the second as the second meets the first. `OneOperatorPerDevice`
speaks of the sessions whose viewer entry is current: a session that was evicted
has an open socket until its eviction's next step. One place in a feed's
channel is enough for an event to be queued, to be overtaken by the list and to find
the channel full; the next event or answer then takes the device off `missed`. Two feeds are a reconnect
with the old socket's subscription still there. The run's one caller does what any
goroutine of the relay may do to the store, one event at a time, so nothing is ever
`crossed` and the exception for it is not used; two callers are in
`PresenceFeedCallers.cfg`, and any number in the theorem. Six
frames pass every buffer round twice. Two connections and two sessions let a
reader outlive its connection into the next. Two attempts overlap at
every pair of statements; the third finds what the two left; in `EnrollmentRetries.cfg`
two machines both retry. The clones of `Enrollment` are in pairs, two that send an id
and an old agent with its twin, because what a row can suffer differs between them;
the machine of both names is in both pairs. Two
sockets and two sessions let a late close event, a late stop and a late consent
of one meet the other. Two enrollments are a form and a link at once; two queued
operations are a stop behind a start that is still awaiting, and a death at each
of their steps is a restart from each stored state. Two attempts are a retry
with the first attempt's frames still on the way; one candidate may be made on
either side at any point, before, between and after each description; one fault
at a time is what the handlers are written for. One live tile and two devices
make the slots contested; three sessions are a tile, its enlargement and the
collapse. What a pane waits for is
the close of a session of its own device. Three acts are a sign-in, a save and a sign-out, or a save with two
pages; one event is a failure, an expiry or the other operator's write. One
command is enough for the terminal: each has a goroutine, a record and an entry
of its own, and what can go wrong is between it, two sessions and two connections; `Terminal.cfg` with two commands and
one session also passes (112 K states). Symmetry
is declared only in safety runs, over sets
no property singles out. `CHECK_DEADLOCK FALSE` stands where a behaviour
ends because connections, sessions or attempts are used up or the agent was
stopped.

**Fairness.** Go schedules every runnable goroutine, so each goroutine's next
step is weakly fair; so are reads and writes that have deadlines (`hub.go` sets
both: the read deadline is three heartbeats for an agent and ten minutes for
an operator). Nothing is assumed of devices, operators or networks: they need
never dial, answer or leave. A feed's reader notices a closed socket. In the
agent, libvpx and a capture call return, which is what the gate is for
(`pipeline.go:54`). A feed's write returns or fails within its deadline. In
JavaScript what is awaited settles: native calls and storage, timers (hello, 60 s
of approval, the 3 s ceiling of a close), the consent dialog, which the owner
answers or dismisses, and requests, which are answered or fail. In `Viewer` a
frame that was sent arrives unless its socket is closed, and ICE reaches a
verdict; `Alone` keeps fairness from asking for candidates or faults. A command
on a device ends by itself or at its 60 s; that the processes it started close its
pipes is an assumption (`FairSpec` against `DaemonSpec`). Links,
owners, operators and networks owe nothing.

## 4. What is proved

Every safety invariant and every action property that a run checks is a theorem as
well: TLC shows it on the small instance of section 3, `tlapm` for every value of
the constants (any number of devices, connections, sessions, buffers, attempts,
requests, and any budget). Each inductive invariant was an invariant of a TLC run
before it was proved. What is assumed is what the modules' named assumptions say,
that `None` and `Absent` are not members of the other sets and that constants have
their types. No theorem has a condition of its own. Where the code does not keep a
claim without qualification, the property itself says what is excepted: the feed's
crossed events, the rows an old clone gets into.

The argument of each, that is, what had to be added to the property until a step
could not leave it:

- **Presence_proofs.** `StoreInv` is the type invariant with the three agreements
  of the maps; it is inductive as it stands. From it come `StoreTypeCorrect`,
  `SessionMapsAgreeAlways` and `StatusTellsSessionAlways`. Of the feed, `FeedUsesStore` makes the store's theorems hold there
  too. `CaughtUpIsRight` speaks of a dashboard with nothing on its way, which no
  step preserves; `AllComesRight` says of every state, and every device that is
  neither missed nor crossed, what the list will show once the snapshot, the channel
  and the events the callers hold have come in, in that order. `OneTells` adds
  that of a device not crossed one caller at most has an event to send.
- **Relay_proofs.** Layers, each proved with the ones before it: types; every
  relay step is a step or stutter of the store (`RelayUsesStore`), so all that is
  proved of the store holds in the relay; `AgentsInv` (a hub
  entry is a registered, unfinished connection; a connection that was swapped
  out is being closed); `ViewersInv`, the same for sessions; then
  `SlotHasOperator` (a held slot has a session that is on its way to releasing
  it), `PresenceHasSocket`, `StatusHasSocket` and `WelcomeIsFirst`.
  `RelayIsASlot` is the refinement: initial states map to initial states, and each
  step to a claim, an end, an arrival, a departure or a stutter. It needs that a session
  that claims has not been ended (`ViewersInv`), and for the end of a session that the
  store's maps are inverse: the device an endSession finds is held by that session
  or by none. The invariants
  are not inductive alone: that presence has a socket needs that the connection
  which wrote it will still pass AgentOffline, which needs where each connection
  is between the map and the store, and that is what the layers add. `StopInv` is
  the last: where a session that its operator ended is captured for, or about to
  be, its stop comes after, because no start is written once the operator is gone
  and a connection that becomes the device's entry has been sent none; from it
  follows `CompletedCaptureHasStop`.
- **Video_proofs.** Of the pipeline, `Places` (which goroutine owns a buffer at
  which place), `Token` (the gate is held by exactly who is inside) and `Order`
  (content grows along shown, encoder, pending, capturer) are inductive together;
  from them `GateExclusiveAlways`, `BuffersOwnedOnceAlways`,
  `FramesGoForwardAlways`, and `AlwaysAFreeBufferAlways` by counting three buffers
  against two owners and one pending frame. Of the negotiation, a candidate is
  stranded only by a second description on one connection, so `StartsOnce` (the
  device is told of an attempt once) and `OffersOnce` (an offer is in one place)
  follow each session from its start, and `BuffersDescribed` says where a buffer may
  be emptied. Four lemmas say what a step of each of the four ends may change, and
  every action fits one.
- **WindowsAgent_proofs.** Down the chain of contexts: `RunInv` (all Runs but the
  last are cancelled, and of a Run's connections all but its own), `ReaderInv`
  (what a reader is about and what its Manager holds meanwhile), `VideoInv` (a
  video that runs is the Manager's, about to be, or cancelled). From them
  `OneVideoAtATime`, `NoVideoWithoutConnection` and `ViewedIsShown`.
- **Terminal_proofs.** `RecordInv` says of each place between the operator's frame
  and the runner whether what is there has been recorded yet; a command crosses
  the one place where it is recorded once.
- **Enrollment_proofs.** `TokenInv` (an attempt that came late is stuck before it
  writes, and every row was answered for). `OwnerInv`: what a transaction found, holds
  or wrote is its own machine's or its kin's, where two machines are kin (`Kin`) when
  they are one or are both old clones, and no id is on two rows, those about to be
  written included; the unique index is checked by one statement and written by
  another, so the transactions' waits are part of it. `PatientInv`: what a patient
  machine waits for and saved is good (`GoodRow`), that is, the row has the secret, or
  was deleted, or was taken by an old clone (`TakenFrom`). `NewcomerInv`: a row that was
  claimed when an attempt was made has been inserted, so the attempt's lookups leave it
  alone unless its owner is deleted, and then it is gone.
- **Android_proofs.** Of the connection, `CurrentSocket` (which socket is `this.ws`)
  makes `OneWayBack` inductive; `SessionIsServed` and `OthersAreClosed` then say that a
  `start()` still awaiting for another session finds itself closed, and give
  `CaptureNeedsConnection`. Of the runtime, the last operation queued is the last
  request, and each step of the head leaves what the next one relies on.
- **Dashboard_proofs.** `PaneInv` ties the sessions of the hook to the panes of the
  page through a commit that closes and opens several at once; the lemma
  `Numbering` is about the numbers a commit gives. `ConsoleInv` says that every
  request in flight is sound: what belongs to a page nobody is signed in to was
  asked without a token, so its answer is not "ok"; and a move that no write has
  overtaken carries the admin of the row.

**Only model-checked.** All liveness (the prover does not reason about fairness
here), so the properties of `RelayLive`, `Pipeline`, `PresenceFeed`,
`AndroidConnection`, `AndroidRuntime`, `Viewer`, `MonitoringWall`, `Console` and
`Terminal` that say that something ends; and `RelayRestart`, which extends the
relay by the death of its process and has no property of its own that holds.
Nothing relates the composed modules to each other but what they share: that
`Terminal`, `Viewer` and `AndroidRuntime` use `Relay` and one another as they
say is modelling, not a theorem.

## 5. Mutants

Beside a definition stands, where one is used, its mutant (`Commit_Leaks` beside
`Commit`): the same step with a plausible bug, a dropped guard, a missing reset,
a swapped order. `PROJECT.json` pairs each property of a passing run with a mutant
that violates it under the same configuration.

## 6. Where code and comments disagree

Each of these is stated in its module, and TLC refutes it in seconds. They are not
runs of the project; the named `.cfg` repeats each with the module of that name
(the claims of `WindowsAgent` and `Enrollment` with `MCWindowsAgent` and
`MCEnrollment`). A `.cfg` that holds several
claims has all but one commented out, since TLC stops at the first.

The one a user would meet first:

- **A wall refuses itself** (`ClaimNotRefused`, `MonitoringWall!NeverRefusesItself`,
  `useDeviceSession.ts:120`). A tile
  is enlarged and collapsed again within the round trip of its first close. The
  pane in between never opened its socket, so its own close is settled at once,
  and it is stored in `closeGates` over the first tile's, which is not. The
  collapsed tile then connects while the backend still holds the device for the
  first session, and is told that the device is being viewed. `TESTING.md:173`
  says the cycle must never show that.

The others:

| Definition (cfg) | What happens | What is said |
|---|---|---|
| `RelayClaims!LiveDeviceReadsOnline` (`ClaimRelay`) | a device dials again while its old connection still reads; the old one's clean-up spares the hub's entry but calls SetDeviceOffline and SetStatus(offline), so a connected device reads offline | `hub.go:330` "...making a live device read as offline" |
| `RelayRestart!RestartedDashboardIsRight` (`ClaimRestart`) | the process dies and the rows of connected devices stay online | `store.go:135` "the dashboard is right after a backend restart" |
| `RelayClaims!ServedSessionRowIsClosed` (`ClaimRelay`) | the device leaves after the viewer registers and before the row is inserted: the row stays active | `session.go:229` "Every exit path from here closes the session out" |
| `RelayClaims!EndedSessionIsNotCaptured` (`ClaimRelay`) | stop_session is written before start_session: a device that reconnected meanwhile captures for nobody | `SYSTEM_DESIGN.md:254` |
| `RelayClaims!RunningSessionUndisturbed` (`ClaimRelay`) | the old connection's clean-up frees the slot; a second operator claims it and evicts the first | `session.go:217` |
| `RelayClaims!DeviceGoneSessionOver` (`ClaimSessionOver`) | a terminal-only session registers after its device's clean-up looked for viewers and goes on, until its operator leaves or has been idle for ten minutes | `hub.go:357` |
| `PresenceFeed!NeverLatchesOffline` (`ClaimFeed`) | two callers publish in the opposite order of their changes | `presence.go:157` |
| `PresenceFeed!PublishNeverFails` (`ClaimFeed`) | Unsubscribe closes a channel a publisher has copied; the send panics, in registerAgent before its clean-up is deferred | `presence.go:419` |
| `PresenceFeed!ReconnectRefreshes` (`ClaimFeed`) | the snapshot names online devices only; a device that left while the socket was down stays online in the list | `presence.go:420` |
| `Pipeline!FailedSessionIsReported` (`ClaimReported`) | the encoder's select takes the closed channel rather than the error | `AGENT_WINDOWS.md:204` |
| `WindowsAgent!RedWhileViewed` (`ClaimTray`) | a stop of another session turns the icon green | `tray.go:6` |
| `WindowsAgent!GreyWhileReconnecting` (`ClaimTray`) | the old reader sets the icon after the session reported offline | `AGENT_WINDOWS.md:158` |
| `WindowsAgent!ClickEndsBackoff` (`ClaimTray`) | the goroutine of the connection that ended takes the click | `AGENT_WINDOWS.md:165` |
| `Enrollment!ClaimedRowsStay` (`ClaimTakeover`) | two upgraded clones find one old row; the first adopts it, the second's UPDATE waits, matches it by its id and replaces machine id and secret | `handlers.go:558` |
| `Enrollment!TokensAreSingleUse` (`ClaimIdentity`) | tokens are reusable, deliberately | `handlers.go:446` |
| `Enrollment!OldAgentsKeepOneRow` (`ClaimTakeover`) | a retry of an agent without an id inserts beside the attempt it gave up | `handlers.go:543` |
| `Enrollment!IdentityIsPermanent` (`ClaimIdentity`) | the attempt that was given up commits last and voids the saved secret | `handlers.go:443` |
| `Enrollment!RedemptionsHaveRows` (`ClaimIdentity`) | the device is deleted between lookup and UPDATE; the agent is told it is enrolled | `handlers.go:487` |
| `AndroidConnection!ViewerIsShown` (`ClaimConnection`) | the first welcome awaits the system information and then reports "online" over a session that started meanwhile | `runtime.ts`, onStatus: "carries who is watching" |
| `AndroidConnection!StopIsForGood` (`ClaimConnection`) | a stop while the welcome awaits the system information is followed by a heartbeat interval that nothing clears | `connection.ts`, stop: "Stop for good" |
| `AndroidConnection!WaitingIsAsked` (`ClaimConnection`) | one approval's `finally` takes back the notification another start is still waiting behind | `runtime.ts`, waitForForeground |
| `AndroidRuntime!DisconnectStays` (`ClaimRuntime`) | a disconnect while boot reads the flag is undone by the resume that follows | `index.js` "a deliberate Disconnect stays disconnected" |
| `AndroidRuntime!EnrolledIgnoresLinks` (`ClaimRuntime`) | the link is checked against the loaded state, before boot has loaded it | `runtime.ts`, handleEnrollLink |
| `AndroidRuntime!ConnectsWithSaved` (`ClaimRuntime`) | a link that came before boot had loaded the identity enrolls again; boot has connected with the old one meanwhile, and the start that follows finds a connection and keeps it | `runtime.ts`, adoptIdentity |
| `Viewer!OperatorIsTold` (`ClaimViewer`) | the session closes without an error frame, and the page shows no reason | `hub.go:357` |
| `Viewer!RetryIsAdmitted` (`ClaimViewer`) | a retry reaches the backend before the first attempt's close and is refused for its sake | `SYSTEM_DESIGN.md` |
| `Viewer!AnswersAreOwn` (`ClaimViewer`) | frames are routed by device, so an answer of the last attempt reaches the session of the next | `SYSTEM_DESIGN.md` |
| `Console!SignedOutStaysOut` (`ClaimConsole`) | a late /auth/me answer sets the user again after the sign-out | `AuthContext.tsx:26` |
| `Console!MoveLeavesAdmin` (`ClaimConsole`) | the team move sends back the admin of a list another operator has overtaken | `TeamDetailPage.tsx:456` "its individual admin is left as it is" |
| `Terminal!WrittenBeforeRun` (`ClaimTerminal`) | the entry is queued, or dropped when the queue is full, and its INSERT may fail; the command runs all the same | `session.go:312` "written to the audit trail before it is forwarded" |
| `Terminal!ResultsGoHome` (`ClaimTerminal`) | the session ends while its command runs, and the result goes to the device's next viewer | `hub.go:313` "the one operator whose command produced it" |
| `Terminal!OutputKeepsChannel` (`ClaimTerminal`) | 512 KiB of output that JSON escapes exceed `agentReadLimit`, and the device's connection is dropped | `terminal.go:31` "keeps a single command from overwhelming the channel" |
| `Terminal!EntrySettles` under `DaemonSpec` (`ClaimTerminal`) | the 60 s kill the shell, not what it started, and `c.Run` waits for the pipes those hold | `terminal.go:25` "rather than blocking silently forever" |

Met while modelling `Console` and not stated as properties: a wrong password is
answered 401, which `client.ts` takes for an expired token and reloads the page,
so the login form's message is lost; a network failure of /auth/me signs out; a
401 to a request with an old token removes the new one; a team page whose list
of teams is empty shows "Loading team…" for ever (`TeamDetailPage.tsx:59`); the
`onClose` of a slow save closes a form that was opened again.

## 7. What is not modelled, and the plan

The order is by what can go wrong. Each entry names the abstract property first.

1. **Assignment** with `Presence`: AssignDevice, DeleteGroup, DeleteDevice and
   registration each write the table and presence in two steps. *Presence agrees
   with the row once nobody is between the two; the three visibility rules
   agree* (`SYSTEM_DESIGN.md:396`). Two devices, one team, two callers. Theorem:
   the three rules are equal for every claim, device and membership. `Console` has
   the browser's half of it.
2. **Migrations**: two instances and a crash at each statement.
3. **AgentTrailer**: the trailer's framing as operators, against a reference.
4. **Proofs**: what holds of `RelayRestart` whatever was stored when the process
   died (`StoreInv` and `AgentsInv` in its second life); that the backend `Viewer`
   reduces the relay to is implemented by `Relay` (slot, one `stop_session`,
   routing by device); the theorem of module 1.

Left out for good: drawing, Win32 and libvpx calls, colour conversion, the Android
service's Kotlin glue, page layout, pages that show one request's answer (users,
reports, logs, sessions, invite links, the enrollment dialog), JWT and bcrypt, the
TURN server (a library), configuration parsing and deployment scripts. Each has
its reason in `PROJECT.json`.
