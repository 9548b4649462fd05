------------------------------ MODULE Terminal ------------------------------
(***************************************************************************)
(* The remote terminal of one device: the operators' command panels        *)
(* (ScreenViewer.tsx, api/session.ts), the relay's readViewer and          *)
(* relayTerminalCommand (ws/session.go), the audit log's bounded queue and *)
(* its worker (audit.go), and the Windows agent's command runner           *)
(* (terminal.go) on the connections the device has one after the other.    *)
(*                                                                         *)
(* A command is an identity used once, as its commandId is.  Sessions and  *)
(* connections are numbered in the order they begin; module Relay has      *)
(* their set-up and their teardown in detail, of which each is one or two  *)
(* steps here.  What the relay writes to an operator is seen at once, the  *)
(* close of the socket later.  The audit queue holds other handlers'       *)
(* entries too, which are left out: it may be full at any time, and the    *)
(* order of its entries is not told apart.  Abstracted: what a command     *)
(* says and prints, except how long its output is, in units of 256 KiB.    *)
(***************************************************************************)
EXTENDS Naturals, Sequences

CONSTANTS LastCmd,          \* bound: commands, numbered as they are typed
          LastConn,         \* bound: connections of the device
          LastSession,      \* bound: operators' sessions
          AllowTerminal,    \* the values devices.allow_terminal may have
          MaxOutput,        \* clamp's limit of one stream
          Widths,           \* bytes in the frame for one byte of output
          ReadLimit         \* agentReadLimit

ASSUME TerminalAssumption ==
    /\ {LastCmd, LastConn, LastSession, MaxOutput, ReadLimit} \subseteq Nat
    /\ Widths \subseteq Nat /\ AllowTerminal \subseteq BOOLEAN

Cmds     == 1..LastCmd
Conns    == 1..LastConn
Sessions == 1..LastSession

VARIABLES
    \* the panels
    page,       \* each operator's socket as the page sees it
    entry,      \* each command's entry: its status, its session
    \* the relay
    agents,     \* Hub.agents of the device, or 0
    viewers,    \* Hub.viewers of the device, or 0
    hub,        \* ServeAgent, per connection
    leaving,    \* unregisterAgent's local viewer, per connection
    served,     \* ServeSession, per session
    allow,      \* vc.allowTerminal
    typed,      \* frames of the operator not yet read
    relayed,    \* relayTerminalCommand's command between Log and sendToAgent
    record,     \* the audit entry of each command: its action, its place
    \* the device
    link,       \* the connection is in use
    toAgent, fromAgent,
    job         \* the runner's goroutine of each command: place, connection

panelVars  == <<page, entry>>
hubVars    == <<agents, viewers, hub, leaving, served, allow>>
deviceVars == <<link, toAgent, fromAgent, job>>
vars == <<panelVars, hubVars, typed, relayed, record, deviceVars>>

Init ==
    /\ page = [s \in Sessions |-> "none"]
    /\ entry = [m \in Cmds |-> [at |-> "none", of |-> 0]]
    /\ agents = 0 /\ viewers = 0
    /\ hub = [c \in Conns |-> "none"] /\ leaving = [c \in Conns |-> 0]
    /\ served = [s \in Sessions |-> "none"] /\ allow = [s \in Sessions |-> FALSE]
    /\ typed = [s \in Sessions |-> <<>>]
    /\ relayed = [s \in Sessions |-> 0]
    /\ record = [m \in Cmds |-> [action |-> "none", at |-> "none"]]
    /\ link = [c \in Conns |-> FALSE]
    /\ toAgent = [c \in Conns |-> <<>>] /\ fromAgent = [c \in Conns |-> <<>>]
    /\ job = [m \in Cmds |-> [at |-> "none", on |-> 0]]

----------------------------------------------------------------------------
(* The panel, which learns of a close when the close event comes.          *)

\* runCommand and sendCommand.  A frame for a session that is over is lost.
TypeCommand(s, m) ==
    /\ page[s] # "none"
    /\ entry[m].at = "none" /\ \A k \in 1..(m - 1) : entry[k].at # "none"
    /\ entry' = [entry EXCEPT ![m] =
                    [at |-> IF page[s] = "open" THEN "running" ELSE "done",
                     of |-> s]]
    /\ typed' = IF page[s] = "open" /\ served[s] # "ended"
                THEN [typed EXCEPT ![s] = Append(@, m)] ELSE typed
    /\ UNCHANGED <<page, hubVars, relayed, record, deviceVars>>

\* onTerminalResult: the entry with the result's commandId is done.
Shows(s, m) ==
    entry' = IF page[s] = "open" /\ entry[m].of = s
             THEN [entry EXCEPT ![m].at = "done"] ELSE entry

\* onError, while the socket is open at both ends: it is about every command
\* that is still running, and names none.
Tells(s) ==
    entry' = [m \in Cmds |->
                IF /\ entry[m] = [at |-> "running", of |-> s]
                   /\ page[s] = "open" /\ served[s] # "ended"
                THEN [entry[m] EXCEPT !.at = "told"] ELSE entry[m]]

PageSeesClose(s) ==
    /\ page[s] = "open" /\ served[s] = "ended"
    /\ page' = [page EXCEPT ![s] = "closed"]
    /\ UNCHANGED <<entry, hubVars, typed, relayed, record, deviceVars>>

----------------------------------------------------------------------------
(* The audit log.                                                          *)

\* Logger.Log: queued, or lost when the queue is full.
Log(m, action) ==
    \E place \in {"queued", "lost"} :
        record' = [record EXCEPT ![m] = [action |-> action, at |-> place]]

\* One turn of Logger.worker: an INSERT that fails is logged and passed over.
WorkerWrites(m) ==
    /\ record[m].at = "queued"
    /\ \E outcome \in {"stored", "lost"} :
          record' = [record EXCEPT ![m].at = outcome]
    /\ UNCHANGED <<panelVars, hubVars, typed, relayed, deviceVars>>

----------------------------------------------------------------------------
(* Sessions.                                                               *)

\* ServeSession's checks, the last of which is agentOnline.
OpenSession(s, allowed) ==
    /\ served[s] = "none" /\ \A t \in 1..(s - 1) : served[t] # "none"
    /\ agents # 0
    /\ served' = [served EXCEPT ![s] = "opening"]
    /\ allow' = [allow EXCEPT ![s] = allowed]
    /\ page' = [page EXCEPT ![s] = "open"]
    /\ UNCHANGED <<entry, agents, viewers, hub, leaving, typed, relayed,
                   record, deviceVars>>

\* RegisterSession and registerViewer; the device's one slot may be taken.
RegisterViewer(s) ==
    /\ served[s] = "opening"
    /\ IF \E t \in Sessions : served[t] = "open"
       THEN served' = [served EXCEPT ![s] = "ended"] /\ UNCHANGED viewers
       ELSE served' = [served EXCEPT ![s] = "open"] /\ viewers' = s
    /\ UNCHANGED <<panelVars, agents, hub, leaving, allow, typed, relayed,
                   record, deviceVars>>

EndSession(s) ==
    /\ served' = [served EXCEPT ![s] = "ended"]
    /\ viewers' = IF viewers = s THEN 0 ELSE viewers

\* ReadMessage fails: the operator left or retried, sent a frame above the
\* limit, was silent for ten minutes.  Never while a command is being relayed.
ViewerEnds(s) ==
    /\ served[s] = "open" /\ relayed[s] = 0
    /\ EndSession(s)
    /\ UNCHANGED <<panelVars, agents, hub, leaving, allow, typed, relayed,
                   record, deviceVars>>

\* Mutant: a command that will be forwarded is left to the device to record.
AuditCommand_DeniedOnly(s) ==
    /\ served[s] = "open" /\ relayed[s] = 0 /\ typed[s] # <<>>
    /\ typed' = [typed EXCEPT ![s] = Tail(@)]
    /\ LET m == Head(typed[s]) IN
       IF allow[s]
       THEN relayed' = [relayed EXCEPT ![s] = m] /\ UNCHANGED <<entry, record>>
       ELSE Log(m, "terminal_command_denied") /\ Shows(s, m) /\ UNCHANGED relayed
    /\ UNCHANGED <<page, hubVars, deviceVars>>

\* relayTerminalCommand up to the audit entry.  Without the device's consent
\* the command is on record as denied, and answered.
AuditCommand(s) ==
    /\ served[s] = "open" /\ relayed[s] = 0 /\ typed[s] # <<>>
    /\ typed' = [typed EXCEPT ![s] = Tail(@)]
    /\ LET m == Head(typed[s]) IN
       IF allow[s]
       THEN /\ Log(m, "terminal_command")
            /\ relayed' = [relayed EXCEPT ![s] = m]
            /\ UNCHANGED entry
       ELSE /\ Log(m, "terminal_command_denied")
            /\ Shows(s, m)
            /\ UNCHANGED relayed
    /\ UNCHANGED <<page, hubVars, deviceVars>>

\* sendToAgent takes the connection the device has now, which may not be the
\* one it had when the command came, nor the session still be open.
ForwardCommand(s) ==
    /\ relayed[s] # 0 /\ agents # 0
    /\ relayed' = [relayed EXCEPT ![s] = 0]
    /\ toAgent' = IF link[agents]
                  THEN [toAgent EXCEPT ![agents] = Append(@, relayed[s])]
                  ELSE toAgent
    /\ UNCHANGED <<panelVars, hubVars, typed, record, link, fromAgent, job>>

ForwardFails(s) ==
    /\ relayed[s] # 0 /\ (agents # 0 => ~link[agents])
    /\ relayed' = [relayed EXCEPT ![s] = 0]
    /\ Tells(s)
    /\ UNCHANGED <<page, hubVars, typed, record, deviceVars>>

----------------------------------------------------------------------------
(* Connections.                                                            *)

\* The device dials when it has no connection; registerAgent takes the entry
\* and closes the connection that had it.
Connect(c) ==
    /\ hub[c] = "none" /\ \A k \in 1..(c - 1) : hub[k] # "none" /\ ~link[k]
    /\ hub' = [k \in Conns |-> IF k = c THEN "reading"
                               ELSE IF k = agents THEN "closed" ELSE hub[k]]
    /\ agents' = c
    /\ link' = [link EXCEPT ![c] = TRUE]
    /\ UNCHANGED <<panelVars, viewers, leaving, served, allow, typed, relayed,
                   record, toAgent, fromAgent, job>>

\* The device lets go of it: its context kills the commands that run, whose
\* replies then fail.
Disconnect(c) ==
    /\ link[c]
    /\ link' = [link EXCEPT ![c] = FALSE]
    /\ toAgent' = [toAgent EXCEPT ![c] = <<>>]
    /\ job' = [m \in Cmds |->
                 IF job[m] = [at |-> "running", on |-> c]
                 THEN [job[m] EXCEPT !.at = "killed"] ELSE job[m]]
    /\ UNCHANGED <<panelVars, hubVars, typed, relayed, record, fromAgent>>

\* readAgent hands a result to whoever views the device now.
ForwardResult(c) ==
    /\ hub[c] = "reading" /\ fromAgent[c] # <<>>
    /\ Head(fromAgent[c]).fits
    /\ fromAgent' = [fromAgent EXCEPT ![c] = Tail(@)]
    /\ IF viewers = 0 THEN UNCHANGED entry
       ELSE Shows(viewers, Head(fromAgent[c]).of)
    /\ UNCHANGED <<page, hubVars, typed, relayed, record, link,
                   toAgent, job>>

\* ReadMessage fails for good, as it also does for a frame above the limit.
CannotRead(c) ==
    \/ hub[c] = "closed" \/ ~link[c]
    \/ fromAgent[c] # <<>> /\ ~Head(fromAgent[c]).fits

\* Mutant: only the device's current connection ends the viewer's session.
ConnectionEnds_IfCurrent(c) ==
    /\ hub[c] \in {"reading", "closed"}
    /\ LET v == IF agents = c THEN viewers ELSE 0 IN
       /\ hub' = [hub EXCEPT ![c] = IF v = 0 THEN "done" ELSE "leaving"]
       /\ leaving' = [leaving EXCEPT ![c] = v]
    /\ agents' = IF agents = c THEN 0 ELSE agents
    /\ UNCHANGED <<panelVars, viewers, served, allow, typed, relayed, record,
                   deviceVars>>

\* unregisterAgent up to its unlock.
ConnectionEnds(c) ==
    /\ hub[c] \in {"reading", "closed"}
    /\ hub' = [hub EXCEPT ![c] = IF viewers = 0 THEN "done" ELSE "leaving"]
    /\ agents' = IF agents = c THEN 0 ELSE agents
    /\ leaving' = [leaving EXCEPT ![c] = viewers]
    /\ UNCHANGED <<panelVars, viewers, served, allow, typed, relayed, record,
                   deviceVars>>

\* The rest: "device disconnected", and the session is ended.
EndsViewer(c) ==
    /\ hub[c] = "leaving" /\ hub' = [hub EXCEPT ![c] = "done"]
    /\ leaving' = [leaving EXCEPT ![c] = 0]
    /\ Tells(leaving[c])
    /\ EndSession(leaving[c])
    /\ UNCHANGED <<page, agents, allow, typed, relayed, record,
                   deviceVars>>

----------------------------------------------------------------------------
(* The runner.                                                             *)

AgentReads(c) ==
    /\ link[c] /\ toAgent[c] # <<>>
    /\ toAgent' = [toAgent EXCEPT ![c] = Tail(@)]
    /\ job' = [job EXCEPT ![Head(toAgent[c])] = [at |-> "running", on |-> c]]
    /\ UNCHANGED <<panelVars, hubVars, typed, relayed, record, link,
                   fromAgent>>

\* clamp, and the size of the frame with both streams.
Clamp(n) == IF n <= MaxOutput THEN n ELSE MaxOutput
ResultSizes ==
    {w * (Clamp(out) + Clamp(err)) :
        w \in Widths, out \in 0..(MaxOutput + 1), err \in 0..(MaxOutput + 1)}

\* Runner.run comes back, by itself or after the 60 s, and replies on the
\* connection the command came by.
CommandEnds(m, size) ==
    /\ job[m].at \in {"running", "held"}
    /\ job' = [job EXCEPT ![m].at = "done"]
    /\ fromAgent' = IF link[job[m].on]
          THEN [fromAgent EXCEPT ![job[m].on] =
                   Append(@, [of |-> m, fits |-> size <= ReadLimit])]
          ELSE fromAgent
    /\ UNCHANGED <<panelVars, hubVars, typed, relayed, record, link, toAgent>>

\* The process has ended or was killed, but c.Run waits until a grandchild
\* closes the pipes.
PipesStayOpen(m) ==
    /\ job[m].at = "running"
    /\ job' = [job EXCEPT ![m].at = "held"]
    /\ UNCHANGED <<panelVars, hubVars, typed, relayed, record, link, toAgent,
                   fromAgent>>

----------------------------------------------------------------------------
SessionStep(s) ==
    RegisterViewer(s) \/ AuditCommand(s) \/ ForwardCommand(s) \/ ForwardFails(s)
ConnStep(c)  == ForwardResult(c) \/ EndsViewer(c)
Finishes(m)  == \E size \in ResultSizes : CommandEnds(m, size)

Next ==
    \/ \E s \in Sessions :
          \/ \E m \in Cmds : TypeCommand(s, m)
          \/ \E allowed \in AllowTerminal : OpenSession(s, allowed)
          \/ PageSeesClose(s) \/ ViewerEnds(s) \/ SessionStep(s)
    \/ \E c \in Conns :
          Connect(c) \/ Disconnect(c) \/ ConnectionEnds(c) \/ ConnStep(c)
                     \/ AgentReads(c)
    \/ \E m \in Cmds : Finishes(m) \/ PipesStayOpen(m) \/ WorkerWrites(m)

Spec == Init /\ [][Next]_vars

\* Goroutines that can run do; closes, frames and deadlines arrive.  Operators
\* and networks owe nothing, and the device need not dial.
Fairness ==
    /\ \A s \in Sessions : WF_vars(SessionStep(s)) /\ WF_vars(PageSeesClose(s))
    /\ \A c \in Conns :
          /\ WF_vars(ConnStep(c)) /\ WF_vars(AgentReads(c))
          /\ WF_vars(CannotRead(c) /\ ConnectionEnds(c))
          /\ WF_vars(hub[c] \in {"closed", "done"} /\ Disconnect(c))

\* Every command comes back: within its 60 s, or when its grandchildren end.
FairSpec == Spec /\ Fairness /\ \A m \in Cmds : WF_vars(Finishes(m))

\* A grandchild may hold the pipes for ever.
DaemonSpec ==
    /\ Spec /\ Fairness
    /\ \A m \in Cmds : WF_vars(job[m].at = "running" /\ Finishes(m))

----------------------------------------------------------------------------

\* Whatever a device is given to run has gone through the audit log as a
\* command first (stored, waiting, or lost to a full queue or a failed
\* INSERT), also when its session has ended or the device has another
\* connection by then; and what its owner did not allow never gets there
\* (relayTerminalCommand: audited before it is forwarded).
RunsAreOnRecord ==
    \A m \in Cmds :
        \/ job[m].at # "none"
        \/ \E c \in Conns : \E i \in DOMAIN toAgent[c] : toAgent[c][i] = m
        => record[m].action = "terminal_command"

\* An operator who waits for a command does not wait for ever: the entry is
\* done, or an error is shown, or the session is over, whatever became of the
\* connection, of the session and of the command (runCommand, readViewer,
\* unregisterAgent, Runner.run).
EntrySettles ==
    \A m \in Cmds, s \in Sessions :
        entry[m] = [at |-> "running", of |-> s]
            ~> entry[m].at # "running" \/ page[s] # "open"

\* Under DaemonSpec EntrySettles is refuted.  terminal.go: "short enough that a
\* hung process frees the runner and tells the operator rather than blocking
\* silently forever".

\* Refuted.  session.go, relayTerminalCommand: "every command an operator runs
\* on a device is written to the audit trail before it is forwarded".
WrittenBeforeRun ==
    \A m \in Cmds : job[m].at # "none" => record[m].at = "stored"

\* Refuted.  hub.go, readAgent: "terminal_result carries command output back to
\* the one operator whose command produced it".
ResultsGoHome ==
    [][\A c \in Conns : ForwardResult(c) =>
          viewers \in {0, entry[Head(fromAgent[c]).of].of}]_vars

\* Refuted.  terminal.go: "Truncating here keeps a single command from
\* overwhelming the channel".
OutputKeepsChannel ==
    \A c \in Conns : \A i \in DOMAIN fromAgent[c] :
        fromAgent[c][i].fits
=============================================================================
