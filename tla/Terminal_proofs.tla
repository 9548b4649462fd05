--------------------------- MODULE Terminal_proofs ---------------------------
(***************************************************************************)
(* Proofs about Terminal, for any number of commands, connections and      *)
(* sessions, and whatever devices allow: what a device is given to run is  *)
(* on record.  The commands go one way, from an operator's frames through  *)
(* the relay and a connection to the runner; RecordInv says of each place  *)
(* on that way whether what is there has been recorded yet.                *)
(***************************************************************************)
EXTENDS Terminal, TLAPS

Entries == [at : {"none", "running", "told", "done"}, of : Sessions \cup {0}]
Records == [action : {"none", "terminal_command", "terminal_command_denied"},
            at : {"none", "queued", "stored", "lost"}]
Jobs    == [at : {"none", "running", "held", "killed", "done"},
            on : Conns \cup {0}]
Results == [of : Cmds, fits : BOOLEAN]

\* The variables have their types.
TypeOK ==
    /\ page \in [Sessions -> {"none", "open", "closed"}]
    /\ entry \in [Cmds -> Entries]
    /\ agents \in Conns \cup {0} /\ viewers \in Sessions \cup {0}
    /\ hub \in [Conns -> {"none", "reading", "closed", "leaving", "done"}]
    /\ leaving \in [Conns -> Sessions \cup {0}]
    /\ served \in [Sessions -> {"none", "opening", "open", "ended"}]
    /\ allow \in [Sessions -> BOOLEAN]
    /\ typed \in [Sessions -> Seq(Cmds)]
    /\ relayed \in [Sessions -> Cmds \cup {0}]
    /\ record \in [Cmds -> Records]
    /\ link \in [Conns -> BOOLEAN]
    /\ toAgent \in [Conns -> Seq(Cmds)]
    /\ fromAgent \in [Conns -> Seq(Results)]
    /\ job \in [Cmds -> Jobs]

OnRecord(m) == record[m].action = "terminal_command"

\* A frame the relay has not read is about a command typed once, and not yet
\* recorded.
TypedIsNew ==
    \A s, t \in Sessions : \A i \in DOMAIN typed[s], j \in DOMAIN typed[t] :
        /\ entry[typed[s][i]].at # "none"
        /\ record[typed[s][i]].action = "none"
        /\ typed[s][i] = typed[t][j] => s = t /\ i = j

\* What is recorded was typed.
RecordIsTyped ==
    \A m \in Cmds : record[m].action # "none" => entry[m].at # "none"

\* From the audit entry on, a command is on record wherever it is.
RelayedIsRecorded ==
    \A s \in Sessions : relayed[s] # 0 => OnRecord(relayed[s])
SentIsRecorded ==
    \A c \in Conns : \A i \in DOMAIN toAgent[c] : OnRecord(toAgent[c][i])
JobIsRecorded == \A m \in Cmds : job[m].at # "none" => OnRecord(m)

RecordInv ==
    /\ TypedIsNew /\ RecordIsTyped
    /\ RelayedIsRecorded /\ SentIsRecorded /\ JobIsRecorded

TermInv == TypeOK /\ RecordInv

LEMMA TermInitial == Init => TermInv
  <1> SUFFICES ASSUME Init PROVE TermInv
    OBVIOUS
  <1> USE TerminalAssumption DEF Init
  <1>1. TypeOK
    BY DEF TypeOK, Entries, Records, Jobs, Results, Cmds, Conns, Sessions
  <1>2. RecordInv
    BY DEF RecordInv, TypedIsNew, RecordIsTyped, RelayedIsRecorded,
           SentIsRecorded, JobIsRecorded
  <1> QED BY <1>1, <1>2 DEF TermInv

\* What an operator's page and the audit log do with a command.
LEMMA ShowsType ==
    ASSUME TypeOK, NEW s, NEW m \in Cmds, Shows(s, m)
    PROVE  entry' \in [Cmds -> Entries]
  <1>1. CASE page[s] = "open" /\ entry[m].of = s
    <2>1. entry' = [entry EXCEPT ![m].at = "done"] BY <1>1 DEF Shows
    <2>2. entry \in [Cmds -> Entries] BY DEF TypeOK
    <2>3. [entry[m] EXCEPT !.at = "done"] \in Entries BY <2>2 DEF Entries
    <2> QED BY <2>1, <2>2, <2>3
  <1>2. CASE ~(page[s] = "open" /\ entry[m].of = s)
    BY <1>2 DEF Shows, TypeOK
  <1> QED BY <1>1, <1>2

LEMMA LogType ==
    ASSUME TypeOK, NEW m \in Cmds,
           NEW action \in {"terminal_command", "terminal_command_denied"},
           Log(m, action)
    PROVE  record' \in [Cmds -> Records]
  <1>1. PICK place \in {"queued", "lost"} :
           record' = [record EXCEPT ![m] = [action |-> action, at |-> place]]
    BY DEF Log
  <1>2. [action |-> action, at |-> place] \in Records BY DEF Records
  <1> QED BY <1>1, <1>2 DEF TypeOK

\* Every step keeps the types.
LEMMA TermTypeKeeps == TypeOK /\ [Next]_vars => TypeOK'
  <1> SUFFICES ASSUME TypeOK, [Next]_vars PROVE TypeOK'
    OBVIOUS
  <1> USE TerminalAssumption
      DEF TypeOK, Entries, Records, Jobs, panelVars, hubVars,
          deviceVars
  <1>1. ASSUME NEW s \in Sessions, NEW m \in Cmds, TypeCommand(s, m)
        PROVE  TypeOK'
    BY <1>1 DEF TypeCommand
  <1>2. ASSUME NEW s \in Sessions, NEW allowed \in AllowTerminal,
               OpenSession(s, allowed)
        PROVE  TypeOK'
    BY <1>2 DEF OpenSession
  <1>3. ASSUME NEW s \in Sessions, PageSeesClose(s) \/ ViewerEnds(s)
        PROVE  TypeOK'
    BY <1>3 DEF PageSeesClose, ViewerEnds, EndSession
  <1>4. ASSUME NEW s \in Sessions, RegisterViewer(s) PROVE TypeOK'
    BY <1>4 DEF RegisterViewer
  <1>5. ASSUME NEW s \in Sessions, AuditCommand(s) PROVE TypeOK'
    <2> DEFINE m == Head(typed[s])
    <2>1. m \in Cmds /\ typed' \in [Sessions -> Seq(Cmds)]
      BY <1>5 DEF AuditCommand
    <2>2. CASE allow[s]
      <3>1. record' \in [Cmds -> Records]
        BY <1>5, <2>1, <2>2, LogType DEF AuditCommand
      <3>2. relayed' = [relayed EXCEPT ![s] = m]
        BY <1>5, <2>2 DEF AuditCommand
      <3>3. relayed' \in [Sessions -> Cmds \cup {0}]
        <4> HIDE DEF m
        <4> QED BY <2>1, <3>2
      <3> QED BY <1>5, <2>1, <2>2, <3>1, <3>3 DEF AuditCommand
    <2>3. CASE ~allow[s]
      <3>1. record' \in [Cmds -> Records]
        BY <1>5, <2>1, <2>3, LogType DEF AuditCommand
      <3>2. entry' \in [Cmds -> Entries]
        BY <1>5, <2>1, <2>3, ShowsType DEF AuditCommand
      <3> QED BY <1>5, <2>1, <2>3, <3>1, <3>2 DEF AuditCommand
    <2> QED BY <2>2, <2>3
  <1>6. ASSUME NEW s \in Sessions, ForwardCommand(s) PROVE TypeOK'
    <2>1. relayed[s] \in Cmds /\ agents \in Conns BY <1>6 DEF ForwardCommand
    <2>2. toAgent' \in [Conns -> Seq(Cmds)]
      BY <1>6, <2>1 DEF ForwardCommand
    <2>3. relayed' \in [Sessions -> Cmds \cup {0}]
      BY <1>6 DEF ForwardCommand
    <2> QED BY <1>6, <2>2, <2>3 DEF ForwardCommand
  <1>7. ASSUME NEW s \in Sessions, ForwardFails(s) PROVE TypeOK'
    BY <1>7 DEF ForwardFails, Tells
  <1>8. ASSUME NEW c \in Conns, Connect(c) PROVE TypeOK'
    BY <1>8 DEF Connect
  <1>9. ASSUME NEW c \in Conns, Disconnect(c) PROVE TypeOK'
    <2>1. job' \in [Cmds -> Jobs] BY <1>9 DEF Disconnect
    <2>2. toAgent' \in [Conns -> Seq(Cmds)] BY <1>9 DEF Disconnect
    <2> QED BY <1>9, <2>1, <2>2 DEF Disconnect
  <1>10. ASSUME NEW c \in Conns, ConnectionEnds(c) PROVE TypeOK'
    BY <1>10 DEF ConnectionEnds
  <1>11. ASSUME NEW c \in Conns, ForwardResult(c) PROVE TypeOK'
    <2>1. Head(fromAgent[c]).of \in Cmds
      <3>1. Head(fromAgent[c]) \in Results BY <1>11 DEF ForwardResult
      <3> QED BY <3>1 DEF Results
    <2>2. entry' \in [Cmds -> Entries]
      BY <1>11, <2>1, ShowsType DEF ForwardResult
    <2>3. fromAgent' \in [Conns -> Seq(Results)] BY <1>11 DEF ForwardResult
    <2> QED BY <1>11, <2>2, <2>3 DEF ForwardResult
  <1>12. ASSUME NEW c \in Conns, EndsViewer(c) PROVE TypeOK'
    BY <1>12 DEF EndsViewer, Tells, EndSession
  <1>13. ASSUME NEW c \in Conns, AgentReads(c) PROVE TypeOK'
    <2> USE <1>13 DEF AgentReads
    <2>1. Head(toAgent[c]) \in Cmds OBVIOUS
    <2>2. toAgent' \in [Conns -> Seq(Cmds)] OBVIOUS
    <2>3. job' \in [Cmds -> Jobs] BY <2>1
    <2> QED BY <2>2, <2>3
  <1>14. ASSUME NEW m \in Cmds, Finishes(m) PROVE TypeOK'
    <2>1. PICK size \in ResultSizes : CommandEnds(m, size)
      BY <1>14 DEF Finishes
    <2>2. job' \in [Cmds -> Jobs] BY <2>1 DEF CommandEnds
    <2> DEFINE result == [of |-> m, fits |-> size <= ReadLimit]
    <2>3. result \in Results BY DEF Results
    <2>4. fromAgent' \in [Conns -> Seq(Results)]
      <3>1. CASE link[job[m].on]
        <4>1. fromAgent' = [fromAgent EXCEPT ![job[m].on] =
                               Append(@, result)]
          BY <2>1, <3>1 DEF CommandEnds
        <4>2. fromAgent \in [Conns -> Seq(Results)] OBVIOUS
        <4> HIDE DEF result, TypeOK
        <4>3. \A d \in Conns : Append(fromAgent[d], result) \in Seq(Results)
          BY <2>3, <4>2
        <4> QED BY <4>1, <4>2, <4>3
      <3>2. CASE ~link[job[m].on] BY <2>1, <3>2 DEF CommandEnds
      <3> QED BY <3>1, <3>2
    <2> QED BY <2>1, <2>2, <2>4 DEF CommandEnds
  <1>15. ASSUME NEW m \in Cmds, PipesStayOpen(m) \/ WorkerWrites(m)
         PROVE  TypeOK'
    <2>1. CASE PipesStayOpen(m)
      <3>1. job' \in [Cmds -> Jobs] BY <2>1 DEF PipesStayOpen
      <3> QED BY <2>1, <3>1 DEF PipesStayOpen
    <2>2. CASE WorkerWrites(m)
      <3>1. PICK outcome \in {"stored", "lost"} :
               record' = [record EXCEPT ![m].at = outcome]
        BY <2>2 DEF WorkerWrites
      <3>2. [record[m] EXCEPT !.at = outcome] \in Records
        <4>1. record[m] \in Records OBVIOUS
        <4> QED BY <4>1
      <3>3. record' \in [Cmds -> Records] BY <3>1, <3>2
      <3> QED BY <2>2, <3>3 DEF WorkerWrites
    <2> QED BY <1>15, <2>1, <2>2
  <1>16. CASE UNCHANGED vars BY <1>16 DEF vars
  <1> QED
    BY <1>1, <1>2, <1>3, <1>4, <1>5, <1>6, <1>7, <1>8, <1>9, <1>10, <1>11,
       <1>12, <1>13, <1>14, <1>15, <1>16
    DEF Next, SessionStep, ConnStep

\* An entry that was shown stays shown.
LEMMA ShowsMore ==
    ASSUME TypeOK, NEW s, NEW k, Shows(s, k) \/ Tells(s),
           NEW m \in Cmds, entry[m].at # "none"
    PROVE  entry'[m].at # "none"
  <1>1. CASE Shows(s, k) BY <1>1 DEF Shows, TypeOK, Entries
  <1>2. CASE Tells(s) BY <1>2 DEF Tells, TypeOK, Entries
  <1> QED BY <1>1, <1>2

\* A step that takes no command any further on its way keeps the record: it
\* may show more entries, drop what is on its way, or end what runs.
LEMMA RecordStill ==
    ASSUME TypeOK, TypeOK', RecordInv, UNCHANGED typed,
           \A s \in Sessions : relayed'[s] \in {0, relayed[s]},
           \A c \in Conns : toAgent'[c] \in {<<>>, toAgent[c]},
           \A m \in Cmds : /\ record'[m].action = record[m].action
                           /\ entry[m].at # "none" => entry'[m].at # "none"
                           /\ job'[m].at # "none" => job[m].at # "none"
    PROVE  RecordInv'
  <1> USE DEF RecordInv, TypeOK, OnRecord
  <1>1. TypedIsNew'
    <2> SUFFICES ASSUME NEW s \in Sessions, NEW t \in Sessions,
                        NEW i \in DOMAIN typed[s], NEW j \in DOMAIN typed[t]
                 PROVE  /\ entry'[typed[s][i]].at # "none"
                        /\ record'[typed[s][i]].action = "none"
                        /\ typed[s][i] = typed[t][j] => s = t /\ i = j
      BY DEF TypedIsNew
    <2>1. typed[s][i] \in Cmds OBVIOUS
    <2>2. /\ entry[typed[s][i]].at # "none"
          /\ record[typed[s][i]].action = "none"
          /\ typed[s][i] = typed[t][j] => s = t /\ i = j
      BY DEF TypedIsNew
    <2> HIDE DEF TypeOK, RecordInv
    <2> QED BY <2>1, <2>2
  <1>2. RecordIsTyped' BY DEF RecordIsTyped
  <1>3. RelayedIsRecorded'
    <2> SUFFICES ASSUME NEW s \in Sessions, relayed'[s] # 0
                 PROVE  record'[relayed'[s]].action = "terminal_command"
      BY DEF RelayedIsRecorded
    <2>1. relayed'[s] = relayed[s] /\ relayed[s] \in Cmds OBVIOUS
    <2>2. record[relayed[s]].action = "terminal_command"
      BY <2>1 DEF RelayedIsRecorded
    <2> HIDE DEF TypeOK, RecordInv
    <2> QED BY <2>1, <2>2
  <1>4. SentIsRecorded'
    <2> SUFFICES ASSUME NEW c \in Conns, NEW i \in DOMAIN toAgent'[c]
                 PROVE  record'[toAgent'[c][i]].action = "terminal_command"
      BY DEF SentIsRecorded
    <2>1. toAgent'[c] = toAgent[c] OBVIOUS
    <2>2. toAgent[c][i] \in Cmds BY <2>1
    <2>3. record[toAgent[c][i]].action = "terminal_command"
      BY <2>1 DEF SentIsRecorded
    <2> HIDE DEF TypeOK, RecordInv
    <2> QED BY <2>1, <2>2, <2>3
  <1>5. JobIsRecorded' BY DEF JobIsRecorded
  <1> QED BY <1>1, <1>2, <1>3, <1>4, <1>5

\* Every step keeps the record.
LEMMA RecordKeeps == TypeOK /\ TypeOK' /\ RecordInv /\ [Next]_vars => RecordInv'
  <1> SUFFICES ASSUME TypeOK, TypeOK', RecordInv, [Next]_vars PROVE RecordInv'
    OBVIOUS
  <1> USE TerminalAssumption
  <1>1. ASSUME NEW s \in Sessions, NEW m \in Cmds, TypeCommand(s, m)
        PROVE  RecordInv'
    <2>1. record[m].action = "none" /\ entry'[m].at # "none"
      BY <1>1 DEF TypeCommand, TypeOK, Entries, RecordInv, RecordIsTyped
    <2>2. \A k \in Cmds : entry[k].at # "none" => entry'[k].at # "none"
      BY <1>1 DEF TypeCommand, TypeOK, Entries
    <2>3. CASE typed' = typed
      BY <1>1, <2>2, <2>3, RecordStill DEF TypeCommand, deviceVars
    <2>4. CASE typed' = [typed EXCEPT ![s] = Append(@, m)]
      <3>1. \A t \in Sessions : typed[t] \in Seq(Cmds) BY DEF TypeOK
      <3>2. \A t \in Sessions : \A i \in DOMAIN typed[t] :
               typed[t][i] \in Cmds /\ typed[t][i] # m
        BY <1>1, <3>1 DEF TypeCommand, RecordInv, TypedIsNew
      <3>3. \A t \in Sessions : \A i \in DOMAIN typed'[t] :
               \/ i \in DOMAIN typed[t] /\ typed'[t][i] = typed[t][i]
               \/ t = s /\ i = Len(typed[s]) + 1 /\ typed'[t][i] = m
        BY <2>4, <3>1 DEF TypeOK
      <3>4. TypedIsNew'
        <4> SUFFICES ASSUME NEW t \in Sessions, NEW u \in Sessions,
                            NEW i \in DOMAIN typed'[t],
                            NEW j \in DOMAIN typed'[u]
                     PROVE  /\ entry'[typed'[t][i]].at # "none"
                            /\ record'[typed'[t][i]].action = "none"
                            /\ typed'[t][i] = typed'[u][j] => t = u /\ i = j
          BY DEF TypedIsNew
        <4>1. record' = record BY <1>1 DEF TypeCommand
        <4>2. entry'[typed'[t][i]].at # "none"
          BY <2>1, <2>2, <3>2, <3>3 DEF RecordInv, TypedIsNew
        <4>3. record'[typed'[t][i]].action = "none"
          BY <2>1, <3>3, <4>1 DEF RecordInv, TypedIsNew
        <4>4. typed'[t][i] = typed'[u][j] => t = u /\ i = j
          BY <3>2, <3>3 DEF RecordInv, TypedIsNew
        <4> QED BY <4>2, <4>3, <4>4
      <3>5. RecordIsTyped'
        BY <1>1, <2>1, <2>2 DEF TypeCommand, RecordInv, RecordIsTyped
      <3> QED
        BY <1>1, <3>4, <3>5
        DEF TypeCommand, deviceVars, RecordInv, RelayedIsRecorded,
            SentIsRecorded, JobIsRecorded, OnRecord
    <2> QED BY <1>1, <2>3, <2>4 DEF TypeCommand
  <1>2. ASSUME NEW s \in Sessions, AuditCommand(s) PROVE RecordInv'
    <2> DEFINE m == Head(typed[s])
    <2>1. typed[s] \in Seq(Cmds) /\ typed[s] # <<>>
      BY <1>2 DEF AuditCommand, TypeOK
    <2>2. m = typed[s][1] /\ 1 \in DOMAIN typed[s] /\ m \in Cmds
      BY <2>1
    <2>3. record[m].action = "none" /\ entry[m].at # "none"
      BY <2>2 DEF RecordInv, TypedIsNew
    <2>4. \A k \in Cmds : entry[k].at # "none" => entry'[k].at # "none"
      BY <1>2, ShowsMore DEF AuditCommand
    <2>5. /\ \A k \in Cmds : k # m => record'[k] = record[k]
          /\ allow[s] => record'[m].action = "terminal_command"
      <3>1. CASE allow[s]
        <4>1. PICK place \in {"queued", "lost"} :
                 record' = [record EXCEPT ![m] =
                               [action |-> "terminal_command", at |-> place]]
          BY <1>2, <3>1 DEF AuditCommand, Log
        <4> QED BY <2>2, <4>1 DEF OnRecord, TypeOK
      <3>2. CASE ~allow[s]
        <4>1. PICK place \in {"queued", "lost"} :
                 record' = [record EXCEPT ![m] =
                    [action |-> "terminal_command_denied", at |-> place]]
          BY <1>2, <3>2 DEF AuditCommand, Log
        <4> QED BY <2>2, <3>2, <4>1 DEF OnRecord, TypeOK
      <3> QED BY <3>1, <3>2
    <2>6. /\ UNCHANGED <<toAgent, job>>
          /\ relayed' = IF allow[s] THEN [relayed EXCEPT ![s] = m] ELSE relayed
          /\ typed' = [typed EXCEPT ![s] = Tail(@)]
      BY <1>2 DEF AuditCommand, deviceVars
    <2> HIDE DEF m
    <2>7. \A k \in Cmds : OnRecord(k) => k # m /\ OnRecord(k)'
      BY <2>3, <2>5 DEF OnRecord
    <2>8. TypedIsNew'
      <3>1. \A t \in Sessions : typed[t] \in Seq(Cmds) BY DEF TypeOK
      <3>2. \A t \in Sessions : \A i \in DOMAIN typed'[t] :
               \/ t # s /\ i \in DOMAIN typed[t] /\ typed'[t][i] = typed[t][i]
               \/ /\ t = s /\ i + 1 \in DOMAIN typed[s] /\ i \in Nat /\ i > 0
                  /\ typed'[t][i] = typed[s][i + 1]
        BY <2>1, <2>6, <3>1 DEF TypeOK
      <3> SUFFICES ASSUME NEW t \in Sessions, NEW u \in Sessions,
                          NEW i \in DOMAIN typed'[t],
                          NEW j \in DOMAIN typed'[u]
                   PROVE  /\ entry'[typed'[t][i]].at # "none"
                          /\ record'[typed'[t][i]].action = "none"
                          /\ typed'[t][i] = typed'[u][j] => t = u /\ i = j
        BY DEF TypedIsNew
      <3>3. PICK k \in DOMAIN typed[t] :
               /\ typed'[t][i] = typed[t][k] /\ typed[t][k] # m
               /\ t = s => k = i + 1 /\ i \in Nat
               /\ t # s => k = i
        BY <2>2, <3>2 DEF RecordInv, TypedIsNew
      <3>4. PICK l \in DOMAIN typed[u] :
               /\ typed'[u][j] = typed[u][l]
               /\ u = s => l = j + 1 /\ j \in Nat
               /\ u # s => l = j
        BY <2>2, <3>2 DEF RecordInv, TypedIsNew
      <3>5. typed[t][k] \in Cmds BY <3>1
      <3>6. entry'[typed[t][k]].at # "none"
        BY <2>4, <3>5 DEF RecordInv, TypedIsNew
      <3>7. record'[typed[t][k]].action = "none"
        BY <2>5, <3>3, <3>5 DEF RecordInv, TypedIsNew
      <3>8. typed[t][k] = typed[u][l] => t = u /\ k = l
        BY DEF RecordInv, TypedIsNew
      <3>9. k = l /\ t = u => i = j BY <3>3, <3>4
      <3> QED BY <3>3, <3>4, <3>6, <3>7, <3>8, <3>9
    <2>9. RecordIsTyped'
      BY <2>3, <2>4, <2>5 DEF RecordInv, RecordIsTyped
    <2>10. RelayedIsRecorded'
      <3> SUFFICES ASSUME NEW t \in Sessions, relayed'[t] # 0
                   PROVE  record'[relayed'[t]].action = "terminal_command"
        BY DEF RelayedIsRecorded, OnRecord
      <3>1. CASE relayed'[t] = relayed[t]
        BY <2>7, <3>1 DEF TypeOK, RecordInv, RelayedIsRecorded, OnRecord
      <3>2. CASE relayed'[t] # relayed[t]
        BY <2>5, <2>6, <3>2 DEF TypeOK, OnRecord
      <3> QED BY <3>1, <3>2
    <2>11. SentIsRecorded'
      <3>1. \A c \in Conns : \A i \in DOMAIN toAgent[c] :
               toAgent[c][i] \in Cmds /\ OnRecord(toAgent[c][i])
        BY DEF TypeOK, RecordInv, SentIsRecorded
      <3> QED BY <2>6, <2>7, <3>1 DEF SentIsRecorded, OnRecord
    <2>12. JobIsRecorded'
      BY <2>6, <2>7 DEF RecordInv, JobIsRecorded, OnRecord
    <2> QED BY <2>8, <2>9, <2>10, <2>11, <2>12 DEF RecordInv
  <1>3. ASSUME NEW s \in Sessions, ForwardCommand(s) PROVE RecordInv'
    <2>1. relayed[s] \in Cmds /\ OnRecord(relayed[s])
      BY <1>3 DEF ForwardCommand, TypeOK, RecordInv, RelayedIsRecorded
    <2>2. SentIsRecorded'
      <3>1. \A c \in Conns : toAgent[c] \in Seq(Cmds) BY DEF TypeOK
      <3>2. \A c \in Conns : \A i \in DOMAIN toAgent'[c] :
               \/ i \in DOMAIN toAgent[c] /\ toAgent'[c][i] = toAgent[c][i]
               \/ toAgent'[c][i] = relayed[s]
        BY <1>3, <2>1, <3>1 DEF ForwardCommand, TypeOK
      <3> QED
        BY <1>3, <2>1, <3>2
        DEF ForwardCommand, RecordInv, SentIsRecorded, OnRecord
    <2>3. RelayedIsRecorded'
      BY <1>3 DEF ForwardCommand, TypeOK, RecordInv, RelayedIsRecorded,
                  OnRecord
    <2> QED
      BY <1>3, <2>2, <2>3
      DEF ForwardCommand, panelVars, RecordInv, TypedIsNew, RecordIsTyped,
          JobIsRecorded, OnRecord
  <1>4. ASSUME NEW s \in Sessions, ForwardFails(s) PROVE RecordInv'
    BY <1>4, RecordStill, ShowsMore DEF ForwardFails, deviceVars, TypeOK
  <1>5. ASSUME NEW c \in Conns, Disconnect(c) PROVE RecordInv'
    <2>1. \A m \in Cmds : job'[m].at # "none" => job[m].at # "none"
      BY <1>5 DEF Disconnect, TypeOK, Jobs
    <2> QED BY <1>5, <2>1, RecordStill DEF Disconnect, panelVars, TypeOK
  <1>6. ASSUME NEW c \in Conns, AgentReads(c) PROVE RecordInv'
    <2>1. Head(toAgent[c]) \in Cmds /\ OnRecord(Head(toAgent[c]))
      <3>1. toAgent[c] \in Seq(Cmds) /\ toAgent[c] # <<>>
        BY <1>6 DEF AgentReads, TypeOK
      <3> QED BY <3>1 DEF RecordInv, SentIsRecorded
    <2>2. SentIsRecorded'
      <3>1. \A d \in Conns : toAgent[d] \in Seq(Cmds) BY DEF TypeOK
      <3>2. \A d \in Conns : \A i \in DOMAIN toAgent'[d] :
               \E k \in DOMAIN toAgent[d] : toAgent'[d][i] = toAgent[d][k]
        <4> SUFFICES ASSUME NEW d \in Conns, NEW i \in DOMAIN toAgent'[d]
                     PROVE  \E k \in DOMAIN toAgent[d] :
                               toAgent'[d][i] = toAgent[d][k]
          OBVIOUS
        <4>1. CASE d = c
          <5>1. toAgent[c] # <<>> /\ toAgent'[c] = Tail(toAgent[c])
            BY <1>6 DEF AgentReads, TypeOK
          <5>2. i + 1 \in DOMAIN toAgent[c] /\ toAgent'[d][i] = toAgent[c][i + 1]
            BY <3>1, <4>1, <5>1
          <5> QED BY <4>1, <5>2
        <4>2. CASE d # c BY <1>6, <4>2 DEF AgentReads, TypeOK
        <4> QED BY <4>1, <4>2
      <3> QED
        BY <1>6, <3>2 DEF AgentReads, RecordInv, SentIsRecorded, OnRecord
    <2>3. JobIsRecorded'
      BY <1>6, <2>1 DEF AgentReads, TypeOK, Jobs, RecordInv, JobIsRecorded,
                        OnRecord
    <2> QED
      BY <1>6, <2>2, <2>3
      DEF AgentReads, panelVars, RecordInv, TypedIsNew, RecordIsTyped,
          RelayedIsRecorded, OnRecord
  <1>7. ASSUME NEW m \in Cmds, Finishes(m) \/ PipesStayOpen(m)
        PROVE  RecordInv'
    <2>1. \A k \in Cmds : job'[k].at # "none" => job[k].at # "none"
      BY <1>7 DEF Finishes, CommandEnds, PipesStayOpen, TypeOK, Jobs
    <2> QED
      BY <1>7, <2>1, RecordStill
      DEF Finishes, CommandEnds, PipesStayOpen, panelVars
  <1>8. ASSUME NEW m \in Cmds, WorkerWrites(m) PROVE RecordInv'
    BY <1>8, RecordStill
    DEF WorkerWrites, panelVars, deviceVars, TypeOK, Records
  <1>9. ASSUME NEW c \in Conns, ConnStep(c) PROVE RecordInv'
    BY <1>9, RecordStill, ShowsMore
    DEF ConnStep, ForwardResult, EndsViewer, panelVars, deviceVars
  <1>10. CASE \/ UNCHANGED vars
              \/ \E s \in Sessions :
                    \/ \E allowed \in AllowTerminal : OpenSession(s, allowed)
                    \/ PageSeesClose(s) \/ ViewerEnds(s) \/ RegisterViewer(s)
              \/ \E c \in Conns : Connect(c) \/ ConnectionEnds(c)
    <2>1. UNCHANGED <<entry, typed, relayed, record, toAgent, job>>
      BY <1>10 DEF vars, panelVars, deviceVars, OpenSession, PageSeesClose,
                   ViewerEnds, RegisterViewer, Connect, ConnectionEnds
    <2> QED BY <2>1, RecordStill
  <1> QED
    BY <1>1, <1>2, <1>3, <1>4, <1>5, <1>6, <1>7, <1>8, <1>9, <1>10
    DEF Next, SessionStep, ConnStep

\* The inductive invariant holds of every behaviour.
THEOREM TermInvariant == Spec => []TermInv
  <1>1. TermInv /\ [Next]_vars => TermInv'
    BY TermTypeKeeps, RecordKeeps DEF TermInv
  <1> QED BY TermInitial, <1>1, PTL DEF Spec

\* Each variable keeps its type.
THEOREM TermTypeCorrect == Spec => []TypeOK
  <1>1. TermInv => TypeOK BY DEF TermInv
  <1> QED BY TermInvariant, <1>1, PTL

\* relayTerminalCommand audits before it forwards, so that whatever a device
\* is given to run, now or earlier, has been through the audit log.
THEOREM RunsAreOnRecordHolds == Spec => []RunsAreOnRecord
  <1>1. TermInv => RunsAreOnRecord
    BY DEF TermInv, RecordInv, SentIsRecorded, JobIsRecorded, OnRecord,
           RunsAreOnRecord
  <1> QED BY TermInvariant, <1>1, PTL

=============================================================================
